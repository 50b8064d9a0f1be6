-------------------------- MODULE MCCodecStream --------------------------
(***************************************************************************)
(* Items for CodecStream: a value of every kind, with strings and blocks   *)
(* whose bytes look like keys, prefixes and tags; tag sections in both     *)
(* orders, one whose values are its keys; what is just within and just     *)
(* beyond the limit of a prefix; a header of this version and of the next.  *)
(***************************************************************************)
EXTENDS CodecStreamInvariant

Val(kind, data) == [kind |-> kind, data |-> data]
Entry(key, v)   == [key |-> key, val |-> v]
Item(form, k, v, entries) == [form |-> form, k |-> k, v |-> v, entries |-> entries]

Zeros(n) == [j \in 1 .. n |-> 0]

a == <<97>>
b == <<98>>

ValueItem(v) == Item("value", "none", "none", <<Entry(<<>>, v)>>)
TagsItem(es) == Item("tags", "none", "none", es)

FixedValues  == {Val(x, Zeros(Width[x])) : x \in DOMAIN Width \ {"timezone", "bool"}}
OtherValues  == {Val("bool", <<1>>), Val("string", <<>>), Val("string", <<12, 1>>),
                 Val("bytes", <<1, 0>>), Val("string", <<1, 2, 3>>), Val("bytes", <<1, 2, 3>>)}

TagEntries == {<<>>,
               <<Entry(a, Val("string", b)), Entry(b, Val("string", a))>>,
               <<Entry(b, Val("string", a)), Entry(a, Val("string", b))>>,
               <<Entry(<<>>, Val("bool", <<0>>)), Entry(<<0, 97>>, Val("u16", <<1, 0>>))>>,
               <<Entry(a, Val("bytes", <<97, 0>>))>>,
               <<Entry(a, Val("u8", <<1>>)), Entry(b, Val("u8", <<2>>)), Entry(<<>>, Val("u8", <<3>>))>>}

Composites == {Item("map", "string", "u16", <<Entry(a, Val("u16", <<1, 0>>)),
                                              Entry(<<>>, Val("u16", <<0, 1>>))>>),
               Item("map", "u8", "u8", <<Entry(<<1>>, Val("u8", <<1>>))>>),
               Item("vec", "none", "u16", <<Entry(<<>>, Val("u16", <<1, 0>>))>>),
               Item("option", "none", "u16", <<Entry(<<>>, Val("u16", <<1, 0>>))>>),
               Item("option", "none", "string", <<Entry(<<>>, Val("string", a))>>),
               Item("option", "none", "u16", <<>>)}

Header(version, codec) ==
    Item("header", "none", "none",
         << Entry(<<>>, Val("version", <<version>>)), Entry(<<>>, Val("codec", codec)),
            Entry(<<>>, Val("tags_start", <<32, 1>>)),
            Entry(<<>>, Val("content_start", <<32, 2, 3, 4>>)),
            Entry(<<>>, Val("content_length", <<1, 2, 3, 4, 5, 6, 7, 8>>)),
            Entry(<<>>, Val("bit_flags", <<9>>)) >>)

\* Metadata: names of headers as keys.
MetadataItem(es) == Item("tags", "metakey", "none", es)

MetadataItems == {MetadataItem(<<Entry(a, Val("string", <<>>)), Entry(b, Val("bool", <<0>>))>>),
                  MetadataItem(<<Entry(<<48, 45>>, Val("string", <<65>>))>>)}

Arrays == {Item("array", "none", "none", <<Entry(<<>>, Val("bytes", d))>>) :
             d \in {<<>>, <<2, 0>>, <<1, 2, 3>>}}

Chrono(kind, data) == Item("chrono", "none", "none", <<Entry(<<>>, Val(kind, data))>>)

\* Years at the ends of a u16 and beyond, a 29th of February that is none when
\* its year lost its high bits, leap seconds at the end of a minute and inside one.
ChronoItems ==
    {Chrono("date", <<y, 12, 31>>) : y \in {-1, 0, 65535, 65536}}
    \cup {Chrono("date", <<y, 2, 29>>) : y \in {-36, 2000, 65536}}
    \cup {Chrono("time", <<s, n>>) : s \in {30, 86399}, n \in {999999999, 1500000000}}
    \cup {Chrono("timezone", <<o>>) : o \in {-86399, -1, 0, 86399}}
    \cup {Chrono("datetime", <<-1, 12, 31, 82800, 0, 3600>>),
          Chrono("datetime", <<2024, 2, 29, 59, 1999999999, -30>>),
          Chrono("datetime", <<2024, 2, 29, 29, 1000000000, 30>>)}

Headers == {Header(0, <<0, 0, 0, 0, 0>>), Header(0, <<1, 3, 0, 0, 0>>), Header(1, <<2, 6, 0, 0, 0>>)}

MCItems == {ValueItem(v) : v \in FixedValues \cup OtherValues}
           \cup {TagsItem(es) : es \in TagEntries} \cup Composites \cup Headers
           \cup MetadataItems \cup Arrays \cup ChronoItems
MCKeys == {<<>>, a, b}
===========================================================================
