------------------------------- MODULE Codec -------------------------------
(***************************************************************************)
(* The encodings of src/lib.rs, src/types, src/value.rs, src/tags.rs and   *)
(* src/header.rs: what `size` promises, what `write_to_writer` puts on the  *)
(* wire, what `read_from_reader` makes of bytes and what `read_size`        *)
(* measures, each with the place where it leaves the cursor.               *)
(*                                                                         *)
(* An encoding is a sequence of bytes. What a number, a date or a string   *)
(* means is left out: its data is the bytes its to_le_bytes or as_bytes    *)
(* gives. An item is anything that can be encoded, as a record             *)
(*   form     "value" ValueType, "tags" Tags, "map" HashMap, "vec" Vec,    *)
(*            "option" Option, "header" ObjectHeader, "array" [u8; N],     *)
(*            "chrono" a type of chrono, its data the numbers of           *)
(*            TimeConversions                                              *)
(*   k, v     the kinds of keys and values, where the type fixes them;     *)
(*            the k of tags says if its keys are a String or a MetaKey     *)
(*   entries  what it holds, in the order in which it is iterated: each an *)
(*            entry [key, val] of the data of a key and a value [kind,     *)
(*            data]. A header has an entry for each of its fields.         *)
(***************************************************************************)
EXTENDS TimeConversions

CONSTANTS
    MaxPrefix,  \* MAX_PREFIXED_LENGTH: the largest u16
    BadByte     \* a byte that no UTF-8 text contains

ASSUME CodecAssumption ==
    /\ MaxPrefix \in Nat /\ MaxPrefix < 65536
    /\ BadByte \in 0 .. 255

(***************************************************************************)
(* The registered types.                                                   *)
(***************************************************************************)

\* The sizes the numbers are declared with.
NumberWidth == [u8 |-> 1, u16 |-> 2, u32 |-> 4, u64 |-> 8, i8 |-> 1, i16 |-> 2,
                i32 |-> 4, i64 |-> 8, f32 |-> 4, f64 |-> 8]

TimeWidth == [date |-> 4, time |-> 8, timezone |-> 4, datetime |-> 16]

UuidWidth == 16

\* The kinds whose data has the same length for every value.
FixedKinds == DOMAIN NumberWidth \cup DOMAIN TimeWidth \cup {"bool", "uuid"}

Width == [x \in FixedKinds |->
            CASE x \in DOMAIN NumberWidth -> NumberWidth[x]
              [] x \in DOMAIN TimeWidth   -> TimeWidth[x]
              [] x = "uuid"               -> UuidWidth
              [] x = "bool"               -> 1]

TYPE_KEY == [u8  |-> 0, u16 |-> 1, u32 |-> 2, u64 |-> 3,
             i8  |-> 4, i16 |-> 5, i32 |-> 6, i64 |-> 7,
             f32 |-> 8, f64 |-> 9, bool |-> 10, bytes |-> 11, string |-> 12,
             date |-> 13, time |-> 14, timezone |-> 15, datetime |-> 16, uuid |-> 17]

\* The variants of ValueType: a time zone alone is not one.
ValueKinds == DOMAIN TYPE_KEY \ {"timezone"}

\* Wrong: the arm of one variant was forgotten.
AsyncKinds_NoDateTime == ValueKinds \ {"datetime"}

\* The arms of the async reader of ValueType, which are written out by hand.
AsyncKinds == {"string", "bytes", "bool", "u8", "u16", "u32", "u64", "i8", "i16",
               "i32", "i64", "f32", "f64", "date", "time", "datetime", "uuid"}

MAGIC_VALUE == <<84, 85, 88>>
CURRENT_VERSION == 0

Byte == 0 .. 255

IsUtf8(data) == \A j \in DOMAIN data : data[j] # BadByte

\* What HeaderName::from_bytes accepts: the bytes of a token, at least one.
HeaderNameBytes == {33, 42, 43, 45, 46, 124, 126} \cup 35 .. 39 \cup 48 .. 57
                       \cup 65 .. 90 \cup 94 .. 122

IsHeaderName(d) == d # <<>> /\ \A j \in DOMAIN d : d[j] \in HeaderNameBytes

\* A header name is kept in lower case.
HeaderName(d) == [j \in DOMAIN d |-> IF d[j] \in 65 .. 90 THEN d[j] + 32 ELSE d[j]]

(***************************************************************************)
(* What the types of Rust leave of the items.                              *)
(***************************************************************************)

\* The data that values of a kind have.
IsData(kind, d) ==
    /\ d \in Seq(Byte)
    /\ kind \in FixedKinds => Len(d) = Width[kind]
    /\ kind = "bool" => d[1] \in {0, 1}
    /\ kind = "string" => IsUtf8(d)

IsValue(v, kinds) ==
    v \in [kind : kinds, data : Seq(Byte)] /\ IsData(v.kind, v.data)

\* The keys of tags: a MetaKey is a header name, kept in lower case.
IsKey(k, d) ==
    IF k = "metakey" THEN d \in Seq(Byte) /\ IsHeaderName(d) /\ d = HeaderName(d)
                     ELSE IsData("string", d)

\* The fields of a header in their order, and the bytes each of them has.
HeaderFields == <<"version", "codec", "tags_start", "content_start", "content_length", "bit_flags">>
FieldWidths  == <<1, 5, 2, 4, 8, 1>>

\* A codec that is none has no level.
IsField(name, v) ==
    /\ v \in [kind : {name}, data : Seq(Byte)]
    /\ name = "codec" => /\ v.data[1] \in {0, 1, 2}
                         /\ v.data[1] = 0 => v.data = <<0, 0, 0, 0, 0>>

NoKeys(i) == \A e \in Range(i.entries) : e.key = <<>>

UniqueKeys(i) ==
    \A j, m \in DOMAIN i.entries : i.entries[j].key = i.entries[m].key => j = m

HasEntries(i) ==
    CASE i.form = "value"  -> /\ Len(i.entries) = 1 /\ NoKeys(i)
                              /\ IsValue(i.entries[1].val, ValueKinds)
      [] i.form = "tags"   -> /\ UniqueKeys(i)
                              /\ \A e \in Range(i.entries) :
                                    IsKey(i.k, e.key) /\ IsValue(e.val, ValueKinds)
      [] i.form = "map"    -> /\ UniqueKeys(i) /\ {i.k, i.v} \subseteq DOMAIN TYPE_KEY
                              /\ \A e \in Range(i.entries) :
                                    IsData(i.k, e.key) /\ IsValue(e.val, {i.v})
      [] i.form = "vec"    -> /\ NoKeys(i) /\ i.v \in DOMAIN TYPE_KEY
                              /\ \A e \in Range(i.entries) : IsValue(e.val, {i.v})
      [] i.form = "option" -> /\ NoKeys(i) /\ i.v \in DOMAIN TYPE_KEY /\ Len(i.entries) <= 1
                              /\ \A e \in Range(i.entries) : IsValue(e.val, {i.v})
      [] i.form = "array"  -> /\ Len(i.entries) = 1 /\ NoKeys(i)
                              /\ IsValue(i.entries[1].val, {"bytes"})
      [] i.form = "chrono" -> /\ Len(i.entries) = 1 /\ NoKeys(i)
                              /\ IsChrono(i.entries[1].val.kind, i.entries[1].val.data)
      [] i.form = "header" -> /\ Len(i.entries) = 6 /\ NoKeys(i)
                              /\ \A j \in 1 .. 6 :
                                    /\ IsField(HeaderFields[j], i.entries[j].val)
                                    /\ Len(i.entries[j].val.data) = FieldWidths[j]

IsItem(i) ==
    /\ i = [form |-> i.form, k |-> i.k, v |-> i.v, entries |-> i.entries]
    /\ i.form \in {"value", "tags", "map", "vec", "option", "array", "chrono", "header"}
    /\ i.entries \in Seq(Range(i.entries))
    /\ \A e \in Range(i.entries) :
          e = [key |-> e.key, val |-> [kind |-> e.val.kind, data |-> e.val.data]]
    /\ HasEntries(i)

(***************************************************************************)
(* Outcomes: a value with the place of the cursor after it, or an error.   *)
(* "IOError" is the short read; `at` is then how far the reader wanted to   *)
(* get.                                                                    *)
(***************************************************************************)
Ok(value, at) == [err |-> "none", value |-> value, at |-> at]
Fail(err, at) == [err |-> err, value |-> <<>>, at |-> at]

\* The ? operator: goes on with Rest unless the outcome is an error.
AndThen(outcome, Rest(_, _)) ==
    IF outcome.err = "none" THEN Rest(outcome.value, outcome.at) ELSE outcome

\* Read::read_exact of n bytes at a cursor.
read_exact(buf, at, n) ==
    IF at + n <= Len(buf) THEN Ok(SubSeq(buf, at + 1, at + n), at + n)
                          ELSE Fail("IOError", at + n)

(***************************************************************************)
(* Sizes.                                                                  *)
(***************************************************************************)
BlockSize(data) == Len(data) + 2

DataSize(v) == IF v.kind \in FixedKinds THEN Width[v.kind] ELSE BlockSize(v.data)

\* Wrong: leaves out the type key.
ValueSize_Bare(v) == DataSize(v)

\* ValueType::size counts the type key in front of the value.
ValueSize(v) == DataSize(v) + 1

tags_size(i) ==
    LET entry(e) == BlockSize(e.key) + ValueSize(e.val)
    IN  Total([j \in DOMAIN i.entries |-> entry(i.entries[j])]) + 2

\* The key of an entry of a map, as a value of the type of the keys.
KeyValue(i, e) == [kind |-> i.k, data |-> e.key]

map_size(i) ==
    LET entry(e) == DataSize(KeyValue(i, e)) + DataSize(e.val)
    IN  2 + 1 + 1 + Total([j \in DOMAIN i.entries |-> entry(i.entries[j])])

\* The values alone, of a Vec or an Option.
vals_size(i) == Total([j \in DOMAIN i.entries |-> DataSize(i.entries[j].val)])

vec_size(i) == vals_size(i) + 2

option_size(i) == 1 + vals_size(i)

array_size(i) == Len(i.entries[1].val.data) + 2

chrono_size(i) == Width[i.entries[1].val.kind]

header_size == 32

size(i) ==
    CASE i.form = "value"  -> ValueSize(i.entries[1].val)
      [] i.form = "tags"   -> tags_size(i)
      [] i.form = "map"    -> map_size(i)
      [] i.form = "vec"    -> vec_size(i)
      [] i.form = "option" -> option_size(i)
      [] i.form = "array"  -> array_size(i)
      [] i.form = "chrono" -> chrono_size(i)
      [] i.form = "header" -> header_size

(***************************************************************************)
(* Writing. `as u16` keeps what fits in the prefix.                        *)
(***************************************************************************)
Emit(bytes) == Ok(bytes, Len(bytes))

Then(first, second) ==
    AndThen(first, LAMBDA x, n : AndThen(second, LAMBDA y, m : Ok(x \o y, n + m)))

U16(n) == LET w == n % (MaxPrefix + 1) IN <<w % 256, w \div 256>>

\* Wrong: the count or length is cast, but not checked first.
Prefix_Unchecked(n, err) == Emit(U16(n))

\* length_is_allowed and count_is_allowed, and the prefix they protect.
Prefix(n, err) == IF n > MaxPrefix THEN Fail(err, 0) ELSE Emit(U16(n))

write_string(data) == Then(Prefix(Len(data), "TypeTooLarge"), Emit(data))

write_bytes(data) == Then(Prefix(Len(data), "TooManyEntries"), Emit(data))

write_data(v) ==
    CASE v.kind = "string" -> write_string(v.data)
      [] v.kind = "bytes"  -> write_bytes(v.data)
      [] OTHER             -> Emit(v.data)

write_value(v) == Then(Emit(<<TYPE_KEY[v.kind]>>), write_data(v))

\* One outcome of writing after the other.
WriteEach(outcomes) ==
    LET out[k \in 0 .. Len(outcomes)] ==
          IF k = 0 THEN Emit(<<>>) ELSE Then(out[k - 1], outcomes[k])
    IN  out[Len(outcomes)]

Count(i) == Prefix(Len(i.entries), "TooManyEntries")

write_tags(i) ==
    LET entry(e) == Then(write_string(e.key), write_value(e.val))
    IN  Then(Count(i), WriteEach([j \in DOMAIN i.entries |-> entry(i.entries[j])]))

write_map(i) ==
    LET entry(e) == Then(write_data(KeyValue(i, e)), write_data(e.val))
    IN  Then(Then(Count(i), Emit(<<TYPE_KEY[i.k], TYPE_KEY[i.v]>>)),
             WriteEach([j \in DOMAIN i.entries |-> entry(i.entries[j])]))

write_vals(i) == WriteEach([j \in DOMAIN i.entries |-> write_data(i.entries[j].val)])

write_vec(i) == Then(Count(i), write_vals(i))

write_option(i) == Then(Emit(<<Len(i.entries)>>), write_vals(i))

write_array(i) == write_string(i.entries[1].val.data)

\* Converted to the raw form, which is written without a type key.
write_chrono(i) ==
    LET v == i.entries[1].val IN Emit(RawBytes(v.kind, ToRaw(v.kind, v.data)))

\* The fields in their order, then the padding.
write_header(i) ==
    Then(Then(Emit(MAGIC_VALUE), WriteEach([j \in DOMAIN i.entries |-> Emit(i.entries[j].val.data)])),
         Emit(<<0, 0, 0, 0, 0, 0, 0, 0>>))

write_to_writer(i) ==
    CASE i.form = "value"  -> write_value(i.entries[1].val)
      [] i.form = "tags"   -> write_tags(i)
      [] i.form = "map"    -> write_map(i)
      [] i.form = "vec"    -> write_vec(i)
      [] i.form = "option" -> write_option(i)
      [] i.form = "array"  -> write_array(i)
      [] i.form = "chrono" -> write_chrono(i)
      [] i.form = "header" -> write_header(i)

(***************************************************************************)
(* Reading.                                                                *)
(***************************************************************************)
read_u16(buf, at) ==
    AndThen(read_exact(buf, at, 2), LAMBDA b, p : Ok(b[1] + 256 * b[2], p))

read_prefixed(buf, at) == AndThen(read_u16(buf, at), LAMBDA n, p : read_exact(buf, p, n))

read_string(buf, at) ==
    AndThen(read_prefixed(buf, at),
            LAMBDA d, p : IF IsUtf8(d) THEN Ok(d, p) ELSE Fail("InvalidUtf8", p))

read_meta_key(buf, at) ==
    AndThen(read_prefixed(buf, at),
            LAMBDA d, p : IF IsHeaderName(d) THEN Ok(HeaderName(d), p) ELSE Fail("InvalidHeaderName", p))

\* The key of a tag (Key::read_from_reader).
read_key(k, buf, at) == IF k = "metakey" THEN read_meta_key(buf, at) ELSE read_string(buf, at)

read_bool(buf, at) ==
    AndThen(read_exact(buf, at, 1),
            LAMBDA d, p : IF d[1] \in {0, 1} THEN Ok(d, p) ELSE Fail("InvalidValue", p))

\* The data of a value of a known kind.
read_data(kind, buf, at) ==
    CASE kind = "string" -> read_string(buf, at)
      [] kind = "bytes"  -> read_prefixed(buf, at)
      [] kind = "bool"   -> read_bool(buf, at)
      [] OTHER           -> read_exact(buf, at, Width[kind])

\* A kind among `kinds` by its type key, or the error of the match without an arm.
read_kind(kinds, buf, at) ==
    AndThen(read_exact(buf, at, 1),
            LAMBDA key, p : IF \E x \in kinds : TYPE_KEY[x] = key[1]
                            THEN Ok(CHOOSE x \in kinds : TYPE_KEY[x] = key[1], p)
                            ELSE Fail("UnknownTypeKey", p))

read_value(kinds, buf, at) ==
    AndThen(read_kind(kinds, buf, at),
            LAMBDA x, p : AndThen(read_data(x, buf, p),
                                  LAMBDA d, q : Ok([kind |-> x, data |-> d], q)))

\* n entries, one after the other, each read where the one before it ended.
ReadEach(read, n, at) ==
    LET out[k \in 0 .. n] ==
          IF k = 0 THEN Ok(<<>>, at)
          ELSE AndThen(out[k - 1],
                       LAMBDA es, p : AndThen(read[p], LAMBDA e, q : Ok(Append(es, e), q)))
    IN  out[n]

\* An entry whose key and value are read by the two operators, in this order.
ReadEntry(ReadKey(_), ReadVal(_), at) ==
    AndThen(ReadKey(at), LAMBDA d, p : AndThen(ReadVal(p), LAMBDA v, q : Ok([key |-> d, val |-> v], q)))

NoKey(at) == Ok(<<>>, at)

\* A value of a known kind, without a type key in front of it.
ReadBare(kind, buf, at) ==
    AndThen(read_data(kind, buf, at), LAMBDA d, p : Ok([kind |-> kind, data |-> d], p))

\* At each place, the entry that is read there.
TagAt(k, kinds, buf) ==
    [p \in Nat |-> ReadEntry(LAMBDA q : read_key(k, buf, q),
                             LAMBDA q : read_value(kinds, buf, q), p)]

PairAt(k, v, buf) ==
    [p \in Nat |-> ReadEntry(LAMBDA q : read_data(k, buf, q), LAMBDA q : ReadBare(v, buf, q), p)]

ValAt(v, buf) == [p \in Nat |-> ReadEntry(NoKey, LAMBDA q : ReadBare(v, buf, q), p)]

read_tags(k, kinds, buf, at) ==
    AndThen(read_u16(buf, at), LAMBDA n, p : ReadEach(TagAt(k, kinds, buf), n, p))

read_map(k, v, buf, at) ==
    AndThen(read_u16(buf, at),
            LAMBDA n, p :
              AndThen(read_exact(buf, p, 2),
                      LAMBDA keys, q :
                        IF keys # <<TYPE_KEY[k], TYPE_KEY[v]>> THEN Fail("MismatchedObjectType", q)
                        ELSE ReadEach(PairAt(k, v, buf), n, q)))

read_vec(v, buf, at) ==
    AndThen(read_u16(buf, at), LAMBDA n, p : ReadEach(ValAt(v, buf), n, p))

\* Wrong: reads a value whatever the flag says.
read_option_Always(v, buf, at) ==
    AndThen(read_exact(buf, at, 1),
            LAMBDA flag, p :
              AndThen(ValAt(v, buf)[p], LAMBDA e, q : Ok(IF flag[1] # 0 THEN <<e>> ELSE <<>>, q)))

read_option(v, buf, at) ==
    AndThen(read_exact(buf, at, 1),
            LAMBDA flag, p : ReadEach(ValAt(v, buf), IF flag[1] # 0 THEN 1 ELSE 0, p))

\* [u8; N]: a block of another length is not read.
read_array(n, buf, at) ==
    AndThen(read_u16(buf, at),
            LAMBDA length, p : IF length # n THEN Fail("LengthMismatch", p)
                                             ELSE read_exact(buf, p, n))

\* The raw form, and what chrono makes of it.
read_chrono(kind, buf, at) ==
    AndThen(read_exact(buf, at, Width[kind]),
            LAMBDA b, p : LET raw == RawFields(kind, b)
                              err == ChronoError(kind, raw)
                          IN  IF err = "none" THEN Ok(raw, p) ELSE Fail(err, p))

\* Wrong: keeps the codec and forgets its level.
compression_type_NoLevel(bytes, at) ==
    IF bytes[1] \in {0, 1, 2} THEN Ok(<<bytes[1], 0, 0, 0, 0>>, at)
                              ELSE Fail("InvalidCompressionType", at)

\* CompressionTypes::try_from of the five bytes, as they are written again.
compression_type(bytes, at) ==
    IF bytes[1] \in {0, 1, 2}
    THEN Ok(IF bytes[1] = 0 THEN <<0, 0, 0, 0, 0>> ELSE bytes, at)
    ELSE Fail("InvalidCompressionType", at)

\* header_entry, and the version check after it.
header_entry(bytes, at) ==
    IF SubSeq(bytes, 1, 3) # MAGIC_VALUE THEN Fail("InvalidMagic", at)
    ELSE IF bytes[4] # CURRENT_VERSION THEN Fail("UnsupportedVersion", at)
    ELSE Ok(SubSeq(bytes, 4, 4), at)

\* One read for the 32 bytes, then the fields at their offsets.
read_header(buf, at) ==
    LET Field(name, data) == [key |-> <<>>, val |-> [kind |-> name, data |-> data]]
    IN  AndThen(read_exact(buf, at, 32),
                LAMBDA c, p :
                  AndThen(header_entry(c, p),
                          LAMBDA version, q :
                            AndThen(compression_type(SubSeq(c, 5, 9), q),
                                    LAMBDA codec, r :
                                      Ok(<<Field("version", version), Field("codec", codec),
                                           Field("tags_start", SubSeq(c, 10, 11)),
                                           Field("content_start", SubSeq(c, 12, 15)),
                                           Field("content_length", SubSeq(c, 16, 23)),
                                           Field("bit_flags", SubSeq(c, 24, 24))>>, r))))

\* What reading an item of i's type makes of the bytes: the item and the place
\* after it. The kinds are those the reader of ValueType has an arm for.
ReadLike(i, kinds, buf, at) ==
    LET v == i.entries[1].val
        Only(outcome) ==
          AndThen(outcome, LAMBDA d, p : Ok(<<[key |-> <<>>, val |-> [v EXCEPT !.data = d]]>>, p))
        entries ==
          CASE i.form = "value"  ->
                 AndThen(read_value(kinds, buf, at),
                         LAMBDA d, p : Ok(<<[key |-> <<>>, val |-> d]>>, p))
            [] i.form = "tags"   -> read_tags(i.k, kinds, buf, at)
            [] i.form = "map"    -> read_map(i.k, i.v, buf, at)
            [] i.form = "vec"    -> read_vec(i.v, buf, at)
            [] i.form = "option" -> read_option(i.v, buf, at)
            [] i.form = "array"  -> Only(read_array(Len(v.data), buf, at))
            [] i.form = "chrono" -> Only(read_chrono(v.kind, buf, at))
            [] i.form = "header" -> read_header(buf, at)
    IN  AndThen(entries, LAMBDA es, p : Ok([i EXCEPT !.entries = es], p))

read_from_reader(i, buf, at) == ReadLike(i, ValueKinds, buf, at)

read_from_async_reader(i, buf, at) == ReadLike(i, AsyncKinds, buf, at)

(***************************************************************************)
(* Measuring. The cursor of the outcome is where read_size leaves it.      *)
(***************************************************************************)
data_read_size(kind, buf, at) ==
    IF kind \in {"bytes", "string"}
    THEN AndThen(read_u16(buf, at), LAMBDA n, p : Ok(n + 2, p))
    ELSE Ok(Width[kind], at)

value_read_size(buf, at) ==
    AndThen(read_kind(ValueKinds, buf, at),
            LAMBDA x, p : AndThen(data_read_size(x, buf, p), LAMBDA m, q : Ok(m + 1, q)))

\* Seeks to where the next key or value starts, counted from the start of the block.
tags_read_size(buf, at) ==
    AndThen(read_u16(buf, at),
            LAMBDA n, p :
              LET measured[k \in 0 .. n] ==
                    IF k = 0 THEN Ok(2, p)
                    ELSE AndThen(measured[k - 1],
                                 LAMBDA total, q :
                                   AndThen(data_read_size("string", buf, q),
                                           LAMBDA ks, r :
                                             AndThen(value_read_size(buf, at + total + ks),
                                                     LAMBDA vs, s :
                                                       Ok(total + ks + vs, at + total + ks + vs))))
              IN  measured[n])

\* Measures each key and value where the measuring of the one before it ended.
map_read_size(k, v, buf, at) ==
    AndThen(read_u16(buf, at),
            LAMBDA n, p :
              LET measured[j \in 0 .. n] ==
                    IF j = 0 THEN Ok(2 + 1 + 1, p + 2)
                    ELSE AndThen(measured[j - 1],
                                 LAMBDA total, q :
                                   AndThen(data_read_size(k, buf, q),
                                           LAMBDA ks, r :
                                             AndThen(data_read_size(v, buf, r),
                                                     LAMBDA vs, s : Ok(total + ks + vs, s))))
              IN  measured[n])

vec_read_size(buf, at) == AndThen(read_u16(buf, at), LAMBDA n, p : Ok(n + 2, p))

option_read_size(v, buf, at) == AndThen(data_read_size(v, buf, at), LAMBDA m, p : Ok(1 + m, p))

read_size(i, buf, at) ==
    CASE i.form = "value"  -> value_read_size(buf, at)
      [] i.form = "tags"   -> tags_read_size(buf, at)
      [] i.form = "map"    -> map_read_size(i.k, i.v, buf, at)
      [] i.form = "vec"    -> vec_read_size(buf, at)
      [] i.form = "option" -> option_read_size(i.v, buf, at)
      [] i.form = "array"  -> Ok(array_size(i), at)
      [] i.form = "chrono" -> Ok(chrono_size(i), at)
      [] i.form = "header" -> Ok(header_size, at)

(***************************************************************************)
(* Looking up a tag.                                                       *)
(***************************************************************************)

\* Wrong: skips a value by measuring it.
find_from_reader_Measured(k, key, buf, at) ==
    AndThen(read_u16(buf, at),
            LAMBDA n, p :
              LET scan[m \in 0 .. n] ==
                    IF m = 0 THEN Ok(<<>>, p)
                    ELSE AndThen(scan[m - 1],
                                 LAMBDA found, q :
                                   IF found # <<>> THEN Ok(found, q)
                                   ELSE AndThen(read_key(k, buf, q),
                                                LAMBDA d, r :
                                                  IF d = key
                                                  THEN AndThen(read_value(ValueKinds, buf, r),
                                                               LAMBDA v, s : Ok(<<v>>, s))
                                                  ELSE AndThen(value_read_size(buf, r),
                                                               LAMBDA l, s : Ok(<<>>, s))))
              IN  scan[n])

\* Tags::find_from_reader: the value of the first entry with the key, or None.
\* An entry with another key is skipped by reading it.
find_from_reader(k, key, buf, at) ==
    AndThen(read_u16(buf, at),
            LAMBDA n, p :
              LET scan[m \in 0 .. n] ==
                    IF m = 0 THEN Ok(<<>>, p)
                    ELSE AndThen(scan[m - 1],
                                 LAMBDA found, q :
                                   IF found # <<>> THEN Ok(found, q)
                                   ELSE AndThen(read_key(k, buf, q),
                                                LAMBDA d, r :
                                                  AndThen(read_value(ValueKinds, buf, r),
                                                          LAMBDA v, s :
                                                            Ok(IF d = key THEN <<v>> ELSE <<>>, s))))
              IN  scan[n])
=============================================================================
