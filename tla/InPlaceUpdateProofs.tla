------------------------- MODULE InPlaceUpdateProofs -------------------------
(***************************************************************************)
(* Updates in place never touch the content, readers of ranges get what    *)
(* they asked for, and the last update that ran alone is what is stored:   *)
(* TypeOK, ContentReachable, RangesExact, SettledIsStored and              *)
(* FreshHandlesAgree, for any number of handles, files and updates, and    *)
(* sections of any size.                                                   *)
(***************************************************************************)
EXTENDS InPlaceUpdate, LayoutLemmas

-----------------------------------------------------------------------------
(* The invariant.                                                          *)

\* What each variable may hold.
Opening == [kind : {"opening"}, file : Files, header : ObjectHeader]
Writing == [kind : {"writing"}, file : Files, header : ObjectHeader,
            metadata : Metadata, tags : Tags, at : Nat, waited : BOOLEAN,
            alone : BOOLEAN]
Setting == [kind : {"setting"}, metadata : Metadata \cup {Garbage},
            tags : Tags \cup {Garbage}]
Reading == [kind : {"reading"}, file : Files, at : Nat, remaining : Nat,
            got : Seq({ContentCell(k) : k \in 0 .. Content - 1}),
            from : Nat, to : Nat]
Calls == {Idle} \cup Opening \cup Writing \cup Setting \cup Reading

Types ==
    /\ current \in Files
    /\ DOMAIN file = Files
    /\ handle \in [Handles -> TuxObject \cup {None}]
    /\ call \in [Handles -> Calls]
    /\ fresh \subseteq Handles

\* Cells of which any header read says where the content is: there.
BytesSound(bytes) ==
    /\ DOMAIN bytes = 0 .. bytes[3][2] + Content - 1
    /\ bytes[0][2] \in BOOLEAN
    /\ bytes[1][2] \in 0 .. ByteBase - 1
    /\ bytes[2][2] \in 0 .. ByteBase - 1
    /\ bytes[3][2] \in HeaderSize .. U32Max
    /\ bytes[3][3] = Content
    /\ \A k \in 0 .. Content - 1 : bytes[bytes[3][2] + k] = ContentCell(k)

FilesSound == \A f \in 1 .. current : BytesSound(file[f])

\* A header remembered of a file says of its content what the file says.
Placed(header, f) ==
    f \in 1 .. current /\ Place(header) = Place(ReadHeader(file[f]))

\* An update stays in front of the content, and its sections behind the header;
\* a caller that waits for it holds the file.
WritingSound(c, x) ==
    /\ Placed(c.header, c.file)
    /\ c.at <= c.header.content_start
    /\ HeaderSize + Size[c.metadata] <= c.header.tags_start
    /\ c.header.tags_start <= c.header.content_start
    /\ c.waited => x # None /\ x.file = c.file

\* A reader is at the right place, and what it got is the content up to there.
ReadingSound(c) ==
    /\ c.file \in 1 .. current
    /\ c.at = file[c.file][3][2] + c.from + Len(c.got)
    /\ c.from + Len(c.got) + c.remaining = c.to
    /\ c.to <= Content
    /\ \A k \in 1 .. Len(c.got) : c.got[k] = ContentCell(c.from + k - 1)

\* For a handle x and a call c of its owner.
HandleSound(x) == x # None => Placed(x.header, x.file)

CallSound(c, x) ==
    /\ c.kind = "opening" => Placed(c.header, c.file)
    /\ c.kind = "writing" => WritingSound(c, x)
    /\ c.kind = "setting" => x # None
    /\ c.kind = "reading" => ReadingSound(c)

InPlaceIInv ==
    /\ Types
    /\ FilesSound
    /\ \A h \in Handles :
          HandleSound(handle[h]) /\ CallSound(call[h], handle[h])

-----------------------------------------------------------------------------
(* Layouts and cells.                                                      *)

LEMMA Constants ==
    /\ HeaderSize \in Nat /\ HeaderSize >= 4
    /\ U16Max \in Nat /\ U32Max \in Nat /\ Content \in Nat
    /\ ByteBase \in Nat /\ ByteBase >= 1 /\ U16Max + 1 = ByteBase * ByteBase
    /\ \A s \in Sections : Size[s] \in Nat
    /\ DefaultOptions \in LayoutOptions /\ DefaultOptions.alignment \in Nat
  BY LayoutAssumption, InPlaceAssumption DEF LayoutOptions

\* What compute returns holds the sections behind the header and in front of the
\* content.
LEMMA ComputeFits ==
    ASSUME NEW o \in LayoutOptions, NEW m \in Nat, NEW t \in Nat,
           compute(o, m, t) # None
    PROVE  /\ compute(o, m, t) \in SectionLayout
           /\ HeaderSize + m <= compute(o, m, t).tags_start
           /\ compute(o, m, t).tags_start + t <= compute(o, m, t).content_start
  <1> DEFINE kept == repartition(o.min_content_start, m, t, o.alignment)
             ts == ReservedTagsStart(o, m)
             cs == ReservedContentStart(o, m, t)
  <1>1. /\ o.min_content_start \in 0 .. U32Max /\ o.alignment \in Nat
        /\ o.metadata_reserve \in Nat /\ o.tag_reserve \in Nat
        /\ HeaderSize \in Nat
    BY Constants DEF LayoutOptions
  <1>2. compute(o, m, t) \in SectionLayout
    BY ComputeSound
  <1>3. CASE o.min_content_start > 0 /\ kept # None
    <2>1. compute(o, m, t) = kept
      BY <1>3 DEF compute
    <2>2. /\ kept.content_start = o.min_content_start
          /\ HeaderSize + m <= kept.tags_start
          /\ kept.tags_start + t <= o.min_content_start
      BY <1>1, <1>3, RepartitionSound
    <2> HIDE DEF kept
    <2> QED BY <1>2, <2>1, <2>2
  <1>4. CASE ~(o.min_content_start > 0 /\ kept # None)
    <2>1. compute(o, m, t) = [tags_start |-> ts, content_start |-> cs]
      BY <1>4 DEF compute
    <2>2. ts \in Nat /\ HeaderSize + m + o.metadata_reserve <= ts
      <3> DEFINE v == HeaderSize + m + o.metadata_reserve
      <3>1. v \in Nat
        BY <1>1
      <3>2. ts = align_up(v, o.alignment)
        BY DEF ReservedTagsStart
      <3> HIDE DEF v, ts
      <3>3. ts \in Nat /\ v <= ts
        BY <1>1, <3>1, <3>2, AlignUpBounds
      <3> QED BY <3>3 DEF v
    <2>3. ts + t <= cs
      <3> DEFINE v == ts + t + o.tag_reserve
                 w == o.min_content_start
      <3>1. v \in Nat /\ w \in Nat
        BY <1>1, <2>2
      <3>2. cs = AtLeast(align_up(v, o.alignment), align_up(w, o.alignment))
        BY DEF ReservedContentStart
      <3> HIDE DEF v, w, cs, ts
      <3>3. /\ align_up(v, o.alignment) \in Nat /\ v <= align_up(v, o.alignment)
            /\ align_up(w, o.alignment) \in Nat
        BY <1>1, <3>1, AlignUpBounds
      <3>4. v <= cs /\ cs \in Nat
        BY <3>1, <3>2, <3>3 DEF AtLeast
      <3> QED BY <1>1, <2>2, <3>4 DEF v
    <2> HIDE DEF ts, cs
    <2> QED BY <1>1, <1>2, <2>1, <2>2, <2>3
  <1> QED BY <1>3, <1>4

\* The two bytes of an offset.
LEMMA TwoBytes ==
    ASSUME NEW n \in 0 .. U16Max
    PROVE  n % ByteBase \in 0 .. ByteBase - 1 /\ n \div ByteBase \in 0 .. ByteBase - 1
  <1>1. n \in Nat /\ n < ByteBase * ByteBase /\ ByteBase \in Nat /\ ByteBase >= 1
    BY Constants
  <1>2. n % ByteBase \in 0 .. ByteBase - 1
    BY <1>1
  <1>3. n \div ByteBase \in Nat /\ (n \div ByteBase) * ByteBase <= n
    BY <1>1, DivBounds
  <1>4. n \div ByteBase < ByteBase
    <2> SUFFICES ASSUME ByteBase <= n \div ByteBase PROVE FALSE
      BY <1>1, <1>3
    <2> DEFINE q == n \div ByteBase
    <2>1. q \in Nat /\ q * ByteBase <= n /\ ByteBase <= q
      BY <1>3
    <2> HIDE DEF q
    <2>2. ByteBase * ByteBase <= q * ByteBase
      BY <1>1, <2>1
    <2> QED BY <1>1, <2>1, <2>2
  <1> QED BY <1>1, <1>2, <1>3, <1>4

\* Two bytes of any two headers make an offset that fits its field.
LEMMA TornOffset ==
    ASSUME NEW low \in 0 .. ByteBase - 1, NEW high \in 0 .. ByteBase - 1
    PROVE  low + ByteBase * high \in 0 .. U16Max
  <1>1. ByteBase \in Nat /\ ByteBase >= 1 /\ U16Max + 1 = ByteBase * ByteBase
        /\ U16Max \in Nat
    BY Constants
  <1>2. ByteBase * high \in Nat /\ ByteBase * high <= ByteBase * (ByteBase - 1)
    BY <1>1
  <1>3. ByteBase * (ByteBase - 1) = ByteBase * ByteBase - ByteBase
    BY <1>1
  <1> QED BY <1>1, <1>2, <1>3

\* Sections that lie behind the header leave it alone.
LEMMA PrefixCells ==
    ASSUME NEW header \in ObjectHeader, NEW m \in Sections, NEW t,
           HeaderSize + Size[m] <= header.tags_start,
           header.tags_start <= header.content_start
    PROVE  LET cells == encode_prefix(header, m, t)
           IN  /\ DOMAIN cells = 0 .. header.content_start - 1
               /\ header.content_start \in HeaderSize .. U32Max
               /\ cells[0] = <<"magic", header.compressed>>
               /\ cells[1] = <<"low", header.tags_start % ByteBase>>
               /\ cells[2] = <<"high", header.tags_start \div ByteBase>>
               /\ cells[3] = <<"place", header.content_start,
                               header.content_length>>
  <1> DEFINE cells == encode_prefix(header, m, t)
  <1>1. /\ header.tags_start \in Nat /\ header.content_start \in 0 .. U32Max
        /\ header.content_start \in HeaderSize .. U32Max
        /\ HeaderSize <= header.tags_start
    BY Constants DEF ObjectHeader
  <1>2. ASSUME NEW k \in 0 .. HeaderSize - 1
        PROVE  cells[k] = HeaderCell(header, k)
    <2>1. /\ k \in 0 .. header.content_start - 1 /\ k < HeaderSize
          /\ k \notin HeaderSize .. HeaderSize + Size[m] - 1
          /\ k \notin header.tags_start .. header.tags_start + Size[t] - 1
      BY <1>1, Constants
    <2> QED BY <2>1 DEF encode_prefix
  <1>3. {0, 1, 2, 3} \subseteq 0 .. HeaderSize - 1
    BY Constants
  <1>4. /\ HeaderCell(header, 0) = <<"magic", header.compressed>>
        /\ HeaderCell(header, 1) = <<"low", header.tags_start % ByteBase>>
        /\ HeaderCell(header, 2) = <<"high", header.tags_start \div ByteBase>>
        /\ HeaderCell(header, 3) = <<"place", header.content_start,
                                     header.content_length>>
    BY DEF HeaderCell
  <1>5. DOMAIN cells = 0 .. header.content_start - 1
    BY DEF encode_prefix
  <1> HIDE DEF cells
  <1>6. QED
    BY <1>1, <1>2, <1>3, <1>4, <1>5 DEF cells

\* A file that finish wrote.
LEMMA NewFileSound ==
    ASSUME NEW header \in ObjectHeader, NEW m \in Sections, NEW t,
           HeaderSize + Size[m] <= header.tags_start,
           header.tags_start <= header.content_start,
           header.content_length = Content,
           NEW content,
           \A k \in 0 .. Content - 1 : content[k] = ContentCell(k)
    PROVE  /\ BytesSound(NewFile(header, m, t, content))
           /\ Place(ReadHeader(NewFile(header, m, t, content))) = Place(header)
  <1> DEFINE bytes == NewFile(header, m, t, content)
             cells == encode_prefix(header, m, t)
             cs == header.content_start
  <1>1. /\ cs \in HeaderSize .. U32Max
        /\ cells[0] = <<"magic", header.compressed>>
        /\ cells[1] = <<"low", header.tags_start % ByteBase>>
        /\ cells[2] = <<"high", header.tags_start \div ByteBase>>
        /\ cells[3] = <<"place", cs, Content>>
    BY PrefixCells
  <1>2. /\ bytes = [k \in 0 .. cs + Content - 1 |->
                       IF k < cs THEN cells[k] ELSE content[k - cs]]
    BY DEF NewFile
  <1>3. /\ header.compressed \in BOOLEAN /\ header.tags_start \in 0 .. U16Max
        /\ header.tags_start % ByteBase \in 0 .. ByteBase - 1
        /\ header.tags_start \div ByteBase \in 0 .. ByteBase - 1
    BY TwoBytes DEF ObjectHeader
  <1> HIDE DEF bytes, cells
  <1>4. /\ bytes[0] = <<"magic", header.compressed>>
        /\ bytes[1] = <<"low", header.tags_start % ByteBase>>
        /\ bytes[2] = <<"high", header.tags_start \div ByteBase>>
        /\ bytes[3] = <<"place", cs, Content>>
    BY <1>1, <1>2, Constants
  <1>5. /\ bytes[0][2] = header.compressed
        /\ bytes[1][2] = header.tags_start % ByteBase
        /\ bytes[2][2] = header.tags_start \div ByteBase
        /\ bytes[3][2] = cs /\ bytes[3][3] = Content
    BY <1>4
  <1>6. ASSUME NEW k \in 0 .. Content - 1
        PROVE  bytes[cs + k] = ContentCell(k)
    <2>1. /\ cs + k \in 0 .. cs + Content - 1 /\ ~(cs + k < cs)
          /\ (cs + k) - cs = k
      BY <1>1, Constants
    <2>2. bytes[cs + k] = content[(cs + k) - cs]
      BY <1>2, <2>1
    <2> QED BY <2>1, <2>2
  <1>7. DOMAIN bytes = 0 .. cs + Content - 1
    BY <1>2
  <1>8. BytesSound(bytes)
    BY <1>1, <1>3, <1>5, <1>6, <1>7 DEF BytesSound
  <1>9. Place(ReadHeader(bytes)) = Place(header)
    BY <1>5 DEF Place, ReadHeader
  <1> QED BY <1>8, <1>9 DEF bytes

\* Writing one cell of a prefix that says of the content what the file says.
LEMMA CellWritten ==
    ASSUME NEW bytes, BytesSound(bytes),
           NEW header \in ObjectHeader, Place(header) = Place(ReadHeader(bytes)),
           NEW m \in Sections, NEW t,
           HeaderSize + Size[m] <= header.tags_start,
           header.tags_start <= header.content_start,
           NEW at \in 0 .. header.content_start - 1
    PROVE  LET written == [bytes EXCEPT ![at] = encode_prefix(header, m, t)[at]]
           IN  /\ BytesSound(written)
               /\ Place(ReadHeader(written)) = Place(ReadHeader(bytes))
  <1> DEFINE cells == encode_prefix(header, m, t)
             written == [bytes EXCEPT ![at] = cells[at]]
             cs == header.content_start
  <1>1. /\ cs = bytes[3][2] /\ header.compressed = bytes[0][2]
        /\ header.content_length = Content
    BY DEF Place, ReadHeader, BytesSound
  <1>2. /\ cs \in HeaderSize .. U32Max
        /\ cells[0] = <<"magic", header.compressed>>
        /\ cells[1] = <<"low", header.tags_start % ByteBase>>
        /\ cells[2] = <<"high", header.tags_start \div ByteBase>>
        /\ cells[3] = <<"place", cs, Content>>
    BY <1>1, PrefixCells
  <1>3. /\ cells[0][2] = bytes[0][2]
        /\ cells[1][2] \in 0 .. ByteBase - 1
        /\ cells[2][2] \in 0 .. ByteBase - 1
        /\ cells[3][2] = bytes[3][2] /\ cells[3][3] = bytes[3][3]
    <2>1. header.tags_start \in 0 .. U16Max
      BY DEF ObjectHeader
    <2> QED BY <1>1, <1>2, <2>1, TwoBytes DEF BytesSound
  <1> HIDE DEF cells
  <1>4. /\ DOMAIN bytes = 0 .. cs + Content - 1
        /\ DOMAIN written = DOMAIN bytes
        /\ at \in DOMAIN bytes /\ written[at] = cells[at]
        /\ \A k \in DOMAIN bytes : k # at => written[k] = bytes[k]
    <2>1. DOMAIN bytes = 0 .. cs + Content - 1
      BY <1>1 DEF BytesSound
    <2>2. at \in 0 .. cs + Content - 1
      BY <1>2, Constants
    <2>3. DOMAIN written = DOMAIN bytes
      OBVIOUS
    <2>4. written[at] = cells[at]
      BY <2>1, <2>2
    <2>5. \A k \in DOMAIN bytes : k # at => written[k] = bytes[k]
      OBVIOUS
    <2> QED BY <2>1, <2>2, <2>3, <2>4, <2>5
  <1> HIDE DEF written
  <1>5. {0, 1, 2, 3} \subseteq DOMAIN bytes
    BY <1>2, <1>4, Constants
  <1>6. /\ written[0][2] = bytes[0][2]
        /\ written[1][2] \in 0 .. ByteBase - 1
        /\ written[2][2] \in 0 .. ByteBase - 1
        /\ written[3][2] = bytes[3][2] /\ written[3][3] = bytes[3][3]
    <2>1. /\ bytes[1][2] \in 0 .. ByteBase - 1
          /\ bytes[2][2] \in 0 .. ByteBase - 1
      BY DEF BytesSound
    <2>2. \A k \in {0, 1, 2, 3} : written[k] = bytes[k] \/ written[k] = cells[k]
      BY <1>4, <1>5
    <2> QED BY <1>3, <2>1, <2>2
  <1>7. ASSUME NEW k \in 0 .. Content - 1
        PROVE  written[cs + k] = ContentCell(k)
    <2>1. cs + k \in DOMAIN bytes /\ cs + k # at
      <3>1. /\ cs \in Nat /\ Content \in Nat /\ DOMAIN bytes = 0 .. cs + Content - 1
            /\ at \in 0 .. cs - 1
        BY <1>2, <1>4, Constants
      <3> QED BY ONLY <3>1, k \in 0 .. Content - 1
    <2>2. bytes[cs + k] = ContentCell(k)
      BY <1>1 DEF BytesSound
    <2> QED BY <1>4, <2>1, <2>2
  <1>8. BytesSound(written)
    BY <1>1, <1>4, <1>6, <1>7 DEF BytesSound
  <1>9. Place(ReadHeader(written)) = Place(ReadHeader(bytes))
    BY <1>6 DEF Place, ReadHeader
  <1> QED BY <1>8, <1>9 DEF written, cells

\* A header read from a file in any state is one an object may have.
LEMMA HeaderRead ==
    ASSUME NEW bytes, BytesSound(bytes)
    PROVE  ReadHeader(bytes) \in ObjectHeader
  <1>1. bytes[1][2] + ByteBase * bytes[2][2] \in 0 .. U16Max
    BY TornOffset DEF BytesSound
  <1>2. bytes[3][2] \in 0 .. U32Max
    BY Constants DEF BytesSound
  <1> QED BY <1>1, <1>2, Constants DEF ReadHeader, ObjectHeader, BytesSound

\* Reading sections gives a section, or garbage.
LEMMA SectionsRead ==
    ASSUME NEW bytes, NEW header
    PROVE  /\ OpenedMetadata(bytes, header) \subseteq Metadata \cup {Garbage}
           /\ ReadTags(bytes, header) \subseteq Tags \cup {Garbage}
  <1>1. ASSUME NEW at, NEW space, NEW kinds
        PROVE  ReadSection(bytes, at, space, kinds) \in kinds \cup {Garbage}
    BY DEF ReadSection
  <1>2. Empty \in Metadata /\ Empty \in Tags
    BY InPlaceAssumption
  <1> QED BY <1>1, <1>2 DEF OpenedMetadata, ReadTags

\* What a call is, by its kind.
LEMMA KindOfCall ==
    ASSUME NEW c \in Calls
    PROVE  /\ c.kind = "idle" => c = Idle
           /\ c.kind = "opening" => c \in Opening
           /\ c.kind = "writing" => c \in Writing
           /\ c.kind = "setting" => c \in Setting
           /\ c.kind = "reading" => c \in Reading
           /\ c.kind \in {"idle", "opening", "writing", "setting", "reading"}
  BY DEF Calls, Idle, Opening, Writing, Setting, Reading

-----------------------------------------------------------------------------
(* Steps.                                                                  *)

\* The files there are keep their content, and say so.
FilesFollow ==
    \A f \in 1 .. current :
        /\ f \in 1 .. current'
        /\ Place(ReadHeader(file[f]))' = Place(ReadHeader(file[f]))

\* What was sound of a handle and a call stays so.
LEMMA StillSound ==
    ASSUME FilesFollow, NEW x, NEW c, HandleSound(x), CallSound(c, x)
    PROVE  HandleSound(x)' /\ CallSound(c, x)'
  <1>1. ASSUME NEW header, NEW f, Placed(header, f)
        PROVE  Placed(header, f)'
    BY <1>1 DEF FilesFollow, Placed, Place, ReadHeader
  <1>2. HandleSound(x)'
    BY <1>1 DEF HandleSound
  <1>3. c.kind = "writing" => WritingSound(c, x)'
    BY <1>1 DEF CallSound, WritingSound
  <1>4. ASSUME ReadingSound(c) PROVE ReadingSound(c)'
    <2>1. /\ c.file \in 1 .. current /\ c.file \in 1 .. current'
          /\ Place(ReadHeader(file[c.file]))' = Place(ReadHeader(file[c.file]))
      BY <1>4 DEF FilesFollow, ReadingSound
    <2>2. file'[c.file][3][2] = file[c.file][3][2]
      BY <2>1 DEF Place, ReadHeader
    <2> QED BY <1>4, <2>1, <2>2 DEF ReadingSound
  <1>5. c.kind = "opening" => Placed(c.header, c.file)'
    BY <1>1 DEF CallSound
  <1> QED BY <1>2, <1>3, <1>4, <1>5 DEF CallSound

\* One handle and its call change, and no file.
LEMMA OneChanges ==
    ASSUME InPlaceIInv, NEW h \in Handles,
           NEW x \in TuxObject \cup {None}, NEW c \in Calls,
           handle' = [handle EXCEPT ![h] = x],
           call' = [call EXCEPT ![h] = c],
           file' = file, current' = current, fresh' \subseteq Handles,
           HandleSound(x), CallSound(c, x)
    PROVE  InPlaceIInv'
  <1>1. FilesFollow /\ FilesSound'
    BY DEF FilesFollow, FilesSound, InPlaceIInv, Place, ReadHeader
  <1>2. Types'
    BY DEF InPlaceIInv, Types
  <1>3. ASSUME NEW g \in Handles
        PROVE  HandleSound(handle[g])' /\ CallSound(call[g], handle[g])'
    <2>1. PICK x1, c1 : x1 = handle'[g] /\ c1 = call'[g]
      OBVIOUS
    <2>2. HandleSound(x1) /\ CallSound(c1, x1)
      <3>1. g = h => x1 = x /\ c1 = c
        BY <2>1 DEF InPlaceIInv, Types
      <3>2. g # h => x1 = handle[g] /\ c1 = call[g]
        BY <2>1 DEF InPlaceIInv, Types
      <3> QED BY <3>1, <3>2 DEF InPlaceIInv
    <2>3. HandleSound(x1)' /\ CallSound(c1, x1)'
      BY <1>1, <2>2, StillSound
    <2> QED BY <2>1, <2>3 DEF HandleSound, CallSound, WritingSound, ReadingSound,
                             Placed
  <1> QED BY <1>1, <1>2, <1>3 DEF InPlaceIInv

\* The call of a handle changes, and nothing else.
LEMMA CallChanges ==
    ASSUME InPlaceIInv, NEW h \in Handles, NEW c \in Calls,
           call' = [call EXCEPT ![h] = c], handle' = handle,
           file' = file, current' = current, fresh' \subseteq Handles,
           CallSound(c, handle[h])
    PROVE  InPlaceIInv'
  <1>1. PICK x : x = handle[h]
    OBVIOUS
  <1>2. /\ x \in TuxObject \cup {None}
        /\ handle' = [handle EXCEPT ![h] = x]
        /\ HandleSound(x)
    BY <1>1 DEF InPlaceIInv, Types
  <1> QED BY <1>1, <1>2, OneChanges

LEMMA IdleIsSound == Idle \in Calls /\ \A x : CallSound(Idle, x)
  BY DEF Idle, Calls, CallSound

LEMMA OpeningStep ==
    ASSUME InPlaceIInv, NEW h \in Handles,
           OpenHeader(h) \/ OpenMetadata(h) \/ OpenFails(h)
    PROVE  InPlaceIInv'
  <1>1. CASE OpenHeader(h)
    <2>1. PICK c : c = [kind |-> "opening", file |-> current,
                        header |-> ReadHeader(file[current])]
      OBVIOUS
    <2>2. /\ c.kind = "opening" /\ c.file = current
          /\ c.header = ReadHeader(file[current])
      BY <2>1
    <2>3. current \in 1 .. current /\ current \in Files
      BY InPlaceAssumption DEF InPlaceIInv, Types, Files
    <2>4. ReadHeader(file[current]) \in ObjectHeader
      BY <2>3, HeaderRead DEF InPlaceIInv, FilesSound
    <2>5. c \in Calls
      BY <2>1, <2>3, <2>4 DEF Calls, Opening
    <2>6. CallSound(c, handle[h])
      BY <2>2, <2>3 DEF CallSound, Placed
    <2>7. fresh' \subseteq Handles
      BY <1>1 DEF OpenHeader, InPlaceIInv, Types
    <2> QED BY <1>1, <2>1, <2>5, <2>6, <2>7, CallChanges DEF OpenHeader, Begin
  <1>2. CASE OpenMetadata(h)
    <2>1. PICK c : c = call[h]
      OBVIOUS
    <2>2. c \in Opening /\ Placed(c.header, c.file)
      BY <1>2, <2>1, KindOfCall DEF OpenMetadata, InPlaceIInv, Types, CallSound
    <2>3. PICK m \in OpenedMetadata(file[c.file], c.header) :
             handle' = [handle EXCEPT ![h] =
                [file |-> c.file, header |-> c.header, metadata |-> m]]
      BY <1>2, <2>1 DEF OpenMetadata
    <2>4. PICK x : x = [file |-> c.file, header |-> c.header, metadata |-> m]
      OBVIOUS
    <2>5. m \in Metadata \cup {Garbage}
      BY <2>3, SectionsRead
    <2>6. x \in TuxObject \cup {None} /\ HandleSound(x)
      BY <2>2, <2>4, <2>5 DEF TuxObject, Opening, HandleSound
    <2> QED
      BY <1>2, <2>3, <2>4, <2>6, IdleIsSound, OneChanges
      DEF OpenMetadata, Return, historyVars, InPlaceIInv, Types
  <1>3. CASE OpenFails(h)
    BY <1>3, IdleIsSound, CallChanges
    DEF OpenFails, Return, InPlaceIInv, Types
  <1> QED BY <1>1, <1>2, <1>3

\* What ends a call without an effect.
LEMMA EndingStep ==
    ASSUME InPlaceIInv, NEW h \in Handles,
           \/ WriteFails(h) \/ SetFails(h) \/ StopReading(h)
           \/ Written(h) \/ Close(h) \/ Cancel(h)
    PROVE  InPlaceIInv'
  <1>1. CASE WriteFails(h) \/ SetFails(h) \/ StopReading(h)
    BY <1>1, IdleIsSound, CallChanges
    DEF WriteFails, SetFails, StopReading, Return, historyVars, InPlaceIInv, Types
  <1>2. CASE Written(h)
    <2>1. PICK c, x : c = call[h] /\ x = handle[h]
      OBVIOUS
    <2>2. /\ c \in Writing /\ WritingSound(c, x)
          /\ x \in TuxObject \cup {None} /\ HandleSound(x)
      BY <1>2, <2>1, KindOfCall DEF Written, InPlaceIInv, Types, CallSound
    <2>3. /\ call' = [call EXCEPT ![h] = Idle] /\ file' = file
          /\ current' = current /\ fresh' \subseteq Handles
      BY <1>2 DEF Written, Return, InPlaceIInv, Types
    <2>4. CASE ~c.waited
      <3>1. handle' = handle
        BY <1>2, <2>1, <2>4 DEF Written
      <3> QED BY <2>3, <3>1, IdleIsSound, CallChanges
    <2>5. CASE c.waited
      <3>1. PICK y : y = [x EXCEPT !.header = c.header, !.metadata = c.metadata]
        OBVIOUS
      <3>2. handle' = [handle EXCEPT ![h] = y]
        BY <1>2, <2>1, <2>5, <3>1 DEF Written, Updated
      <3>3. x \in TuxObject /\ x.file = c.file
        BY <2>2, <2>5 DEF WritingSound
      <3>4. y \in TuxObject /\ y.file = c.file /\ y.header = c.header
        BY <2>2, <3>1, <3>3 DEF TuxObject, Writing
      <3>5. HandleSound(y)
        BY <2>2, <3>4 DEF HandleSound, WritingSound
      <3> QED BY <2>3, <3>2, <3>4, <3>5, IdleIsSound, OneChanges
    <2> QED BY <2>4, <2>5
  <1>3. CASE Close(h)
    <2>1. PICK c : c = call[h]
      OBVIOUS
    <2>2. /\ c \in Calls /\ call' = [call EXCEPT ![h] = c]
          /\ handle' = [handle EXCEPT ![h] = None]
          /\ file' = file /\ current' = current /\ fresh' \subseteq Handles
      BY <1>3, <2>1 DEF Close, InPlaceIInv, Types
    <2>3. CallSound(c, None)
      <3>1. c = Idle \/ (c.kind = "writing" /\ ~c.waited)
        BY <1>3, <2>1 DEF Close
      <3>2. CallSound(c, handle[h])
        BY <2>1 DEF InPlaceIInv
      <3>3. CASE c = Idle
        BY <3>3, IdleIsSound
      <3>4. CASE c.kind = "writing" /\ ~c.waited
        BY <3>2, <3>4 DEF CallSound, WritingSound
      <3> QED BY <3>1, <3>3, <3>4
    <2>4. HandleSound(None)
      BY DEF HandleSound
    <2> QED BY <2>2, <2>3, <2>4, OneChanges
  <1>4. CASE Cancel(h)
    <2>1. PICK c, c2 : c = call[h] /\ c2 = [c EXCEPT !.waited = FALSE]
      OBVIOUS
    <2>2. c \in Writing /\ WritingSound(c, handle[h])
      BY <1>4, <2>1, KindOfCall DEF Cancel, InPlaceIInv, Types, CallSound
    <2>3. /\ c2 \in Writing /\ c2.header = c.header /\ c2.file = c.file
          /\ c2.at = c.at /\ c2.metadata = c.metadata /\ ~c2.waited
          /\ c2.kind = "writing"
      BY <2>1, <2>2 DEF Writing
    <2>4. CallSound(c2, handle[h])
      BY <2>2, <2>3 DEF CallSound, WritingSound
    <2>5. c2 \in Calls
      BY <2>3 DEF Calls
    <2> QED
      BY <1>4, <2>1, <2>4, <2>5, CallChanges
      DEF Cancel, Begin, historyVars, InPlaceIInv, Types
  <1> QED BY <1>1, <1>2, <1>3, <1>4

\* Handles and calls that are sound in the files there were are sound in those
\* there are.
LEMMA AllSound ==
    ASSUME FilesFollow, FilesSound', Types',
           NEW xs, NEW cs, xs = handle', cs = call',
           \A g \in Handles : HandleSound(xs[g]) /\ CallSound(cs[g], xs[g])
    PROVE  InPlaceIInv'
  <1>1. ASSUME NEW g \in Handles
        PROVE  HandleSound(handle[g])' /\ CallSound(call[g], handle[g])'
    <2>1. PICK x1, c1 : x1 = xs[g] /\ c1 = cs[g]
      OBVIOUS
    <2>2. HandleSound(x1)' /\ CallSound(c1, x1)'
      BY <2>1, StillSound
    <2> QED BY <2>1, <2>2 DEF HandleSound, CallSound, WritingSound, ReadingSound,
                             Placed
  <1> QED BY <1>1 DEF InPlaceIInv

\* An update begins: the sections fit in front of the content.
LEMMA UpdateBegins ==
    ASSUME InPlaceIInv, NEW h \in Handles, NEW m \in Metadata, NEW t \in Tags,
           UpdateInPlace(h, m, t)
    PROVE  \E c \in Writing :
               /\ c.kind = "writing" /\ c.at = 0 /\ c.file = handle[h].file
               /\ c.tags = t /\ c.alone = (Updating(c.file) = {})
               /\ c.header.tags_start + Size[t] <= c.header.content_start
               /\ CallSound(c, handle[h])
               /\ call' = [g \in Handles |->
                              IF g = h THEN c
                              ELSE IF g \in Updating(c.file)
                                   THEN [call[g] EXCEPT !.alone = FALSE]
                                   ELSE call[g]]
  <1>1. PICK x, old, layout, f :
           /\ x = handle[h] /\ old = x.header /\ f = x.file
           /\ layout = InPlaceLayout(old, m, t)
    OBVIOUS
  <1>2. /\ x \in TuxObject /\ Placed(old, f) /\ old \in ObjectHeader /\ f \in Files
        /\ layout # None
    BY <1>1 DEF UpdateInPlace, Ready, InPlaceIInv, Types, HandleSound, TuxObject
  <1>3. /\ layout.tags_start \in 0 .. U16Max
        /\ layout.content_start = old.content_start
        /\ HeaderSize + Size[m] <= layout.tags_start
        /\ layout.tags_start <= layout.content_start
        /\ layout.tags_start + Size[t] <= layout.content_start
    <2>1. /\ old.content_start \in 0 .. U32Max /\ Size[m] \in Nat
          /\ Size[t] \in Nat /\ DefaultOptions.alignment \in Nat
      BY <1>2, Constants DEF ObjectHeader, Sections
    <2>2. layout = repartition(old.content_start, Size[m], Size[t],
                               DefaultOptions.alignment)
      BY <1>1 DEF InPlaceLayout
    <2>3. /\ layout \in SectionLayout /\ layout.content_start = old.content_start
          /\ HeaderSize + Size[m] <= layout.tags_start
          /\ layout.tags_start + Size[t] <= old.content_start
      BY <1>2, <2>1, <2>2, RepartitionSound
    <2>4. layout.tags_start \in 0 .. U16Max
      BY <2>3 DEF SectionLayout
    <2> QED BY <2>1, <2>3, <2>4, Constants
  <1>4. PICK header : header = Header(old.compressed, layout, old.content_length)
    OBVIOUS
  <1>5. /\ header \in ObjectHeader /\ Place(header) = Place(old)
        /\ header.tags_start = layout.tags_start
        /\ header.content_start = layout.content_start
    BY <1>2, <1>3, <1>4 DEF Header, ObjectHeader, Place
  <1>6. PICK c : c = [kind |-> "writing", file |-> f, header |-> header,
                      metadata |-> m, tags |-> t, at |-> 0, waited |-> TRUE,
                      alone |-> Updating(f) = {}]
    OBVIOUS
  <1>7. /\ c \in Writing /\ c.kind = "writing" /\ c.file = f
        /\ c.header = header /\ c.metadata = m /\ c.at = 0 /\ c.tags = t
        /\ c.alone = (Updating(f) = {})
    BY <1>2, <1>5, <1>6 DEF Writing
  <1>8. CallSound(c, x)
    <2>1. Placed(c.header, c.file)
      BY <1>2, <1>5, <1>7 DEF Placed
    <2>2. x # None /\ x.file = c.file
      BY <1>1, <1>7 DEF UpdateInPlace, Ready
    <2>3. 0 <= header.content_start
      BY <1>2, <1>3, <1>5 DEF ObjectHeader
    <2>4. WritingSound(c, x)
      BY <1>3, <1>5, <1>7, <2>1, <2>2, <2>3 DEF WritingSound
    <2> QED BY <1>7, <2>4 DEF CallSound
  <1>9. call' = [g \in Handles |->
                    IF g = h THEN c
                    ELSE IF g \in Updating(f)
                         THEN [call[g] EXCEPT !.alone = FALSE]
                         ELSE call[g]]
    BY <1>1, <1>4, <1>6 DEF UpdateInPlace
  <1> QED BY <1>1, <1>3, <1>5, <1>7, <1>8, <1>9

LEMMA UpdateStep ==
    ASSUME InPlaceIInv, NEW h \in Handles, NEW m \in Metadata, NEW t \in Tags,
           UpdateInPlace(h, m, t)
    PROVE  InPlaceIInv'
  <1>1. PICK c \in Writing :
           /\ CallSound(c, handle[h])
           /\ call' = [g \in Handles |->
                          IF g = h THEN c
                          ELSE IF g \in Updating(c.file)
                               THEN [call[g] EXCEPT !.alone = FALSE]
                               ELSE call[g]]
    BY UpdateBegins
  <1>2. PICK f : f = c.file
    OBVIOUS
  <1>3. PICK xs, cs : xs = handle' /\ cs = call'
    OBVIOUS
  <1>4. /\ xs = handle
        /\ cs = [g \in Handles |->
                     IF g = h THEN c
                     ELSE IF g \in Updating(f)
                          THEN [call[g] EXCEPT !.alone = FALSE]
                          ELSE call[g]]
    BY <1>1, <1>2, <1>3 DEF UpdateInPlace
  <1>5. ASSUME NEW g \in Handles
         PROVE  cs[g] \in Calls /\ CallSound(cs[g], xs[g])
    <2>1. call[g] \in Calls /\ CallSound(call[g], handle[g])
      BY DEF InPlaceIInv, Types
    <2>2. CASE g = h
      BY <1>1, <1>4, <2>2 DEF Calls
    <2>3. CASE g # h /\ g \in Updating(f)
      <3>1. PICK d, e : d = call[g] /\ e = [d EXCEPT !.alone = FALSE]
        OBVIOUS
      <3>2. d \in Writing
        BY <2>1, <2>3, <3>1, KindOfCall DEF Updating
      <3>3. /\ e \in Writing /\ e.kind = d.kind /\ e.file = d.file
            /\ e.header = d.header /\ e.at = d.at /\ e.metadata = d.metadata
            /\ e.waited = d.waited /\ d.kind = "writing"
        BY <3>1, <3>2 DEF Writing
      <3>4. CallSound(e, handle[g])
        BY <2>1, <3>1, <3>3 DEF CallSound, WritingSound
      <3>5. cs[g] = e /\ e \in Calls
        BY <1>4, <2>3, <3>1, <3>3 DEF Calls
      <3> QED BY <1>4, <3>4, <3>5
    <2>4. CASE g # h /\ g \notin Updating(f)
      BY <1>4, <2>1, <2>4
    <2> QED BY <2>2, <2>3, <2>4
  <1>6. \A g \in Handles : HandleSound(xs[g])
    BY <1>4 DEF InPlaceIInv
  <1>7. file' = file /\ current' = current /\ handle' = handle
         /\ fresh' \subseteq fresh
    BY DEF UpdateInPlace
  <1>8. FilesFollow /\ FilesSound'
    BY <1>7 DEF FilesFollow, FilesSound, InPlaceIInv, Place, ReadHeader
  <1>9. Types'
    <2>1. call' \in [Handles -> Calls]
      BY <1>3, <1>4, <1>5
    <2> QED BY <1>7, <2>1 DEF InPlaceIInv, Types
  <1> QED BY <1>3, <1>5, <1>6, <1>8, <1>9, AllSound

\* An update writes a cell: of the header, what it held or what every header of
\* the file says; of the content, none.
LEMMA WriteCellStep ==
    ASSUME InPlaceIInv, NEW h \in Handles, WriteCell(h)
    PROVE  InPlaceIInv'
  <1>1. PICK c, d, x : /\ c = call[h] /\ d = [c EXCEPT !.at = @ + 1]
                       /\ x = handle[h]
    OBVIOUS
  <1>2. c \in Writing /\ WritingSound(c, x)
    BY <1>1, KindOfCall DEF WriteCell, InPlaceIInv, Types, CallSound
  <1>3. PICK bytes, written :
           /\ bytes = file[c.file]
           /\ written = [bytes EXCEPT ![c.at] =
                            encode_prefix(c.header, c.metadata, c.tags)[c.at]]
    OBVIOUS
  <1>4. /\ c.file \in 1 .. current /\ c.file \in Files
        /\ c.header \in ObjectHeader /\ c.metadata \in Sections
        /\ c.at \in 0 .. c.header.content_start - 1
    BY <1>1, <1>2
    DEF WriteCell, Writing, WritingSound, Placed, Sections, ObjectHeader
  <1>5. /\ BytesSound(written)
        /\ Place(ReadHeader(written)) = Place(ReadHeader(bytes))
    <2>1. BytesSound(bytes) /\ Place(c.header) = Place(ReadHeader(bytes))
      BY <1>2, <1>3, <1>4 DEF InPlaceIInv, FilesSound, WritingSound, Placed
    <2>2. /\ HeaderSize + Size[c.metadata] <= c.header.tags_start
          /\ c.header.tags_start <= c.header.content_start
      BY <1>2 DEF WritingSound
    <2>3. PICK header, m, t, at :
             header = c.header /\ m = c.metadata /\ t = c.tags /\ at = c.at
      OBVIOUS
    <2>4. /\ header \in ObjectHeader /\ m \in Sections
          /\ Place(header) = Place(ReadHeader(bytes))
          /\ HeaderSize + Size[m] <= header.tags_start
          /\ header.tags_start <= header.content_start
          /\ at \in 0 .. header.content_start - 1
      BY <1>4, <2>1, <2>2, <2>3
    <2>5. written = [bytes EXCEPT ![at] = encode_prefix(header, m, t)[at]]
      BY <1>3, <2>3
    <2>6. LET w == [bytes EXCEPT ![at] = encode_prefix(header, m, t)[at]]
          IN  BytesSound(w) /\ Place(ReadHeader(w)) = Place(ReadHeader(bytes))
      BY <2>1, <2>4, CellWritten
    <2> QED BY <2>5, <2>6
  <1>6. file' = [file EXCEPT ![c.file] = written] /\ current' = current
        /\ handle' = handle /\ call' = [call EXCEPT ![h] = d] /\ fresh' = fresh
    <2>1. /\ file' = [file EXCEPT ![c.file] = [@ EXCEPT ![c.at] =
                         encode_prefix(c.header, c.metadata, c.tags)[c.at]]]
          /\ call' = [call EXCEPT ![h].at = @ + 1]
          /\ current' = current /\ handle' = handle /\ fresh' = fresh
      BY <1>1 DEF WriteCell, historyVars
    <2>2. h \in DOMAIN call /\ c.file \in DOMAIN file
      BY <1>4 DEF InPlaceIInv, Types
    <2>3. file' = [file EXCEPT ![c.file] = written]
      BY <1>3, <2>1, <2>2
    <2>4. call' = [call EXCEPT ![h] = d]
      BY <1>1, <2>1, <2>2
    <2> QED BY <2>1, <2>3, <2>4
  <1>7. DOMAIN file = Files /\ file'[c.file] = written
        /\ \A f \in Files : f # c.file => file'[f] = file[f]
    BY <1>4, <1>6 DEF InPlaceIInv, Types
  <1>8. \A f \in 1 .. current : f \in Files
    BY InPlaceAssumption DEF InPlaceIInv, Types, Files
  <1>9. FilesFollow
    <2>1. ASSUME NEW f \in 1 .. current
          PROVE  Place(ReadHeader(file'[f])) = Place(ReadHeader(file[f]))
      BY <1>3, <1>5, <1>7, <1>8
    <2> QED BY <1>6, <2>1 DEF FilesFollow, Place, ReadHeader
  <1>10. FilesSound'
    <2>1. ASSUME NEW f \in 1 .. current PROVE BytesSound(file'[f])
      BY <1>5, <1>7, <1>8 DEF InPlaceIInv, FilesSound
    <2> QED BY <1>6, <2>1 DEF FilesSound, BytesSound
  <1>11. d \in Writing /\ CallSound(d, x)
    <2>1. /\ d \in Writing /\ d.kind = "writing" /\ d.file = c.file
          /\ d.header = c.header /\ d.metadata = c.metadata /\ d.at = c.at + 1
          /\ d.waited = c.waited
      BY <1>1, <1>2 DEF Writing
    <2>2. d.at <= d.header.content_start
      BY <1>4, <2>1 DEF ObjectHeader
    <2>3. WritingSound(d, x)
      BY <1>2, <2>1, <2>2 DEF WritingSound
    <2> QED BY <2>1, <2>3 DEF CallSound
  <1>12. Types'
    <2>1. DOMAIN file' = Files
      BY <1>6 DEF InPlaceIInv, Types
    <2> QED BY <1>6, <1>11, <2>1 DEF InPlaceIInv, Types, Calls
  <1>13. PICK xs, cs : xs = handle' /\ cs = call'
    OBVIOUS
  <1>14. ASSUME NEW g \in Handles
         PROVE  HandleSound(xs[g]) /\ CallSound(cs[g], xs[g])
    <2>1. xs[g] = handle[g] /\ (g # h => cs[g] = call[g]) /\ (g = h => cs[g] = d)
      BY <1>6, <1>13 DEF InPlaceIInv, Types
    <2> QED BY <1>1, <1>11, <2>1 DEF InPlaceIInv
  <1> QED BY <1>9, <1>10, <1>12, <1>13, <1>14, AllSound

\* An atomic setter begins: with sections somebody stored or read.
LEMMA SetterStep ==
    ASSUME InPlaceIInv, NEW h \in Handles,
           \/ \E m \in Metadata : SetMetadata(h, m)
           \/ \E t \in Tags : SetTags(h, t)
           \/ \E m \in Metadata, t \in Tags : SetSections(h, m, t)
    PROVE  InPlaceIInv'
  <1>1. ASSUME NEW m \in Metadata \cup {Garbage}, NEW t \in Tags \cup {Garbage},
               Set(h, m, t)
        PROVE  InPlaceIInv'
    <2>1. PICK c : c = [kind |-> "setting", metadata |-> m, tags |-> t]
      OBVIOUS
    <2>2. c \in Calls /\ c.kind = "setting"
      BY <2>1 DEF Calls, Setting
    <2>3. CallSound(c, handle[h])
      BY <1>1, <2>2 DEF CallSound, Set, Ready
    <2> QED
      BY <1>1, <2>1, <2>2, <2>3, CallChanges
      DEF Set, Begin, historyVars, InPlaceIInv, Types
  <1>2. CASE \E m \in Metadata : SetMetadata(h, m)
    <2>1. PICK m \in Metadata : SetMetadata(h, m)
      BY <1>2
    <2>2. PICK t \in ReadTags(file[handle[h].file], handle[h].header) : Set(h, m, t)
      BY <2>1 DEF SetMetadata
    <2>3. t \in Tags \cup {Garbage}
      BY <2>2, SectionsRead
    <2> QED BY <1>1, <2>2, <2>3
  <1>3. CASE \E t \in Tags : SetTags(h, t)
    <2>1. PICK t \in Tags : SetTags(h, t)
      BY <1>3
    <2>2. handle[h].metadata \in Metadata \cup {Garbage}
      BY <2>1 DEF SetTags, Ready, InPlaceIInv, Types, TuxObject
    <2> QED BY <1>1, <2>1, <2>2 DEF SetTags
  <1>4. CASE \E m \in Metadata, t \in Tags : SetSections(h, m, t)
    BY <1>1, <1>4 DEF SetSections
  <1> QED BY <1>2, <1>3, <1>4

\* What is laid out anew with the old content behind it is a sound file.
LEMMA NewHeader ==
    ASSUME NEW o \in LayoutOptions, NEW m \in Sections, NEW t \in Sections,
           NEW compressed \in BOOLEAN,
           compute(o, Size[m], Size[t]) # None
    PROVE  LET header == Header(compressed, compute(o, Size[m], Size[t]), Content)
           IN  /\ header \in ObjectHeader
               /\ HeaderSize + Size[m] <= header.tags_start
               /\ header.tags_start <= header.content_start
               /\ header.tags_start + Size[t] <= header.content_start
               /\ header.content_length = Content
               /\ header.compressed = compressed
  <1>1. Size[m] \in Nat /\ Size[t] \in Nat
    BY Constants
  <1>2. PICK layout : layout = compute(o, Size[m], Size[t])
    OBVIOUS
  <1>3. /\ layout \in SectionLayout
        /\ HeaderSize + Size[m] <= layout.tags_start
        /\ layout.tags_start + Size[t] <= layout.content_start
    BY <1>1, <1>2, ComputeFits
  <1>4. layout.tags_start \in 0 .. U16Max /\ layout.content_start \in 0 .. U32Max
    BY <1>3 DEF SectionLayout
  <1>5. layout.tags_start <= layout.content_start
    BY <1>1, <1>3, <1>4, Constants
  <1>6. PICK header : header = Header(compressed, layout, Content)
    OBVIOUS
  <1>7. /\ header \in ObjectHeader /\ header.tags_start = layout.tags_start
        /\ header.content_start = layout.content_start
        /\ header.content_length = Content /\ header.compressed = compressed
    BY <1>4, <1>6, Constants DEF Header, ObjectHeader
  <1> QED BY <1>2, <1>3, <1>5, <1>6, <1>7

\* rewrite: the new file has the content where its header says.
LEMMA Replacing ==
    ASSUME InPlaceIInv, NEW h \in Handles, Replace(h)
    PROVE  \E header, m, t, copied :
               /\ header \in ObjectHeader
               /\ m \in Metadata \cup {Garbage} /\ t \in Tags \cup {Garbage}
               /\ HeaderSize + Size[m] <= header.tags_start
               /\ header.tags_start <= header.content_start
               /\ header.tags_start + Size[t] <= header.content_start
               /\ header.content_length = Content
               /\ \A k \in 0 .. Content - 1 : copied[k] = ContentCell(k)
               /\ file' = [file EXCEPT ![current + 1] = NewFile(header, m, t, copied)]
               /\ handle' = [handle EXCEPT ![h] =
                      [file |-> current + 1, header |-> header, metadata |-> m]]
               /\ settled' = [settled EXCEPT ![current + 1] =
                      [metadata |-> m, tags |-> t]]
  <1>1. PICK c, x, old, o, m, t, bytes :
           /\ c = call[h] /\ x = handle[h] /\ old = x.header
           /\ o = [DefaultOptions EXCEPT !.min_content_start = old.content_start]
           /\ m = c.metadata /\ t = c.tags
           /\ bytes = file[x.file]
    OBVIOUS
  <1>2. PICK layout : layout = compute(o, Size[m], Size[t])
    OBVIOUS
  <1>3. PICK header, copied :
           /\ header = Header(old.compressed, layout, old.content_length)
           /\ copied = CopiedContent(old, layout, bytes)
    OBVIOUS
  <1>4. /\ layout # None /\ c.kind = "setting"
        /\ file' = [file EXCEPT ![current + 1] = NewFile(header, m, t, copied)]
        /\ handle' = [handle EXCEPT ![h] =
               [file |-> current + 1, header |-> header, metadata |-> m]]
        /\ settled' = [settled EXCEPT ![current + 1] = [metadata |-> m, tags |-> t]]
    BY <1>1, <1>2, <1>3 DEF Replace
  <1>5. c \in Setting /\ x \in TuxObject /\ Placed(old, x.file)
    BY <1>1, <1>4, KindOfCall
    DEF InPlaceIInv, Types, CallSound, HandleSound
  <1>6. /\ m \in Sections /\ t \in Sections /\ old \in ObjectHeader
        /\ old.compressed \in BOOLEAN
        /\ x.file \in 1 .. current /\ BytesSound(bytes)
        /\ old.content_start = bytes[3][2] /\ old.content_length = Content
        /\ m \in Metadata \cup {Garbage} /\ t \in Tags \cup {Garbage}
    BY <1>1, <1>5
    DEF Setting, Sections, TuxObject, ObjectHeader, Placed, Place, ReadHeader, InPlaceIInv,
        FilesSound, BytesSound
  <1>7. o \in LayoutOptions
    BY <1>1, <1>6, Constants DEF ObjectHeader, LayoutOptions
  <1>8. /\ header \in ObjectHeader
        /\ HeaderSize + Size[m] <= header.tags_start
        /\ header.tags_start <= header.content_start
        /\ header.tags_start + Size[t] <= header.content_start
        /\ header.content_length = Content
    <2>1. PICK z : z = old.compressed
      OBVIOUS
    <2>2. header = Header(z, compute(o, Size[m], Size[t]), Content)
      BY <1>2, <1>3, <1>6, <2>1
    <2> QED BY <1>2, <1>4, <1>6, <1>7, <2>1, <2>2, NewHeader
  <1>9. \A k \in 0 .. Content - 1 : copied[k] = ContentCell(k)
    <2>1. copied = [k \in 0 .. Content - 1 |->
                      IF bytes[3][2] + k \in DOMAIN bytes
                      THEN bytes[bytes[3][2] + k] ELSE Zero]
      BY <1>3, <1>6 DEF CopiedContent
    <2>2. \A k \in 0 .. Content - 1 : /\ bytes[3][2] + k \in DOMAIN bytes
                                      /\ bytes[bytes[3][2] + k] = ContentCell(k)
      <3>1. /\ bytes[3][2] \in HeaderSize .. U32Max
            /\ DOMAIN bytes = 0 .. bytes[3][2] + Content - 1
            /\ \A k \in 0 .. Content - 1 : bytes[bytes[3][2] + k] = ContentCell(k)
        BY <1>6 DEF BytesSound
      <3>2. PICK cs \in Nat, last \in Nat : cs = bytes[3][2] /\ last = Content
        BY <3>1, Constants
      <3>3. \A k \in 0 .. last - 1 : cs + k \in 0 .. cs + last - 1
        BY ONLY cs \in Nat, last \in Nat
      <3> QED BY ONLY <3>1, <3>2, <3>3
    <2> QED BY <2>1, <2>2
  <1> QED BY <1>4, <1>6, <1>8, <1>9

LEMMA ReplaceStep ==
    ASSUME InPlaceIInv, NEW h \in Handles, Replace(h)
    PROVE  InPlaceIInv'
  <1>1. PICK header, m, t, copied :
           /\ header \in ObjectHeader
           /\ m \in Metadata \cup {Garbage} /\ t \in Tags \cup {Garbage}
           /\ HeaderSize + Size[m] <= header.tags_start
           /\ header.tags_start <= header.content_start
           /\ header.tags_start + Size[t] <= header.content_start
           /\ header.content_length = Content
           /\ \A k \in 0 .. Content - 1 : copied[k] = ContentCell(k)
           /\ file' = [file EXCEPT ![current + 1] = NewFile(header, m, t, copied)]
           /\ handle' = [handle EXCEPT ![h] =
                  [file |-> current + 1, header |-> header, metadata |-> m]]
           /\ settled' = [settled EXCEPT ![current + 1] =
                  [metadata |-> m, tags |-> t]]
    BY Replacing
  <1>2. PICK written, y :
           /\ written = NewFile(header, m, t, copied)
           /\ y = [file |-> current + 1, header |-> header, metadata |-> m]
    OBVIOUS
  <1>3. /\ current < MaxFiles /\ current' = current + 1
        /\ file' = [file EXCEPT ![current + 1] = written]
        /\ handle' = [handle EXCEPT ![h] = y]
        /\ call' = [call EXCEPT ![h] = Idle]
        /\ fresh' \subseteq Handles
    BY <1>1, <1>2 DEF Replace, Return, InPlaceIInv, Types
  <1>4. m \in Sections
    BY <1>1 DEF Sections
  <1>5. BytesSound(written) /\ Place(ReadHeader(written)) = Place(header)
    BY <1>1, <1>2, <1>4, NewFileSound
  <1>6. /\ current + 1 \in Files /\ DOMAIN file = Files
        /\ \A f \in 1 .. current : f \in Files /\ f # current + 1
        /\ current \in Nat /\ MaxFiles \in Nat
    BY <1>3, InPlaceAssumption DEF InPlaceIInv, Types, Files
  <1>7. /\ file'[current + 1] = written
        /\ \A f \in 1 .. current : file'[f] = file[f]
    BY <1>3, <1>6
  <1>8. FilesFollow
    <2>1. \A f \in 1 .. current : f \in 1 .. current'
      BY <1>3, <1>6
    <2> QED BY <1>7, <2>1 DEF FilesFollow, Place, ReadHeader
  <1>9. FilesSound'
    <2>1. ASSUME NEW f \in 1 .. current + 1 PROVE BytesSound(file'[f])
      <3>1. f = current + 1 \/ f \in 1 .. current
        BY <1>6
      <3> QED BY <1>5, <1>7, <3>1 DEF InPlaceIInv, FilesSound
    <2> QED BY <1>3, <2>1 DEF FilesSound, BytesSound
  <1>10. y \in TuxObject \cup {None} /\ HandleSound(y)'
    <2>1. y \in TuxObject
      BY <1>1, <1>2, <1>6 DEF TuxObject
    <2>2. /\ y.file = current' /\ y.header = header
          /\ y.file \in 1 .. current'
      BY <1>2, <1>3, <1>6
    <2>3. Place(y.header) = Place(ReadHeader(file'[y.file]))
      BY <1>3, <1>5, <1>7, <2>2
    <2> QED BY <2>1, <2>2, <2>3 DEF HandleSound, Placed, Place, ReadHeader
  <1>11. Types'
    <2>1. DOMAIN file' = Files /\ current' \in Files
      BY <1>3, <1>6
    <2> QED BY <1>3, <1>10, <2>1, IdleIsSound DEF InPlaceIInv, Types
  <1>12. ASSUME NEW g \in Handles
         PROVE  HandleSound(handle[g])' /\ CallSound(call[g], handle[g])'
    <2>1. PICK z, d : z = handle'[g] /\ d = call'[g]
      OBVIOUS
    <2>2. CASE g = h
      <3>1. z = y /\ d = Idle
        BY <1>3, <2>1, <2>2 DEF InPlaceIInv, Types
      <3>2. d.kind = "idle"
        BY <3>1 DEF Idle
      <3> QED BY <1>10, <2>1, <3>1, <3>2 DEF HandleSound, Placed, CallSound
    <2>3. CASE g # h
      <3>1. z = handle[g] /\ d = call[g]
        BY <1>3, <2>1, <2>3 DEF InPlaceIInv, Types
      <3>2. HandleSound(z) /\ CallSound(d, z)
        BY <3>1 DEF InPlaceIInv
      <3>3. HandleSound(z)' /\ CallSound(d, z)'
        BY <1>8, <3>2, StillSound
      <3> QED BY <2>1, <3>3 DEF HandleSound, CallSound, WritingSound,
                               ReadingSound, Placed
    <2> QED BY <2>2, <2>3
  <1> QED BY <1>9, <1>11, <1>12 DEF InPlaceIInv

\* A reader starts in the content, with no more ahead of it than there is.
LEMMA StartStep ==
    ASSUME InPlaceIInv, NEW h \in Handles, NEW offset \in Nat,
           NEW remaining \in Nat, NEW asked, NEW owned \in BOOLEAN,
           offset + remaining = IF asked = None THEN Content ELSE offset + asked,
           offset + remaining <= Content,
           StartReading(h, offset, remaining, asked, owned)
    PROVE  InPlaceIInv'
  <1>1. PICK x, c :
           /\ x = handle[h]
           /\ c = [kind |-> "reading", file |-> x.file,
                   at |-> x.header.content_start + offset,
                   remaining |-> remaining, got |-> <<>>, from |-> offset,
                   to |-> IF asked = None THEN Content ELSE offset + asked]
    OBVIOUS
  <1>2. /\ x \in TuxObject /\ x.header \in ObjectHeader /\ x.file \in Files
        /\ x.file \in 1 .. current
        /\ x.header.content_start = file[x.file][3][2]
        /\ x.header.content_start \in Nat
    BY <1>1
    DEF StartReading, Ready, InPlaceIInv, Types, HandleSound, TuxObject, Placed, Place,
        ReadHeader, ObjectHeader
  <1>3. /\ c.kind = "reading" /\ c.file = x.file
        /\ c.at = x.header.content_start + offset
        /\ c.remaining = remaining /\ c.got = <<>> /\ c.from = offset
        /\ c.to = offset + remaining
    BY <1>1
  <1>4. c.got \in Seq({ContentCell(k) : k \in 0 .. Content - 1}) /\ Len(c.got) = 0
    BY <1>3
  <1>5. c \in Reading
    <2>1. offset + remaining \in Nat /\ c.at \in Nat
      BY <1>2, <1>3
    <2>2. <<>> \in Seq({ContentCell(k) : k \in 0 .. Content - 1})
      OBVIOUS
    <2> QED BY <1>1, <1>2, <2>1, <2>2, <1>3 DEF Reading
  <1>6. ReadingSound(c)
    <2>1. c.at = file[c.file][3][2] + c.from + Len(c.got)
      BY <1>2, <1>3, <1>4
    <2>2. c.from + Len(c.got) + c.remaining = c.to /\ c.to <= Content
      BY <1>3, <1>4
    <2>3. \A k \in 1 .. Len(c.got) : FALSE
      BY <1>4
    <2> QED BY <1>2, <1>3, <2>1, <2>2, <2>3 DEF ReadingSound
  <1>7. \A y : CallSound(c, y)
    BY <1>3, <1>6 DEF CallSound
  <1>8. PICK y : y = IF owned THEN None ELSE x
    OBVIOUS
  <1>9. /\ y \in TuxObject \cup {None} /\ HandleSound(y)
        /\ handle' = [handle EXCEPT ![h] = y]
    BY <1>1, <1>2, <1>8 DEF StartReading, HandleSound, InPlaceIInv, Types
  <1>10. /\ call' = [call EXCEPT ![h] = c] /\ file' = file /\ current' = current
         /\ fresh' \subseteq Handles
    <2>1. call' = [call EXCEPT ![h] = c]
      BY <1>1 DEF StartReading, Begin
    <2>2. fresh' \subseteq fresh
      BY DEF StartReading
    <2> QED BY <2>1, <2>2 DEF StartReading, InPlaceIInv, Types
  <1>11. c \in Calls
    BY <1>5 DEF Calls
  <1> QED BY <1>7, <1>9, <1>10, <1>11, OneChanges

\* content_range_reader bounds what is asked for by what there is.
LEMMA ReaderStep ==
    ASSUME InPlaceIInv, NEW h \in Handles, NEW owned \in BOOLEAN,
           \/ ReadStored(h, owned)
           \/ \E offset \in 0 .. Content + 1,
                 length \in 0 .. Content + 1 \cup {None} :
                 ReadRange(h, offset, length, owned)
    PROVE  InPlaceIInv'
  <1>1. PICK header : header = handle[h].header
    OBVIOUS
  <1>2. header.content_length = Content
    <2>1. Ready(h)
      BY DEF ReadStored, ReadRange
    <2> QED BY <1>1, <2>1
            DEF Ready, InPlaceIInv, HandleSound, Placed, Place, ReadHeader,
                FilesSound, BytesSound
  <1>3. CASE ReadStored(h, owned)
    <2>1. StartReading(h, 0, Content, None, owned)
      BY <1>1, <1>2, <1>3 DEF ReadStored
    <2> QED BY <2>1, Constants, StartStep
  <1>4. ASSUME NEW offset \in 0 .. Content + 1,
               NEW length \in 0 .. Content + 1 \cup {None},
               ReadRange(h, offset, length, owned)
        PROVE  InPlaceIInv'
    <2>1. PICK remaining : remaining = RangeLength(header, offset, length)
      OBVIOUS
    <2>2. remaining # None /\ StartReading(h, offset, remaining, length, owned)
      BY <1>1, <1>4, <2>1 DEF ReadRange
    <2>3. /\ offset <= Content
          /\ remaining = IF length = None THEN Content - offset ELSE length
          /\ ~(remaining > Content - offset)
      <3>1. PICK asked : asked = IF length = None THEN Content - offset ELSE length
        OBVIOUS
      <3>2. remaining = IF header.compressed \/ offset > Content THEN None
                        ELSE IF asked > Content - offset THEN None ELSE asked
        BY <1>2, <2>1, <3>1 DEF RangeLength
      <3>3. ~(offset > Content) /\ ~(asked > Content - offset) /\ remaining = asked
        BY <2>2, <3>2
      <3>4. offset \in Nat /\ Content \in Nat
        BY Constants
      <3> QED BY <3>1, <3>3, <3>4
    <2>4. CASE length = None
      <3>1. remaining = Content - offset
        BY <2>3, <2>4
      <3>2. /\ remaining \in Nat /\ offset \in Nat
            /\ offset + remaining = Content
        BY <2>3, <3>1, Constants
      <3> QED BY <2>2, <2>4, <3>2, Constants, StartStep
    <2>5. CASE length # None
      <3>1. remaining = length /\ length \in Nat
        BY <2>3, <2>5, Constants
      <3>2. /\ offset \in Nat /\ offset + remaining <= Content
        BY <2>3, <3>1, Constants
      <3> QED BY <2>2, <2>5, <3>1, <3>2, StartStep
    <2> QED BY <2>4, <2>5
  <1> QED BY <1>3, <1>4

\* A read goes on where the last one ended.
LEMMA ReadSomeStep ==
    ASSUME InPlaceIInv, NEW h \in Handles, NEW n \in 1 .. Content, ReadSome(h, n)
    PROVE  InPlaceIInv'
  <1>1. PICK c, d, bytes, cells :
           /\ c = call[h] /\ bytes = file[c.file]
           /\ cells = [k \in 1 .. n |-> bytes[c.at + k - 1]]
           /\ d = [c EXCEPT !.at = @ + n, !.remaining = @ - n, !.got = @ \o cells]
    OBVIOUS
  <1>2. /\ c \in Reading /\ ReadingSound(c) /\ n <= c.remaining
        /\ call' = [call EXCEPT ![h] = d] /\ handle' = handle
        /\ file' = file /\ current' = current /\ fresh' \subseteq Handles
    BY <1>1, KindOfCall
    DEF ReadSome, Begin, historyVars, InPlaceIInv, Types, CallSound
  <1> DEFINE Cells == {ContentCell(k) : k \in 0 .. Content - 1}
  <1>3. /\ c.at \in Nat /\ c.remaining \in Nat /\ c.from \in Nat
        /\ c.got \in Seq(Cells) /\ Len(c.got) \in Nat /\ c.file \in 1 .. current
        /\ c.kind = "reading" /\ c.to \in Nat /\ n \in Nat
    BY <1>2, Constants DEF Reading, ReadingSound
  <1>4. PICK cs, from, len, left :
           cs = bytes[3][2] /\ from = c.from /\ len = Len(c.got) /\ left = c.remaining
    OBVIOUS
  <1>5. /\ BytesSound(bytes) /\ cs \in Nat /\ from \in Nat /\ len \in Nat
        /\ left \in Nat /\ n \in Nat /\ n <= left
        /\ c.at = cs + from + len
        /\ from + len + left = c.to /\ c.to <= Content
    <2>1. BytesSound(bytes)
      BY <1>1, <1>3 DEF InPlaceIInv, FilesSound
    <2>2. cs \in Nat
      BY <1>4, <2>1, Constants DEF BytesSound
    <2> QED BY <1>1, <1>2, <1>3, <1>4, <2>1, <2>2 DEF ReadingSound
  <1>6. ASSUME NEW k \in 1 .. n
        PROVE  /\ from + len + k - 1 \in 0 .. Content - 1
               /\ cells[k] = ContentCell(from + len + k - 1)
    <2>1. PICK at : at = from + len + k - 1
      OBVIOUS
    <2>2. at \in 0 .. Content - 1 /\ cs + from + len + k - 1 = cs + at
      BY <1>5, <2>1, Constants
    <2>3. bytes[cs + at] = ContentCell(at)
      BY <1>4, <1>5, <2>2 DEF BytesSound
    <2>4. cells[k] = bytes[cs + from + len + k - 1]
      BY <1>1, <1>5
    <2> QED BY <2>1, <2>2, <2>3, <2>4
  <1>7. cells \in Seq(Cells) /\ Len(cells) = n
    <2>1. \A k \in 1 .. n : cells[k] \in Cells
      BY <1>6
    <2>2. cells = [k \in 1 .. n |-> cells[k]]
      BY <1>1
    <2> HIDE DEF Cells
    <2>3. cells \in [1 .. n -> Cells]
      BY <2>1, <2>2
    <2> QED BY <1>3, <2>3
  <1>8. /\ d.kind = "reading" /\ d.file = c.file /\ d.at = cs + from + len + n
        /\ d.remaining = left - n /\ d.got = c.got \o cells
        /\ d.from = from /\ d.to = c.to /\ DOMAIN d = DOMAIN c
    <2>1. /\ d.kind = c.kind /\ d.file = c.file /\ d.at = c.at + n
          /\ d.remaining = c.remaining - n /\ d.got = c.got \o cells
          /\ d.from = c.from /\ d.to = c.to /\ DOMAIN d = DOMAIN c
      BY <1>1, <1>2 DEF Reading
    <2> QED BY <1>3, <1>4, <1>5, <2>1
  <1>9. /\ d.got \in Seq(Cells) /\ Len(d.got) = len + n
        /\ \A k \in 1 .. len : d.got[k] = c.got[k]
        /\ \A k \in 1 .. n : d.got[len + k] = cells[k]
    <2>1. PICK s, r : s = c.got /\ r = cells
      OBVIOUS
    <2>2. s \in Seq(Cells) /\ r \in Seq(Cells) /\ Len(s) = len /\ Len(r) = n
      BY <1>3, <1>4, <1>7, <2>1
    <2> HIDE DEF Cells
    <2>3. s \o r \in Seq(Cells) /\ Len(s \o r) = len + n
      BY <2>2
    <2>4. \A k \in 1 .. len : (s \o r)[k] = s[k]
      BY <1>5, <2>2
    <2>5. \A k \in 1 .. n : (s \o r)[len + k] = r[k]
      BY <1>5, <2>2
    <2> QED BY <1>8, <2>1, <2>3, <2>4, <2>5
  <1>10. \A k \in 1 .. Len(d.got) : d.got[k] = ContentCell(d.from + k - 1)
    <2> SUFFICES ASSUME NEW k \in 1 .. len + n
                 PROVE  d.got[k] = ContentCell(from + k - 1)
      BY <1>8, <1>9
    <2>1. CASE k <= len
      <3>1. k \in 1 .. len
        BY <1>5, <2>1
      <3>2. c.got[k] = ContentCell(from + k - 1)
        BY <1>2, <1>4, <3>1 DEF ReadingSound
      <3> QED BY <1>9, <3>1, <3>2
    <2>2. CASE ~(k <= len)
      <3>1. PICK j : j = k - len
        OBVIOUS
      <3>2. j \in 1 .. n /\ from + len + j - 1 = from + k - 1 /\ len + j = k
        BY <1>5, <2>2, <3>1
      <3>3. d.got[len + j] = cells[j]
        BY <1>9, <3>2
      <3>4. cells[j] = ContentCell(from + len + j - 1)
        BY <1>6, <3>2
      <3> QED BY <3>2, <3>3, <3>4
    <2> QED BY <2>1, <2>2
  <1>11. d \in Reading
    <2>1. d.at \in Nat /\ d.remaining \in Nat
      BY <1>5, <1>8
    <2>2. d.got \in Seq({ContentCell(k) : k \in 0 .. Content - 1})
      BY <1>9
    <2> QED BY <1>1, <1>2, <1>8, <2>1, <2>2 DEF Reading
  <1>12. ReadingSound(d)
    <2>1. /\ cs + from + len + n = cs + from + (len + n)
          /\ from + (len + n) + (left - n) = c.to
      BY <1>5
    <2>2. d.file = c.file /\ c.file \in 1 .. current /\ file[d.file][3][2] = cs
      BY <1>1, <1>3, <1>4, <1>8
    <2> QED BY <1>5, <1>8, <1>9, <1>10, <2>1, <2>2 DEF ReadingSound
  <1>13. CallSound(d, handle[h])
    BY <1>8, <1>12 DEF CallSound
  <1>14. d \in Calls
    BY <1>11 DEF Calls
  <1> QED BY <1>2, <1>13, <1>14, CallChanges

-----------------------------------------------------------------------------
(* The invariant holds.                                                    *)

\* An object as finish wrote it.
LEMMA InitSound == Init => InPlaceIInv
  <1> SUFFICES ASSUME Init PROVE InPlaceIInv
    OBVIOUS
  <1>1. PICK o \in Created :
           LET layout == compute(o.layout, Size[o.metadata], Size[o.tags])
           IN  /\ layout # None
               /\ file = [f \in Files |->
                      NewFile(Header(o.compressed, layout, Content),
                              o.metadata, o.tags,
                              [k \in 0 .. Content - 1 |-> ContentCell(k)])]
    BY DEF Init
  <1>2. PICK op, m, t, compressed, content :
           /\ op = o.layout /\ m = o.metadata /\ t = o.tags
           /\ compressed = o.compressed
           /\ content = [k \in 0 .. Content - 1 |-> ContentCell(k)]
    OBVIOUS
  <1>3. /\ op \in LayoutOptions /\ m \in Sections /\ t \in Sections
        /\ compressed \in BOOLEAN
    BY <1>2, InPlaceAssumption DEF Sections
  <1>4. PICK header : header = Header(compressed, compute(op, Size[m], Size[t]), Content)
    OBVIOUS
  <1>5. /\ header \in ObjectHeader
        /\ HeaderSize + Size[m] <= header.tags_start
        /\ header.tags_start <= header.content_start
        /\ header.content_length = Content
    BY <1>1, <1>2, <1>3, <1>4, NewHeader
  <1>6. BytesSound(NewFile(header, m, t, content))
    BY <1>2, <1>3, <1>5, NewFileSound
  <1>7. file = [f \in Files |-> NewFile(header, m, t, content)]
    BY <1>1, <1>2, <1>4
  <1>8. current = 1 /\ 1 \in Files
    BY InPlaceAssumption DEF Init, Files
  <1>9. FilesSound
    <2>1. ASSUME NEW f \in 1 .. current PROVE BytesSound(file[f])
      <3>1. f = 1 /\ f \in Files
        BY <1>8
      <3> QED BY <1>6, <1>7, <3>1
    <2> QED BY <2>1 DEF FilesSound
  <1>10. Types
    BY <1>7, <1>8, IdleIsSound DEF Types, Init
  <1>11. ASSUME NEW h \in Handles
         PROVE  HandleSound(handle[h]) /\ CallSound(call[h], handle[h])
    <2>1. handle[h] = None /\ call[h] = Idle
      BY DEF Init
    <2> QED BY <2>1, IdleIsSound DEF HandleSound
  <1> QED BY <1>9, <1>10, <1>11 DEF InPlaceIInv

LEMMA NextSound == InPlaceIInv /\ [Next]_vars => InPlaceIInv'
  <1>1. ASSUME InPlaceIInv, UNCHANGED vars PROVE InPlaceIInv'
    BY <1>1
    DEF vars, historyVars, InPlaceIInv, Types, FilesSound, HandleSound, CallSound,
        WritingSound, ReadingSound, Placed, Place, ReadHeader, BytesSound
  <1>2. ASSUME InPlaceIInv, NEW h \in Handles,
               \/ OpenHeader(h) \/ OpenMetadata(h) \/ OpenFails(h) \/ Close(h)
               \/ WriteFails(h) \/ Written(h) \/ Cancel(h) \/ SetFails(h)
               \/ StopReading(h)
        PROVE  InPlaceIInv'
    BY <1>2, OpeningStep, EndingStep
  <1>3. ASSUME InPlaceIInv, NEW h \in Handles, UpdateRefused(h) PROVE InPlaceIInv'
    BY <1>1, <1>3 DEF UpdateRefused
  <1>4. ASSUME InPlaceIInv, NEW h \in Handles,
               \/ \E m \in Metadata, t \in Tags : UpdateInPlace(h, m, t)
               \/ WriteCell(h)
        PROVE  InPlaceIInv'
    BY <1>4, UpdateStep, WriteCellStep
  <1>5. ASSUME InPlaceIInv, NEW h \in Handles,
               \/ \E m \in Metadata : SetMetadata(h, m)
               \/ \E t \in Tags : SetTags(h, t)
               \/ \E m \in Metadata, t \in Tags : SetSections(h, m, t)
               \/ Replace(h)
        PROVE  InPlaceIInv'
    BY <1>5, SetterStep, ReplaceStep
  <1>6. ASSUME InPlaceIInv, NEW h \in Handles,
               \/ \E owned \in BOOLEAN : ReadStored(h, owned)
               \/ \E offset \in 0 .. Content + 1,
                     length \in 0 .. Content + 1 \cup {None}, owned \in BOOLEAN :
                     ReadRange(h, offset, length, owned)
               \/ \E n \in 1 .. Content : ReadSome(h, n)
        PROVE  InPlaceIInv'
    BY <1>6, ReaderStep, ReadSomeStep
  <1> QED BY <1>1, <1>2, <1>3, <1>4, <1>5, <1>6 DEF Next

\* However in-place updates, cancelled and failed ones too, atomic setters,
\* opens and reads interleave (object.rs:178-303, async_io.rs), every file has
\* its content where any header read from it says, and every handle, update and
\* reader agrees with its file about that.
THEOREM InPlaceInvariant == Spec => []InPlaceIInv
  BY InitSound, NextSound, PTL DEF Spec

-----------------------------------------------------------------------------
(* What it means.                                                          *)

LEMMA InvariantTypes == InPlaceIInv => TypeOK
  <1> SUFFICES ASSUME InPlaceIInv PROVE TypeOK
    OBVIOUS
  <1>1. ASSUME NEW h \in Handles, handle[h] # None
        PROVE  handle[h] \in TuxObject /\ handle[h].file \in 1 .. current
    BY <1>1 DEF InPlaceIInv, Types, HandleSound, Placed
  <1>2. ASSUME NEW h \in Handles
        PROVE  CASE call[h].kind = "opening" ->
                      call[h].file \in 1 .. current /\ call[h].header \in ObjectHeader
                 [] call[h].kind = "writing" ->
                      /\ call[h].file \in 1 .. current
                      /\ call[h].header \in ObjectHeader
                      /\ call[h].at \in 0 .. call[h].header.content_start
                 [] call[h].kind = "setting" -> handle[h] # None
                 [] call[h].kind = "reading" ->
                      call[h].file \in 1 .. current /\ call[h].remaining \in Nat
                 [] call[h].kind = "idle" -> call[h] = Idle
    <2>1. PICK c : c = call[h]
      OBVIOUS
    <2>2. c \in Calls /\ CallSound(c, handle[h])
      BY <2>1 DEF InPlaceIInv, Types
    <2>3. c.kind = "opening" => c.file \in 1 .. current /\ c.header \in ObjectHeader
      BY <2>2, KindOfCall DEF CallSound, Placed, Opening
    <2>4. c.kind = "writing" => /\ c.file \in 1 .. current
                                /\ c.header \in ObjectHeader
                                /\ c.at \in 0 .. c.header.content_start
      <3> SUFFICES ASSUME c.kind = "writing"
                   PROVE  /\ c.file \in 1 .. current
                          /\ c.header \in ObjectHeader
                          /\ c.at \in 0 .. c.header.content_start
        OBVIOUS
      <3>1. c \in Writing /\ WritingSound(c, handle[h])
        BY <2>2, KindOfCall DEF CallSound
      <3>2. c.header \in ObjectHeader /\ c.at \in Nat
        BY <3>1 DEF Writing
      <3>3. c.file \in 1 .. current /\ c.at <= c.header.content_start
        BY <3>1 DEF WritingSound, Placed
      <3>4. c.header.content_start \in Nat
        BY <3>2 DEF ObjectHeader
      <3> QED BY <3>2, <3>3, <3>4
    <2>5. c.kind = "setting" => handle[h] # None
      BY <2>2 DEF CallSound
    <2>6. c.kind = "reading" => c.file \in 1 .. current /\ c.remaining \in Nat
      BY <2>2, KindOfCall DEF CallSound, ReadingSound, Reading
    <2>7. c.kind = "idle" => c = Idle
      BY <2>2, KindOfCall
    <2>8. c.kind \in {"idle", "opening", "writing", "setting", "reading"}
      BY <2>2, KindOfCall
    <2> QED BY <2>1, <2>3, <2>4, <2>5, <2>6, <2>7, <2>8
  <1>3. current \in Files /\ fresh \subseteq Handles
    BY DEF InPlaceIInv, Types
  <1> QED BY <1>1, <1>2, <1>3 DEF TypeOK

\* Offsets fit their fields whatever parts of two headers are read together,
\* and no update writes past the prefix.
THEOREM InPlaceTypeCorrect == Spec => []TypeOK
  BY InPlaceInvariant, InvariantTypes, PTL

LEMMA InvariantReachable == InPlaceIInv => ContentReachable
  <1> SUFFICES ASSUME InPlaceIInv PROVE ContentReachable
    OBVIOUS
  <1>1. ASSUME NEW f \in 1 .. current
        PROVE  /\ ReadHeader(file[f]).content_length = Content
               /\ \A k \in 0 .. Content - 1 :
                     /\ ReadHeader(file[f]).content_start + k \in DOMAIN file[f]
                     /\ file[f][ReadHeader(file[f]).content_start + k]
                          = ContentCell(k)
    <2>1. PICK bytes, cs : bytes = file[f] /\ cs = bytes[3][2]
      OBVIOUS
    <2>2. BytesSound(bytes)
      BY <2>1 DEF InPlaceIInv, FilesSound
    <2>3. /\ ReadHeader(bytes).content_length = Content
          /\ ReadHeader(bytes).content_start = cs
      BY <2>1, <2>2 DEF ReadHeader, BytesSound
    <2>4. \A k \in 0 .. Content - 1 : /\ cs + k \in DOMAIN bytes
                                      /\ bytes[cs + k] = ContentCell(k)
      <3>1. /\ cs \in HeaderSize .. U32Max
            /\ DOMAIN bytes = 0 .. cs + Content - 1
            /\ \A k \in 0 .. Content - 1 : bytes[cs + k] = ContentCell(k)
        BY <2>1, <2>2 DEF BytesSound
      <3> QED BY <3>1, Constants
    <2> QED BY <2>1, <2>3, <2>4
  <1>2. ASSUME NEW h \in Handles, NEW f \in 1 .. current,
               handle[h] # None, On(h, f)
        PROVE  Place(handle[h].header) = Place(ReadHeader(file[f]))
    BY <1>2 DEF On, InPlaceIInv, HandleSound, Placed
  <1>3. ASSUME NEW h \in Handles, NEW f \in 1 .. current,
               handle[h] = None, On(h, f)
        PROVE  Place(call[h].header) = Place(ReadHeader(file[f]))
    BY <1>3 DEF On, InPlaceIInv, CallSound, Placed
  <1> QED BY <1>1, <1>2, <1>3 DEF ContentReachable

\* "Without touching the content" (object.rs:211-216), for any number of
\* updates that overlap, fail or are cancelled.
THEOREM ContentStaysReachable == Spec => []ContentReachable
  BY InPlaceInvariant, InvariantReachable, PTL

LEMMA InvariantRanges == InPlaceIInv => RangesExact
  <1> SUFFICES ASSUME InPlaceIInv, NEW h \in Handles, call[h].kind = "reading"
               PROVE  LET c == call[h]
                      IN  /\ c.to <= Content
                          /\ Len(c.got) \in 0 .. c.to - c.from
                          /\ Len(c.got) + c.remaining = c.to - c.from
                          /\ \A k \in 1 .. Len(c.got) :
                                c.got[k] = ContentCell(c.from + k - 1)
    BY DEF RangesExact
  <1>1. PICK c, len : c = call[h] /\ len = Len(c.got)
    OBVIOUS
  <1>2. c \in Reading /\ ReadingSound(c)
    BY <1>1, KindOfCall DEF InPlaceIInv, Types, CallSound
  <1>3. /\ c.from \in Nat /\ c.to \in Nat /\ c.remaining \in Nat /\ len \in Nat
    BY <1>1, <1>2 DEF Reading
  <1>4. /\ c.from + len + c.remaining = c.to /\ c.to <= Content
        /\ \A k \in 1 .. len : c.got[k] = ContentCell(c.from + k - 1)
    BY <1>1, <1>2 DEF ReadingSound
  <1>5. len \in 0 .. c.to - c.from /\ len + c.remaining = c.to - c.from
    BY <1>3, <1>4
  <1> QED BY <1>1, <1>4, <1>5

\* "Reads stop at the end of the content" (reader.rs:5-6): a reader gives the
\* part that was asked for, whatever happens to the object under it.
THEOREM RangesStayExact == Spec => []RangesExact
  BY InPlaceInvariant, InvariantRanges, PTL

-----------------------------------------------------------------------------
(* What is stored.                                                         *)

\* The cells hold two sections, where their header says.
Holds(bytes, m, t) ==
    LET header == ReadHeader(bytes)
    IN  /\ HeaderSize + Size[m] <= header.tags_start
        /\ header.tags_start + Size[t] <= header.content_start
        /\ \A k \in 0 .. Size[m] - 1 : bytes[HeaderSize + k] = SectionCell(m, k)
        /\ \A k \in 0 .. Size[t] - 1 : bytes[header.tags_start + k] = SectionCell(t, k)

\* Of two updates of a file that run together, neither was alone.
UpdatesApart ==
    \A g, h \in Handles :
        ( /\ g # h /\ call[g].kind = "writing" /\ call[h].kind = "writing"
          /\ call[g].file = call[h].file ) => ~call[g].alone

\* What an update that met no other one has written is there.
Begun(c) ==
    /\ c.header.tags_start + Size[c.tags] <= c.header.content_start
    /\ c.alone => \A k \in 0 .. c.at - 1 :
           file[c.file][k] = encode_prefix(c.header, c.metadata, c.tags)[k]

UpdatesBegun == \A h \in Handles : call[h].kind = "writing" => Begun(call[h])

\* A settled file is not being updated.
SettledSound ==
    \A f \in 1 .. current : settled[f] # None =>
        /\ Updating(f) = {}
        /\ settled[f] \in SectionPair
        /\ Holds(file[f], settled[f].metadata, settled[f].tags)

\* A handle that knows what a settled file holds, and one that will.
Knows(x) ==
    /\ settled[x.file] # None
    /\ x.metadata = settled[x.file].metadata
    /\ x.header = ReadHeader(file[x.file])

WillKnow(c) ==
    /\ c.kind = "opening"
    /\ settled[c.file] # None
    /\ c.header = ReadHeader(file[c.file])

FreshSound ==
    \A h \in fresh : /\ handle[h] # None => Knows(handle[h])
                     /\ handle[h] = None => WillKnow(call[h])

\* Who opens the object does not hold it yet.
OpeningUnheld ==
    \A h \in Handles : call[h].kind = "opening" => handle[h] = None

SettledIInv ==
    /\ DOMAIN settled = Files
    /\ UpdatesApart /\ UpdatesBegun /\ SettledSound /\ FreshSound /\ OpeningUnheld

LEMMA BytesOfOffset ==
    ASSUME NEW n \in Nat
    PROVE  (n % ByteBase) + ByteBase * (n \div ByteBase) = n
  <1>1. ByteBase \in Nat /\ ByteBase >= 1
    BY Constants
  <1> QED BY <1>1, SMTT(30)

\* A file whose prefix is what encode_prefix gives for a header has that header,
\* and holds the sections.
LEMMA WholePrefix ==
    ASSUME NEW bytes, NEW header \in ObjectHeader,
           NEW m \in Sections, NEW t \in Sections,
           HeaderSize + Size[m] <= header.tags_start,
           header.tags_start + Size[t] <= header.content_start,
           \A k \in 0 .. header.content_start - 1 :
               bytes[k] = encode_prefix(header, m, t)[k]
    PROVE  ReadHeader(bytes) = header /\ Holds(bytes, m, t)
  <1> DEFINE cells == encode_prefix(header, m, t)
             ts == header.tags_start
             cs == header.content_start
  <1>1. /\ ts \in Nat /\ cs \in Nat /\ Size[m] \in Nat /\ Size[t] \in Nat
        /\ HeaderSize \in Nat /\ HeaderSize >= 4 /\ ts <= cs
        /\ header.compressed \in BOOLEAN /\ header.content_length \in Nat
    BY Constants DEF ObjectHeader
  <1>2. /\ cells[0] = <<"magic", header.compressed>>
        /\ cells[1] = <<"low", ts % ByteBase>>
        /\ cells[2] = <<"high", ts \div ByteBase>>
        /\ cells[3] = <<"place", cs, header.content_length>>
    BY <1>1, PrefixCells
  <1>3. ASSUME NEW k \in 0 .. Size[m] - 1
        PROVE  cells[HeaderSize + k] = SectionCell(m, k)
    <2>1. PICK j : j = HeaderSize + k
      OBVIOUS
    <2>2. /\ j \in 0 .. cs - 1 /\ ~(j < HeaderSize)
          /\ j \in HeaderSize .. HeaderSize + Size[m] - 1
          /\ j \notin ts .. ts + Size[t] - 1
          /\ j - HeaderSize = k
      BY <1>1, <2>1
    <2> QED BY <2>1, <2>2 DEF encode_prefix
  <1>4. ASSUME NEW k \in 0 .. Size[t] - 1
        PROVE  cells[ts + k] = SectionCell(t, k)
    <2>1. PICK j : j = ts + k
      OBVIOUS
    <2>2. /\ j \in 0 .. cs - 1 /\ ~(j < HeaderSize)
          /\ j \notin HeaderSize .. HeaderSize + Size[m] - 1
          /\ j \in ts .. ts + Size[t] - 1
          /\ j - ts = k
      BY <1>1, <2>1
    <2> QED BY <2>1, <2>2 DEF encode_prefix
  <1>5. \A k \in 0 .. cs - 1 : bytes[k] = cells[k]
    OBVIOUS
  <1> HIDE DEF cells
  <1>6. ReadHeader(bytes) = header
    <2>1. {0, 1, 2, 3} \subseteq 0 .. cs - 1
      BY <1>1
    <2>2. /\ bytes[0][2] = header.compressed
          /\ bytes[1][2] = ts % ByteBase /\ bytes[2][2] = ts \div ByteBase
          /\ bytes[3][2] = cs /\ bytes[3][3] = header.content_length
      BY <1>2, <1>5, <2>1
    <2>3. bytes[1][2] + ByteBase * bytes[2][2] = ts
      BY <1>1, <2>2, BytesOfOffset
    <2>4. ReadHeader(bytes) = [compressed |-> header.compressed, tags_start |-> ts,
                               content_start |-> cs,
                               content_length |-> header.content_length]
      BY <2>2, <2>3 DEF ReadHeader
    <2> QED BY <2>4 DEF ObjectHeader
  <1>7. \A k \in 0 .. Size[m] - 1 : bytes[HeaderSize + k] = SectionCell(m, k)
    <2> SUFFICES ASSUME NEW k \in 0 .. Size[m] - 1
                 PROVE  bytes[HeaderSize + k] = SectionCell(m, k)
      OBVIOUS
    <2>1. HeaderSize + k \in 0 .. cs - 1
      BY <1>1
    <2> QED BY <1>3, <1>5, <2>1
  <1>8. \A k \in 0 .. Size[t] - 1 : bytes[ts + k] = SectionCell(t, k)
    <2> SUFFICES ASSUME NEW k \in 0 .. Size[t] - 1
                 PROVE  bytes[ts + k] = SectionCell(t, k)
      OBVIOUS
    <2>1. ts + k \in 0 .. cs - 1
      BY <1>1
    <2> QED BY <1>4, <1>5, <2>1
  <1> QED BY <1>6, <1>7, <1>8 DEF Holds

\* Sections decode to themselves, and to nothing else.
LEMMA SectionFound ==
    ASSUME NEW kinds \in {Metadata, Tags}, NEW s \in kinds \cup {Garbage},
           NEW bytes, NEW at, NEW space, Size[s] <= space,
           \A k \in 0 .. Size[s] - 1 : bytes[at + k] = SectionCell(s, k)
    PROVE  ReadSection(bytes, at, space, kinds) = s
  <1> DEFINE Starts(r) == /\ Size[r] <= space
                          /\ \A k \in 0 .. Size[r] - 1 :
                                 bytes[at + k] = SectionCell(r, k)
  <1>1. /\ \A r \in kinds \cup {Garbage} : Size[r] \in Nat \ {0}
        /\ Garbage \notin kinds
    BY InPlaceAssumption DEF Sections
  <1>2. ASSUME NEW r \in kinds, Starts(r) PROVE r = s
    <2>1. 0 \in 0 .. Size[r] - 1 /\ 0 \in 0 .. Size[s] - 1
      BY <1>1
    <2>2. SectionCell(r, 0) = SectionCell(s, 0)
      BY <1>2, <2>1
    <2>3. \A q : <<"zero">> # <<"section", q, 0>>
      OBVIOUS
    <2> QED BY <2>2, <2>3 DEF SectionCell, Zero
  <1>3. CASE s \in kinds
    <2>1. Starts(s)
      OBVIOUS
    <2> HIDE DEF Starts
    <2>2. (CHOOSE r \in kinds : Starts(r)) = s
      BY <1>2, <1>3, <2>1
    <2> QED BY <1>3, <2>1, <2>2 DEF ReadSection, Starts
  <1>4. CASE s = Garbage
    <2>1. \A r \in kinds : ~Starts(r)
      BY <1>1, <1>2, <1>4
    <2> QED BY <1>4, <2>1 DEF ReadSection
  <1> QED BY <1>3, <1>4

\* Open and read_tags find what the file holds.
LEMMA HeldIsFound ==
    ASSUME NEW bytes, BytesSound(bytes), NEW m \in Metadata \cup {Garbage},
           NEW t \in Tags \cup {Garbage}, Holds(bytes, m, t)
    PROVE  /\ OpenedMetadata(bytes, ReadHeader(bytes)) = {m}
           /\ ReadTags(bytes, ReadHeader(bytes)) = {t}
  <1>1. PICK header, ts, cs : /\ header = ReadHeader(bytes)
                              /\ ts = header.tags_start /\ cs = header.content_start
    OBVIOUS
  <1>2. header \in ObjectHeader /\ cs = bytes[3][2]
    <2>1. ReadHeader(bytes).content_start = bytes[3][2]
      BY DEF ReadHeader
    <2> QED BY <1>1, <2>1, HeaderRead
  <1>3. /\ ts \in Nat /\ cs \in Nat /\ HeaderSize \in Nat /\ Content \in Nat
        /\ Size[m] \in Nat \ {0} /\ Size[t] \in Nat \ {0}
        /\ DOMAIN bytes = 0 .. cs + Content - 1
    <2>1. Size[m] \in Nat \ {0} /\ Size[t] \in Nat \ {0}
      BY InPlaceAssumption DEF Sections
    <2>2. DOMAIN bytes = 0 .. cs + Content - 1
      BY <1>2 DEF BytesSound
    <2>3. header.tags_start \in 0 .. U16Max /\ header.content_start \in 0 .. U32Max
      BY <1>2 DEF ObjectHeader
    <2>4. ts \in Nat /\ cs \in Nat
      BY <1>1, <2>3, Constants
    <2> QED BY <2>1, <2>2, <2>4, Constants
  <1>4. /\ HeaderSize + Size[m] <= ts /\ ts + Size[t] <= cs
        /\ \A k \in 0 .. Size[m] - 1 : bytes[HeaderSize + k] = SectionCell(m, k)
        /\ \A k \in 0 .. Size[t] - 1 : bytes[ts + k] = SectionCell(t, k)
    BY <1>1 DEF Holds
  <1>5. OpenedMetadata(bytes, header) = {m}
    <2>1. PICK space : space = ts - HeaderSize
      OBVIOUS
    <2>2. /\ space > 0 /\ ~(space <= 0) /\ Size[m] <= space
          /\ HeaderSize \in DOMAIN bytes
          /\ HeaderSize + space - 1 \in DOMAIN bytes
      BY <1>3, <1>4, <2>1
    <2>3. ReadSection(bytes, HeaderSize, space, Metadata) = m
      BY <1>4, <2>2, SectionFound
    <2>4. InFile(bytes, HeaderSize, space)
      BY <2>2 DEF InFile
    <2> QED BY <1>1, <2>1, <2>2, <2>3, <2>4 DEF OpenedMetadata
  <1>6. ReadTags(bytes, header) = {t}
    <2>1. PICK space : space = cs - ts
      OBVIOUS
    <2>2. /\ space > 0 /\ ~(space = 0) /\ Size[t] <= space
          /\ ts \in DOMAIN bytes /\ ts + space - 1 \in DOMAIN bytes
      BY <1>3, <1>4, <2>1
    <2>3. ReadSection(bytes, ts, space, Tags) = t
      BY <1>4, <2>2, SectionFound
    <2>4. InFile(bytes, ts, space)
      BY <2>2 DEF InFile
    <2> QED BY <1>1, <2>1, <2>2, <2>3, <2>4 DEF ReadTags
  <1> QED BY <1>1, <1>5, <1>6

LEMMA SettledFound ==
    ASSUME InPlaceIInv, SettledIInv, NEW f \in 1 .. current, settled[f] # None
    PROVE  /\ OpenedMetadata(file[f], ReadHeader(file[f])) = {settled[f].metadata}
           /\ ReadTags(file[f], ReadHeader(file[f])) = {settled[f].tags}
           /\ settled[f] \in SectionPair
  <1>1. PICK m, t : m = settled[f].metadata /\ t = settled[f].tags
    OBVIOUS
  <1>2. /\ m \in Metadata \cup {Garbage} /\ t \in Tags \cup {Garbage}
        /\ settled[f] \in SectionPair /\ Holds(file[f], m, t)
        /\ BytesSound(file[f])
    BY <1>1 DEF SettledIInv, SettledSound, SectionPair, InPlaceIInv, FilesSound
  <1>3. PICK bytes : bytes = file[f]
    OBVIOUS
  <1> QED BY <1>1, <1>2, <1>3, HeldIsFound

LEMMA SettledMeans ==
    ASSUME InPlaceIInv, SettledIInv
    PROVE  SettledIsStored /\ FreshHandlesAgree
  <1>1. ASSUME NEW f \in 1 .. current, settled[f] # None
        PROVE  /\ OpenedMetadata(file[f], ReadHeader(file[f])) = {settled[f].metadata}
               /\ ReadTags(file[f], ReadHeader(file[f])) = {settled[f].tags}
               /\ settled[f] \in SectionPair
    BY <1>1, SettledFound
  <1>2. SettledIsStored
    <2> SUFFICES ASSUME NEW f \in 1 .. current, settled[f] # None
                 PROVE  Stored(f) = {settled[f]}
      BY DEF SettledIsStored
    <2>1. PICK m, t : m = settled[f].metadata /\ t = settled[f].tags
      OBVIOUS
    <2>2. Stored(f) = {[metadata |-> m, tags |-> t]}
      BY <1>1, <2>1 DEF Stored
    <2>3. settled[f] = [metadata |-> m, tags |-> t]
      BY <1>1, <2>1 DEF SectionPair
    <2> QED BY <2>2, <2>3
  <1>3. FreshHandlesAgree
    <2> SUFFICES ASSUME NEW h \in fresh, handle[h] # None
                 PROVE  LET f == handle[h].file
                        IN  /\ settled[f] # None
                            /\ handle[h].metadata = settled[f].metadata
                            /\ ReadTags(file[f], handle[h].header) = {settled[f].tags}
      BY DEF FreshHandlesAgree
    <2>1. PICK x : x = handle[h]
      OBVIOUS
    <2>2. Knows(x) /\ x.file \in 1 .. current
      BY <2>1 DEF SettledIInv, FreshSound, InPlaceIInv, Types, HandleSound, Placed
    <2> QED BY <1>1, <2>1, <2>2 DEF Knows
  <1> QED BY <1>2, <1>3

-----------------------------------------------------------------------------
(* What is stored stays true.                                              *)

\* An update gets no further, whoever waits for it.
SameUpdate(c, d) ==
    /\ d.kind = "writing"
    /\ c.file = d.file /\ c.alone = d.alone /\ c.at = d.at
    /\ c.header = d.header /\ c.metadata = d.metadata /\ c.tags = d.tags

\* A step that writes no file and starts or ends no update.
LEMMA QuietStep ==
    ASSUME InPlaceIInv, SettledIInv,
           file' = file, current' = current, settled' = settled,
           \A g \in Handles :
               call'[g].kind = "writing" => SameUpdate(call'[g], call[g]),
           FreshSound', OpeningUnheld'
    PROVE  SettledIInv'
  <1>1. DOMAIN settled' = Files
    BY DEF SettledIInv
  <1>2. UpdatesApart'
    BY DEF SettledIInv, UpdatesApart, SameUpdate
  <1>3. UpdatesBegun'
    BY DEF SettledIInv, UpdatesBegun, Begun, SameUpdate
  <1>4. \A f : Updating(f) = {} => Updating(f)' = {}
    BY DEF Updating, SameUpdate
  <1>5. SettledSound'
    <2> SUFFICES ASSUME NEW f \in 1 .. current, settled[f] # None
                 PROVE  /\ Updating(f)' = {} /\ settled[f] \in SectionPair
                        /\ Holds(file[f], settled[f].metadata, settled[f].tags)
      BY DEF SettledSound, Holds, ReadHeader
    <2> QED BY <1>4 DEF SettledIInv, SettledSound
  <1> QED BY <1>1, <1>2, <1>3, <1>5 DEF SettledIInv

\* Who knew the object still does, and one handle changes its call.
LEMMA OthersQuiet ==
    ASSUME InPlaceIInv, SettledIInv, NEW h \in Handles, NEW x, NEW c,
           file' = file, current' = current, settled' = settled,
           handle' = [handle EXCEPT ![h] = x], call' = [call EXCEPT ![h] = c],
           c.kind = "writing" => SameUpdate(c, call[h]),
           c.kind = "opening" => x = None,
           fresh' \subseteq fresh \cup {h},
           h \in fresh' => (x # None => Knows(x)) /\ (x = None => WillKnow(c))
    PROVE  SettledIInv'
  <1>1. /\ h \in DOMAIN handle /\ h \in DOMAIN call
        /\ handle'[h] = x /\ call'[h] = c
        /\ \A g \in Handles \ {h} : handle'[g] = handle[g] /\ call'[g] = call[g]
    BY DEF InPlaceIInv, Types
  <1>2. FreshSound'
    <2> SUFFICES ASSUME NEW g \in fresh'
                 PROVE  /\ handle'[g] # None => Knows(handle[g])'
                        /\ handle'[g] = None => WillKnow(call[g])'
      BY DEF FreshSound
    <2>1. CASE g = h
      BY <1>1, <2>1 DEF Knows, WillKnow, ReadHeader
    <2>2. CASE g # h
      <3>1. g \in fresh /\ g \in Handles
        BY <2>2 DEF InPlaceIInv, Types
      <3>2. handle'[g] = handle[g] /\ call'[g] = call[g]
        BY <1>1, <2>2, <3>1
      <3>3. /\ handle[g] # None => Knows(handle[g])
            /\ handle[g] = None => WillKnow(call[g])
        BY <3>1 DEF SettledIInv, FreshSound
      <3> QED BY <3>2, <3>3 DEF Knows, WillKnow, ReadHeader
    <2> QED BY <2>1, <2>2
  <1>3. OpeningUnheld'
    BY <1>1 DEF SettledIInv, OpeningUnheld
  <1>4. \A g \in Handles : call'[g].kind = "writing" => SameUpdate(call'[g], call[g])
    BY <1>1 DEF SameUpdate
  <1> QED BY <1>2, <1>3, <1>4, QuietStep

\* Who knows nothing of an object neither holds it nor opens it.
LEMMA FreshKinds ==
    ASSUME SettledIInv, NEW h \in Handles, call[h].kind # "opening", h \in fresh
    PROVE  handle[h] # None /\ Knows(handle[h])
  BY DEF SettledIInv, FreshSound, WillKnow

\* Opening: the header that is read is the settled file's, and so is the
\* metadata.
LEMMA OpeningSettles ==
    ASSUME InPlaceIInv, SettledIInv, NEW h \in Handles,
           OpenHeader(h) \/ OpenMetadata(h) \/ OpenFails(h)
    PROVE  SettledIInv'
  <1>1. CASE OpenHeader(h)
    <2>1. PICK c : c = [kind |-> "opening", file |-> current,
                        header |-> ReadHeader(file[current])]
      OBVIOUS
    <2>2. /\ c.kind = "opening" /\ c.file = current
          /\ c.header = ReadHeader(file[current])
      BY <2>1
    <2>3. /\ handle[h] = None /\ handle' = [handle EXCEPT ![h] = None]
          /\ call' = [call EXCEPT ![h] = c] /\ file' = file /\ current' = current
          /\ settled' = settled
      BY <1>1, <2>1 DEF OpenHeader, Begin, InPlaceIInv, Types
    <2>4. h \notin fresh
      BY <1>1, FreshKinds DEF OpenHeader, Idle
    <2>5. fresh' \subseteq fresh \cup {h} /\ (h \in fresh' => settled[current] # None)
      BY <1>1, <2>4 DEF OpenHeader
    <2>6. h \in fresh' => WillKnow(c)
      BY <2>2, <2>5 DEF WillKnow
    <2> QED BY <2>2, <2>3, <2>5, <2>6, OthersQuiet
  <1>2. CASE OpenMetadata(h)
    <2>1. PICK c : c = call[h]
      OBVIOUS
    <2>2. /\ c.kind = "opening" /\ c \in Opening /\ handle[h] = None
          /\ c.file \in 1 .. current
      BY <1>2, <2>1, KindOfCall
      DEF OpenMetadata, InPlaceIInv, Types, CallSound, Placed, SettledIInv,
          OpeningUnheld
    <2>3. PICK m \in OpenedMetadata(file[c.file], c.header) :
             handle' = [handle EXCEPT ![h] =
                [file |-> c.file, header |-> c.header, metadata |-> m]]
      BY <1>2, <2>1 DEF OpenMetadata
    <2>4. PICK x : x = [file |-> c.file, header |-> c.header, metadata |-> m]
      OBVIOUS
    <2>5. m \in Metadata \cup {Garbage}
      BY <2>3, SectionsRead
    <2>6. x \in TuxObject
      BY <2>2, <2>4, <2>5 DEF TuxObject, Opening
    <2>7. x # None
      BY <2>6, InPlaceAssumption
    <2>8. h \in fresh => Knows(x)
      <3> SUFFICES ASSUME h \in fresh PROVE Knows(x)
        OBVIOUS
      <3>1. settled[c.file] # None /\ c.header = ReadHeader(file[c.file])
        BY <2>1, <2>2 DEF SettledIInv, FreshSound, WillKnow
      <3>2. OpenedMetadata(file[c.file], c.header) = {settled[c.file].metadata}
        BY <2>2, <3>1, SettledFound
      <3> QED BY <2>3, <2>4, <3>1, <3>2 DEF Knows
    <2>9. /\ call' = [call EXCEPT ![h] = Idle] /\ file' = file /\ current' = current
          /\ settled' = settled /\ fresh' = fresh /\ Idle.kind = "idle"
      BY <1>2 DEF OpenMetadata, Return, historyVars, Idle
    <2> QED BY <2>3, <2>4, <2>7, <2>8, <2>9, OthersQuiet
  <1>3. CASE OpenFails(h)
    <2>1. PICK x : x = handle[h]
      OBVIOUS
    <2>2. /\ handle' = [handle EXCEPT ![h] = x] /\ call' = [call EXCEPT ![h] = Idle]
          /\ file' = file /\ current' = current /\ settled' = settled
          /\ fresh' = fresh \ {h} /\ Idle.kind = "idle"
      BY <1>3, <2>1 DEF OpenFails, Return, InPlaceIInv, Types, Idle
    <2> QED BY <2>2, OthersQuiet
  <1> QED BY <1>1, <1>2, <1>3

\* A call begins, goes on or ends that concerns no update and no other handle.
LEMMA CallSettles ==
    ASSUME InPlaceIInv, SettledIInv, NEW h \in Handles, NEW x, NEW c,
           call[h].kind # "opening", c.kind # "opening", c.kind # "writing",
           call' = [call EXCEPT ![h] = c], handle' = [handle EXCEPT ![h] = x],
           file' = file, current' = current, settled' = settled,
           \/ x = handle[h] /\ fresh' = fresh
           \/ x = None /\ fresh' = fresh \ {h}
    PROVE  SettledIInv'
  <1>1. fresh' \subseteq fresh \cup {h}
    OBVIOUS
  <1>2. h \in fresh' => x # None /\ Knows(x)
    BY FreshKinds
  <1> QED BY <1>1, <1>2, OthersQuiet

LEMMA OtherCallsSettle ==
    ASSUME InPlaceIInv, SettledIInv, NEW h \in Handles,
           \/ WriteFails(h) \/ SetFails(h) \/ StopReading(h)
           \/ \E m, t : Set(h, m, t)
           \/ \E offset, remaining, asked, owned :
                 StartReading(h, offset, remaining, asked, owned)
           \/ \E n : ReadSome(h, n)
    PROVE  SettledIInv'
  <1>1. handle = [handle EXCEPT ![h] = handle[h]]
    BY DEF InPlaceIInv, Types
  <1>2. CASE WriteFails(h) \/ SetFails(h) \/ StopReading(h)
    <2>1. /\ call' = [call EXCEPT ![h] = Idle] /\ handle' = handle /\ file' = file
          /\ current' = current /\ settled' = settled /\ fresh' = fresh
          /\ call[h].kind # "opening"
      BY <1>2 DEF WriteFails, SetFails, StopReading, Return, historyVars
    <2>2. Idle.kind = "idle"
      BY DEF Idle
    <2> QED BY <1>1, <2>1, <2>2, CallSettles
  <1>3. CASE \E m, t : Set(h, m, t)
    <2>1. PICK m, t : Set(h, m, t)
      BY <1>3
    <2>2. PICK c : c = [kind |-> "setting", metadata |-> m, tags |-> t]
      OBVIOUS
    <2>3. /\ call' = [call EXCEPT ![h] = c] /\ handle' = handle /\ file' = file
          /\ current' = current /\ settled' = settled /\ fresh' = fresh
          /\ call[h] = Idle
      BY <2>1, <2>2 DEF Set, Begin, Ready, historyVars
    <2>4. Idle.kind = "idle" /\ c.kind = "setting"
      BY <2>2 DEF Idle
    <2> QED BY <1>1, <2>3, <2>4, CallSettles
  <1>4. CASE \E offset, remaining, asked, owned :
                StartReading(h, offset, remaining, asked, owned)
    <2>1. PICK offset, remaining, asked, owned :
             StartReading(h, offset, remaining, asked, owned)
      BY <1>4
    <2>2. PICK c : c = [kind |-> "reading", file |-> handle[h].file,
                 at |-> handle[h].header.content_start + offset,
                 remaining |-> remaining, got |-> <<>>, from |-> offset,
                 to |-> IF asked = None THEN Content ELSE offset + asked]
      OBVIOUS
    <2>3. /\ call' = [call EXCEPT ![h] = c] /\ file' = file
          /\ current' = current /\ settled' = settled /\ call[h] = Idle
      BY <2>1, <2>2 DEF StartReading, Begin, Ready
    <2>4. Idle.kind = "idle" /\ c.kind = "reading"
      BY <2>2 DEF Idle
    <2>5. \/ handle' = [handle EXCEPT ![h] = None] /\ fresh' = fresh \ {h}
          \/ handle' = handle /\ fresh' = fresh
      BY <2>1 DEF StartReading
    <2> QED BY <1>1, <2>3, <2>4, <2>5, CallSettles
  <1>5. CASE \E n : ReadSome(h, n)
    <2>1. PICK n : ReadSome(h, n)
      BY <1>5
    <2>2. PICK c : c = call[h]
      OBVIOUS
    <2>3. PICK d :
             d = [c EXCEPT !.at = @ + n, !.remaining = @ - n,
                    !.got = @ \o [k \in 1 .. n |-> file[c.file][c.at + k - 1]]]
      OBVIOUS
    <2>4. /\ call' = [call EXCEPT ![h] = d] /\ handle' = handle /\ file' = file
          /\ current' = current /\ settled' = settled /\ fresh' = fresh
          /\ c.kind = "reading"
      BY <2>1, <2>2, <2>3 DEF ReadSome, Begin, historyVars
    <2>5. d.kind = "reading"
      <3>1. c \in Reading
        BY <2>2, <2>4, KindOfCall DEF InPlaceIInv, Types
      <3> QED BY <2>3, <2>4, <3>1 DEF Reading
    <2> QED BY <1>1, <2>2, <2>4, <2>5, CallSettles
  <1> QED BY <1>2, <1>3, <1>4, <1>5

\* Cancelling changes nothing of an update but who waits for it.
LEMMA LettingGoSettles ==
    ASSUME InPlaceIInv, SettledIInv, NEW h \in Handles, Close(h) \/ Cancel(h)
    PROVE  SettledIInv'
  <1>1. CASE Close(h)
    <2>1. PICK c : c = call[h]
      OBVIOUS
    <2>2. /\ call' = [call EXCEPT ![h] = c] /\ handle' = [handle EXCEPT ![h] = None]
          /\ file' = file /\ current' = current /\ settled' = settled
          /\ fresh' = fresh \ {h}
          /\ c = Idle \/ c.kind = "writing"
      BY <1>1, <2>1 DEF Close, InPlaceIInv, Types
    <2>3. c.kind = "writing" => SameUpdate(c, call[h])
      BY <2>1 DEF SameUpdate
    <2>4. fresh' \subseteq fresh \cup {h} /\ h \notin fresh'
      BY <2>2
    <2> QED BY <2>2, <2>3, <2>4, OthersQuiet
  <1>2. CASE Cancel(h)
    <2>1. PICK c, d, x : /\ c = call[h] /\ d = [c EXCEPT !.waited = FALSE]
                         /\ x = handle[h]
      OBVIOUS
    <2>2. /\ call' = [call EXCEPT ![h] = d] /\ handle' = [handle EXCEPT ![h] = x]
          /\ file' = file /\ current' = current /\ settled' = settled
          /\ fresh' = fresh /\ c.kind = "writing"
      BY <1>2, <2>1 DEF Cancel, Begin, historyVars, InPlaceIInv, Types
    <2>3. SameUpdate(d, call[h]) /\ d.kind = "writing"
      <3>1. c \in Writing
        BY <2>1, <2>2, KindOfCall DEF InPlaceIInv, Types
      <3> QED BY <2>1, <2>2, <3>1 DEF Writing, SameUpdate
    <2>4. h \in fresh => x # None /\ Knows(x)
      BY <2>1, <2>2, FreshKinds
    <2> QED BY <2>2, <2>3, <2>4, OthersQuiet
  <1> QED BY <1>1, <1>2

\* An update begins: the file is settled no more, and whoever is on it does not
\* know what it will hold.
LEMMA UpdateSettles ==
    ASSUME InPlaceIInv, SettledIInv, NEW h \in Handles,
           NEW m \in Metadata, NEW t \in Tags, UpdateInPlace(h, m, t)
    PROVE  SettledIInv'
  <1>1. PICK c \in Writing :
           /\ c.kind = "writing" /\ c.at = 0 /\ c.file = handle[h].file
           /\ c.tags = t /\ c.alone = (Updating(c.file) = {})
           /\ c.header.tags_start + Size[t] <= c.header.content_start
           /\ CallSound(c, handle[h])
           /\ call' = [g \in Handles |->
                          IF g = h THEN c
                          ELSE IF g \in Updating(c.file)
                               THEN [call[g] EXCEPT !.alone = FALSE]
                               ELSE call[g]]
    BY UpdateBegins
  <1>2. PICK f : f = c.file
    OBVIOUS
  <1>3. /\ file' = file /\ current' = current /\ handle' = handle
        /\ settled' = [settled EXCEPT ![f] = None]
        /\ fresh' = {g \in fresh : ~On(g, f)}
        /\ handle[h] # None /\ handle[h].file = f
    BY <1>1, <1>2 DEF UpdateInPlace, Ready
  <1>4. /\ call'[h] = c
        /\ \A g \in Handles \ {h} :
              /\ g \notin Updating(f) => call'[g] = call[g]
              /\ g \in Updating(f) =>
                    /\ call[g].kind = "writing" /\ call[g].file = f
                    /\ call'[g].kind = "writing" /\ call'[g].file = f
                    /\ ~call'[g].alone
                    /\ call'[g].header = call[g].header
                    /\ call'[g].tags = call[g].tags
    <2>1. call' = [g \in Handles |->
                      IF g = h THEN c
                      ELSE IF g \in Updating(f)
                           THEN [call[g] EXCEPT !.alone = FALSE]
                           ELSE call[g]]
      BY <1>1, <1>2
    <2>2. ASSUME NEW g \in Handles \ {h}, g \in Updating(f)
          PROVE  /\ call[g].kind = "writing" /\ call[g].file = f
                 /\ call'[g].kind = "writing" /\ call'[g].file = f
                 /\ ~call'[g].alone
                 /\ call'[g].header = call[g].header
                 /\ call'[g].tags = call[g].tags
      <3>1. PICK d, e : d = call[g] /\ e = [d EXCEPT !.alone = FALSE]
        OBVIOUS
      <3>2. d.kind = "writing" /\ d.file = f
        BY <2>2, <3>1 DEF Updating
      <3>3. d \in Writing
        BY <3>1, <3>2, KindOfCall DEF InPlaceIInv, Types
      <3>4. /\ e.kind = "writing" /\ e.file = f /\ ~e.alone
            /\ e.header = d.header /\ e.tags = d.tags
        BY <3>1, <3>2, <3>3 DEF Writing
      <3>5. call'[g] = e
        BY <2>1, <2>2, <3>1
      <3> QED BY <3>1, <3>2, <3>4, <3>5
    <2>3. call'[h] = c /\ \A g \in Handles \ {h} :
                              g \notin Updating(f) => call'[g] = call[g]
      BY <2>1
    <2> QED BY <2>2, <2>3
  <1>5. DOMAIN settled' = Files
    BY <1>3 DEF SettledIInv
  <1>6. UpdatesApart'
    <2> SUFFICES ASSUME NEW a \in Handles, NEW b \in Handles, a # b,
                        call'[a].kind = "writing", call'[b].kind = "writing",
                        call'[a].file = call'[b].file
                 PROVE  ~call'[a].alone
      BY DEF UpdatesApart
    <2>1. CASE a = h
      <3>1. b \in Updating(f)
        BY <1>2, <1>4, <2>1 DEF Updating
      <3> QED BY <1>1, <1>2, <1>4, <2>1, <3>1
    <2>2. CASE a # h /\ a \in Updating(f)
      BY <1>4, <2>2
    <2>3. CASE a # h /\ a \notin Updating(f)
      <3>1. call'[a] = call[a] /\ call[a].file # f
        BY <1>4, <2>3 DEF Updating
      <3>2. b # h /\ b \notin Updating(f)
        BY <1>2, <1>4, <3>1
      <3>3. call'[b] = call[b]
        BY <1>4, <3>2
      <3> QED BY <3>1, <3>3 DEF SettledIInv, UpdatesApart
    <2> QED BY <2>1, <2>2, <2>3
  <1>7. UpdatesBegun'
    <2> SUFFICES ASSUME NEW g \in Handles, call'[g].kind = "writing"
                 PROVE  Begun(call[g])'
      BY DEF UpdatesBegun
    <2>1. CASE g = h
      <3>1. \A k \in 0 .. c.at - 1 : FALSE
        BY <1>1
      <3> QED BY <1>1, <1>4, <2>1, <3>1 DEF Begun
    <2>2. CASE g # h /\ g \in Updating(f)
      <3>1. Begun(call[g])
        BY <1>4, <2>2 DEF SettledIInv, UpdatesBegun
      <3> QED BY <1>4, <2>2, <3>1 DEF Begun
    <2>3. CASE g # h /\ g \notin Updating(f)
      <3>1. call'[g] = call[g]
        BY <1>4, <2>3
      <3>2. Begun(call[g])
        BY <3>1 DEF SettledIInv, UpdatesBegun
      <3> QED BY <1>3, <3>1, <3>2 DEF Begun
    <2> QED BY <2>1, <2>2, <2>3
  <1>8. SettledSound'
    <2> SUFFICES ASSUME NEW e \in 1 .. current, settled'[e] # None
                 PROVE  /\ Updating(e)' = {}
                        /\ settled'[e] \in SectionPair
                        /\ Holds(file[e], settled[e].metadata, settled[e].tags)'
      BY <1>3 DEF SettledSound
    <2>1. e # f /\ settled'[e] = settled[e]
      <3>1. e \in Files
        BY InPlaceAssumption DEF InPlaceIInv, Types, Files
      <3> QED BY <1>3, <3>1 DEF SettledIInv
    <2>2. /\ Updating(e) = {} /\ settled[e] \in SectionPair
          /\ Holds(file[e], settled[e].metadata, settled[e].tags)
      BY <2>1 DEF SettledIInv, SettledSound
    <2>3. Updating(e)' = {}
      <3> SUFFICES ASSUME NEW g \in Handles, call'[g].kind = "writing",
                          call'[g].file = e
                   PROVE  FALSE
        BY DEF Updating
      <3>1. g # h /\ g \notin Updating(f)
        BY <1>2, <1>4, <2>1
      <3>2. call'[g] = call[g]
        BY <1>4, <3>1
      <3> QED BY <2>2, <3>2 DEF Updating
    <2> QED BY <1>3, <2>1, <2>2, <2>3 DEF Holds, ReadHeader
  <1>9. FreshSound'
    <2> SUFFICES ASSUME NEW g \in fresh, ~On(g, f)
                 PROVE  /\ handle'[g] # None => Knows(handle[g])'
                        /\ handle'[g] = None => WillKnow(call[g])'
      BY <1>3 DEF FreshSound
    <2>1. g \in Handles
      BY DEF InPlaceIInv, Types
    <2>2. CASE handle[g] # None
      <3>1. Knows(handle[g]) /\ handle[g].file # f /\ handle[g].file \in Files
        BY <2>1, <2>2
        DEF SettledIInv, FreshSound, On, InPlaceIInv, Types, TuxObject
      <3>2. settled'[handle[g].file] = settled[handle[g].file]
        BY <1>3, <3>1 DEF SettledIInv
      <3> QED BY <1>3, <2>2, <3>1, <3>2 DEF Knows, ReadHeader
    <2>3. CASE handle[g] = None
      <3>1. WillKnow(call[g]) /\ call[g].file # f /\ g # h
        BY <1>3, <2>1, <2>3 DEF SettledIInv, FreshSound, On, WillKnow
      <3>2. call'[g] = call[g]
        BY <1>4, <2>1, <3>1 DEF Updating
      <3>3. call[g].file \in Files
        <4>1. call[g] \in Opening
          BY <2>1, <3>1, KindOfCall DEF InPlaceIInv, Types, WillKnow
        <4> QED BY <4>1 DEF Opening
      <3>4. settled'[call[g].file] = settled[call[g].file]
        BY <1>3, <3>1, <3>3 DEF SettledIInv
      <3> QED BY <1>3, <2>3, <3>1, <3>2, <3>4 DEF WillKnow, ReadHeader
    <2> QED BY <2>2, <2>3
  <1>10. OpeningUnheld'
    <2> SUFFICES ASSUME NEW g \in Handles, call'[g].kind = "opening"
                 PROVE  handle'[g] = None
      BY DEF OpeningUnheld
    <2>1. g # h /\ g \notin Updating(f)
      BY <1>1, <1>4
    <2> QED BY <1>3, <1>4, <2>1 DEF SettledIInv, OpeningUnheld
  <1> QED BY <1>5, <1>6, <1>7, <1>8, <1>9, <1>10 DEF SettledIInv

\* Updates stay apart where none begins and none gets another file.
LEMMA StillApart ==
    ASSUME SettledIInv,
           \A g \in Handles : call'[g].kind = "writing" =>
               /\ call[g].kind = "writing" /\ call'[g].file = call[g].file
               /\ call'[g].alone = call[g].alone
    PROVE  UpdatesApart' /\ \A f : Updating(f) = {} => Updating(f)' = {}
  BY DEF SettledIInv, UpdatesApart, Updating

\* An update writes a cell, in a file that is not settled.
LEMMA WriteCellSettles ==
    ASSUME InPlaceIInv, SettledIInv, NEW h \in Handles, WriteCell(h)
    PROVE  SettledIInv'
  <1>1. PICK c, d, f : /\ c = call[h] /\ d = [c EXCEPT !.at = @ + 1]
                       /\ f = c.file
    OBVIOUS
  <1>2. PICK bytes, cells :
           bytes = file[f] /\ cells = encode_prefix(c.header, c.metadata, c.tags)
    OBVIOUS
  <1>3. /\ c.kind = "writing" /\ c \in Writing /\ f \in 1 .. current /\ f \in Files
        /\ c.header \in ObjectHeader /\ c.at \in 0 .. c.header.content_start - 1
        /\ c.header.content_start = bytes[3][2] /\ BytesSound(bytes)
    <2>1. c.kind = "writing" /\ c \in Writing /\ WritingSound(c, handle[h])
      BY <1>1, KindOfCall DEF WriteCell, InPlaceIInv, Types, CallSound
    <2>2. /\ f \in 1 .. current /\ f \in Files /\ c.header \in ObjectHeader
          /\ Place(c.header) = Place(ReadHeader(bytes)) /\ BytesSound(bytes)
      BY <1>1, <1>2, <2>1
      DEF Writing, WritingSound, Placed, InPlaceIInv, FilesSound
    <2>3. c.at \in 0 .. c.header.content_start - 1
      BY <1>1, <2>1, <2>2 DEF WriteCell, Writing, ObjectHeader
    <2> QED BY <2>1, <2>2, <2>3 DEF Place, ReadHeader
  <1>4. /\ file' = [file EXCEPT ![f] = [bytes EXCEPT ![c.at] = cells[c.at]]]
        /\ call' = [call EXCEPT ![h] = d]
        /\ current' = current /\ handle' = handle
        /\ settled' = settled /\ fresh' = fresh
    <2>1. /\ file' = [file EXCEPT ![c.file] = [@ EXCEPT ![c.at] =
                         encode_prefix(c.header, c.metadata, c.tags)[c.at]]]
          /\ call' = [call EXCEPT ![h].at = @ + 1]
          /\ current' = current /\ handle' = handle
          /\ settled' = settled /\ fresh' = fresh
      BY <1>1 DEF WriteCell, historyVars
    <2>2. h \in DOMAIN call /\ c.file \in DOMAIN file
      BY <1>1, <1>3 DEF InPlaceIInv, Types
    <2> QED BY <1>1, <1>2, <2>1, <2>2
  <1>5. /\ d.kind = "writing" /\ d.file = f /\ d.alone = c.alone
        /\ d.header = c.header /\ d.metadata = c.metadata /\ d.tags = c.tags
        /\ d.at = c.at + 1
    BY <1>1, <1>3 DEF Writing
  <1>6. /\ call'[h] = d
        /\ \A g \in Handles \ {h} : call'[g] = call[g]
        /\ \A e \in Files : e # f => file'[e] = file[e]
    BY <1>4 DEF InPlaceIInv, Types
  <1>7. settled[f] = None
    <2>1. h \in Updating(f)
      BY <1>1, <1>3 DEF Updating
    <2> QED BY <1>3, <2>1 DEF SettledIInv, SettledSound
  <1>8. UpdatesApart' /\ \A e : Updating(e) = {} => Updating(e)' = {}
    <2>1. \A g \in Handles : call'[g].kind = "writing" =>
             /\ call[g].kind = "writing" /\ call'[g].file = call[g].file
             /\ call'[g].alone = call[g].alone
      BY <1>1, <1>3, <1>5, <1>6
    <2> QED BY <2>1, StillApart
  <1>9. UpdatesBegun'
    <2> SUFFICES ASSUME NEW g \in Handles, call'[g].kind = "writing"
                 PROVE  Begun(call[g])'
      BY DEF UpdatesBegun
    <2>1. CASE g = h
      <3>1. Begun(c)
        BY <1>1, <1>3 DEF SettledIInv, UpdatesBegun
      <3>2. ASSUME c.alone, NEW k \in 0 .. c.at
            PROVE  file'[f][k] = cells[k]
        <4>1. c.at \in DOMAIN bytes /\ c.at \in Nat
          <5>1. c.at \in 0 .. bytes[3][2] - 1
            BY <1>3
          <5>2. bytes[3][2] \in HeaderSize .. U32Max /\ DOMAIN bytes = 0 .. bytes[3][2] + Content - 1
            BY <1>3 DEF BytesSound
          <5>3. PICK cs \in Nat : cs = bytes[3][2]
            <6>1. HeaderSize \in Nat /\ U32Max \in Nat
              BY Constants
            <6> QED BY ONLY <5>2, <6>1
          <5>4. Content \in Nat
            BY Constants
          <5>5. PICK at : at = c.at /\ at \in 0 .. cs - 1
            BY ONLY <5>1, <5>3
          <5>6. at \in 0 .. cs + Content - 1 /\ at \in Nat
            BY ONLY <5>4, <5>5, cs \in Nat
          <5> QED BY ONLY <5>2, <5>3, <5>5, <5>6
        <4>2. file'[f] = [bytes EXCEPT ![c.at] = cells[c.at]]
          BY <1>3, <1>4 DEF InPlaceIInv, Types
        <4>3. CASE k = c.at
          BY <4>1, <4>2, <4>3
        <4>4. CASE k # c.at
          <5>1. k \in 0 .. c.at - 1
            BY <4>1, <4>4
          <5>2. bytes[k] = cells[k]
            BY <1>1, <1>2, <3>1, <3>2, <5>1 DEF Begun
          <5> QED BY <4>2, <4>4, <5>2
        <4> QED BY <4>3, <4>4
      <3>3. 0 .. d.at - 1 = 0 .. c.at
        BY <1>3, <1>5
      <3>4. d.alone => \A k \in 0 .. d.at - 1 :
               file'[d.file][k] = encode_prefix(d.header, d.metadata, d.tags)[k]
        BY <1>2, <1>5, <3>2, <3>3
      <3>5. d.header.tags_start + Size[d.tags] <= d.header.content_start
        BY <1>5, <3>1 DEF Begun
      <3> QED BY <1>6, <2>1, <3>4, <3>5 DEF Begun
    <2>2. CASE g # h
      <3>1. call'[g] = call[g] /\ Begun(call[g])
        BY <1>6, <2>2 DEF SettledIInv, UpdatesBegun
      <3>2. CASE call[g].file = f
        <4>1. ~call[g].alone
          BY <1>1, <1>3, <2>2, <3>1, <3>2 DEF SettledIInv, UpdatesApart
        <4> QED BY <3>1, <4>1 DEF Begun
      <3>3. CASE call[g].file # f
        <4>1. call[g].file \in Files
          <5>1. call[g] \in Writing
            BY <3>1, KindOfCall DEF InPlaceIInv, Types
          <5> QED BY <5>1 DEF Writing
        <4>2. file'[call[g].file] = file[call[g].file]
          BY <1>6, <3>3, <4>1
        <4> QED BY <3>1, <4>2 DEF Begun
      <3> QED BY <3>2, <3>3
    <2> QED BY <2>1, <2>2
  <1>10. ASSUME NEW e \in Files, settled[e] # None
         PROVE  file'[e] = file[e]
    BY <1>6, <1>7, <1>10
  <1>11. SettledSound'
    <2> SUFFICES ASSUME NEW e \in 1 .. current, settled[e] # None
                 PROVE  /\ Updating(e)' = {}
                        /\ settled'[e] \in SectionPair
                        /\ Holds(file[e], settled[e].metadata, settled[e].tags)'
      BY <1>4 DEF SettledSound
    <2>1. e \in Files
      BY InPlaceAssumption DEF InPlaceIInv, Types, Files
    <2>2. file'[e] = file[e]
      BY <1>10, <2>1
    <2>3. /\ Updating(e) = {} /\ settled[e] \in SectionPair
          /\ Holds(file[e], settled[e].metadata, settled[e].tags)
      BY DEF SettledIInv, SettledSound
    <2> QED BY <1>4, <1>8, <2>2, <2>3 DEF Holds, ReadHeader
  <1>12. FreshSound'
    <2> SUFFICES ASSUME NEW g \in fresh
                 PROVE  /\ handle'[g] # None => Knows(handle[g])'
                        /\ handle'[g] = None => WillKnow(call[g])'
      BY <1>4 DEF FreshSound
    <2>1. g \in Handles
      BY DEF InPlaceIInv, Types
    <2>2. CASE handle[g] # None
      <3>1. Knows(handle[g]) /\ handle[g].file \in Files
        BY <2>1, <2>2 DEF SettledIInv, FreshSound, InPlaceIInv, Types, TuxObject
      <3>2. file'[handle[g].file] = file[handle[g].file]
        BY <1>10, <3>1 DEF Knows
      <3> QED BY <1>4, <2>2, <3>1, <3>2 DEF Knows, ReadHeader
    <2>3. CASE handle[g] = None
      <3>1. WillKnow(call[g]) /\ g # h
        BY <1>1, <1>3, <2>3 DEF SettledIInv, FreshSound, WillKnow
      <3>2. call'[g] = call[g] /\ call[g].file \in Files
        <4>1. call[g] \in Opening
          BY <2>1, <3>1, KindOfCall DEF InPlaceIInv, Types, WillKnow
        <4> QED BY <1>6, <2>1, <3>1, <4>1 DEF Opening
      <3>3. file'[call[g].file] = file[call[g].file]
        BY <1>10, <3>1, <3>2 DEF WillKnow
      <3> QED BY <1>4, <2>3, <3>1, <3>2, <3>3 DEF WillKnow, ReadHeader
    <2> QED BY <2>2, <2>3
  <1>13. OpeningUnheld'
    BY <1>4, <1>5, <1>6 DEF SettledIInv, OpeningUnheld
  <1>14. DOMAIN settled' = Files
    BY <1>4 DEF SettledIInv
  <1> QED BY <1>8, <1>9, <1>11, <1>12, <1>13, <1>14 DEF SettledIInv

\* The last cell is written: an update that met no other one has written them
\* all, and its handle knows what they say.
LEMMA WrittenSettles ==
    ASSUME InPlaceIInv, SettledIInv, NEW h \in Handles, Written(h)
    PROVE  SettledIInv'
  <1>1. PICK c, f, x, y, pair :
           /\ c = call[h] /\ f = c.file /\ x = handle[h]
           /\ y = [x EXCEPT !.header = c.header, !.metadata = c.metadata]
           /\ pair = [metadata |-> c.metadata, tags |-> c.tags]
    OBVIOUS
  <1>2. /\ c.kind = "writing" /\ c \in Writing /\ WritingSound(c, x)
        /\ f \in 1 .. current /\ f \in Files /\ c.at = c.header.content_start
        /\ c.header \in ObjectHeader
        /\ c.metadata \in Metadata /\ c.tags \in Tags
    BY <1>1, KindOfCall
    DEF Written, Writing, WritingSound, Placed, InPlaceIInv, Types, CallSound
  <1>3. /\ file' = file /\ current' = current
        /\ call' = [call EXCEPT ![h] = Idle]
        /\ settled' = [settled EXCEPT ![f] = IF c.alone THEN pair ELSE None]
        /\ c.waited => handle' = [handle EXCEPT ![h] = y]
        /\ ~c.waited => handle' = handle
        /\ fresh' = IF c.alone /\ c.waited THEN fresh \cup {h} ELSE fresh
    BY <1>1 DEF Written, Return, Updated
  <1>4. /\ call'[h].kind = "idle"
        /\ \A g \in Handles \ {h} : call'[g] = call[g] /\ handle'[g] = handle[g]
        /\ c.waited => handle'[h] = y
        /\ ~c.waited => handle'[h] = x
        /\ DOMAIN settled' = Files
        /\ c.alone => settled'[f] = pair
        /\ \A e \in Files \ {f} : settled'[e] = settled[e]
    <2>1. h \in DOMAIN call /\ h \in DOMAIN handle /\ f \in DOMAIN settled
      BY <1>2 DEF InPlaceIInv, Types, SettledIInv
    <2>2. call'[h] = Idle /\ \A g \in Handles \ {h} : call'[g] = call[g]
      BY <1>3, <2>1 DEF InPlaceIInv, Types
    <2>3. /\ \A g \in Handles \ {h} : handle'[g] = handle[g]
          /\ c.waited => handle'[h] = y
          /\ ~c.waited => handle'[h] = x
      BY <1>1, <1>2, <1>3, <2>1 DEF InPlaceIInv, Types
    <2>4. /\ DOMAIN settled' = Files
          /\ c.alone => settled'[f] = pair
          /\ \A e \in Files \ {f} : settled'[e] = settled[e]
      BY <1>3, <2>1 DEF SettledIInv
    <2> QED BY <2>2, <2>3, <2>4 DEF Idle
  <1>5. settled[f] = None
    <2>1. h \in Updating(f)
      BY <1>1, <1>2 DEF Updating
    <2> QED BY <1>2, <2>1 DEF SettledIInv, SettledSound
  <1>6. c.alone => ReadHeader(file[f]) = c.header /\ Holds(file[f], c.metadata, c.tags)
    <2> SUFFICES ASSUME c.alone
                 PROVE  /\ ReadHeader(file[f]) = c.header
                        /\ Holds(file[f], c.metadata, c.tags)
      OBVIOUS
    <2>1. Begun(c)
      BY <1>1, <1>2 DEF SettledIInv, UpdatesBegun
    <2>2. PICK bytes, header, m, t :
             /\ bytes = file[f] /\ header = c.header
             /\ m = c.metadata /\ t = c.tags
      OBVIOUS
    <2>3. /\ header \in ObjectHeader /\ m \in Sections /\ t \in Sections
          /\ HeaderSize + Size[m] <= header.tags_start
          /\ header.tags_start + Size[t] <= header.content_start
          /\ \A k \in 0 .. header.content_start - 1 :
                bytes[k] = encode_prefix(header, m, t)[k]
      BY <1>1, <1>2, <2>1, <2>2 DEF Begun, WritingSound, Sections
    <2> QED BY <2>2, <2>3, WholePrefix
  <1>7. UpdatesApart' /\ \A e : Updating(e) = {} => Updating(e)' = {}
    <2>1. \A g \in Handles : call'[g].kind = "writing" =>
             /\ call[g].kind = "writing" /\ call'[g].file = call[g].file
             /\ call'[g].alone = call[g].alone
      BY <1>4
    <2> QED BY <2>1, StillApart
  <1>8. UpdatesBegun'
    <2> SUFFICES ASSUME NEW g \in Handles, call'[g].kind = "writing"
                 PROVE  Begun(call[g])'
      BY DEF UpdatesBegun
    <2>1. call'[g] = call[g]
      BY <1>4
    <2> QED BY <1>3, <2>1 DEF SettledIInv, UpdatesBegun, Begun
  <1>9. SettledSound'
    <2> SUFFICES ASSUME NEW e \in 1 .. current, settled'[e] # None
                 PROVE  /\ Updating(e)' = {}
                        /\ settled'[e] \in SectionPair
                        /\ Holds(file[e], settled[e].metadata, settled[e].tags)'
      BY <1>3 DEF SettledSound
    <2>1. e \in Files
      BY InPlaceAssumption DEF InPlaceIInv, Types, Files
    <2>2. CASE e = f
      <3>1. c.alone
        BY <1>2, <1>3, <2>2 DEF SettledIInv
      <3>2. /\ settled'[e] = pair /\ pair \in SectionPair
            /\ pair.metadata = c.metadata /\ pair.tags = c.tags
        BY <1>1, <1>2, <1>4, <2>2, <3>1 DEF SectionPair
      <3>3. Updating(e)' = {}
        <4> SUFFICES ASSUME NEW g \in Handles, call'[g].kind = "writing",
                            call'[g].file = e
                     PROVE  FALSE
          BY DEF Updating
        <4>1. g # h /\ call[g] = call'[g]
          BY <1>4
        <4> QED BY <1>1, <1>2, <2>2, <3>1, <4>1 DEF SettledIInv, UpdatesApart
      <3> QED BY <1>3, <1>6, <2>2, <3>1, <3>2, <3>3 DEF Holds, ReadHeader
    <2>3. CASE e # f
      <3>1. settled'[e] = settled[e]
        BY <1>4, <2>1, <2>3
      <3>2. /\ Updating(e) = {} /\ settled[e] \in SectionPair
            /\ Holds(file[e], settled[e].metadata, settled[e].tags)
        BY <3>1 DEF SettledIInv, SettledSound
      <3> QED BY <1>3, <1>7, <3>1, <3>2 DEF Holds, ReadHeader
    <2> QED BY <2>2, <2>3
  <1>10. FreshSound'
    <2> SUFFICES ASSUME NEW g \in fresh'
                 PROVE  /\ handle'[g] # None => Knows(handle[g])'
                        /\ handle'[g] = None => WillKnow(call[g])'
      BY DEF FreshSound
    <2>1. g \in Handles /\ (g \in fresh \/ (g = h /\ c.alone /\ c.waited))
      BY <1>3 DEF InPlaceIInv, Types
    <2>2. CASE g = h /\ c.alone /\ c.waited
      <3>1. x \in TuxObject /\ x.file = f
        BY <1>1, <1>2, <2>2 DEF WritingSound, InPlaceIInv, Types
      <3>2. /\ y \in TuxObject /\ y.file = f /\ y.header = c.header
            /\ y.metadata = c.metadata
        BY <1>1, <1>2, <3>1 DEF TuxObject
      <3>3. pair # None /\ pair.metadata = c.metadata
        BY <1>1, <1>2, InPlaceAssumption DEF SectionPair
      <3>4. y # None
        BY <3>2, InPlaceAssumption
      <3>5. ReadHeader(file'[f]) = c.header
        BY <1>3, <1>6, <2>2
      <3> QED BY <1>4, <2>2, <3>2, <3>3, <3>4, <3>5 DEF Knows, ReadHeader
    <2>3. CASE g = h /\ g \in fresh /\ ~(c.alone /\ c.waited)
      <3>1. x # None /\ Knows(x)
        BY <1>1, <1>2, <2>3, FreshKinds
      <3>2. ~c.waited
        BY <1>1, <1>2, <1>5, <3>1 DEF WritingSound, Knows
      <3>3. x.file \in Files \ {f}
        BY <1>1, <1>5, <3>1 DEF Knows, InPlaceIInv, Types, TuxObject
      <3>4. settled'[x.file] = settled[x.file] /\ handle'[h] = x
        BY <1>4, <3>2, <3>3
      <3> QED BY <1>3, <2>3, <3>1, <3>4 DEF Knows, ReadHeader
    <2>4. CASE g # h /\ g \in fresh
      <3>1. handle'[g] = handle[g] /\ call'[g] = call[g]
        BY <1>4, <2>1, <2>4
      <3>2. CASE handle[g] # None
        <4>1. Knows(handle[g])
          BY <2>4, <3>2 DEF SettledIInv, FreshSound
        <4>2. handle[g].file \in Files \ {f}
          BY <1>5, <2>1, <3>2, <4>1 DEF Knows, InPlaceIInv, Types, TuxObject
        <4>3. settled'[handle[g].file] = settled[handle[g].file]
          BY <1>4, <4>2
        <4> QED BY <1>3, <3>1, <3>2, <4>1, <4>3 DEF Knows, ReadHeader
      <3>3. CASE handle[g] = None
        <4>1. WillKnow(call[g])
          BY <2>4, <3>3 DEF SettledIInv, FreshSound
        <4>2. call[g] \in Opening
          BY <2>1, <4>1, KindOfCall DEF InPlaceIInv, Types, WillKnow
        <4>3. call[g].file \in Files \ {f}
          BY <1>5, <4>1, <4>2 DEF WillKnow, Opening
        <4>4. settled'[call[g].file] = settled[call[g].file]
          BY <1>4, <4>3
        <4> QED BY <1>3, <3>1, <3>3, <4>1, <4>4 DEF WillKnow, ReadHeader
      <3> QED BY <3>2, <3>3
    <2> QED BY <2>1, <2>2, <2>3, <2>4
  <1>11. OpeningUnheld'
    BY <1>4 DEF SettledIInv, OpeningUnheld
  <1> QED BY <1>4, <1>7, <1>8, <1>9, <1>10, <1>11 DEF SettledIInv

\* A file that finish wrote holds its sections.
LEMMA NewFileHolds ==
    ASSUME NEW header \in ObjectHeader, NEW m \in Sections, NEW t \in Sections,
           HeaderSize + Size[m] <= header.tags_start,
           header.tags_start + Size[t] <= header.content_start,
           NEW content
    PROVE  LET bytes == NewFile(header, m, t, content)
           IN  ReadHeader(bytes) = header /\ Holds(bytes, m, t)
  <1>1. PICK bytes : bytes = NewFile(header, m, t, content)
    OBVIOUS
  <1>2. header.content_start \in Nat /\ header.content_length \in Nat
    BY Constants DEF ObjectHeader
  <1>3. ASSUME NEW k \in 0 .. header.content_start - 1
        PROVE  bytes[k] = encode_prefix(header, m, t)[k]
    <2>1. /\ k \in 0 .. header.content_start + header.content_length - 1
          /\ k < header.content_start
      BY <1>2
    <2> QED BY <1>1, <2>1 DEF NewFile
  <1> QED BY <1>1, <1>3, WholePrefix

\* An atomic setter replaces the file: the new one is settled, nobody else is on
\* it, and its setter knows it.
LEMMA ReplaceSettles ==
    ASSUME InPlaceIInv, SettledIInv, NEW h \in Handles, Replace(h)
    PROVE  SettledIInv'
  <1>1. PICK header, m, t, copied :
           /\ header \in ObjectHeader
           /\ m \in Metadata \cup {Garbage} /\ t \in Tags \cup {Garbage}
           /\ HeaderSize + Size[m] <= header.tags_start
           /\ header.tags_start <= header.content_start
           /\ header.tags_start + Size[t] <= header.content_start
           /\ header.content_length = Content
           /\ \A k \in 0 .. Content - 1 : copied[k] = ContentCell(k)
           /\ file' = [file EXCEPT ![current + 1] = NewFile(header, m, t, copied)]
           /\ handle' = [handle EXCEPT ![h] =
                  [file |-> current + 1, header |-> header, metadata |-> m]]
           /\ settled' = [settled EXCEPT ![current + 1] =
                  [metadata |-> m, tags |-> t]]
    BY Replacing
  <1>2. PICK n, written, y, pair :
           /\ n = current + 1 /\ written = NewFile(header, m, t, copied)
           /\ y = [file |-> n, header |-> header, metadata |-> m]
           /\ pair = [metadata |-> m, tags |-> t]
    OBVIOUS
  <1>3. /\ n \in Files /\ current \in Nat /\ current' = n
        /\ \A f \in 1 .. current : f \in Files /\ f # n
        /\ \A f \in 1 .. n : f = n \/ f \in 1 .. current
    <2>1. /\ current < MaxFiles /\ current' = current + 1
          /\ current \in 1 .. MaxFiles /\ MaxFiles \in Nat
      BY InPlaceAssumption DEF Replace, InPlaceIInv, Types, Files
    <2> QED BY <1>2, <2>1 DEF Files
  <1>4. /\ file'[n] = written /\ settled'[n] = pair /\ DOMAIN settled' = Files
        /\ \A f \in 1 .. current : file'[f] = file[f] /\ settled'[f] = settled[f]
        /\ handle'[h] = y /\ call'[h].kind = "idle" /\ call[h].kind = "setting"
        /\ \A g \in Handles \ {h} : call'[g] = call[g] /\ handle'[g] = handle[g]
        /\ fresh' = fresh \cup {h}
    <2>1. /\ file' = [file EXCEPT ![n] = written]
          /\ settled' = [settled EXCEPT ![n] = pair]
          /\ handle' = [handle EXCEPT ![h] = y]
          /\ call' = [call EXCEPT ![h] = Idle]
          /\ fresh' = fresh \cup {h} /\ call[h].kind = "setting"
      BY <1>1, <1>2 DEF Replace, Return
    <2>2. /\ DOMAIN file = Files /\ DOMAIN settled = Files
          /\ DOMAIN handle = Handles /\ DOMAIN call = Handles
      BY DEF InPlaceIInv, Types, SettledIInv
    <2>3. Idle.kind = "idle"
      BY DEF Idle
    <2>4. /\ file'[n] = written /\ settled'[n] = pair /\ DOMAIN settled' = Files
          /\ \A f \in 1 .. current : file'[f] = file[f] /\ settled'[f] = settled[f]
      BY <1>3, <2>1, <2>2
    <2> QED BY <2>1, <2>2, <2>3, <2>4
  <1>5. ReadHeader(written) = header /\ Holds(written, m, t)
    <2>1. m \in Sections /\ t \in Sections
      BY <1>1 DEF Sections
    <2> QED BY <1>1, <1>2, <2>1, NewFileHolds
  <1>6. \A g \in Handles : call[g].kind \in {"writing", "opening"} =>
                               call[g].file \in 1 .. current
    BY DEF InPlaceIInv, CallSound, WritingSound, Placed
  <1>7. \A g \in Handles : handle[g] # None => handle[g].file \in 1 .. current
    BY DEF InPlaceIInv, HandleSound, Placed
  <1>8. UpdatesApart' /\ \A e : Updating(e) = {} => Updating(e)' = {}
    <2>1. \A g \in Handles : call'[g].kind = "writing" =>
             /\ call[g].kind = "writing" /\ call'[g].file = call[g].file
             /\ call'[g].alone = call[g].alone
      BY <1>4
    <2> QED BY <2>1, StillApart
  <1>9. UpdatesBegun'
    <2> SUFFICES ASSUME NEW g \in Handles, call'[g].kind = "writing"
                 PROVE  Begun(call[g])'
      BY DEF UpdatesBegun
    <2>1. call'[g] = call[g] /\ call[g].kind = "writing"
      BY <1>4
    <2>2. file'[call[g].file] = file[call[g].file]
      BY <1>4, <1>6, <2>1
    <2> QED BY <2>1, <2>2 DEF SettledIInv, UpdatesBegun, Begun
  <1>10. SettledSound'
    <2> SUFFICES ASSUME NEW e \in 1 .. n, settled'[e] # None
                 PROVE  /\ Updating(e)' = {}
                        /\ settled'[e] \in SectionPair
                        /\ Holds(file[e], settled[e].metadata, settled[e].tags)'
      BY <1>3 DEF SettledSound
    <2>1. CASE e = n
      <3>1. Updating(e) = {}
        BY <1>3, <1>6, <2>1 DEF Updating
      <3>2. pair \in SectionPair /\ pair.metadata = m /\ pair.tags = t
        BY <1>1, <1>2 DEF SectionPair
      <3> QED BY <1>4, <1>5, <1>8, <2>1, <3>1, <3>2 DEF Holds, ReadHeader
    <2>2. CASE e \in 1 .. current
      <3>1. settled'[e] = settled[e] /\ file'[e] = file[e]
        BY <1>4, <2>2
      <3>2. /\ Updating(e) = {} /\ settled[e] \in SectionPair
            /\ Holds(file[e], settled[e].metadata, settled[e].tags)
        BY <2>2, <3>1 DEF SettledIInv, SettledSound
      <3> QED BY <1>8, <3>1, <3>2 DEF Holds, ReadHeader
    <2> QED BY <1>3, <2>1, <2>2
  <1>11. FreshSound'
    <2> SUFFICES ASSUME NEW g \in fresh'
                 PROVE  /\ handle'[g] # None => Knows(handle[g])'
                        /\ handle'[g] = None => WillKnow(call[g])'
      BY DEF FreshSound
    <2>1. CASE g = h
      <3>1. y.file = n /\ y.header = header /\ y.metadata = m /\ y \in TuxObject
        BY <1>1, <1>2, <1>3 DEF TuxObject
      <3>2. pair \in SectionPair /\ pair.metadata = m
        BY <1>1, <1>2 DEF SectionPair
      <3>3. y # None /\ pair # None
        BY <3>1, <3>2, InPlaceAssumption
      <3>4. ReadHeader(file'[n]) = header
        BY <1>4, <1>5
      <3> QED BY <1>4, <2>1, <3>1, <3>2, <3>3, <3>4 DEF Knows, ReadHeader
    <2>2. CASE g # h
      <3>1. /\ g \in fresh /\ g \in Handles
            /\ handle'[g] = handle[g] /\ call'[g] = call[g]
        BY <1>4, <2>2 DEF InPlaceIInv, Types
      <3>2. CASE handle[g] # None
        <4>1. Knows(handle[g])
          BY <3>1, <3>2 DEF SettledIInv, FreshSound
        <4>2. /\ settled'[handle[g].file] = settled[handle[g].file]
              /\ file'[handle[g].file] = file[handle[g].file]
          BY <1>4, <1>7, <3>1, <3>2
        <4> QED BY <3>1, <3>2, <4>1, <4>2 DEF Knows, ReadHeader
      <3>3. CASE handle[g] = None
        <4>1. WillKnow(call[g])
          BY <3>1, <3>3 DEF SettledIInv, FreshSound
        <4>2. /\ settled'[call[g].file] = settled[call[g].file]
              /\ file'[call[g].file] = file[call[g].file]
          BY <1>4, <1>6, <3>1, <4>1 DEF WillKnow
        <4> QED BY <3>1, <3>3, <4>1, <4>2 DEF WillKnow, ReadHeader
      <3> QED BY <3>2, <3>3
    <2> QED BY <2>1, <2>2
  <1>12. OpeningUnheld'
    BY <1>4 DEF SettledIInv, OpeningUnheld
  <1> QED BY <1>4, <1>8, <1>9, <1>10, <1>11, <1>12 DEF SettledIInv

LEMMA InitSettled == Init => SettledIInv
  <1> SUFFICES ASSUME Init PROVE SettledIInv
    OBVIOUS
  <1>1. PICK o \in Created :
           LET layout == compute(o.layout, Size[o.metadata], Size[o.tags])
           IN  /\ layout # None
               /\ file = [f \in Files |->
                      NewFile(Header(o.compressed, layout, Content),
                              o.metadata, o.tags,
                              [k \in 0 .. Content - 1 |-> ContentCell(k)])]
               /\ settled = [f \in Files |->
                                [metadata |-> o.metadata, tags |-> o.tags]]
    BY DEF Init
  <1>2. PICK op, m, t, compressed, content, pair :
           /\ op = o.layout /\ m = o.metadata /\ t = o.tags
           /\ compressed = o.compressed
           /\ content = [k \in 0 .. Content - 1 |-> ContentCell(k)]
           /\ pair = [metadata |-> m, tags |-> t]
    OBVIOUS
  <1>3. /\ op \in LayoutOptions /\ m \in Sections /\ t \in Sections
        /\ m \in Metadata /\ t \in Tags /\ compressed \in BOOLEAN
    BY <1>2, InPlaceAssumption DEF Sections
  <1>4. PICK header : header = Header(compressed, compute(op, Size[m], Size[t]), Content)
    OBVIOUS
  <1>5. /\ header \in ObjectHeader
        /\ HeaderSize + Size[m] <= header.tags_start
        /\ header.tags_start + Size[t] <= header.content_start
    BY <1>1, <1>2, <1>3, <1>4, NewHeader
  <1>6. PICK bytes : bytes = NewFile(header, m, t, content)
    OBVIOUS
  <1>7. Holds(bytes, m, t)
    BY <1>3, <1>5, <1>6, NewFileHolds
  <1>8. /\ file = [f \in Files |-> bytes] /\ settled = [f \in Files |-> pair]
        /\ pair \in SectionPair /\ pair.metadata = m /\ pair.tags = t
    BY <1>1, <1>2, <1>3, <1>4, <1>6 DEF SectionPair
  <1>9. /\ fresh = {} /\ current = 1 /\ 1 \in Files
        /\ \A h \in Handles : call[h] = Idle /\ handle[h] = None
    BY InPlaceAssumption DEF Init, Files
  <1>10. Idle.kind = "idle"
    BY DEF Idle
  <1>11. SettledSound
    <2> SUFFICES ASSUME NEW f \in 1 .. current
                 PROVE  /\ Updating(f) = {} /\ settled[f] \in SectionPair
                        /\ Holds(file[f], settled[f].metadata, settled[f].tags)
      BY DEF SettledSound
    <2>1. f \in Files
      BY <1>9
    <2>2. Updating(f) = {}
      BY <1>9, <1>10 DEF Updating
    <2>3. settled[f] = pair /\ file[f] = bytes
      BY <1>8, <2>1
    <2> QED BY <1>7, <1>8, <2>2, <2>3
  <1>12. UpdatesApart /\ UpdatesBegun /\ OpeningUnheld
    BY <1>9, <1>10 DEF UpdatesApart, UpdatesBegun, OpeningUnheld
  <1>13. FreshSound
    BY <1>9 DEF FreshSound
  <1> QED BY <1>8, <1>11, <1>12, <1>13 DEF SettledIInv

LEMMA NextSettled == InPlaceIInv /\ SettledIInv /\ [Next]_vars => SettledIInv'
  <1>1. ASSUME SettledIInv, UNCHANGED vars PROVE SettledIInv'
    BY <1>1
    DEF vars, historyVars, SettledIInv, UpdatesApart, UpdatesBegun, Begun,
        SettledSound, Updating, Holds, FreshSound, Knows, WillKnow, ReadHeader,
        OpeningUnheld
  <1>2. ASSUME SettledIInv, NEW h \in Handles, UpdateRefused(h) PROVE SettledIInv'
    BY <1>1, <1>2 DEF UpdateRefused
  <1>3. ASSUME InPlaceIInv, SettledIInv, NEW h \in Handles,
               \/ OpenHeader(h) \/ OpenMetadata(h) \/ OpenFails(h) \/ Close(h)
               \/ Cancel(h)
        PROVE  SettledIInv'
    BY <1>3, OpeningSettles, LettingGoSettles
  <1>4. ASSUME InPlaceIInv, SettledIInv, NEW h \in Handles,
               \/ \E m \in Metadata, t \in Tags : UpdateInPlace(h, m, t)
               \/ WriteCell(h) \/ Written(h) \/ Replace(h)
        PROVE  SettledIInv'
    BY <1>4, UpdateSettles, WriteCellSettles, WrittenSettles, ReplaceSettles
  <1>5. ASSUME InPlaceIInv, SettledIInv, NEW h \in Handles,
               WriteFails(h) \/ SetFails(h) \/ StopReading(h)
        PROVE  SettledIInv'
    BY <1>5, OtherCallsSettle
  <1>6. ASSUME InPlaceIInv, SettledIInv, NEW h \in Handles,
               \/ \E m \in Metadata : SetMetadata(h, m)
               \/ \E t \in Tags : SetTags(h, t)
               \/ \E m \in Metadata, t \in Tags : SetSections(h, m, t)
        PROVE  SettledIInv'
    <2>1. \E m, t : Set(h, m, t)
      BY <1>6 DEF SetMetadata, SetTags, SetSections
    <2> QED BY <1>6, <2>1, OtherCallsSettle
  <1>7. ASSUME InPlaceIInv, SettledIInv, NEW h \in Handles,
               \/ \E owned \in BOOLEAN : ReadStored(h, owned)
               \/ \E offset \in 0 .. Content + 1,
                     length \in 0 .. Content + 1 \cup {None}, owned \in BOOLEAN :
                     ReadRange(h, offset, length, owned)
        PROVE  SettledIInv'
    <2>1. \E offset, remaining, asked, owned :
             StartReading(h, offset, remaining, asked, owned)
      BY <1>7 DEF ReadStored, ReadRange
    <2> QED BY <1>7, <2>1, OtherCallsSettle
  <1>8. ASSUME InPlaceIInv, SettledIInv, NEW h \in Handles,
               \E n \in 1 .. Content : ReadSome(h, n)
        PROVE  SettledIInv'
    BY <1>8, OtherCallsSettle
  <1> QED BY <1>1, <1>2, <1>3, <1>4, <1>5, <1>6, <1>7, <1>8 DEF Next

\* However updates in place, failed and cancelled ones too, setters and opens
\* interleave (object.rs:146-264, async_io.rs): an update that met no other one
\* has written every cell of its prefix when it ends, no update of a settled file
\* is under way, and a handle that made the update or began to open the file
\* after it has the header and the metadata of the file.
THEOREM SettledInvariant == Spec => [](InPlaceIInv /\ SettledIInv)
  <1>1. Init => InPlaceIInv /\ SettledIInv
    BY InitSound, InitSettled
  <1>2. InPlaceIInv /\ SettledIInv /\ [Next]_vars => (InPlaceIInv /\ SettledIInv)'
    BY NextSound, NextSettled
  <1> QED BY <1>1, <1>2, PTL DEF Spec

\* Whatever failed, torn or overlapping updates left in a file (object.rs:201-264),
\* the next one that runs to its end alone is what open and read_tags find.
THEOREM SettledStaysStored == Spec => []SettledIsStored
  BY SettledInvariant, SettledMeans, PTL

\* A handle that made the last update of its file, or was opened after it, reads
\* the tags that update stored and remembers its metadata: set_metadata through
\* it carries the tags over as they are (object.rs:180-188).
THEOREM FreshHandlesStayRight == Spec => []FreshHandlesAgree
  BY SettledInvariant, SettledMeans, PTL

=============================================================================
