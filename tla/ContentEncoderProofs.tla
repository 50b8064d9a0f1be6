------------------------- MODULE ContentEncoderProofs -------------------------
(***************************************************************************)
(* The recorded length of the content is true, and the content reads back  *)
(* as it was fed, for any number of chunks and encoders and codecs that    *)
(* buffer and write as they like.                                          *)
(***************************************************************************)
EXTENDS ContentEncoder, SequenceLemmas

-----------------------------------------------------------------------------
(* The invariant.                                                          *)

Writer == [compression : Codecs, content_length : Nat, allow_raw_writes : BOOLEAN,
           recorded : Nat \cup {None}, needed : Nat, room : Nat]

Segment == [kind : {"raw", "frame"}, data : Seq(Nat), length : Nat, whole : BOOLEAN]

EncoderTypes ==
    /\ pc \in {"writing", "encoding", "published", "failed"}
    /\ writer \in Writer
    /\ encoder \in Nat \cup {None}
    /\ pc = "encoding" <=> encoder # None
    /\ {fed, direct, handed, ended} \subseteq Nat

Compressed == writer.compression # "none"

\* What the object says of its length is so.
LengthStated ==
    \/ fed = (IF writer.recorded = None THEN writer.content_length
              ELSE writer.recorded)
    \/ writer.content_length = fed /\ writer.recorded = given

\* Of a plain object the length that is counted is the length.
PlainCounts == ~Compressed => writer.content_length = fed

\* Before there is an encoder, all that was fed was written directly.
BeforeEncoders ==
    handed = 0 =>
        /\ fed = direct /\ ended = 0
        /\ writer.recorded = given /\ pc # "encoding"
        /\ fed = 0 => stored = <<>>

\* The only encoder knows how much it was fed, and nothing was recorded yet.
FirstEncoder ==
    (handed = 1 /\ direct = 0 /\ pc = "encoding") =>
        /\ encoder = fed /\ ended = 0 /\ writer.recorded = given
        /\ Compressed => \E s \in Segment : stored = <<s>>

\* Once it is gone: without a codec nothing differed, and with one its frame is
\* all there is, and finish recorded what differed.
AfterEncoder ==
    (handed = 1 /\ direct = 0 /\ pc # "encoding") =>
        /\ ~Compressed => writer.recorded = given
        /\ Compressed => \E s \in Segment : stored = <<s>>
        /\ Compressed /\ ended = 1 => LengthStated

EncoderIInv ==
    EncoderTypes /\ PlainCounts /\ BeforeEncoders /\ FirstEncoder /\ AfterEncoder

-----------------------------------------------------------------------------
LEMMA EncoderInit == Init => EncoderIInv
  <1> SUFFICES ASSUME Init PROVE EncoderIInv
    OBVIOUS
  <1>1. PICK compression \in Codecs, room \in Room, entry \in {None, MaxFed + 1} :
           /\ writer = [compression |-> compression, content_length |-> 0,
                        allow_raw_writes |-> AllowsRaw(compression),
                        recorded |-> entry, needed |-> 0, room |-> room]
           /\ given = entry
    BY DEF Init
  <1>2. /\ pc = "writing" /\ stored = <<>> /\ encoder = None
        /\ fed = 0 /\ direct = 0 /\ handed = 0 /\ ended = 0
    BY DEF Init
  <1>3. writer \in Writer /\ writer.recorded = given /\ writer.content_length = 0
    BY <1>1, ContentEncoderAssumption DEF Writer, AllowsRaw
  <1> QED
    BY <1>2, <1>3
    DEF EncoderIInv, EncoderTypes, PlainCounts, BeforeEncoders, FirstEncoder,
        AfterEncoder

\* A step of the writer alone: bytes, sections, or the end.
LEMMA WriterStep ==
    ASSUME EncoderIInv, Write \/ Grow \/ Publish \/ PublishFails
    PROVE  EncoderIInv'
  <1>1. CASE Write
    <2>1. /\ pc' = "writing" /\ pc = "writing" /\ handed' = handed
          /\ ended' = ended
          /\ encoder' = encoder /\ fed' = fed + 1 /\ direct' = direct + 1
          /\ writer' = [writer EXCEPT !.content_length = @ + 1]
      BY <1>1 DEF Write, Received
    <2>2. EncoderTypes' /\ PlainCounts'
      BY <2>1 DEF EncoderIInv, EncoderTypes, PlainCounts, Compressed, Writer
    <2>3. /\ fed' # 0 /\ direct' # 0 /\ writer'.recorded = writer.recorded
          /\ given' = given
      BY <1>1, <2>1 DEF EncoderIInv, EncoderTypes, Writer, Write
    <2> QED
      BY <2>1, <2>2, <2>3
      DEF EncoderIInv, BeforeEncoders, FirstEncoder, AfterEncoder
  <1>2. CASE Grow \/ Publish \/ PublishFails
    <2>1. /\ pc = "writing" /\ pc' \in {"writing", "published", "failed"}
          /\ UNCHANGED <<stored, encoder, fed, direct, handed, ended, given>>
          /\ \/ writer' = [writer EXCEPT !.needed = @ + 1] \/ writer' = writer
      BY <1>2 DEF Grow, Publish, PublishFails, historyVars
    <2>2. /\ writer' \in Writer
          /\ writer'.compression = writer.compression
          /\ writer'.recorded = writer.recorded
          /\ writer'.content_length = writer.content_length
      BY <2>1 DEF EncoderIInv, EncoderTypes, Writer
    <2> QED
      BY <2>1, <2>2
      DEF EncoderIInv, EncoderTypes, PlainCounts, BeforeEncoders, FirstEncoder,
          AfterEncoder, Compressed, LengthStated
  <1> QED BY <1>1, <1>2

\* content_encoder: the first one starts at nothing.
LEMMA HandOutStep ==
    ASSUME EncoderIInv, HandOut
    PROVE  EncoderIInv'
  <1>1. /\ pc = "writing" /\ pc' = "encoding" /\ encoder' = 0
        /\ handed' = handed + 1 /\ UNCHANGED <<fed, direct, ended, given>>
        /\ writer' = [writer EXCEPT !.allow_raw_writes = TRUE]
        /\ stored' = IF Compressed THEN Append(stored, NewFrame) ELSE stored
    BY DEF HandOut, Compressed
  <1>2. /\ writer' \in Writer
        /\ writer'.compression = writer.compression
        /\ writer'.recorded = writer.recorded
        /\ writer'.content_length = writer.content_length
    BY <1>1 DEF EncoderIInv, EncoderTypes, Writer
  <1>3. EncoderTypes' /\ PlainCounts' /\ BeforeEncoders' /\ AfterEncoder'
    BY <1>1, <1>2, ContentEncoderAssumption
    DEF EncoderIInv, EncoderTypes, PlainCounts, BeforeEncoders, AfterEncoder,
        Compressed
  <1>4. ASSUME handed' = 1, direct' = 0
        PROVE  /\ encoder' = fed' /\ ended' = 0 /\ writer'.recorded = given'
               /\ Compressed' => \E s \in Segment : stored' = <<s>>
    <2>1. /\ fed = 0 /\ ended = 0 /\ stored = <<>> /\ writer.recorded = given
      BY <1>1, <1>4 DEF EncoderIInv, EncoderTypes, BeforeEncoders
    <2>2. PICK s : s = NewFrame
      OBVIOUS
    <2>3. s \in Segment
      BY <2>2 DEF NewFrame, Segment
    <2>4. Compressed => stored' = <<s>>
      BY <1>1, <2>1, <2>2
    <2> QED BY <1>1, <1>2, <2>1, <2>3, <2>4 DEF Compressed
  <1> QED BY <1>3, <1>4 DEF EncoderIInv, FirstEncoder

\* What Emit does to the file, if that is one frame.
LEMMA Emitted ==
    ASSUME NEW s \in Segment, NEW f \in Segment, stored = <<s>>,
           NEW n \in Nat,
           stored' = [stored EXCEPT ![Len(stored)] = [f EXCEPT !.length = @ + n]]
    PROVE  \E t \in Segment : stored' = <<t>>
  <1>1. PICK t : t = [f EXCEPT !.length = @ + n]
    OBVIOUS
  <1>2. t \in Segment
    BY <1>1 DEF Segment
  <1>3. stored' = <<t>>
    BY <1>1
  <1> QED BY <1>2, <1>3

\* The encoder counts what it is fed.
LEMMA EncodeStep ==
    ASSUME EncoderIInv, NEW n \in 0 .. MaxFrame, Encode(n) \/ Flush(n)
    PROVE  EncoderIInv'
  <1>1. /\ pc = "encoding" /\ pc' = pc
        /\ UNCHANGED <<direct, handed, ended, given>> /\ n \in Nat
        /\ \/ encoder' = encoder + 1 /\ fed' = fed + 1
           \/ encoder' = encoder /\ fed' = fed /\ Compressed
    BY DEF Encode, Flush, historyVars, Compressed
  <1>2. \E k \in Nat : /\ writer' = [writer EXCEPT !.content_length = @ + k]
                       /\ ~Compressed => k = 1 /\ fed' = fed + 1
    <2>1. \/ writer' = Received(1) /\ fed' = fed + 1
          \/ writer' = Received(n) /\ Compressed
      BY DEF Encode, Flush, Emit, Compressed
    <2>2. CASE writer' = Received(1) /\ fed' = fed + 1
      BY <2>2 DEF Received
    <2>3. CASE writer' = Received(n) /\ Compressed
      BY <1>1, <2>3 DEF Received
    <2> QED BY <2>1, <2>2, <2>3
  <1>3. /\ writer' \in Writer
        /\ writer'.compression = writer.compression
        /\ writer'.recorded = writer.recorded
        /\ ~Compressed => writer'.content_length = writer.content_length + 1
    BY <1>2 DEF EncoderIInv, EncoderTypes, Writer
  <1>4. EncoderTypes'
    BY <1>1, <1>3, ContentEncoderAssumption DEF EncoderIInv, EncoderTypes
  <1>5. PlainCounts'
    BY <1>2, <1>3 DEF EncoderIInv, PlainCounts, Compressed
  <1>6. BeforeEncoders' /\ AfterEncoder'
    BY <1>1 DEF EncoderIInv, BeforeEncoders, AfterEncoder
  <1>7. ASSUME handed' = 1, direct' = 0, Compressed'
        PROVE  \E s \in Segment : stored' = <<s>>
    <2>1. Compressed
      BY <1>3, <1>7 DEF Compressed
    <2>2. PICK s \in Segment : stored = <<s>>
      BY <1>1, <1>7, <2>1 DEF EncoderIInv, FirstEncoder
    <2>3. Frame = s
      BY <2>2 DEF Frame
    <2>4. PICK f : f = [s EXCEPT !.data = Append(@, fed + 1)]
      OBVIOUS
    <2>5. f \in Segment
      <3>1. s.data \in Seq(Nat) /\ fed + 1 \in Nat
        BY DEF Segment, EncoderIInv, EncoderTypes
      <3>2. Append(s.data, fed + 1) \in Seq(Nat)
        BY <3>1
      <3> QED BY <2>4, <3>2 DEF Segment
    <2>6. \/ stored' = [stored EXCEPT ![Len(stored)] = [f EXCEPT !.length = @ + n]]
          \/ stored' = [stored EXCEPT ![Len(stored)] = [s EXCEPT !.length = @ + n]]
      BY <2>1, <2>3, <2>4 DEF Encode, Flush, Emit, Compressed
    <2> QED BY <1>1, <2>2, <2>5, <2>6, Emitted
  <1>8. FirstEncoder'
    <2>1. ASSUME handed' = 1, direct' = 0 PROVE encoder' = fed'
      BY <1>1, <2>1 DEF EncoderIInv, FirstEncoder
    <2>2. ASSUME handed' = 1, direct' = 0
          PROVE  writer'.recorded = given' /\ ended' = 0
      BY <1>1, <1>3, <2>2 DEF EncoderIInv, FirstEncoder
    <2> QED BY <1>7, <2>1, <2>2 DEF FirstEncoder
  <1> QED BY <1>4, <1>5, <1>6, <1>8 DEF EncoderIInv

\* Dropped: whatever becomes of the frame, finish did not return.
LEMMA DropStep ==
    ASSUME EncoderIInv, NEW n \in 0 .. MaxFrame, Drop(n)
    PROVE  EncoderIInv'
  <1>1. /\ pc = "encoding" /\ pc' = "writing" /\ encoder' = None
        /\ UNCHANGED <<fed, direct, handed, ended, given>> /\ n \in Nat
    BY DEF Drop, historyVars
  <1>2. \/ UNCHANGED <<stored, writer>>
        \/ /\ Compressed
           /\ \E whole \in BOOLEAN : Emit(n, [Frame EXCEPT !.whole = whole])
    BY DEF Drop, Compressed
  <1>3. /\ writer' \in Writer
        /\ writer'.compression = writer.compression
        /\ writer'.recorded = writer.recorded
        /\ ~Compressed => writer'.content_length = writer.content_length
    <2>1. ASSUME NEW f, Emit(n, f) PROVE writer' = Received(n)
      BY <2>1 DEF Emit
    <2>2. writer \in Writer
      BY DEF EncoderIInv, EncoderTypes
    <2>3. \/ writer' = writer
          \/ Compressed /\ writer' = Received(n)
      BY <1>2, <2>1
    <2> QED BY <1>1, <2>2, <2>3 DEF Writer, Received
  <1>4. EncoderTypes' /\ PlainCounts' /\ BeforeEncoders' /\ FirstEncoder'
    BY <1>1, <1>3
    DEF EncoderIInv, EncoderTypes, PlainCounts, BeforeEncoders, FirstEncoder,
        Compressed
  <1>5. ASSUME handed' = 1, direct' = 0, Compressed'
        PROVE  \E s \in Segment : stored' = <<s>>
    <2>1. Compressed
      BY <1>3, <1>5 DEF Compressed
    <2>2. PICK s \in Segment : stored = <<s>>
      BY <1>1, <1>5, <2>1 DEF EncoderIInv, FirstEncoder
    <2>3. CASE UNCHANGED stored
      BY <2>2, <2>3
    <2>4. ASSUME NEW whole \in BOOLEAN, Emit(n, [Frame EXCEPT !.whole = whole])
          PROVE  \E t \in Segment : stored' = <<t>>
      <3>1. Frame = s
        BY <2>2 DEF Frame
      <3>2. PICK f : f = [s EXCEPT !.whole = whole]
        OBVIOUS
      <3>3. f \in Segment
        BY <3>2 DEF Segment
      <3>4. stored' = [stored EXCEPT ![Len(stored)] = [f EXCEPT !.length = @ + n]]
        BY <2>4, <3>1, <3>2 DEF Emit
      <3> QED BY <1>1, <2>2, <3>3, <3>4, Emitted
    <2> QED BY <1>2, <2>3, <2>4
  <1>6. AfterEncoder'
    <2>1. ASSUME handed' = 1, direct' = 0
          PROVE  writer'.recorded = given' /\ ended' = 0
      BY <1>1, <1>3, <2>1 DEF EncoderIInv, FirstEncoder
    <2> QED BY <1>5, <2>1 DEF AfterEncoder
  <1> QED BY <1>4, <1>6 DEF EncoderIInv

\* ContentEncoder::finish records the length it was fed unless the counted one
\* is the same.
LEMMA FinishEncoderStep ==
    ASSUME EncoderIInv, NEW n \in 0 .. MaxFrame, FinishEncoder(n)
    PROVE  EncoderIInv'
  <1>1. /\ pc = "encoding" /\ pc' = "writing" /\ encoder' = None
        /\ UNCHANGED <<fed, direct, handed, given>> /\ n \in Nat
        /\ ended' = ended + 1
    BY DEF FinishEncoder
  <1>2. PICK w : w = IF Compressed THEN Received(n) ELSE writer
    OBVIOUS
  <1>3. /\ w \in Writer /\ w.compression = writer.compression
        /\ w.recorded = writer.recorded
        /\ ~Compressed => w.content_length = writer.content_length
    BY <1>1, <1>2 DEF EncoderIInv, EncoderTypes, Writer, Received
  <1>4. writer' = IF w.content_length # encoder THEN WithLength(w) ELSE w
    BY <1>2 DEF FinishEncoder, Differs, Compressed
  <1>5. handed # 0 /\ encoder # None
    BY <1>1 DEF EncoderIInv, EncoderTypes, BeforeEncoders
  <1>6. /\ writer' \in Writer /\ writer'.compression = writer.compression
        /\ writer'.content_length = w.content_length
        /\ w.content_length = encoder => writer'.recorded = w.recorded
        /\ w.content_length # encoder => writer'.recorded = encoder
    <2>1. CASE w.content_length = encoder
      BY <1>3, <1>4, <2>1
    <2>2. CASE w.content_length # encoder
      <3>1. writer' = [w EXCEPT !.recorded = encoder,
                          !.needed = IF w.recorded = None THEN @ + 1 ELSE @]
        BY <1>4, <2>2 DEF WithLength
      <3>2. encoder \in Nat
        BY <1>5 DEF EncoderIInv, EncoderTypes
      <3>3. PICK needed : needed = IF w.recorded = None THEN w.needed + 1 ELSE w.needed
        OBVIOUS
      <3>4. needed \in Nat
        BY <1>3, <3>3 DEF Writer
      <3>5. writer' = [compression |-> w.compression,
                       content_length |-> w.content_length,
                       allow_raw_writes |-> w.allow_raw_writes,
                       recorded |-> encoder, needed |-> needed, room |-> w.room]
        BY <1>3, <3>1, <3>3 DEF Writer
      <3> QED BY <1>3, <2>2, <3>2, <3>4, <3>5 DEF Writer
    <2> QED BY <2>1, <2>2
  <1>7. EncoderTypes' /\ PlainCounts' /\ BeforeEncoders' /\ FirstEncoder'
    BY <1>1, <1>3, <1>5, <1>6
    DEF EncoderIInv, EncoderTypes, PlainCounts, BeforeEncoders, FirstEncoder,
        Compressed
  <1>8. ASSUME handed = 1, direct = 0 PROVE LengthStated'
    <2>1. encoder = fed /\ writer.recorded = given
      BY <1>1, <1>8 DEF EncoderIInv, FirstEncoder
    <2>2. fed \in Nat /\ None \notin Nat
      BY ContentEncoderAssumption DEF EncoderIInv, EncoderTypes
    <2> QED BY <1>1, <1>3, <1>6, <2>1, <2>2 DEF LengthStated
  <1>9. ASSUME handed = 1, direct = 0, ~Compressed
        PROVE  writer'.recorded = given
    <2>1. encoder = fed /\ writer.recorded = given /\ writer.content_length = fed
      BY <1>1, <1>9 DEF EncoderIInv, FirstEncoder, PlainCounts
    <2> QED BY <1>3, <1>6, <1>9, <2>1
  <1>10. ASSUME handed = 1, direct = 0, Compressed
         PROVE  \E s \in Segment : stored' = <<s>>
    <2>1. PICK s \in Segment : stored = <<s>>
      BY <1>1, <1>10 DEF EncoderIInv, FirstEncoder
    <2>2. PICK t : t = [s EXCEPT !.length = @ + n, !.whole = TRUE]
      OBVIOUS
    <2>3. t \in Segment
      <3>1. t = [kind |-> s.kind, data |-> s.data, length |-> s.length + n,
                 whole |-> TRUE]
        BY <2>2 DEF Segment
      <3>2. s.length + n \in Nat
        BY <1>1 DEF Segment
      <3> QED BY <3>1, <3>2 DEF Segment
    <2>4. stored' = [stored EXCEPT ![Len(stored)] = t]
      BY <1>10, <2>1, <2>2 DEF FinishEncoder, Frame, Compressed
    <2> QED BY <2>1, <2>3, <2>4
  <1>11. AfterEncoder'
    BY <1>1, <1>6, <1>8, <1>9, <1>10 DEF AfterEncoder, Compressed
  <1> QED BY <1>7, <1>11 DEF EncoderIInv

LEMMA EncoderNext == EncoderIInv /\ [Next]_vars => EncoderIInv'
  <1>1. ASSUME EncoderIInv, UNCHANGED vars PROVE EncoderIInv'
    BY <1>1
    DEF vars, historyVars, EncoderIInv, EncoderTypes, PlainCounts, BeforeEncoders,
        FirstEncoder, AfterEncoder, Compressed, LengthStated
  <1>2. ASSUME EncoderIInv, WriteRefused \/ Done PROVE EncoderIInv'
    BY <1>1, <1>2 DEF WriteRefused, Done
  <1>3. ASSUME EncoderIInv, NEW n \in 0 .. MaxFrame,
               Encode(n) \/ Flush(n) \/ Drop(n) \/ FinishEncoder(n)
        PROVE  EncoderIInv'
    BY <1>3, EncodeStep, DropStep, FinishEncoderStep
  <1> QED BY <1>1, <1>2, <1>3, WriterStep, HandOutStep DEF Next

\* The only encoder knows what it was fed until finish records it.
THEOREM EncoderInvariant == Spec => []EncoderIInv
  BY EncoderInit, EncoderNext, PTL DEF Spec

LEMMA InvariantLength == EncoderIInv => LengthIsTrue
  <1> SUFFICES ASSUME EncoderIInv, pc = "published", OneEncoder
               PROVE  LengthStated
    BY DEF LengthIsTrue, LengthStated
  <1>1. handed = 1 /\ direct = 0 /\ (Compressed => ended = 1)
    BY DEF OneEncoder, Compressed
  <1>2. CASE Compressed
    BY <1>1, <1>2 DEF EncoderIInv, AfterEncoder
  <1>3. CASE ~Compressed
    BY <1>1, <1>3 DEF EncoderIInv, AfterEncoder, PlainCounts, LengthStated
  <1> QED BY <1>2, <1>3

\* "The only record of how large the content really is" (compression.rs:14-16)
\* is right, for any codec and any number of chunks, if there was one encoder
\* and it was finished.
THEOREM RecordedLengthIsTrue == Spec => []LengthIsTrue
  BY EncoderInvariant, InvariantLength, PTL
-----------------------------------------------------------------------------
(* What is in the file: the invariant.                                     *)

\* The segments add up to what is counted, and to what was fed, whatever the
\* codec kept in its buffer.
AddsUp ==
    /\ stored \in Seq(Segment)
    /\ writer.content_length = Bytes(stored)
    /\ Data(stored) = AllFed

\* Nothing that is whole is without bytes.
WholeHasBytes == \A k \in DOMAIN stored : stored[k].whole => stored[k].length > 0

\* Without a codec every segment is a byte as it was written.
PlainIsWhole == ~Compressed => \A k \in DOMAIN stored : stored[k].whole

\* Bytes get past a codec only by a write to the writer, and not before there
\* was an encoder.
FramesOnly ==
    Compressed =>
        /\ direct = 0 => \A k \in DOMAIN stored : stored[k].kind = "frame"
        /\ handed = 0 => stored = <<>> /\ ~writer.allow_raw_writes

\* Every encoder with a codec has a frame, and keeps it.
HasFrame == handed # 0 /\ Compressed => stored # <<>>

ContentIInv == AddsUp /\ WholeHasBytes /\ PlainIsWhole /\ FramesOnly /\ HasFrame

-----------------------------------------------------------------------------
(* Bytes and Data of a file that got longer.                               *)

LEMMA SegmentFields ==
    ASSUME NEW s \in Segment PROVE s.length \in Nat /\ s.data \in Seq(Nat)
  BY DEF Segment

\* The columns Bytes and Data are taken of.
LEMMA Columns ==
    ASSUME NEW ss \in Seq(Segment)
    PROVE  /\ [k \in DOMAIN ss |-> ss[k].length] \in Seq(Nat)
           /\ Len([k \in DOMAIN ss |-> ss[k].length]) = Len(ss)
           /\ [k \in DOMAIN ss |-> ss[k].data] \in Seq(Seq(Nat))
           /\ Len([k \in DOMAIN ss |-> ss[k].data]) = Len(ss)
  <1>1. PICK n \in Nat : n = Len(ss) /\ DOMAIN ss = 1 .. n
    OBVIOUS
  <1>2. \A k \in 1 .. n : ss[k] \in Segment
    BY <1>1
  <1>3. \A k \in 1 .. n : ss[k].length \in Nat /\ ss[k].data \in Seq(Nat)
    BY <1>2, SegmentFields
  <1>4. \A k \in 1 .. n : ss[k].data \in Seq(Nat)
    BY <1>3
  <1>5. [k \in 1 .. n |-> ss[k].data] \in Seq(Seq(Nat))
    BY <1>4
  <1> QED BY <1>1, <1>3, <1>5

LEMMA BytesAppend ==
    ASSUME NEW ss \in Seq(Segment), NEW s \in Segment
    PROVE  /\ Bytes(ss) \in Nat
           /\ Bytes(Append(ss, s)) = Bytes(ss) + s.length
  <1>1. PICK ns : ns = [k \in DOMAIN ss |-> ss[k].length]
    OBVIOUS
  <1>2. ns \in Seq(Nat) /\ Len(ns) = Len(ss) /\ s.length \in Nat
    BY <1>1, Columns, SegmentFields
  <1>3. PICK tt : tt = Append(ss, s)
    OBVIOUS
  <1>4. [k \in DOMAIN tt |-> tt[k].length] = Append(ns, s.length)
    BY <1>1, <1>2, <1>3
  <1> QED BY <1>1, <1>2, <1>3, <1>4, TotalAppend, TotalIsNat DEF Bytes

LEMMA DataAppend ==
    ASSUME NEW ss \in Seq(Segment), NEW s \in Segment
    PROVE  /\ Data(ss) \in Seq(Nat)
           /\ Data(Append(ss, s)) = Data(ss) \o s.data
  <1>1. PICK ds : ds = [k \in DOMAIN ss |-> ss[k].data]
    OBVIOUS
  <1>2. ds \in Seq(Seq(Nat)) /\ Len(ds) = Len(ss) /\ s.data \in Seq(Nat)
    BY <1>1, Columns, SegmentFields
  <1>3. PICK tt : tt = Append(ss, s)
    OBVIOUS
  <1>4. [k \in DOMAIN tt |-> tt[k].data] = Append(ds, s.data)
    BY <1>1, <1>2, <1>3
  <1> QED BY <1>1, <1>2, <1>3, <1>4, FlattenAppend, FlattenIsSeq DEF Data

\* What is in an empty file.
LEMMA NothingStored == Bytes(<<>>) = 0 /\ Data(<<>>) = <<>>
  <1>1. [k \in DOMAIN <<>> |-> <<>>[k].length] = <<>>
    OBVIOUS
  <1>2. [k \in DOMAIN <<>> |-> <<>>[k].data] = <<>>
    OBVIOUS
  <1> QED BY <1>1, <1>2, TotalEmpty, FlattenEmpty DEF Bytes, Data

\* A part of the file from its start has no more bytes than the file.
LEMMA BytesOfFront ==
    ASSUME NEW ss \in Seq(Segment), NEW n \in 0 .. Len(ss)
    PROVE  Bytes(SubSeq(ss, 1, n)) <= Bytes(ss)
  <1>1. PICK ns : ns = [k \in DOMAIN ss |-> ss[k].length]
    OBVIOUS
  <1>2. ns \in Seq(Nat) /\ Len(ns) = Len(ss)
    BY <1>1, Columns
  <1>3. PICK front : front = SubSeq(ss, 1, n)
    OBVIOUS
  <1>4. PICK ms : ms = SubSeq(ns, 1, n)
    OBVIOUS
  <1>5. front \in Seq(Segment) /\ Len(front) = n /\ \A k \in 1 .. n : front[k] = ss[k]
    BY <1>3, FrontOf
  <1>6. ms \in Seq(Nat) /\ Len(ms) = n /\ \A k \in 1 .. n : ms[k] = ns[k]
    BY <1>2, <1>4, FrontOf
  <1>7. [k \in DOMAIN front |-> front[k].length] = ms
    <2>1. DOMAIN front = 1 .. n /\ ms = [k \in 1 .. n |-> ms[k]]
      BY <1>5, <1>6
    <2>2. \A k \in 1 .. n : ns[k] = ss[k].length
      BY <1>1
    <2>3. \A k \in 1 .. n : front[k].length = ms[k]
      BY <1>5, <1>6, <2>2
    <2> QED BY <2>1, <2>3
  <1> QED BY <1>1, <1>2, <1>3, <1>4, <1>7, TotalOfFront DEF Bytes

\* Writing to the last frame leaves the ones before it.
LEMMA LastReplaced ==
    ASSUME NEW ss \in Seq(Segment), ss # <<>>, NEW t \in Segment
    PROVE  \E front \in Seq(Segment) :
               /\ ss = Append(front, ss[Len(ss)])
               /\ [ss EXCEPT ![Len(ss)] = t] = Append(front, t)
  <1>1. PICK front \in Seq(Segment) :
           /\ Len(front) = Len(ss) - 1 /\ ss = Append(front, ss[Len(ss)])
    BY LastElement
  <1>2. PICK last \in Nat : last = Len(front)
    OBVIOUS
  <1>3. Len(ss) = last + 1
    BY <1>1, <1>2
  <1>4. [ss EXCEPT ![last + 1] = t] = Append(front, t)
    <2>1. PICK new : new = [ss EXCEPT ![last + 1] = t]
      OBVIOUS
    <2>2. PICK longer : longer = Append(front, t)
      OBVIOUS
    <2>3. new \in Seq(Segment) /\ Len(new) = last + 1
      BY <1>3, <2>1
    <2>4. longer \in Seq(Segment) /\ Len(longer) = last + 1
      BY <1>2, <2>2
    <2>5. \A k \in 1 .. last : ss[k] = front[k]
      BY <1>1, <1>2
    <2>6. ASSUME NEW k \in 1 .. last + 1 PROVE new[k] = longer[k]
      BY <1>2, <1>3, <2>1, <2>2, <2>5
    <2>7. /\ new = [k \in 1 .. last + 1 |-> new[k]]
          /\ longer = [k \in 1 .. last + 1 |-> longer[k]]
      BY <2>3, <2>4
    <2>8. new = longer
      BY <2>6, <2>7
    <2> QED BY <2>1, <2>2, <2>8
  <1> QED BY <1>1, <1>3, <1>4

\* With one more chunk fed.
LEMMA AllFedGrows ==
    ASSUME fed \in Nat, fed' = fed + 1
    PROVE  AllFed \in Seq(Nat) /\ AllFed' = AllFed \o <<fed + 1>>
  <1>1. AllFed \in Seq(Nat) /\ Len(AllFed) = fed
    BY DEF AllFed
  <1> QED BY <1>1 DEF AllFed
-----------------------------------------------------------------------------
(* Each step keeps it.                                                     *)

LEMMA ContentInit == Init => ContentIInv
  <1> SUFFICES ASSUME Init PROVE ContentIInv
    OBVIOUS
  <1>1. /\ stored = <<>> /\ pc = "writing" /\ fed = 0 /\ handed = 0
        /\ writer.content_length = 0
        /\ writer.allow_raw_writes = AllowsRaw(writer.compression)
    BY DEF Init
  <1>2. AddsUp
    <2>1. stored \in Seq(Segment)
      BY <1>1
    <2>2. AllFed = <<>>
      BY <1>1 DEF AllFed
    <2> QED BY <1>1, <2>1, <2>2, NothingStored DEF AddsUp
  <1>3. Compressed => ~writer.allow_raw_writes
    BY <1>1 DEF Compressed, AllowsRaw
  <1>4. WholeHasBytes /\ PlainIsWhole /\ FramesOnly /\ HasFrame
    <2>1. DOMAIN stored = {} /\ pc # "encoding"
      BY <1>1
    <2> QED
      BY <1>1, <1>3, <2>1 DEF WholeHasBytes, PlainIsWhole, FramesOnly, HasFrame
  <1> QED BY <1>2, <1>4 DEF ContentIInv

\* A byte that is written as it is adds up.
LEMMA RawAddsUp ==
    ASSUME AddsUp, WholeHasBytes, fed \in Nat, fed' = fed + 1,
           writer'.content_length = writer.content_length + 1,
           stored' = Append(stored, Raw(fed + 1))
    PROVE  /\ AddsUp' /\ WholeHasBytes'
           /\ (\A k \in DOMAIN stored : stored[k].whole)
                 => \A k \in DOMAIN stored' : stored'[k].whole
  <1>1. PICK s : s = Raw(fed + 1)
    OBVIOUS
  <1>2. s \in Segment /\ s.length = 1 /\ s.data = <<fed + 1>> /\ s.whole
    BY <1>1 DEF Raw, Segment
  <1>3. stored \in Seq(Segment) /\ stored' = Append(stored, s)
    BY <1>1 DEF AddsUp
  <1>4. stored' \in Seq(Segment)
    BY <1>2, <1>3
  <1>5. Bytes(stored') = Bytes(stored) + 1 /\ Data(stored') = Data(stored) \o <<fed + 1>>
    BY <1>2, <1>3, BytesAppend, DataAppend
  <1>6. AllFed' = AllFed \o <<fed + 1>>
    BY AllFedGrows
  <1>7. AddsUp'
    BY <1>4, <1>5, <1>6 DEF AddsUp
  <1>8. \A k \in DOMAIN stored' : \/ k \in DOMAIN stored /\ stored'[k] = stored[k]
                                  \/ stored'[k] = s
    BY <1>3
  <1>9. WholeHasBytes'
    BY <1>2, <1>8 DEF WholeHasBytes
  <1> QED BY <1>2, <1>7, <1>8, <1>9

\* The last frame with more bytes, or more data, or its end.
LEMMA FrameAddsUp ==
    ASSUME AddsUp, WholeHasBytes, stored # <<>>, NEW n \in Nat, NEW t \in Segment,
           t.length = Frame.length + n, t.kind = Frame.kind,
           t.whole => Frame.whole \/ t.length > 0,
           writer'.content_length = writer.content_length + n,
           \/ t.data = Frame.data /\ fed' = fed
           \/ t.data = Append(Frame.data, fed + 1) /\ fed \in Nat /\ fed' = fed + 1,
           stored' = [stored EXCEPT ![Len(stored)] = t]
    PROVE  /\ AddsUp' /\ WholeHasBytes' /\ stored' # <<>>
           /\ (\A k \in DOMAIN stored : stored[k].kind = "frame")
                 => \A k \in DOMAIN stored' : stored'[k].kind = "frame"
  <1>1. stored \in Seq(Segment)
    BY DEF AddsUp
  <1>2. PICK front \in Seq(Segment) :
           stored = Append(front, Frame) /\ stored' = Append(front, t)
    <2>1. PICK ss \in Seq(Segment) : ss = stored
      BY <1>1
    <2>2. ss # <<>> /\ Frame = ss[Len(ss)] /\ stored' = [ss EXCEPT ![Len(ss)] = t]
      BY <2>1 DEF Frame
    <2>3. PICK front \in Seq(Segment) :
             /\ ss = Append(front, ss[Len(ss)])
             /\ [ss EXCEPT ![Len(ss)] = t] = Append(front, t)
      BY <2>2, LastReplaced
    <2> QED BY <2>1, <2>2, <2>3
  <1>3. PICK f : f = Frame
    OBVIOUS
  <1>4. PICK last \in Nat : last = Len(stored)
    BY <1>1
  <1>5. /\ last \in DOMAIN stored /\ f = stored[last] /\ f \in Segment
        /\ DOMAIN stored' = DOMAIN stored /\ stored'[last] = t
        /\ \A k \in DOMAIN stored : k # last => stored'[k] = stored[k]
    BY <1>1, <1>3, <1>4 DEF Frame
  <1>6. f.length \in Nat /\ f.data \in Seq(Nat)
    BY <1>5, SegmentFields
  <1>7. stored' \in Seq(Segment) /\ stored' # <<>>
    <2>1. \A longer : longer = Append(front, t) => longer \in Seq(Segment) /\ longer # <<>>
      OBVIOUS
    <2> QED BY <1>2, <2>1
  <1>8. Bytes(stored') = Bytes(stored) + n
    <2>1. /\ Bytes(front) \in Nat
          /\ Bytes(stored) = Bytes(front) + f.length
          /\ Bytes(stored') = Bytes(front) + t.length
      BY ONLY <1>2, <1>3, <1>5, front \in Seq(Segment), t \in Segment, BytesAppend
    <2> QED BY <1>3, <1>6, <2>1
  <1>9. Data(stored') = AllFed'
    <2>1. /\ Data(front) \in Seq(Nat)
          /\ Data(stored) = Data(front) \o f.data
          /\ Data(stored') = Data(front) \o t.data
      BY ONLY <1>2, <1>3, <1>5, front \in Seq(Segment), t \in Segment, DataAppend
    <2>2. Data(stored) = AllFed
      BY DEF AddsUp
    <2>3. CASE t.data = f.data /\ fed' = fed
      BY <2>1, <2>2, <2>3 DEF AllFed
    <2>4. CASE t.data = Append(f.data, fed + 1) /\ fed \in Nat /\ fed' = fed + 1
      <3>1. AllFed' = AllFed \o <<fed + 1>>
        BY <2>4, AllFedGrows
      <3>2. Data(front) \o Append(f.data, fed + 1)
               = (Data(front) \o f.data) \o <<fed + 1>>
        <4>1. fed + 1 \in Nat
          BY <2>4
        <4>2. PICK s \in Seq(Nat), u \in Seq(Nat), x \in Nat :
                 s = Data(front) /\ u = f.data /\ x = fed + 1
          BY <1>6, <2>1, <4>1
        <4>3. s \o Append(u, x) = (s \o u) \o <<x>>
          BY ONLY s \in Seq(Nat), u \in Seq(Nat), x \in Nat, JoinAppend
        <4> QED BY ONLY <4>2, <4>3
      <3> QED BY <2>1, <2>2, <2>4, <3>1, <3>2
    <2> QED BY <1>3, <2>3, <2>4
  <1>10. AddsUp'
    BY <1>7, <1>8, <1>9 DEF AddsUp
  <1>11. WholeHasBytes'
    <2>1. t.whole => t.length > 0
      BY <1>3, <1>5, <1>6 DEF WholeHasBytes
    <2> QED BY <1>5, <2>1 DEF WholeHasBytes
  <1>12. (\A k \in DOMAIN stored : stored[k].kind = "frame")
            => \A k \in DOMAIN stored' : stored'[k].kind = "frame"
    BY <1>3, <1>5
  <1> QED BY <1>7, <1>10, <1>11, <1>12
\* A step that leaves the file as it is, and what was fed.
LEMMA FileKept ==
    ASSUME ContentIInv, UNCHANGED <<stored, fed, direct>>,
           writer'.content_length = writer.content_length,
           writer'.compression = writer.compression,
           \/ handed' = handed /\ writer'.allow_raw_writes = writer.allow_raw_writes
           \/ handed' # 0 /\ (~Compressed \/ handed # 0)
    PROVE  ContentIInv'
  <1>1. AddsUp'
    BY DEF ContentIInv, AddsUp, AllFed
  <1>2. WholeHasBytes' /\ PlainIsWhole' /\ HasFrame'
    BY DEF ContentIInv, WholeHasBytes, PlainIsWhole, HasFrame, Compressed
  <1>3. FramesOnly'
    BY DEF ContentIInv, FramesOnly, Compressed
  <1> QED BY <1>1, <1>2, <1>3 DEF ContentIInv

\* A step of an encoder with a codec writes to its frame.
LEMMA FrameWritten ==
    ASSUME EncoderIInv, ContentIInv, pc = "encoding", Compressed,
           NEW n \in Nat, NEW t \in Segment,
           t.length = Frame.length + n, t.kind = Frame.kind,
           t.whole => Frame.whole \/ t.length > 0,
           writer'.content_length = writer.content_length + n,
           writer'.compression = writer.compression,
           \/ t.data = Frame.data /\ fed' = fed
           \/ t.data = Append(Frame.data, fed + 1) /\ fed \in Nat /\ fed' = fed + 1,
           stored' = [stored EXCEPT ![Len(stored)] = t],
           UNCHANGED <<direct, handed>>
    PROVE  ContentIInv'
  <1>1. AddsUp /\ WholeHasBytes /\ stored # <<>> /\ handed # 0
    BY DEF ContentIInv, HasFrame, EncoderIInv, BeforeEncoders
  <1>2. /\ AddsUp' /\ WholeHasBytes' /\ stored' # <<>>
        /\ (\A k \in DOMAIN stored : stored[k].kind = "frame")
              => \A k \in DOMAIN stored' : stored'[k].kind = "frame"
    BY <1>1, FrameAddsUp
  <1>3. FramesOnly'
    BY <1>1, <1>2 DEF ContentIInv, FramesOnly, Compressed
  <1> QED BY <1>2, <1>3 DEF ContentIInv, PlainIsWhole, HasFrame, Compressed

\* A write to the writer: with a codec only once there was an encoder.
LEMMA WriteContent ==
    ASSUME EncoderIInv, ContentIInv, Write
    PROVE  ContentIInv'
  <1>1. /\ pc' # "encoding" /\ writer.allow_raw_writes
        /\ stored' = Append(stored, Raw(fed + 1))
        /\ fed' = fed + 1 /\ direct' = direct + 1 /\ handed' = handed
        /\ writer' = [writer EXCEPT !.content_length = @ + 1]
    BY DEF Write, Received
  <1>2. /\ fed \in Nat /\ direct' # 0
        /\ writer'.content_length = writer.content_length + 1
        /\ writer'.compression = writer.compression
    BY <1>1 DEF EncoderIInv, EncoderTypes, Writer
  <1>3. AddsUp /\ WholeHasBytes
    BY DEF ContentIInv
  <1>4. /\ AddsUp' /\ WholeHasBytes'
        /\ (\A k \in DOMAIN stored : stored[k].whole)
              => \A k \in DOMAIN stored' : stored'[k].whole
    BY <1>1, <1>2, <1>3, RawAddsUp
  <1>5. PlainIsWhole'
    BY <1>2, <1>4 DEF ContentIInv, PlainIsWhole, Compressed
  <1>6. FramesOnly'
    <2>1. Compressed => handed # 0
      BY <1>1 DEF ContentIInv, FramesOnly
    <2> QED BY <1>1, <1>2, <2>1 DEF FramesOnly, Compressed
  <1> QED BY <1>1, <1>4, <1>5, <1>6 DEF ContentIInv, HasFrame

\* content_encoder starts a frame.
LEMMA HandOutContent ==
    ASSUME EncoderIInv, ContentIInv, HandOut
    PROVE  ContentIInv'
  <1>1. /\ handed' = handed + 1 /\ UNCHANGED <<fed, direct>>
        /\ writer' = [writer EXCEPT !.allow_raw_writes = TRUE]
        /\ stored' = IF Compressed THEN Append(stored, NewFrame) ELSE stored
    BY DEF HandOut, Compressed
  <1>2. /\ handed' # 0
        /\ writer'.compression = writer.compression
        /\ writer'.content_length = writer.content_length
    BY <1>1 DEF EncoderIInv, EncoderTypes, Writer
  <1>3. CASE ~Compressed
    BY <1>1, <1>2, <1>3, FileKept
  <1>4. CASE Compressed
    <2>1. PICK s : s = NewFrame
      OBVIOUS
    <2>2. /\ s \in Segment /\ s.length = 0 /\ s.data = <<>>
          /\ s.kind = "frame" /\ ~s.whole
      BY <2>1 DEF NewFrame, Segment
    <2>3. stored \in Seq(Segment) /\ stored' = Append(stored, s)
      BY <1>1, <1>4, <2>1 DEF ContentIInv, AddsUp
    <2>4. stored' \in Seq(Segment) /\ stored' # <<>>
      <3>1. \A longer : longer = Append(stored, s)
                           => longer \in Seq(Segment) /\ longer # <<>>
        BY <2>2, <2>3
      <3> QED BY <2>3, <3>1
    <2>5. Bytes(stored') = Bytes(stored) /\ Data(stored') = Data(stored)
      <3>1. /\ Bytes(stored) \in Nat /\ Data(stored) \in Seq(Nat)
            /\ Bytes(stored') = Bytes(stored) + 0
            /\ Data(stored') = Data(stored) \o <<>>
        BY <2>2, <2>3, BytesAppend, DataAppend
      <3>2. \A ds \in Seq(Nat) : ds \o <<>> = ds
        OBVIOUS
      <3> QED BY <3>1, <3>2
    <2>6. AddsUp'
      BY <1>1, <1>2, <2>4, <2>5 DEF ContentIInv, AddsUp, AllFed
    <2>7. \A k \in DOMAIN stored' : \/ k \in DOMAIN stored /\ stored'[k] = stored[k]
                                    \/ stored'[k] = s
      BY <2>3
    <2>8. WholeHasBytes'
      BY <2>2, <2>7 DEF ContentIInv, WholeHasBytes
    <2>9. FramesOnly'
      BY <1>1, <1>2, <1>4, <2>2, <2>7 DEF ContentIInv, FramesOnly, Compressed
    <2> QED
      BY <1>2, <1>4, <2>4, <2>6, <2>8, <2>9
      DEF ContentIInv, PlainIsWhole, HasFrame, Compressed
  <1> QED BY <1>3, <1>4

\* The frame of an encoder that is in use.
LEMMA FrameOfEncoder ==
    ASSUME EncoderIInv, ContentIInv, pc = "encoding", Compressed
    PROVE  Frame \in Segment
  <1>1. stored \in Seq(Segment) /\ stored # <<>>
    BY DEF ContentIInv, AddsUp, HasFrame, EncoderIInv, BeforeEncoders
  <1>2. PICK ss \in Seq(Segment) : ss = stored /\ ss # <<>>
    BY <1>1
  <1>3. ss[Len(ss)] \in Segment
    BY <1>2
  <1> QED BY <1>2, <1>3 DEF Frame

\* What is fed is in the frame at once, its bytes when the codec likes.
LEMMA EncodeContent ==
    ASSUME EncoderIInv, ContentIInv, NEW n \in 0 .. MaxFrame, Encode(n)
    PROVE  ContentIInv'
  <1>1. /\ pc = "encoding" /\ pc' = pc /\ UNCHANGED <<direct, handed>>
        /\ fed' = fed + 1 /\ n \in Nat /\ fed \in Nat
    BY DEF Encode, EncoderIInv, EncoderTypes
  <1>2. CASE ~Compressed
    <2>1. /\ stored' = Append(stored, Raw(fed + 1))
          /\ writer' = [writer EXCEPT !.content_length = @ + 1]
      BY <1>2 DEF Encode, Received, Compressed
    <2>2. /\ writer'.content_length = writer.content_length + 1
          /\ writer'.compression = writer.compression
      BY <2>1 DEF EncoderIInv, EncoderTypes, Writer
    <2>3. AddsUp /\ WholeHasBytes /\ \A k \in DOMAIN stored : stored[k].whole
      BY <1>2 DEF ContentIInv, PlainIsWhole
    <2>4. /\ AddsUp' /\ WholeHasBytes'
          /\ \A k \in DOMAIN stored' : stored'[k].whole
      BY <1>1, <2>1, <2>2, <2>3, RawAddsUp
    <2> QED
      BY <1>2, <2>2, <2>4
      DEF ContentIInv, PlainIsWhole, FramesOnly, HasFrame, Compressed
  <1>3. CASE Compressed
    <2>1. Frame \in Segment
      BY <1>1, <1>3, FrameOfEncoder
    <2>2. PICK f \in Segment : f = Frame
      BY <2>1
    <2>3. PICK data : data = Append(f.data, fed + 1)
      OBVIOUS
    <2>4. data \in Seq(Nat)
      BY <1>1, <2>3, SegmentFields
    <2>5. PICK t : t = [kind |-> f.kind, data |-> data, length |-> f.length + n,
                        whole |-> f.whole]
      OBVIOUS
    <2>6. t \in Segment
      <3>1. f.length + n \in Nat
        BY <1>1, SegmentFields
      <3> QED BY <2>4, <2>5, <3>1 DEF Segment
    <2>7. /\ stored' = [stored EXCEPT ![Len(stored)] =
                           [[f EXCEPT !.data = Append(@, fed + 1)] EXCEPT !.length = @ + n]]
          /\ writer' = [writer EXCEPT !.content_length = @ + n]
      BY <1>3, <2>2 DEF Encode, Emit, Received, Compressed
    <2>8. [[f EXCEPT !.data = Append(@, fed + 1)] EXCEPT !.length = @ + n] = t
      <3>1. PICK g : g = [f EXCEPT !.data = Append(@, fed + 1)]
        OBVIOUS
      <3>2. g = [kind |-> f.kind, data |-> data, length |-> f.length, whole |-> f.whole]
        BY <2>3, <3>1 DEF Segment
      <3>3. [g EXCEPT !.length = @ + n] = t
        BY <2>5, <3>2
      <3> QED BY <3>1, <3>3
    <2>9. stored' = [stored EXCEPT ![Len(stored)] = t]
      BY <2>7, <2>8
    <2>10. /\ writer'.content_length = writer.content_length + n
           /\ writer'.compression = writer.compression
      BY <2>7 DEF EncoderIInv, EncoderTypes, Writer
    <2>11. /\ t.length = Frame.length + n /\ t.kind = Frame.kind
           /\ t.whole = Frame.whole /\ t.data = Append(Frame.data, fed + 1)
      BY <2>2, <2>3, <2>5
    <2> QED BY <1>1, <1>3, <2>6, <2>9, <2>10, <2>11, FrameWritten
  <1> QED BY <1>2, <1>3

\* A codec that writes what it kept: for a flush, and a GzEncoder as it is
\* dropped, which may end its member.
LEMMA EmitContent ==
    ASSUME EncoderIInv, ContentIInv, NEW n \in Nat, pc = "encoding", Compressed,
           NEW whole \in BOOLEAN, whole => Frame.whole \/ n + Frame.length > 0,
           Emit(n, [Frame EXCEPT !.whole = whole]),
           UNCHANGED <<fed, direct, handed>>
    PROVE  ContentIInv'
  <1>1. PICK f \in Segment : f = Frame
    BY FrameOfEncoder
  <1>2. PICK t : t = [[f EXCEPT !.whole = whole] EXCEPT !.length = @ + n]
    OBVIOUS
  <1>3. /\ t \in Segment /\ t.length = f.length + n /\ t.kind = f.kind
        /\ t.whole = whole /\ t.data = f.data
    <2>1. t = [kind |-> f.kind, data |-> f.data, length |-> f.length + n,
               whole |-> whole]
      BY <1>2 DEF Segment
    <2>2. f.length + n \in Nat /\ f.data \in Seq(Nat)
      BY SegmentFields
    <2> QED BY <2>1, <2>2 DEF Segment
  <1>4. t.whole => f.whole \/ t.length > 0
    <2>1. PICK m \in Nat : m = f.length
      BY SegmentFields
    <2> QED BY <1>1, <1>3, <2>1
  <1>5. /\ stored' = [stored EXCEPT ![Len(stored)] = t]
        /\ writer' = [writer EXCEPT !.content_length = @ + n]
    BY <1>1, <1>2 DEF Emit, Received
  <1>6. /\ writer'.content_length = writer.content_length + n
        /\ writer'.compression = writer.compression
    BY <1>5 DEF EncoderIInv, EncoderTypes, Writer
  <1> QED BY <1>1, <1>3, <1>4, <1>5, <1>6, FrameWritten

\* ContentEncoder::finish: no frame that is whole is without bytes.
LEMMA FinishEncoderContent ==
    ASSUME EncoderIInv, ContentIInv, NEW n \in 0 .. MaxFrame, FinishEncoder(n)
    PROVE  ContentIInv'
  <1>1. /\ pc = "encoding" /\ pc' = "writing" /\ UNCHANGED <<fed, direct, handed>>
        /\ n \in Nat /\ handed # 0
    BY DEF FinishEncoder, historyVars, EncoderIInv, BeforeEncoders
  <1>2. PICK w : w = IF Compressed THEN Received(n) ELSE writer
    OBVIOUS
  <1>3. /\ w \in Writer /\ w.compression = writer.compression
        /\ w.content_length = IF Compressed THEN writer.content_length + n
                              ELSE writer.content_length
    BY <1>1, <1>2 DEF EncoderIInv, EncoderTypes, Writer, Received
  <1>4. writer' = WithLength(w) \/ writer' = w
    BY <1>2 DEF FinishEncoder, Compressed
  <1>5. /\ writer'.compression = writer.compression
        /\ writer'.content_length = w.content_length
    BY <1>3, <1>4 DEF WithLength, Writer
  <1>6. CASE ~Compressed
    <2>1. stored' = stored
      BY <1>6 DEF FinishEncoder, Compressed
    <2> QED BY <1>1, <1>3, <1>5, <1>6, <2>1, FileKept
  <1>7. CASE Compressed
    <2>1. PICK f \in Segment : f = Frame
      BY <1>1, <1>7, FrameOfEncoder
    <2>2. PICK t : t = [f EXCEPT !.length = @ + n, !.whole = TRUE]
      OBVIOUS
    <2>3. t = [kind |-> f.kind, data |-> f.data, length |-> f.length + n,
               whole |-> TRUE]
      BY <2>2 DEF Segment
    <2>4. f.length + n \in Nat /\ f.data \in Seq(Nat)
      BY <1>1, SegmentFields
    <2>5. t \in Segment
      BY <2>3, <2>4 DEF Segment
    <2>6. /\ n + f.length \in 1 .. MaxFrame
          /\ stored' = [stored EXCEPT ![Len(stored)] = t]
      BY <1>7, <2>1, <2>2 DEF FinishEncoder, Compressed
    <2>7. /\ t.length = f.length + n /\ t.kind = f.kind /\ t.length > 0
          /\ t.data = f.data
      <3>1. n + f.length > 0 /\ n + f.length = f.length + n
        <4>1. PICK m \in Nat : m = f.length
          BY SegmentFields
        <4>2. MaxFrame \in Nat
          BY ContentEncoderAssumption DEF ContentEncoderAssumption
        <4>3. n + m \in 1 .. MaxFrame
          BY <2>6, <4>1
        <4>4. n + m > 0 /\ n + m = m + n
          BY ONLY <1>1, <4>1, <4>2, <4>3
        <4> QED BY <4>1, <4>4
      <3> QED BY <2>3, <3>1
    <2> QED BY <1>1, <1>3, <1>5, <1>7, <2>1, <2>5, <2>6, <2>7, FrameWritten
  <1> QED BY <1>6, <1>7

LEMMA ContentNext == EncoderIInv /\ ContentIInv /\ [Next]_vars => ContentIInv'
  <1> SUFFICES ASSUME EncoderIInv, ContentIInv, [Next]_vars PROVE ContentIInv'
    OBVIOUS
  <1>1. CASE UNCHANGED vars \/ WriteRefused \/ Done
    BY <1>1, FileKept DEF vars, historyVars, WriteRefused, Done
  <1>2. CASE Grow \/ Publish \/ PublishFails
    <2>1. /\ pc' # "encoding" /\ UNCHANGED <<stored, fed, direct, handed>>
          /\ writer' = [writer EXCEPT !.needed = @ + 1] \/ writer' = writer
      BY <1>2 DEF Grow, Publish, PublishFails, historyVars
    <2>2. /\ writer'.compression = writer.compression
          /\ writer'.content_length = writer.content_length
          /\ writer'.allow_raw_writes = writer.allow_raw_writes
      BY <2>1 DEF EncoderIInv, EncoderTypes, Writer
    <2> QED BY <2>1, <2>2, FileKept
  <1>3. ASSUME NEW n \in 0 .. MaxFrame, Flush(n) PROVE ContentIInv'
    <2>1. /\ pc = "encoding" /\ Compressed /\ Emit(n, Frame) /\ n \in Nat
          /\ UNCHANGED <<fed, direct, handed>>
      BY <1>3 DEF Flush, historyVars, Compressed
    <2>2. PICK f \in Segment : f = Frame
      BY <2>1, FrameOfEncoder
    <2>3. [f EXCEPT !.whole = f.whole] = f /\ f.whole \in BOOLEAN
      BY DEF Segment
    <2> QED BY <2>1, <2>2, <2>3, EmitContent
  <1>4. ASSUME NEW n \in 0 .. MaxFrame, Drop(n) PROVE ContentIInv'
    <2>1. /\ pc = "encoding" /\ pc' = "writing" /\ n \in Nat
          /\ UNCHANGED <<fed, direct, handed>>
      BY <1>4 DEF Drop, historyVars
    <2>2. CASE writer.compression = "gzip"
      <3>1. PICK whole \in BOOLEAN :
               /\ whole => n + Frame.length > 0
               /\ Emit(n, [Frame EXCEPT !.whole = whole])
        BY <1>4, <2>2 DEF Drop
      <3>2. Compressed
        BY <2>2 DEF Compressed
      <3> QED BY <2>1, <3>1, <3>2, EmitContent
    <2>3. CASE writer.compression # "gzip"
      <3>1. UNCHANGED <<stored, writer>>
        BY <1>4, <2>3 DEF Drop
      <3> QED BY <2>1, <3>1, FileKept
    <2> QED BY <2>2, <2>3
  <1>5. ASSUME NEW n \in 0 .. MaxFrame, Encode(n) \/ FinishEncoder(n) PROVE ContentIInv'
    BY <1>5, EncodeContent, FinishEncoderContent
  <1> QED
    BY <1>1, <1>2, <1>3, <1>4, <1>5, WriteContent, HandOutContent DEF Next

\* Whatever the codecs keep and write, the segments of the file add up to what
\* was counted and to what was fed.
THEOREM ContentInvariant == Spec => []ContentIInv
  BY EncoderInvariant, ContentInit, ContentNext, PTL DEF Spec

\* The guard of writer.rs:81-83 does what it is for: nothing is in a compressed
\* object before an encoder was handed out.  What the writer counts is what is
\* in the file.
THEOREM ContentEncoderTypeCorrect == Spec => []TypeOK
  <1>1. EncoderIInv /\ ContentIInv => TypeOK
    BY DEF EncoderIInv, EncoderTypes, ContentIInv, AddsUp, FramesOnly, Compressed, TypeOK
  <1> QED BY <1>1, EncoderInvariant, ContentInvariant, PTL

-----------------------------------------------------------------------------
(* What is read back.                                                      *)

\* Every segment ends within the counted length.
LEMMA AllReached == ContentIInv => Reached = DOMAIN stored
  <1> SUFFICES ASSUME ContentIInv, NEW k \in DOMAIN stored
               PROVE  Bytes(SubSeq(stored, 1, k)) <= writer.content_length
    BY DEF Reached
  <1>1. stored \in Seq(Segment) /\ writer.content_length = Bytes(stored)
    BY DEF ContentIInv, AddsUp
  <1>2. k \in 0 .. Len(stored)
    BY <1>1
  <1> QED BY <1>1, <1>2, BytesOfFront

\* A decoder that reads every segment reads what was fed.
LEMMA AllRead == ContentIInv => DataAt(DOMAIN stored) = AllFed
  <1>1. [k \in DOMAIN stored |-> IF k \in DOMAIN stored THEN stored[k].data ELSE <<>>]
           = [k \in DOMAIN stored |-> stored[k].data]
    OBVIOUS
  <1> QED BY <1>1 DEF DataAt, Data, ContentIInv, AddsUp

LEMMA PlainReadsBack ==
    ASSUME EncoderIInv, ContentIInv, writer.compression = "none"
    PROVE  Decoded = [data |-> AllFed, ok |-> TRUE]
  BY AllReached, AllRead DEF Decoded

\* There is a frame, and all frames are whole, reached and have bytes.
LEMMA ZstdReadsBack ==
    ASSUME EncoderIInv, ContentIInv, writer.compression = "zstd",
           \A k \in DOMAIN stored : stored[k].whole, direct = 0, handed >= 1
    PROVE  Decoded = [data |-> AllFed, ok |-> TRUE]
  <1>1. \A k \in DOMAIN stored : stored[k].kind = "frame"
    BY DEF ContentIInv, FramesOnly, Compressed
  <1>2. Frames = DOMAIN stored
    BY <1>1, AllReached DEF Frames
  <1>3. There # {} /\ There \subseteq Frames
    <2>1. PICK ss \in Seq(Segment) : ss = stored /\ ss # <<>>
      BY DEF EncoderIInv, EncoderTypes, ContentIInv, AddsUp, HasFrame, Compressed
    <2>2. 1 \in DOMAIN stored
      BY <2>1
    <2> QED BY <1>2, <2>2 DEF There, ContentIInv, WholeHasBytes
  <1> QED BY <1>2, <1>3, AllRead DEF Decoded

\* The only frame is the one the decoder reads.
LEMMA GzipReadsBack ==
    ASSUME EncoderIInv, ContentIInv, writer.compression = "gzip", pc # "encoding",
           \A k \in DOMAIN stored : stored[k].whole, direct = 0, handed = 1
    PROVE  Decoded = [data |-> AllFed, ok |-> TRUE]
  <1>1. Compressed
    BY DEF Compressed
  <1>2. PICK s \in Segment : stored = <<s>>
    BY <1>1 DEF EncoderIInv, AfterEncoder
  <1>3. DOMAIN stored = {1} /\ stored[1] = s
    BY <1>2
  <1>4. s.length > 0 /\ 1 \in Frames
    BY <1>1, <1>3, AllReached
    DEF Frames, ContentIInv, WholeHasBytes, FramesOnly
  <1>5. There = {1}
    BY <1>3, <1>4 DEF There
  <1>6. First = 1
    BY <1>5 DEF First
  <1>7. s.data = AllFed
    <2>1. s.data \in Seq(Nat) /\ stored = Append(<<>>, s)
      BY <1>2, SegmentFields
    <2>2. <<>> \in Seq(Segment)
      OBVIOUS
    <2>3. Data(stored) = <<>> \o s.data
      BY <2>1, <2>2, DataAppend, NothingStored
    <2>4. \A ds \in Seq(Nat) : <<>> \o ds = ds
      OBVIOUS
    <2> QED BY <2>1, <2>3, <2>4 DEF ContentIInv, AddsUp
  <1> QED BY <1>3, <1>4, <1>5, <1>6, <1>7 DEF Decoded

\* Content whose frames are whole is read back as it was fed: with no codec
\* always, with zstd if there was an encoder and no byte went past it, with gzip
\* if there was one encoder (object.rs:335-352).
THEOREM EncoderReadsBack == Spec => []ReadsBack
  <1>1. EncoderIInv /\ ContentIInv => ReadsBack
    <2> SUFFICES ASSUME EncoderIInv, ContentIInv, pc = "published",
                        \A k \in DOMAIN stored : stored[k].whole,
                        writer.compression = "none" \/ direct = 0,
                        writer.compression = "zstd" => handed >= 1,
                        writer.compression = "gzip" => handed = 1
                 PROVE  Decoded = [data |-> AllFed, ok |-> TRUE]
      BY DEF ReadsBack
    <2>1. writer.compression \in Codecs
      BY DEF EncoderIInv, EncoderTypes, Writer
    <2>2. CASE writer.compression = "none"
      BY <2>2, PlainReadsBack
    <2>3. CASE writer.compression = "zstd"
      BY <2>3, ZstdReadsBack
    <2>4. CASE writer.compression = "gzip"
      BY <2>4, GzipReadsBack
    <2> QED BY <2>1, <2>2, <2>3, <2>4 DEF Codecs
  <1> QED BY <1>1, EncoderInvariant, ContentInvariant, PTL
=============================================================================
