---------------------------- MODULE ContentEncoder ----------------------------
(***************************************************************************)
(* The content of one object on its way through ObjectWriter (src/fs/      *)
(* writer.rs) and the encoders it hands out (src/fs/compression.rs), and   *)
(* what DecodedContentReader (src/fs/reader.rs) makes of it.  Several      *)
(* encoders may be used on a writer, dropped without finish, and mixed     *)
(* with bytes written directly.                                            *)
(*                                                                         *)
(* The codecs are external: an encoder keeps what it likes in its buffer,  *)
(* writes as much as it likes at any time, and the frame it leaves may be  *)
(* longer or shorter than its input or of the same length.  Chunks are one *)
(* byte each and numbered in the order they are fed.                       *)
(***************************************************************************)
EXTENDS Totals, SequencesExt

CONSTANTS
    MaxFed,      \* bound: chunks fed
    MaxEncoders, \* bound: encoders handed out
    MaxFrame,    \* bound: bytes of one frame
    Room,        \* sizes a prefix may have to spare
    MaxGrowth,   \* bound: how far the caller grows the sections
    None         \* Option::None

ASSUME ContentEncoderAssumption ==
    /\ {MaxFed, MaxEncoders, MaxFrame, MaxGrowth} \subseteq Nat
    /\ Room \subseteq Nat
    /\ None \notin Nat

\* CompressionTypes; the build has every codec.
Codecs == {"none", "zstd", "gzip"}

\* What is in the file: a byte that was written as it is, or the frame of one
\* encoder, with what was fed into it and how many bytes of it are there.
\* `whole`: the codec has written its end.
Raw(chunk) == [kind |-> "raw", data |-> <<chunk>>, length |-> 1, whole |-> TRUE]
NewFrame   == [kind |-> "frame", data |-> <<>>, length |-> 0, whole |-> FALSE]

VARIABLES
    pc,      \* "writing", "encoding" while an encoder borrows the writer,
             \* "published" or "failed" after finish
    writer,  \* the ObjectWriter, and the object it becomes
    stored,  \* what is in the file behind content_start
    encoder  \* uncompressed_length of the encoder in use, or None

\* History variables, for the properties only.
VARIABLES
    fed,    \* how many chunks were fed, whichever way
    direct, \* how many of them were written to the writer directly
    handed, \* how many encoders were handed out
    ended,  \* how many of them returned Ok from finish
    given   \* the UNCOMPRESSED_LENGTH the caller's metadata had in it

historyVars == <<fed, direct, handed, ended, given>>
vars == <<pc, writer, stored, encoder, historyVars>>

-----------------------------------------------------------------------------
\* Wrong: raw writes are never guarded.
AllowsRaw_Always(compression) == TRUE

\* allow_raw_writes of a new writer.
AllowsRaw(compression) == compression = "none"

\* ObjectWriter::create.  `needed` is what the sections grew by since, `room`
\* what the prefix has to spare for that.
Init ==
    \E compression \in Codecs, room \in Room, entry \in {None, MaxFed + 1} :
        /\ pc = "writing"
        /\ writer = [compression |-> compression, content_length |-> 0,
                     allow_raw_writes |-> AllowsRaw(compression),
                     recorded |-> entry, needed |-> 0, room |-> room]
        /\ stored = <<>>
        /\ encoder = None
        /\ fed = 0 /\ direct = 0 /\ handed = 0 /\ ended = 0
        /\ given = entry

\* Write for ObjectWriter, of n bytes.
Received(n) == [writer EXCEPT !.content_length = @ + n]

\* A byte written to the writer itself.
Write ==
    /\ pc = "writing"
    /\ writer.allow_raw_writes
    /\ fed < MaxFed
    /\ stored' = Append(stored, Raw(fed + 1))
    /\ writer' = Received(1)
    /\ fed' = fed + 1 /\ direct' = direct + 1
    /\ UNCHANGED <<pc, encoder, handed, ended, given>>

WriteRefused ==
    /\ pc = "writing"
    /\ ~writer.allow_raw_writes
    /\ UNCHANGED vars

\* metadata_mut and tags_mut: the sections grow.
Grow ==
    /\ pc = "writing"
    /\ writer.needed < MaxGrowth
    /\ writer' = [writer EXCEPT !.needed = @ + 1]
    /\ UNCHANGED <<pc, stored, encoder, historyVars>>

\* content_encoder.  Raw writes stay allowed when the encoder is gone.
HandOut ==
    /\ pc = "writing"
    /\ handed < MaxEncoders
    /\ pc' = "encoding"
    /\ encoder' = 0
    /\ writer' = [writer EXCEPT !.allow_raw_writes = TRUE]
    /\ stored' = IF writer.compression = "none" THEN stored
                 ELSE Append(stored, NewFrame)
    /\ handed' = handed + 1
    /\ UNCHANGED <<fed, direct, ended, given>>

\* Wrong: what the codec writes is not counted.
Emit_Uncounted(n, frame) ==
    /\ frame.length + n <= MaxFrame
    /\ stored' = [stored EXCEPT ![Len(stored)] = [frame EXCEPT !.length = @ + n]]
    /\ UNCHANGED writer

\* The frame of the encoder gets n bytes longer.
Emit(n, frame) ==
    /\ frame.length + n <= MaxFrame
    /\ stored' = [stored EXCEPT ![Len(stored)] = [frame EXCEPT !.length = @ + n]]
    /\ writer' = Received(n)

Frame == stored[Len(stored)]

\* Write for ContentEncoder, and record.
Encode(n) ==
    /\ pc = "encoding"
    /\ fed < MaxFed
    /\ IF writer.compression = "none"
       THEN /\ stored' = Append(stored, Raw(fed + 1))
            /\ writer' = Received(1)
       ELSE Emit(n, [Frame EXCEPT !.data = Append(@, fed + 1)])
    /\ encoder' = encoder + 1
    /\ fed' = fed + 1
    /\ UNCHANGED <<pc, direct, handed, ended, given>>

\* flush: a codec writes what it has in its buffer.
Flush(n) ==
    /\ pc = "encoding"
    /\ writer.compression # "none"
    /\ Emit(n, Frame)
    /\ UNCHANGED <<pc, encoder, historyVars>>

\* Dropped without finish, nothing is recorded.  A frame of zstd stays without
\* its end; the Drop of a GzEncoder tries to write it, and ignores that it failed.
Drop(n) ==
    /\ pc = "encoding"
    /\ pc' = "writing"
    /\ encoder' = None
    /\ IF writer.compression = "gzip"
       THEN \E whole \in BOOLEAN :
                /\ whole => n + Frame.length > 0
                /\ Emit(n, [Frame EXCEPT !.whole = whole])
       ELSE UNCHANGED <<stored, writer>>
    /\ UNCHANGED historyVars

\* Wrong: the writer is asked for its length before the codec is flushed.
Differs_Early(w, n) == w.content_length - n # encoder

\* Whether finish has something to record.
Differs(w, n) == w.content_length # encoder

\* The metadata with the length recorded; a value that was there is replaced.
WithLength(w) ==
    [w EXCEPT !.recorded = encoder,
              !.needed   = IF w.recorded = None THEN @ + 1 ELSE @]

\* ContentEncoder::finish: the codec writes n more bytes and its frame is
\* whole; no frame is without bytes.
FinishEncoder(n) ==
    LET codec == writer.compression # "none"
        w     == IF codec THEN Received(n) ELSE writer
    IN  /\ pc = "encoding"
        /\ codec => n + Frame.length \in 1 .. MaxFrame
        /\ stored' = IF codec
                     THEN [stored EXCEPT ![Len(stored)] =
                              [Frame EXCEPT !.length = @ + n, !.whole = TRUE]]
                     ELSE stored
        /\ writer' = IF Differs(w, n) THEN WithLength(w) ELSE w
        /\ pc' = "writing"
        /\ encoder' = None
        /\ ended' = ended + 1
        /\ UNCHANGED <<fed, direct, handed, given>>

\* ObjectWriter::finish, when the sections fit or the content can be copied: a
\* replacement with a codec refuses the stored bytes as raw.
Outgrown == writer.needed > writer.room

Publish ==
    /\ pc = "writing"
    /\ ~Outgrown \/ AllowsRaw(writer.compression) \/ writer.content_length = 0
    /\ pc' = "published"
    /\ UNCHANGED <<writer, stored, encoder, historyVars>>

PublishFails ==
    /\ pc = "writing"
    /\ Outgrown
    /\ ~AllowsRaw(writer.compression) /\ writer.content_length > 0
    /\ pc' = "failed"
    /\ UNCHANGED <<writer, stored, encoder, historyVars>>

\* The object is published, or the write was given up.
Done == pc \in {"published", "failed"} /\ UNCHANGED vars

Next ==
    \/ Write \/ WriteRefused \/ Grow \/ HandOut
    \/ \E n \in 0 .. MaxFrame :
          Encode(n) \/ Flush(n) \/ Drop(n) \/ FinishEncoder(n)
    \/ Publish \/ PublishFails
    \/ Done

Spec == Init /\ [][Next]_vars

-----------------------------------------------------------------------------
(* Reading back: what DecodedContentReader yields until it ends, and        *)
(* whether it ends without an error.                                       *)

Bytes(segments) == Total([k \in DOMAIN segments |-> segments[k].length])
Data(segments)  == FlattenSeq([k \in DOMAIN segments |-> segments[k].data])

\* What is read if the segments of `places` are.
DataAt(places) ==
    FlattenSeq([k \in DOMAIN stored |-> IF k \in places THEN stored[k].data ELSE <<>>])

\* The segments that end within content_length, and the frames that a decoder
\* gets through.
Reached == {k \in DOMAIN stored : Bytes(SubSeq(stored, 1, k)) <= writer.content_length}
Frames  == {k \in Reached : stored[k].kind = "frame" /\ stored[k].whole}

\* The segments that have bytes in the file, and the first of them.
There == {k \in DOMAIN stored : stored[k].length > 0}
First == CHOOSE k \in There : \A j \in There : k <= j

Decoded ==
    CASE writer.compression = "none" ->
             [data |-> DataAt(Reached), ok |-> TRUE]
      \* zstd: all frames, one after the other; an input that ends before one
      \* frame was whole, an empty one too, is an "incomplete frame"
      [] writer.compression = "zstd" ->
             [data |-> DataAt(Frames), ok |-> There # {} /\ There \subseteq Frames]
      \* gzip: the first member, and there must be one; what follows is not
      \* looked at
      [] writer.compression = "gzip" ->
             IF There = {} THEN [data |-> <<>>, ok |-> FALSE]
             ELSE [data |-> stored[First].data, ok |-> First \in Frames]

-----------------------------------------------------------------------------
(* Properties.                                                             *)

\* Types, and the guard: a compressed object has bytes that went past the codec
\* only after an encoder was handed out (writer.rs:81-83).
TypeOK ==
    /\ pc \in {"writing", "encoding", "published", "failed"}
    /\ writer.content_length = Bytes(stored)
    /\ encoder \in Nat \cup {None}
    /\ pc = "encoding" <=> encoder # None
    /\ handed = 0 /\ writer.compression # "none" => stored = <<>>

\* The content went through one encoder, which was finished if it had a codec.
OneEncoder ==
    /\ handed = 1 /\ direct = 0
    /\ ended = 1 \/ writer.compression = "none"

\* What reading the object to its end should give.
AllFed == [k \in 1 .. fed |-> k]

\* "For a compressed object this is the only record of how large the content
\* really is" (compression.rs:14-16): what an object says its content is long,
\* in its metadata or else in its header, is what the encoder was fed, however
\* the codec buffered and whatever the caller's metadata said, unless the
\* stored length happens to be the same and an old entry stays.
LengthIsTrue ==
    (pc = "published" /\ OneEncoder) =>
        \/ fed = (IF writer.recorded = None THEN writer.content_length
                  ELSE writer.recorded)
        \/ writer.content_length = fed /\ writer.recorded = given

\* An object reads back as it was fed if the frames of its encoders are whole,
\* for a codec nothing was written around them, and zstd has at least one of them
\* and gzip exactly one.  A compressed object without any is not empty when it is
\* read, its decoder fails (object.rs:341-346).
ReadsBack ==
    ( /\ pc = "published"
      /\ \A k \in DOMAIN stored : stored[k].whole
      /\ writer.compression = "none" \/ direct = 0
      /\ writer.compression = "zstd" => handed >= 1
      /\ writer.compression = "gzip" => handed = 1 )
    => Decoded = [data |-> AllFed, ok |-> TRUE]
=============================================================================
