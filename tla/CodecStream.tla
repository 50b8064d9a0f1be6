---------------------------- MODULE CodecStream ----------------------------
(***************************************************************************)
(* Items sent and received one after the other over a stream: a task that  *)
(* writes with AsyncWritableObjectType, which encodes into a buffer and     *)
(* hands it to write_all, and a task that reads with read_from_reader or    *)
(* read_from_async_reader, a chain of read_exact calls. The stream moves    *)
(* any number of bytes at a time and holds no more than Capacity; each side *)
(* may find it full or empty in the middle of an item. The writer may drop  *)
(* its future and close the stream after any byte.                         *)
(*                                                                         *)
(* `written` is all that was ever put into the stream, so it is also the    *)
(* file that such a writer leaves behind, whole or torn: the operations     *)
(* that need a seekable reader (find_from_reader, read_size) are looked at  *)
(* there.                                                                  *)
(***************************************************************************)
EXTENDS Codec

CONSTANTS
    Items,      \* what may be sent
    Keys,       \* the keys that are looked up
    MaxItems,   \* bound: items sent
    Capacity    \* bytes the stream holds

ASSUME StreamAssumption ==
    /\ MaxItems \in Nat /\ Capacity \in Nat \ {0}
    /\ \A i \in Items : IsItem(i)

VARIABLES
    sent,       \* the items given to the writer so far, each with its place in `written`
    outgoing,   \* what write_all has left to write
    written,    \* every byte put into the stream
    closed,     \* the writer is gone
    consumed,   \* how many bytes the reader took out of the stream
    begin,      \* where the item that is being read starts
    received,   \* the items read
    failure     \* the error that ended the reading, or "none"

vars == <<sent, outgoing, written, closed, consumed, begin, received, failure>>

\* A date with a year that a u16 does not hold: that of the date in UTC.
YearIsCut(i) ==
    LET v == i.entries[1].val
    IN  i.form = "chrono" /\ v.kind \in {"date", "datetime"} /\ v.data[1] # as_u16(v.data[1])

\* What is left of an item: of such a date the low bits of the year.
Kept(i) == IF YearIsCut(i) THEN [i EXCEPT !.entries[1].val.data[1] = as_u16(@)] ELSE i

TypeOK ==
    /\ sent \in Seq([item : Items, at : Nat])
    /\ outgoing \in Seq(Byte) /\ written \in Seq(Byte)
    /\ closed \in BOOLEAN
    /\ begin \in 0 .. consumed /\ consumed \in 0 .. Len(written)
    /\ received \in Seq({Kept(i) : i \in Items})
    /\ failure \in {"none", "IOError", "InvalidUtf8", "InvalidValue", "UnknownTypeKey",
                    "MismatchedObjectType", "InvalidMagic", "UnsupportedVersion",
                    "InvalidCompressionType", "InvalidHeaderName", "LengthMismatch",
                    "InvalidNaiveDate", "InvalidNaiveTime", "InvalidFixedOffset"}

Init ==
    /\ sent = <<>> /\ outgoing = <<>> /\ written = <<>> /\ closed = FALSE
    /\ consumed = 0 /\ begin = 0 /\ received = <<>> /\ failure = "none"

(***************************************************************************)
(* The writer.                                                             *)
(***************************************************************************)

\* write_to_async_writer: the item is encoded whole before a byte is written.
\* One that cannot be encoded is refused, and nothing of it is sent.  For items
\* without it (maps, vecs, options, arrays, chrono types) a caller is taken to do
\* the same, as encode_prefix does: write_to_bytes, then write_all.  What
\* write_to_writer leaves in a buffer before it fails is dropped with the buffer.
write_to_async_writer(i) ==
    /\ ~closed /\ outgoing = <<>> /\ Len(sent) < MaxItems
    /\ LET bytes == write_to_writer(i)
       IN  /\ bytes.err = "none"
           /\ outgoing' = bytes.value
           /\ sent' = Append(sent, [item |-> i, at |-> Len(written)])
    /\ UNCHANGED <<written, closed, consumed, begin, received, failure>>

\* A poll of write_all: n bytes fit into the stream.
WriteSome(n) ==
    /\ ~closed
    /\ n <= Len(outgoing) /\ Len(written) + n - consumed <= Capacity
    /\ written' = written \o SubSeq(outgoing, 1, n)
    /\ outgoing' = SubSeq(outgoing, n + 1, Len(outgoing))
    /\ UNCHANGED <<sent, closed, consumed, begin, received, failure>>

\* The writer goes away, between two items or in the middle of one.
Close ==
    /\ ~closed
    /\ closed' = TRUE /\ outgoing' = <<>>
    /\ UNCHANGED <<sent, written, consumed, begin, received, failure>>

(***************************************************************************)
(* The reader.                                                             *)
(***************************************************************************)

\* The types with an AsyncReadableObjectType; the others are read with `Read`.
AsyncForms(i) == i.form \in {"value", "header"} \/ (i.form = "tags" /\ i.k # "metakey")

Reading == failure = "none" /\ Len(received) < Len(sent)

\* Only its type is used: the reader knows what it expects.
Expected == sent[Len(received) + 1].item

\* Where the reader is, having taken the bytes up to `upto`.
Outcome(upto) ==
    LET taken == SubSeq(written, begin + 1, upto)
    IN  IF AsyncForms(Expected) THEN read_from_async_reader(Expected, taken, 0)
                                        ELSE read_from_reader(Expected, taken, 0)

\* A poll of the read_exact it is in: n bytes arrive, no more than are missing.
\* With the last of them the reader goes on to the next read_exact, has its
\* item, or stops at an error.
ReadSome(n) ==
    /\ Reading
    /\ n <= Len(written) - consumed /\ consumed + n <= begin + Outcome(consumed).at
    /\ LET outcome == Outcome(consumed + n)
       IN  /\ consumed' = consumed + n
           /\ received' = IF outcome.err = "none" THEN Append(received, outcome.value) ELSE received
           /\ begin'    = IF outcome.err = "none" THEN consumed + n ELSE begin
           /\ failure'  = IF outcome.err \in {"none", "IOError"} THEN "none" ELSE outcome.err
    /\ UNCHANGED <<sent, outgoing, written, closed>>

\* read_exact finds the end of the stream: a short read.
ReadEnd ==
    /\ Reading /\ closed /\ consumed = Len(written)
    /\ failure' = "IOError"
    /\ UNCHANGED <<sent, outgoing, written, closed, consumed, begin, received>>

Next ==
    \/ \E i \in Items : write_to_async_writer(i)
    \/ \E n \in 1 .. Capacity : WriteSome(n) \/ ReadSome(n)
    \/ Close
    \/ ReadEnd

Spec == Init /\ [][Next]_vars

(***************************************************************************)
(* Properties.                                                             *)
(***************************************************************************)

\* Where the item sent as the j-th lies, or what there is of it.
EndOf(j) == IF j < Len(sent) THEN sent[j + 1].at ELSE Len(written)
Whole(j) == j < Len(sent) \/ (outgoing = <<>> /\ ~closed)

\* A leap second where UTC has none: in the middle of a minute.
LeapInMinute(i) ==
    LET v == i.entries[1].val
        time == IF v.kind = "time" THEN v.data ELSE TimePart(v.data)
    IN  /\ i.form = "chrono" /\ v.kind \in {"time", "datetime"}
        /\ time[2] >= 1000000000 /\ time[1] % 60 # 59

\* Whatever the stream does to the bytes, the reader has the items in the order
\* in which they were sent, and starts each where the writer started it
\* (read_from_async_reader of Tags, ValueType and ObjectHeader, and
\* read_from_reader of the types without it). Of a date of chrono whose year does not
\* fit only the year is another one.
FramedInOrder ==
    /\ \A j \in DOMAIN received : received[j] = Kept(sent[j].item)
    /\ Len(received) < Len(sent) => begin = sent[Len(received) + 1].at

\* A reader reports a short read only when the writer went away inside an item,
\* and a damaged one never: the error tells a truncated file from a corrupt one.
\* A header of a later version is refused as such, and of what chrono holds a
\* leap second in the middle of a minute, or the 29th of February of a year that
\* became another one. Nothing else is refused.
FailsForAReason ==
    CASE failure = "none"               -> TRUE
      [] failure = "IOError"            ->
           closed /\ Len(written) - begin < Len(write_to_writer(Expected).value)
      [] failure = "UnsupportedVersion" ->
           Expected.form = "header" /\ Expected.entries[1].val.data # <<CURRENT_VERSION>>
      [] failure = "InvalidNaiveTime"   -> LeapInMinute(Expected)
      [] failure = "InvalidNaiveDate"   ->
           YearIsCut(Expected) /\ SubSeq(Expected.entries[1].val.data, 2, 3) = <<2, 29>>
      [] OTHER                          -> FALSE

\* For all that was written whole, `size` is what it occupies; for what a
\* section is made of (Tags and ValueType), read_size measures as much at
\* whatever place it lies, and for a tag section leaves the cursor at its end,
\* although measuring one of its keys or values does not.
SectionsMeasured ==
    \A j \in DOMAIN sent :
        LET i == sent[j].item
            at == sent[j].at
            length == EndOf(j) - at
            measured == read_size(i, written, at)
        IN  Whole(j) =>
              /\ length = size(i)
              /\ i.form \in {"value", "tags"} => measured.err = "none" /\ measured.value = length
              /\ i.form = "tags" => measured.at = EndOf(j)

\* Tags::find_from_reader finds for each key the value the section was written
\* with, in whichever order. In a torn section it finds that or reports a short
\* read: the value of another tag, or none, is never the answer.
FindsWhatWasWritten ==
    \A j \in DOMAIN sent, key \in Keys :
        LET i == sent[j].item
            found == find_from_reader(i.k, key, SubSeq(written, 1, EndOf(j)), sent[j].at)
            held == {e \in Range(i.entries) : e.key = key}
        IN  i.form = "tags" =>
              \/ /\ found.err = "none"
                 /\ found.value \in IF held = {} THEN {<<>>} ELSE {<<e.val>> : e \in held}
              \/ found.err = "IOError" /\ ~Whole(j)

\* A reader never waits for bytes that do not come: once it took all that a
\* writer at rest has written, it has read all that was sent or reported an error
\* (each read_exact of read_from_reader asks for bytes of its own item only).
DrainedMeansRead ==
    outgoing = <<>> /\ ~closed /\ consumed = Len(written) =>
        failure # "none" \/ Len(received) = Len(sent)

\* The doc of TuxIOType in src/lib.rs (lines 238-249): for any value, what it
\* occupies, what `size` says and what read_size measures are the same number.
SizesAgree ==
    \A j \in DOMAIN sent :
        Whole(j) => LET measured == read_size(sent[j].item, written, sent[j].at)
                    IN  /\ EndOf(j) - sent[j].at = size(sent[j].item)
                        /\ measured.err = "none" => measured.value = size(sent[j].item)
=============================================================================
