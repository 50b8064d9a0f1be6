---------------------------- MODULE InPlaceUpdate ----------------------------
(***************************************************************************)
(* Several handles (TuxObject, AsyncTuxObject) on one path: in-place       *)
(* updates that overwrite the front of a file other handles read, opening  *)
(* in two reads, tags read at a remembered offset, and readers of ranges   *)
(* of the content (src/fs/object.rs, reader.rs, async_io.rs).              *)
(*                                                                         *)
(* A file is a function from offsets to cells; a cell is a byte, or a few  *)
(* that mean nothing apart.  An in-place update writes cell after cell, so *)
(* that others see, and a failure leaves, any part of it.  An atomic       *)
(* setter replaces the file in one step, as ObjectStoreRefinement allows.  *)
(***************************************************************************)
EXTENDS Layout, Sequences, FiniteSets

CONSTANTS
    Handles,        \* who may have the object open, one handle each
    AsyncHandles,   \* those whose futures may be dropped
    Writers,        \* those that use open_writable; the others use open
    Metadata,       \* metadata sections
    Tags,           \* tag sections
    Size,           \* the encoded size of a section
    Empty,          \* the section without entries, of either kind
    Garbage,        \* what decoding cells out of place gives: any section
    Content,        \* bound: the length of the content
    ByteBase,       \* 256: the u16 tags_start is written as two bytes
    DefaultOptions, \* LayoutOptions::default()
    Created,        \* objects there are to start with
    MaxFiles,       \* bound: the file and those that replace it
    MaxUpdates      \* bound: in-place updates started

Files == 1 .. MaxFiles
Sections == Metadata \cup Tags \cup {Garbage}

ObjectHeader ==
    [compressed : BOOLEAN, tags_start : 0 .. U16Max,
     content_start : 0 .. U32Max, content_length : Nat]

\* What a handle remembers, and what two sections may be read as.
TuxObject == [file : Files, header : ObjectHeader,
              metadata : Metadata \cup {Garbage}]
SectionPair == [metadata : Metadata \cup {Garbage}, tags : Tags \cup {Garbage}]

ASSUME InPlaceAssumption ==
    /\ AsyncHandles \subseteq Handles /\ Writers \subseteq Handles
    /\ \A s \in Sections : Size[s] \in Nat \ {0}
    /\ Empty \in Metadata \cap Tags
    /\ Garbage \notin Metadata \cup Tags
    /\ Content \in Nat
    /\ ByteBase \in Nat \ {0} /\ U16Max + 1 = ByteBase * ByteBase
    /\ HeaderSize >= 4
    /\ DefaultOptions \in LayoutOptions
    /\ \A o \in Created :
           /\ o.compressed \in BOOLEAN
           /\ o.layout \in LayoutOptions
           /\ o.metadata \in Metadata /\ o.tags \in Tags
    /\ None \notin TuxObject /\ None \notin SectionPair
    /\ MaxFiles \in Nat \ {0} /\ MaxUpdates \in Nat

VARIABLES
    file,    \* the cells of each file
    current, \* the file the path names; later ones do not exist yet
    handle,  \* the handle each holds, or None
    call,    \* what each is in the middle of
    updates  \* how many in-place updates were started, for the bound

\* History variables, for the properties only.
VARIABLES
    settled, \* for each file, the sections of the last update, if it ran to its
             \* end and no other one ran meanwhile; None otherwise
    fresh    \* the handles that made that update or were opened after it

historyVars == <<settled, fresh>>
vars == <<file, current, handle, call, updates, historyVars>>

Idle == [kind |-> "idle"]

-----------------------------------------------------------------------------
(* Bytes.                                                                  *)

Zero == <<"zero">>

\* A section starts with its count, which is zero in the empty one.
SectionCell(s, k) == IF s = Empty THEN Zero ELSE <<"section", s, k>>

ContentCell(k) == <<"content", k>>

HeaderCell(header, k) ==
    CASE k = 0 -> <<"magic", header.compressed>>
      [] k = 1 -> <<"low", header.tags_start % ByteBase>>
      [] k = 2 -> <<"high", header.tags_start \div ByteBase>>
      [] k = 3 -> <<"place", header.content_start, header.content_length>>
      [] OTHER -> Zero

\* Wrong: the tag section goes behind the metadata, wherever tags_start is.
encode_prefix_Packed(header, m, t) ==
    LET tags_start == HeaderSize + Size[m]
    IN  [k \in 0 .. header.content_start - 1 |->
            CASE k < HeaderSize -> HeaderCell(header, k)
              [] k \in HeaderSize .. HeaderSize + Size[m] - 1 ->
                     SectionCell(m, k - HeaderSize)
              [] k \in tags_start .. tags_start + Size[t] - 1 ->
                     SectionCell(t, k - tags_start)
              [] OTHER -> Zero]

\* The cells in front of the content.  Its two checks of the sizes never fail
\* on what repartition and compute return (RepartitionSound, ComputeSound).
encode_prefix(header, m, t) ==
    [k \in 0 .. header.content_start - 1 |->
        CASE k < HeaderSize -> HeaderCell(header, k)
          [] k \in HeaderSize .. HeaderSize + Size[m] - 1 ->
                 SectionCell(m, k - HeaderSize)
          [] k \in header.tags_start .. header.tags_start + Size[t] - 1 ->
                 SectionCell(t, k - header.tags_start)
          [] OTHER -> Zero]

\* A file that finish wrote.
NewFile(header, m, t, content) ==
    [k \in 0 .. header.content_start + header.content_length - 1 |->
        IF k < header.content_start
        THEN encode_prefix(header, m, t)[k]
        ELSE content[k - header.content_start]]

\* ObjectHeader::read_from_bytes.
ReadHeader(bytes) ==
    [compressed     |-> bytes[0][2],
     tags_start     |-> bytes[1][2] + ByteBase * bytes[2][2],
     content_start  |-> bytes[3][2],
     content_length |-> bytes[3][3]]

\* A section decoded from the `space` cells at `at`.  Cells that are no section
\* from its start on decode to something nobody stored, or to an error.
ReadSection(bytes, at, space, kinds) ==
    LET Starts(s) == /\ Size[s] <= space
                     /\ \A k \in 0 .. Size[s] - 1 :
                            bytes[at + k] = SectionCell(s, k)
    IN  IF \E s \in kinds : Starts(s)
        THEN CHOOSE s \in kinds : Starts(s)
        ELSE Garbage

\* read_exact fails where the file ends.
InFile(bytes, at, space) == {at, at + space - 1} \subseteq DOMAIN bytes

\* The metadata from_file finds behind a header, if it finds any.  A tags_start
\* inside the header gives no metadata and no error.
OpenedMetadata(bytes, header) ==
    LET space == header.tags_start - HeaderSize
    IN  CASE space <= 0 -> {Empty}
          [] space > 0 /\ InFile(bytes, HeaderSize, space) ->
                 {ReadSection(bytes, HeaderSize, space, Metadata)}
          [] OTHER -> {}

\* read_tags, find_tag and tag_count, where the header says the tags are.  The
\* subtraction of tags_space overflows, and nothing is read, when tags_start is
\* behind content_start.
ReadTags(bytes, header) ==
    LET space == header.content_start - header.tags_start
    IN  CASE space = 0 -> {Empty}
          [] space > 0 /\ InFile(bytes, header.tags_start, space) ->
                 {ReadSection(bytes, header.tags_start, space, Tags)}
          [] OTHER -> {}

-----------------------------------------------------------------------------
Header(compressed, layout, content_length) ==
    [compressed |-> compressed, tags_start |-> layout.tags_start,
     content_start |-> layout.content_start, content_length |-> content_length]

\* An object that was created with some layout, and nobody has it open.
Init ==
    /\ \E o \in Created :
           LET layout == compute(o.layout, Size[o.metadata], Size[o.tags])
           IN  /\ layout # None
               /\ file = [f \in Files |->
                      NewFile(Header(o.compressed, layout, Content),
                              o.metadata, o.tags,
                              [k \in 0 .. Content - 1 |-> ContentCell(k)])]
               /\ settled = [f \in Files |->
                                [metadata |-> o.metadata, tags |-> o.tags]]
    /\ current = 1
    /\ handle = [h \in Handles |-> None]
    /\ call = [h \in Handles |-> Idle]
    /\ updates = 0
    /\ fresh = {}

Ready(h) == handle[h] # None /\ call[h] = Idle

Begin(h, c) == call' = [call EXCEPT ![h] = c]
Return(h)   == call' = [call EXCEPT ![h] = Idle]

\* open, open_writable: the file is found and its header read.
OpenHeader(h) ==
    /\ handle[h] = None /\ call[h] = Idle
    /\ Begin(h, [kind |-> "opening", file |-> current,
                 header |-> ReadHeader(file[current])])
    /\ fresh' = IF settled[current] # None THEN fresh \cup {h} ELSE fresh
    /\ UNCHANGED <<file, current, updates, handle, settled>>

\* from_file reads the metadata next, and the object is open.
OpenMetadata(h) ==
    LET c == call[h]
    IN  /\ c.kind = "opening"
        /\ \E m \in OpenedMetadata(file[c.file], c.header) :
               handle' = [handle EXCEPT ![h] =
                   [file |-> c.file, header |-> c.header, metadata |-> m]]
        /\ Return(h)
        /\ UNCHANGED <<file, current, updates, historyVars>>

\* No metadata where the header says, or cells that do not decode.
OpenFails(h) ==
    LET c == call[h]
    IN  /\ c.kind = "opening"
        /\ OpenedMetadata(file[c.file], c.header) \in {{}, {Garbage}}
        /\ Return(h)
        /\ fresh' = fresh \ {h}
        /\ UNCHANGED <<file, current, updates, handle, settled>>

\* The handle is dropped; an update nobody waits for any more runs on.
Close(h) ==
    /\ handle[h] # None
    /\ \/ call[h] = Idle
       \/ call[h].kind = "writing" /\ ~call[h].waited
    /\ handle' = [handle EXCEPT ![h] = None]
    /\ fresh' = fresh \ {h}
    /\ UNCHANGED <<file, current, updates, call, settled>>

-----------------------------------------------------------------------------
(* set_sections_in_place.                                                  *)

\* Wrong: lays the sections out as for a new object.
InPlaceLayout_Anew(header, m, t) == compute(DefaultOptions, Size[m], Size[t])

InPlaceLayout(header, m, t) ==
    repartition(header.content_start, Size[m], Size[t], DefaultOptions.alignment)

\* Updates of a file that are under way.
Updating(f) ==
    {h \in Handles : call[h].kind = "writing" /\ call[h].file = f}

\* The file a handle is on, while it is being opened too.
On(h, f) ==
    IF handle[h] # None THEN handle[h].file = f
    ELSE call[h].kind = "opening" /\ call[h].file = f

\* The prefix is encoded and its first byte about to be written.  `alone` is
\* history: no other update of the file runs meanwhile.
UpdateInPlace(h, m, t) ==
    LET old    == handle[h].header
        layout == InPlaceLayout(old, m, t)
        f      == handle[h].file
    IN  /\ Ready(h) /\ h \in Writers
        /\ layout # None
        /\ updates < MaxUpdates /\ updates' = updates + 1
        /\ call' = [g \in Handles |->
               IF g = h
               THEN [kind |-> "writing", file |-> f,
                     header |-> Header(old.compressed, layout, old.content_length),
                     metadata |-> m, tags |-> t, at |-> 0, waited |-> TRUE,
                     alone |-> Updating(f) = {}]
               ELSE IF g \in Updating(f)
                    THEN [call[g] EXCEPT !.alone = FALSE]
                    ELSE call[g]]
        /\ settled' = [settled EXCEPT ![f] = None]
        /\ fresh' = {g \in fresh : ~On(g, f)}
        /\ UNCHANGED <<file, current, handle>>

\* Opened for reading, or the sections do not fit: nothing happened.
UpdateRefused(h) ==
    /\ Ready(h)
    /\ \/ h \notin Writers
       \/ \E m \in Metadata, t \in Tags :
              InPlaceLayout(handle[h].header, m, t) = None
    /\ UNCHANGED vars

\* write_all gets one cell further.
WriteCell(h) ==
    LET c == call[h]
    IN  /\ c.kind = "writing"
        /\ c.at < c.header.content_start
        /\ file' = [file EXCEPT ![c.file] =
               [@ EXCEPT ![c.at] = encode_prefix(c.header, c.metadata, c.tags)[c.at]]]
        /\ call' = [call EXCEPT ![h].at = @ + 1]
        /\ UNCHANGED <<current, handle, updates, historyVars>>

\* Wrong: the handle keeps the header it had.
Updated_OldHeader(h) ==
    [handle[h] EXCEPT !.metadata = call[h].metadata]

\* What the handle of a finished update remembers.
Updated(h) ==
    [handle[h] EXCEPT !.header = call[h].header, !.metadata = call[h].metadata]

\* The last byte is written; a caller that still waits gets its Ok.
Written(h) ==
    LET c == call[h]
    IN  /\ c.kind = "writing"
        /\ c.at = c.header.content_start
        /\ handle' = IF c.waited THEN [handle EXCEPT ![h] = Updated(h)] ELSE handle
        /\ settled' = [settled EXCEPT ![c.file] =
               IF c.alone THEN [metadata |-> c.metadata, tags |-> c.tags] ELSE None]
        /\ fresh' = IF c.alone /\ c.waited THEN fresh \cup {h} ELSE fresh
        /\ Return(h)
        /\ UNCHANGED <<file, current, updates>>

\* An I/O error, or the end of the process: the rest is not written, and the
\* handle remembers what it did before.
WriteFails(h) ==
    /\ call[h].kind = "writing"
    /\ Return(h)
    /\ UNCHANGED <<file, current, updates, handle, historyVars>>

\* The future is dropped while tokio writes in the background.  The next call
\* on the same handle waits for that.
Cancel(h) ==
    /\ h \in AsyncHandles
    /\ call[h].kind = "writing" /\ call[h].waited
    /\ Begin(h, [call[h] EXCEPT !.waited = FALSE])
    /\ UNCHANGED <<file, current, updates, handle, historyVars>>

-----------------------------------------------------------------------------
(* The atomic setters.                                                     *)

\* The sections of the new file are known.
Set(h, m, t) ==
    /\ Ready(h) /\ h \in Writers
    /\ Begin(h, [kind |-> "setting", metadata |-> m, tags |-> t])
    /\ UNCHANGED <<file, current, updates, handle, historyVars>>

\* set_metadata reads the tags through the handle first.
SetMetadata(h, m) ==
    /\ Ready(h)
    /\ \E t \in ReadTags(file[handle[h].file], handle[h].header) : Set(h, m, t)

SetTags(h, t) == Ready(h) /\ Set(h, handle[h].metadata, t)

SetSections(h, m, t) == Set(h, m, t)

\* Wrong: the content is looked for at the offset of the new layout.
CopiedContent_NewOffset(header, layout, bytes) ==
    [k \in 0 .. header.content_length - 1 |->
        IF layout.content_start + k \in DOMAIN bytes
        THEN bytes[layout.content_start + k] ELSE Zero]

\* What stored_content_reader gives io::copy.  No file ends before its content
\* does (ContentReachable).
CopiedContent(header, layout, bytes) ==
    [k \in 0 .. header.content_length - 1 |->
        IF header.content_start + k \in DOMAIN bytes
        THEN bytes[header.content_start + k] ELSE Zero]

\* rewrite: a new file with the old content takes the path.  The writer of a
\* compressed object takes no stored bytes (ObjectStore).
Replace(h) ==
    LET c      == call[h]
        old    == handle[h].header
        layout == compute([DefaultOptions EXCEPT
                              !.min_content_start = old.content_start],
                          Size[c.metadata], Size[c.tags])
        header == Header(old.compressed, layout, old.content_length)
    IN  /\ c.kind = "setting"
        /\ layout # None
        /\ ~old.compressed \/ old.content_length = 0
        /\ current < MaxFiles
        /\ current' = current + 1
        /\ file' = [file EXCEPT ![current + 1] =
               NewFile(header, c.metadata, c.tags,
                       CopiedContent(old, layout, file[handle[h].file]))]
        /\ handle' = [handle EXCEPT ![h] =
               [file |-> current + 1, header |-> header, metadata |-> c.metadata]]
        /\ settled' = [settled EXCEPT ![current + 1] =
               [metadata |-> c.metadata, tags |-> c.tags]]
        /\ fresh' = fresh \cup {h}
        /\ Return(h)
        /\ UNCHANGED updates

\* No layout, a compressed object, or an I/O error.
SetFails(h) ==
    /\ call[h].kind = "setting"
    /\ Return(h)
    /\ UNCHANGED <<file, current, updates, handle, historyVars>>

-----------------------------------------------------------------------------
(* Readers of the content.                                                 *)

\* Wrong: subtracts without a check.
RangeLength_Unchecked(header, offset, length) ==
    IF header.compressed THEN None
    ELSE LET available == header.content_length - offset
             asked     == IF length = None THEN available ELSE length
         IN  IF asked > available THEN None ELSE asked

\* How much content_range_reader lets the caller read, or None.
RangeLength(header, offset, length) ==
    IF header.compressed \/ offset > header.content_length THEN None
    ELSE LET available == header.content_length - offset
             asked     == IF length = None THEN available ELSE length
         IN  IF asked > available THEN None ELSE asked

\* A reader is positioned in the content.  An owned one takes the file with it
\* (into_content_reader) and the handle is gone.  `from` and `to` are what the
\* caller asked for, for RangesExact only.
StartReading(h, offset, remaining, asked, owned) ==
    /\ Ready(h)
    /\ owned => h \in AsyncHandles
    /\ Begin(h, [kind |-> "reading", file |-> handle[h].file,
                 at |-> handle[h].header.content_start + offset,
                 remaining |-> remaining, got |-> <<>>, from |-> offset,
                 to |-> IF asked = None THEN Content ELSE offset + asked])
    /\ handle' = IF owned THEN [handle EXCEPT ![h] = None] ELSE handle
    /\ fresh' = IF owned THEN fresh \ {h} ELSE fresh
    /\ UNCHANGED <<file, current, updates, settled>>

\* stored_content_reader, into_content_reader.
ReadStored(h, owned) ==
    /\ Ready(h)
    /\ StartReading(h, 0, handle[h].header.content_length, None, owned)

\* content_range_reader, into_content_range_reader.
ReadRange(h, offset, length, owned) ==
    /\ Ready(h)
    /\ RangeLength(handle[h].header, offset, length) # None
    /\ StartReading(h, offset, RangeLength(handle[h].header, offset, length),
                    length, owned)

\* Wrong: reads as much as the buffer holds.
ReadSome_Unlimited(h, n) ==
    LET c == call[h]
    IN  /\ c.kind = "reading" /\ c.remaining > 0
        /\ c.at + n - 1 \in DOMAIN file[c.file]
        /\ Begin(h, [c EXCEPT !.at = @ + n, !.remaining = @ - n,
                 !.got = @ \o [k \in 1 .. n |-> file[c.file][c.at + k - 1]]])
        /\ UNCHANGED <<file, current, updates, handle, historyVars>>

\* One read, of as much as the buffer holds and the file gives.
ReadSome(h, n) ==
    LET c == call[h]
    IN  /\ c.kind = "reading"
        /\ n <= c.remaining
        /\ c.at + n - 1 \in DOMAIN file[c.file]
        /\ Begin(h, [c EXCEPT !.at = @ + n, !.remaining = @ - n,
                 !.got = @ \o [k \in 1 .. n |-> file[c.file][c.at + k - 1]]])
        /\ UNCHANGED <<file, current, updates, handle, historyVars>>

\* The reader is dropped, at its end or before.
StopReading(h) ==
    /\ call[h].kind = "reading"
    /\ Return(h)
    /\ UNCHANGED <<file, current, updates, handle, historyVars>>

-----------------------------------------------------------------------------
Next ==
    \E h \in Handles :
        \/ OpenHeader(h) \/ OpenMetadata(h) \/ OpenFails(h) \/ Close(h)
        \/ \E m \in Metadata, t \in Tags : UpdateInPlace(h, m, t)
        \/ UpdateRefused(h)
        \/ WriteCell(h) \/ Written(h) \/ WriteFails(h) \/ Cancel(h)
        \/ \E m \in Metadata : SetMetadata(h, m)
        \/ \E t \in Tags : SetTags(h, t)
        \/ \E m \in Metadata, t \in Tags : SetSections(h, m, t)
        \/ Replace(h) \/ SetFails(h)
        \/ \E owned \in BOOLEAN : ReadStored(h, owned)
        \/ \E offset \in 0 .. Content + 1, length \in 0 .. Content + 1 \cup {None},
              owned \in BOOLEAN : ReadRange(h, offset, length, owned)
        \/ \E n \in 1 .. Content : ReadSome(h, n)
        \/ StopReading(h)

Spec == Init /\ [][Next]_vars

-----------------------------------------------------------------------------
(* Properties.                                                             *)

\* Types: offsets in the header fit their fields, no update writes past the
\* prefix, and no reader has less than nothing left.
TypeOK ==
    /\ current \in Files
    /\ \A h \in Handles : handle[h] # None =>
           handle[h] \in TuxObject /\ handle[h].file \in 1 .. current
    /\ \A h \in Handles :
           CASE call[h].kind = "opening" ->
                    call[h].file \in 1 .. current /\ call[h].header \in ObjectHeader
             [] call[h].kind = "writing" ->
                    /\ call[h].file \in 1 .. current
                    /\ call[h].header \in ObjectHeader
                    /\ call[h].at \in 0 .. call[h].header.content_start
             [] call[h].kind = "setting" -> handle[h] # None
             [] call[h].kind = "reading" ->
                    call[h].file \in 1 .. current /\ call[h].remaining \in Nat
             [] call[h].kind = "idle" -> call[h] = Idle
    /\ fresh \subseteq Handles

\* Where a header says the content is, and how much.
Place(header) == <<header.compressed, header.content_start, header.content_length>>

\* In-place updates run "without touching the content" (object.rs:211-216):
\* however they overlap, fail or are cancelled, the content of every file is
\* where a header read from it at that moment says, and every handle, one that
\* was opened in the middle of an update too, looks for it there.
ContentReachable ==
    /\ \A f \in 1 .. current :
           LET header == ReadHeader(file[f])
           IN  /\ header.content_length = Content
               /\ \A k \in 0 .. Content - 1 :
                      /\ header.content_start + k \in DOMAIN file[f]
                      /\ file[f][header.content_start + k] = ContentCell(k)
    /\ \A h \in Handles : \A f \in 1 .. current :
           /\ handle[h] # None /\ On(h, f) =>
                  Place(handle[h].header) = Place(ReadHeader(file[f]))
           /\ handle[h] = None /\ On(h, f) =>
                  Place(call[h].header) = Place(ReadHeader(file[f]))

\* What an open and read_tags find in a file now.
Stored(f) ==
    LET header == ReadHeader(file[f])
    IN  {[metadata |-> m, tags |-> t] :
            m \in OpenedMetadata(file[f], header), t \in ReadTags(file[f], header)}

\* An in-place update that ran to its end and met no other one is what the file
\* holds, whatever it held before: the whole of it and nothing of an earlier
\* update, torn ones included, so that repeating a failed update repairs the
\* object.
SettledIsStored ==
    \A f \in 1 .. current : settled[f] # None => Stored(f) = {settled[f]}

\* A handle that made the last update, or was opened after it, remembers what
\* the file holds and reads the tags where they are: set_metadata through it
\* keeps the tags as they are (object.rs:180-188).
FreshHandlesAgree ==
    \A h \in fresh : handle[h] # None =>
        LET f == handle[h].file
        IN  /\ settled[f] # None
            /\ handle[h].metadata = settled[f].metadata
            /\ ReadTags(file[f], handle[h].header) = {settled[f].tags}

\* "Reads stop at the end of the content" and a range gives the bytes that were
\* asked for and all of them (reader.rs:5-6, object.rs:299-303): what a reader
\* has given and has left is the requested part of the content, also while
\* others update or replace the object under it.
RangesExact ==
    \A h \in Handles : call[h].kind = "reading" =>
        LET c == call[h]
        IN  /\ c.to <= Content
            /\ Len(c.got) \in 0 .. c.to - c.from
            /\ Len(c.got) + c.remaining = c.to - c.from
            /\ \A k \in 1 .. Len(c.got) : c.got[k] = ContentCell(c.from + k - 1)
=============================================================================
