----------------------------- MODULE ObjectStore -----------------------------
(***************************************************************************)
(* Objects are created, opened and updated atomically by processes that    *)
(* share a directory: ObjectWriter (src/fs/writer.rs) and the part of      *)
(* TuxObject (src/fs/object.rs) that replaces an object by a rewritten     *)
(* one.  An action is one call into the file system, with what the code    *)
(* does around it.  A file that is not published yet is written by one     *)
(* process only, so a call on it that other processes cannot tell from its *)
(* neighbours is part of the same action.                                  *)
(*                                                                         *)
(* A process is a thread with at most one TuxObject and one ObjectWriter.  *)
(* set_sections_in_place is not part of this module.                       *)
(***************************************************************************)
EXTENDS ObjectFiles

CONSTANTS
    Procs,          \* the processes
    WithLength,     \* a metadata section with UNCOMPRESSED_LENGTH inserted
    MaxContent,     \* bound: pieces of content a caller writes
    Syncs,          \* values of CreateOptions.sync in use
    LayoutChoices,  \* layouts callers ask for
    DefaultOptions, \* LayoutOptions::default()
    RewriteReserve, \* DEFAULT_REWRITE_RESERVE
    ParentOpens,    \* whether File::open(final_path.parent()) succeeds
    Faults          \* which failures happen: "io", "rename", "unlink", "kill",
                    \* "power"

ASSUME ObjectStoreAssumption ==
    /\ \A m \in Metadata : WithLength[m] \in Metadata
    /\ MaxContent \in Nat
    /\ Syncs \subseteq BOOLEAN
    /\ LayoutChoices \subseteq LayoutOptions
    /\ DefaultOptions \in LayoutOptions
    /\ RewriteReserve \in Nat
    /\ ParentOpens \in BOOLEAN

\* An ObjectWriter.  temp_path: it still holds Some.
ObjectWriter ==
    [file : Files, temp_path : BOOLEAN, final_path : Paths,
     layout : SectionLayout, layout_options : LayoutOptions,
     compression : Codecs, metadata : Metadata, tags : Tags,
     content_length : Nat, sync : BOOLEAN, allow_raw_writes : BOOLEAN]

VARIABLES
    pc,      \* where each process is, see below
    writers, \* the ObjectWriters of its call, outermost first: <<>>, the one the
             \* caller or a setter made, or that one and the replacement made
             \* by its finish_by_rewriting
    handle   \* its TuxObject, or None

procVars == <<pc, writers, handle>>

\* History variables, for the properties only.
VARIABLES
    published, \* the files renamed over each path, oldest first
    acked      \* how many of them the last synced finish that returned Ok covers

historyVars == <<published, acked>>

vars == <<fsVars, procVars, historyVars>>

\* "idle"      no call is running and there is no writer
\* "writing"   the caller holds an ObjectWriter and streams content into it
\* "copying"   content is about to be copied into the innermost writer
\* "finishing" a call is about to run finish on the innermost writer
\* "prefix", "fsync", "rename", "fsyncdir", "reopen"  inside that finish
CallStates == {"copying", "finishing", "prefix", "fsync", "rename", "fsyncdir",
               "reopen"}
Locations == {"idle", "writing"} \cup CallStates

-----------------------------------------------------------------------------
Writer(p) == writers[p][Len(writers[p])]
SetWriter(p, w) ==
    writers' = [writers EXCEPT ![p] = [@ EXCEPT ![Len(@)] = w]]

Goto(p, location) == pc' = [pc EXCEPT ![p] = location]

\* The temporary names the writers of a process still own.
OwnedTemps(p) ==
    {writers[p][k].file : k \in {j \in DOMAIN writers[p] : writers[p][j].temp_path}}

\* remove_file of the temporary names fs.  Drop ignores that it failed, and abort
\* returns the error when temp_path is taken: either way the file stays.
RemoveTemps(fs) ==
    \E left \in SUBSET fs :
        /\ "unlink" \in Faults \/ left = {}
        /\ DeleteTemps(fs \ left)

\* Wrong: Drop without remove_file.
DropWriters_Leaves(p) ==
    /\ writers' = [writers EXCEPT ![p] = <<>>]
    /\ Goto(p, "idle")
    /\ UNCHANGED <<fsVars, handle, historyVars>>

\* Every writer of the process goes out of scope: Drop for ObjectWriter.  Also
\* what abort does.
DropWriters(p) ==
    /\ RemoveTemps(OwnedTemps(p))
    /\ writers' = [writers EXCEPT ![p] = <<>>]
    /\ Goto(p, "idle")
    /\ UNCHANGED <<handle, historyVars>>

-----------------------------------------------------------------------------
Init ==
    /\ FsInit
    /\ pc = [p \in Procs |-> "idle"]
    /\ writers = [p \in Procs |-> <<>>]
    /\ handle = [p \in Procs |-> None]
    /\ published = [path \in Paths |-> <<>>]
    /\ acked = [path \in Paths |-> 0]

\* TuxObject::open and open_writable.
Open(p, path, writable) ==
    LET f == Current(path)
    IN  /\ pc[p] = "idle" /\ handle[p] = None
        /\ Openable(path)
        /\ handle' = [handle EXCEPT ![p] =
               [file |-> f, path |-> path, header |-> file[f].header,
                metadata |-> file[f].metadata, writable |-> writable]]
        /\ UNCHANGED <<fsVars, pc, writers, historyVars>>

Close(p) ==
    /\ pc[p] = "idle" /\ handle[p] # None
    /\ handle' = [handle EXCEPT ![p] = None]
    /\ UNCHANGED <<fsVars, pc, writers, historyVars>>

NewWriter(f, path, layout, options, compression, sync, m, t) ==
    [file |-> f, temp_path |-> TRUE, final_path |-> path,
     layout |-> layout, layout_options |-> options,
     compression |-> compression, metadata |-> m, tags |-> t,
     content_length |-> 0, sync |-> sync,
     allow_raw_writes |-> compression = Stored]

\* ObjectWriter::create, given the writers it is added to.  When the sections
\* have no layout, or no temporary file can be made, nothing happened.
Create(p, outer, path, options, compression, sync, m, t, next) ==
    LET layout == compute(options, Size[m], Size[t])
    IN  /\ layout # None
        /\ CreateFile(NewFile(layout.content_start))
        /\ writers' = [writers EXCEPT ![p] = Append(outer,
               NewWriter(Fresh, path, layout, options, compression, sync, m, t))]
        /\ Goto(p, next)
        /\ UNCHANGED <<handle, historyVars>>

\* A caller starts a new object.
CallerCreates(p, path, options, compression, sync, m, t) ==
    /\ pc[p] = "idle" /\ handle[p] = None
    /\ Create(p, <<>>, path, options, compression, sync, m, t, "writing")

\* Wrong: the bytes are written and not counted.
Receive_Uncounted(p, pieces, w) ==
    /\ WriteFile(w.file, [file[w.file] EXCEPT !.content = @ \o pieces])
    /\ SetWriter(p, w)

\* Content arrives in the file of the innermost writer of p.
Receive(p, pieces, w) ==
    /\ WriteFile(w.file, [file[w.file] EXCEPT !.content = @ \o pieces])
    /\ SetWriter(p, [w EXCEPT !.content_length = @ + Len(pieces)])

\* Write for ObjectWriter; refused while allow_raw_writes is not set.
Write(p, chunk) ==
    /\ pc[p] = "writing"
    /\ Writer(p).allow_raw_writes
    /\ Writer(p).content_length < MaxContent
    /\ Receive(p, <<chunk>>, Writer(p))
    /\ UNCHANGED <<pc, handle, historyVars>>

\* content_encoder, a write through it, and ContentEncoder::finish, which
\* records the uncompressed length unless it happens to be the stored one.  The
\* encoder borrows the writer, so nothing comes between.
Encode(p, chunk) ==
    LET w == Writer(p)
    IN  /\ pc[p] = "writing"
        /\ w.compression # Stored
        /\ w.content_length < MaxContent
        /\ \E m \in {w.metadata, WithLength[w.metadata]} :
               Receive(p, <<Frame(chunk)>>,
                       [w EXCEPT !.allow_raw_writes = TRUE, !.metadata = m])
        /\ UNCHANGED <<pc, handle, historyVars>>

\* metadata_mut and tags_mut.
Mutate(p, m, t) ==
    LET w == Writer(p)
    IN  /\ pc[p] = "writing"
        /\ <<m, t>> # <<w.metadata, w.tags>>
        /\ SetWriter(p, [w EXCEPT !.metadata = m, !.tags = t])
        /\ UNCHANGED <<fsVars, pc, handle, historyVars>>

\* Wrong: the file is unlinked and the writer stays.
Abandon_KeepsWriter(p) ==
    /\ pc[p] = "writing"
    /\ DeleteTemps(OwnedTemps(p))
    /\ Goto(p, "idle")
    /\ UNCHANGED <<writers, handle, historyVars>>

\* The caller aborts the write, or drops the writer.
Abandon(p) ==
    /\ pc[p] = "writing"
    /\ DropWriters(p)

-----------------------------------------------------------------------------
(* ObjectWriter::finish, of the caller, of a rewrite, or of a replacement. *)

AtFinish(p) == pc[p] \in {"writing", "finishing"}

Refit(p) ==
    LET w == Writer(p)
    IN  repartition(w.layout.content_start, Size[w.metadata], Size[w.tags],
                    w.layout_options.alignment)

\* The sections fit: the prefix is about to be written.
Finish(p) ==
    /\ AtFinish(p)
    /\ Refit(p) # None
    /\ SetWriter(p, [Writer(p) EXCEPT !.layout = Refit(p)])
    /\ Goto(p, "prefix")
    /\ UNCHANGED <<fsVars, handle, historyVars>>

\* They do not: finish_by_rewriting creates a replacement for the writer.
FinishByRewriting(p) ==
    LET w == Writer(p)
    IN  /\ AtFinish(p)
        /\ Refit(p) = None
        /\ Create(p, writers[p], w.final_path,
                  RaiseReserves(w.layout_options, RewriteReserve),
                  w.compression, w.sync, w.metadata, w.tags, "copying")

\* The replacement cannot be created.
RewritingFails(p) ==
    LET w == Writer(p)
    IN  /\ AtFinish(p)
        /\ Refit(p) = None
        /\ \/ compute(RaiseReserves(w.layout_options, RewriteReserve),
                      Size[w.metadata], Size[w.tags]) = None
           \/ ~CanCreate
        /\ DropWriters(p)

\* Wrong: the old content is looked for at the offset of the new layout.
CopySource_NewOffset(p) ==
    IF Len(writers[p]) > 1
    THEN LET w == writers[p][Len(writers[p]) - 1]
         IN  StoredContent(w.file, Writer(p).layout.content_start,
                           w.content_length)
    ELSE LET h == handle[p]
         IN  StoredContent(h.file, h.header.content_start,
                           h.header.content_length)

\* What io::copy reads: the content of the writer that is being replaced, or of
\* the object that is being rewritten.
CopySource(p) ==
    IF Len(writers[p]) > 1
    THEN LET w == writers[p][Len(writers[p]) - 1]
         IN  StoredContent(w.file, w.layout.content_start, w.content_length)
    ELSE LET h == handle[p]
         IN  StoredContent(h.file, h.header.content_start,
                           h.header.content_length)

\* io::copy into the new writer, which has its Write refuse raw bytes when it
\* was created with a codec.
Copy(p) ==
    /\ pc[p] = "copying"
    /\ CopySource(p) = <<>> \/ Writer(p).allow_raw_writes
    /\ Receive(p, CopySource(p), Writer(p))
    /\ Goto(p, "finishing")
    /\ UNCHANGED <<handle, historyVars>>

CopyRefused(p) ==
    /\ pc[p] = "copying"
    /\ CopySource(p) # <<>> /\ ~Writer(p).allow_raw_writes
    /\ DropWriters(p)

\* Wrong: the length is what it was when the writer was created.
BuildHeader_AtCreate(w) ==
    [compression_type |-> w.compression, tags_start |-> w.layout.tags_start,
     content_start |-> w.layout.content_start, content_length |-> 0]

\* build_header.
BuildHeader(w) ==
    [compression_type |-> w.compression, tags_start |-> w.layout.tags_start,
     content_start |-> w.layout.content_start,
     content_length |-> w.content_length]

\* Wrong: a synced writer does not flush its file.
AfterPrefix_NoSync(w) == "rename"
AfterPrefix(w) == IF w.sync THEN "fsync" ELSE "rename"

\* encode_prefix and the write of the prefix.
WritePrefix(p) ==
    LET w == Writer(p)
    IN  /\ pc[p] = "prefix"
        /\ WriteFile(w.file, [file[w.file] EXCEPT !.header = BuildHeader(w),
                                                  !.metadata = w.metadata,
                                                  !.tags = w.tags])
        /\ Goto(p, AfterPrefix(w))
        /\ UNCHANGED <<writers, handle, historyVars>>

SyncAll(p) ==
    /\ pc[p] = "fsync"
    /\ SyncFile(Writer(p).file)
    /\ Goto(p, "rename")
    /\ UNCHANGED <<writers, handle, historyVars>>

\* Wrong: a synced writer does not flush the directory.
AfterRename_NoSync(w) == "reopen"
AfterRename(w) == IF w.sync THEN "fsyncdir" ELSE "reopen"

\* publish takes temp_path, then renames.
Rename(p) ==
    LET w == Writer(p)
    IN  /\ pc[p] = "rename"
        /\ RenameFile(w.file, w.final_path)
        /\ SetWriter(p, [w EXCEPT !.temp_path = FALSE])
        /\ published' = [published EXCEPT ![w.final_path] = Append(@, w.file)]
        /\ Goto(p, AfterRename(w))
        /\ UNCHANGED <<handle, acked>>

\* The rename fails: the writer is dropped without its temp_path.
RenameFails(p) ==
    /\ "rename" \in Faults
    /\ pc[p] = "rename"
    /\ RemoveTemps(OwnedTemps(p) \ {Writer(p).file})
    /\ writers' = [writers EXCEPT ![p] = <<>>]
    /\ Goto(p, "idle")
    /\ UNCHANGED <<handle, historyVars>>

SyncParent(p) ==
    /\ pc[p] = "fsyncdir"
    /\ IF ParentOpens THEN SyncDirectory ELSE UNCHANGED fsVars
    /\ Goto(p, "reopen")
    /\ UNCHANGED <<writers, handle, historyVars>>

\* finish returns the published object; in a setter it replaces the one the
\* caller had.  Outer writers are dropped.
Reopen(p) ==
    LET w == Writer(p)
    IN  /\ pc[p] = "reopen"
        /\ handle' = [handle EXCEPT ![p] =
               [file |-> w.file, path |-> w.final_path,
                header |-> BuildHeader(w), metadata |-> w.metadata,
                writable |-> TRUE]]
        /\ RemoveTemps(OwnedTemps(p))
        /\ writers' = [writers EXCEPT ![p] = <<>>]
        /\ Goto(p, "idle")
        /\ IF w.sync
           THEN \E k \in DOMAIN published[w.final_path] :
                    /\ published[w.final_path][k] = w.file
                    /\ acked' = [acked EXCEPT ![w.final_path] = AtLeast(@, k)]
           ELSE UNCHANGED acked
        /\ UNCHANGED published

-----------------------------------------------------------------------------
(* The atomic setters of TuxObject.                                        *)

\* Wrong: sections that fit are written into the file the object is in.
Rewrite_SameFile(p, m, t) ==
    LET h == handle[p]
        l == repartition(h.header.content_start, Size[m], Size[t], 1)
    IN  /\ pc[p] = "idle" /\ h # None
        /\ h.writable /\ l # None
        /\ writers' = [writers EXCEPT ![p] =
               <<[NewWriter(h.file, h.path, l, DefaultOptions,
                            h.header.compression_type, TRUE, m, t)
                  EXCEPT !.temp_path = FALSE,
                         !.content_length = h.header.content_length]>>]
        /\ Goto(p, "finishing")
        /\ UNCHANGED <<fsVars, handle, historyVars>>

\* TuxObject::rewrite up to the copy: the current prefix is the floor of the
\* new layout.
Rewrite(p, m, t) ==
    LET h == handle[p]
    IN  /\ pc[p] = "idle" /\ h # None
        /\ h.writable
        /\ Create(p, <<>>, h.path,
                  [DefaultOptions EXCEPT
                      !.min_content_start = h.header.content_start],
                  h.header.compression_type, TRUE, m, t, "copying")

\* read_tags, at the offset the handle remembers.
ReadTags(h) ==
    IF file[h.file].header.tags_start = h.header.tags_start
    THEN file[h.file].tags
    ELSE None

\* set_metadata and modify_metadata.
SetMetadata(p, m) ==
    /\ pc[p] = "idle" /\ handle[p] # None
    /\ ReadTags(handle[p]) # None
    /\ Rewrite(p, m, ReadTags(handle[p]))

SetTags(p, t) ==
    /\ pc[p] = "idle" /\ handle[p] # None
    /\ Rewrite(p, handle[p].metadata, t)

SetSections(p, m, t) == Rewrite(p, m, t)

-----------------------------------------------------------------------------
(* Failures.                                                               *)

\* Calls that return an error before they change anything: opening a path that
\* names no whole object, creating or rewriting without a temporary file, and
\* a setter on an object opened for reading.
CallRefused(p) ==
    /\ pc[p] = "idle"
    /\ \/ /\ handle[p] = None
          /\ \E path \in Paths : ~Openable(path)
       \/ ~CanCreate
       \/ handle[p] # None /\ ~handle[p].writable
    /\ UNCHANGED vars

\* An I/O error, or a section that cannot be encoded, inside a call: `?` returns
\* and every writer of the call is dropped.  The object a setter works on stays
\* what it was, also when only reopening the published file fails.
CallFails(p) ==
    /\ "io" \in Faults
    /\ pc[p] \in CallStates \ {"rename", "fsyncdir"}
    /\ DropWriters(p)

\* The process is killed: nothing is dropped.
Kill(p) ==
    /\ "kill" \in Faults
    /\ pc[p] # "idle" \/ handle[p] # None
    /\ pc' = [pc EXCEPT ![p] = "idle"]
    /\ writers' = [writers EXCEPT ![p] = <<>>]
    /\ handle' = [handle EXCEPT ![p] = None]
    /\ UNCHANGED <<fsVars, historyVars>>

PowerLoss ==
    /\ "power" \in Faults
    /\ PowerIsLost
    /\ pc' = [p \in Procs |-> "idle"]
    /\ writers' = [p \in Procs |-> <<>>]
    /\ handle' = [p \in Procs |-> None]
    /\ UNCHANGED historyVars

-----------------------------------------------------------------------------
\* What a call does on its own once the caller made it.
InCall(p) ==
    \/ Copy(p)
    \/ CopyRefused(p)
    \/ pc[p] = "finishing" /\ (Finish(p) \/ FinishByRewriting(p) \/ RewritingFails(p))
    \/ WritePrefix(p)
    \/ SyncAll(p)
    \/ Rename(p)
    \/ SyncParent(p)
    \/ Reopen(p)

Next ==
    \/ \E p \in Procs :
        \/ \E path \in Paths, writable \in BOOLEAN : Open(p, path, writable)
        \/ Close(p)
        \/ \E path \in Paths, options \in LayoutChoices, codec \in Codecs,
              sync \in Syncs, m \in Metadata, t \in Tags :
               CallerCreates(p, path, options, codec, sync, m, t)
        \/ \E chunk \in Chunks : Write(p, chunk) \/ Encode(p, chunk)
        \/ \E m \in Metadata, t \in Tags : Mutate(p, m, t)
        \/ Abandon(p)
        \/ Finish(p) \/ FinishByRewriting(p) \/ RewritingFails(p)
        \/ Copy(p) \/ CopyRefused(p)
        \/ WritePrefix(p) \/ SyncAll(p) \/ Rename(p) \/ RenameFails(p)
        \/ SyncParent(p) \/ Reopen(p)
        \/ \E m \in Metadata : SetMetadata(p, m)
        \/ \E t \in Tags : SetTags(p, t)
        \/ \E m \in Metadata, t \in Tags : SetSections(p, m, t)
        \/ CallRefused(p)
        \/ CallFails(p)
        \/ Kill(p)
    \/ PowerLoss

Spec == Init /\ [][Next]_vars

\* A thread that is inside a call keeps running it.  Nothing is assumed of what
\* callers do between calls.
Fairness == \A p \in Procs : WF_vars(InCall(p))

FairSpec == Spec /\ Fairness

-----------------------------------------------------------------------------
(* Properties.                                                             *)

\* Types, and what each location says of the writers of a process.
TypeOK ==
    /\ created \in 0 .. MaxFiles
    /\ file \in [Files -> ObjectFile \cup {Blank}]
    /\ unsynced \subseteq Files
    /\ temps \subseteq Files
    /\ names \in [Paths -> Seq(Files \cup {NoFile}) \ {<<>>}]
    /\ pc \in [Procs -> Locations]
    /\ writers \in [Procs -> Seq(ObjectWriter)]
    /\ handle \in [Procs -> TuxObject \cup {None}]
    /\ published \in [Paths -> Seq(Files)]
    /\ acked \in [Paths -> Nat]
    /\ \A p \in Procs : pc[p] = "idle" <=> writers[p] = <<>>

\* An open TuxObject keeps reading the object it opened: rewriting, replacing
\* or abandoning an object never touches the bytes of a file somebody holds.
ReadersKeepTheirObject ==
    [][\A p \in Procs :
          (handle[p] # None /\ handle'[p] = handle[p])
              => file'[handle[p].file] = file[handle[p].file]]_vars

\* What a TuxObject remembers (the header and the metadata, which finish and
\* the setters hand over without reading them back) is what its file holds.
HandlesFaithful ==
    \A p \in Procs : handle[p] # None =>
        LET h == handle[p]
        IN  /\ Complete(h.file)
            /\ h.header = file[h.file].header
            /\ h.metadata = file[h.file].metadata

\* "Dropping the writer without finishing removes the temporary file"
\* (writer.rs:67-68): unless a process was killed, or a rename or remove_file
\* failed, the temporary names in the directory are those of files some writer is
\* still working on.
NoTempLeaks == temps = UNION {OwnedTemps(p) : p \in Procs}

\* The replacement finish_by_rewriting makes never needs a replacement itself
\* (async_io.rs:649-650), and a setter's writer never needs one.
RewritesOnce ==
    \A p \in Procs : /\ Len(writers[p]) <= 2
                     /\ handle[p] # None => Len(writers[p]) <= 1

\* The object a path named when k files had been renamed over it.
VersionAt(path, k) == IF k = 0 THEN NoFile ELSE published[path][k]

\* "A completed write survives a power loss" (writer.rs:28-30): once a synced
\* finish returned Ok, its path names that object or a later one for good.
SyncedSurvivesPowerLoss ==
    \A path \in Paths :
        \E k \in acked[path] .. Len(published[path]) :
            Current(path) = VersionAt(path, k)

\* A setter's rewrite replaces the object (object.rs:180-198): a setter that
\* got as far as copying the content ends with the caller holding the new
\* object, when no call into the file system fails.
SettersSucceed ==
    \A p \in Procs, f \in Files :
        (pc[p] = "copying" /\ handle[p] # None /\ Writer(p).file = f)
            ~> (handle[p] # None /\ handle[p].file = f)
=============================================================================
