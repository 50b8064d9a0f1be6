--------------------------- MODULE AsyncObjectStore ---------------------------
(***************************************************************************)
(* AsyncObjectWriter and the part of AsyncTuxObject that replaces an       *)
(* object (src/fs/async_io.rs), called by the tasks of one process.        *)
(*                                                                         *)
(* A location is an `.await`.  Between two of them a task runs alone on    *)
(* what it holds, so an action goes from one await to the next.  At an     *)
(* await one of two things is under way on tokio's blocking pool:          *)
(*   - a job the future waits for (create, fsync, rename, unlink, ...);    *)
(*   - the background write of a tokio File: poll_write hands the bytes    *)
(*     over and says they are written; whether they were is told by the    *)
(*     next write or flush.                                                *)
(* A future that is dropped runs the Drop of what it owns, and what is on  *)
(* the pool happens all the same.                                          *)
(*                                                                         *)
(* A seek, a read and try_clone change nothing another task can see; being *)
(* dropped there is being dropped at the await before or after it.         *)
(***************************************************************************)
EXTENDS ObjectFiles

CONSTANTS
    Tasks,          \* each with at most one AsyncTuxObject and one write
    MaxContent,     \* bound: pieces of content a caller writes
    Syncs,          \* values of CreateOptions.sync in use
    LayoutChoices,  \* layouts callers ask for
    DefaultOptions, \* LayoutOptions::default()
    RewriteReserve, \* the 256 of finish_by_rewriting
    ParentOpens,    \* whether File::open(final_path.parent()) succeeds
    Faults,         \* failures that happen: "io", "rename", "unlink", "kill",
                    \* "power"
    Cancels,        \* the awaits at which futures are dropped
    GoOn            \* whether callers write on after a write returned an error

\* "idle"        no call is running and there is no writer
\* "writing"     the caller holds an AsyncObjectWriter
\* "creating"    in create_temp_file, of a caller, a setter or a replacement
\* "srcflush"    finish_by_rewriting: flush of the writer that is replaced
\* "copying"     a setter before tokio::io::copy
\* "copyflush"   tokio::io::copy: the flush at its end
\* "flush"       finish: the flush before the prefix
\* "prefixflush" finish: the flush after it
\* "syncing", "renaming", "syncdir", "reopen"  the rest of finish and publish
\* "cleaning"    finish_by_rewriting: abort of the writer that was replaced
\* "aborting"    abort, of the caller
Awaits == {"creating", "srcflush", "copying", "copyflush", "flush", "prefixflush",
           "syncing", "renaming", "syncdir", "reopen", "cleaning", "aborting"}
Locations == {"idle", "writing"} \cup Awaits

ASSUME AsyncObjectStoreAssumption ==
    /\ MaxContent \in Nat
    /\ Syncs \subseteq BOOLEAN
    /\ LayoutChoices \subseteq LayoutOptions
    /\ DefaultOptions \in LayoutOptions
    /\ RewriteReserve \in Nat
    /\ ParentOpens \in BOOLEAN
    /\ Cancels \subseteq Awaits
    /\ GoOn \in BOOLEAN
    /\ None \notin ObjectFile

\* An AsyncObjectWriter.  temp_path: it still holds Some.  While its file is
\* being created it is NoFile: there are only the arguments of create.
AsyncObjectWriter ==
    [file : Files \cup {NoFile}, temp_path : BOOLEAN, final_path : Paths,
     layout : SectionLayout, layout_options : LayoutOptions, metadata : Metadata,
     tags : Tags, content_length : Nat, sync : BOOLEAN]

\* A closure on the blocking pool and what it works on.
Job == [kind : {"none", "create", "fsync", "rename", "syncdir", "unlink"},
        file : Files \cup {NoFile}, path : Paths \cup {NoFile},
        content_start : 0 .. U32Max, state : {"queued", "ok", "failed"}]

NoJob == [kind |-> "none", file |-> NoFile, path |-> NoFile, content_start |-> 0,
          state |-> "ok"]
FileJob(kind, f) ==
    [kind |-> kind, file |-> f, path |-> NoFile, content_start |-> 0,
     state |-> "queued"]

VARIABLES
    pc,       \* where each task is
    writers,  \* the writers of its call, outermost first, as in ObjectStore
    handle,   \* its AsyncTuxObject, or None
    job,      \* the job its future waits for
    detached, \* queued jobs whose future was dropped
    pending,  \* for each file the bytes it will have once the background write
              \* of its tokio File has run, or None
    failed    \* files with a failed background write not reported yet
              \* (last_write_err)

taskVars == <<pc, writers, handle, job>>
poolVars == <<detached, pending, failed>>

\* A history variable, for the properties only.
VARIABLE
    sent \* for each file the content its writers were told is written

vars == <<fsVars, taskVars, poolVars, sent>>

-----------------------------------------------------------------------------
Writer(p) == writers[p][Len(writers[p])]
SetWriter(p, w) ==
    writers' = [writers EXCEPT ![p] = [@ EXCEPT ![Len(@)] = w]]

Goto(p, location) == pc' = [pc EXCEPT ![p] = location]

\* The job p waits for is over.
JobOk(p)     == job[p].state = "ok"
JobFailed(p) == job[p].state = "failed"

\* poll_flush of f returns Ok, or the error of the background write.
FlushOk(f)     == pending[f] = None /\ f \notin failed
FlushFailed(f) == pending[f] = None /\ f \in failed

OwnedTemps(p) ==
    {writers[p][k].file : k \in {j \in DOMAIN writers[p] : writers[p][j].temp_path}}

\* unlink(2) of the temporary names of fs; background writes to them change
\* nothing any more.
RemoveTemps(fs) ==
    /\ DeleteTemps(fs)
    /\ pending' = [f \in Files |-> IF f \in fs THEN None ELSE pending[f]]
    /\ failed' = failed \ fs

\* Wrong: no Drop.
DropWriters_Leaves(p) ==
    /\ writers' = [writers EXCEPT ![p] = <<>>]
    /\ job' = [job EXCEPT ![p] = NoJob]
    /\ Goto(p, "idle")
    /\ UNCHANGED <<fsVars, pending, failed, handle, sent>>

\* The call of p is over without a new object: Drop for AsyncObjectWriter, of
\* each writer it owns.
DropWriters(p) ==
    /\ RemoveTemps(OwnedTemps(p))
    /\ writers' = [writers EXCEPT ![p] = <<>>]
    /\ job' = [job EXCEPT ![p] = NoJob]
    /\ Goto(p, "idle")
    /\ UNCHANGED <<handle, sent>>

\* The future goes on to wait for a job.
Await(p, location, j) ==
    /\ Goto(p, location)
    /\ job' = [job EXCEPT ![p] = j]

-----------------------------------------------------------------------------
Init ==
    /\ FsInit
    /\ pc = [p \in Tasks |-> "idle"]
    /\ writers = [p \in Tasks |-> <<>>]
    /\ handle = [p \in Tasks |-> None]
    /\ job = [p \in Tasks |-> NoJob]
    /\ detached = {}
    /\ pending = [f \in Files |-> None]
    /\ failed = {}
    /\ sent = [f \in Files |-> <<>>]

(***************************************************************************)
(* The blocking pool.                                                      *)
(***************************************************************************)

\* What a job does to the directory.
Perform(j) ==
    \/ j.kind = "create" /\ CreateFile(NewFile(j.content_start))
    \/ j.kind = "fsync" /\ SyncFile(j.file)
    \/ j.kind = "rename" /\ RenameFile(j.file, j.path)
    \/ j.kind = "unlink" /\ DeleteTemps({j.file})
    \/ j.kind = "syncdir" /\ IF ParentOpens THEN SyncDirectory ELSE UNCHANGED fsVars

MayFail(j) ==
    \/ j.kind = "create" /\ (~CanCreate \/ "io" \in Faults)
    \/ j.kind = "fsync" /\ "io" \in Faults
    \/ j.kind \in {"rename", "unlink"} /\ j.kind \in Faults

JobRuns(p) ==
    /\ job[p].state = "queued"
    /\ Perform(job[p])
    /\ job' = [job EXCEPT ![p].state = "ok",
                          ![p].file = IF job[p].kind = "create" THEN Fresh ELSE @]
    /\ UNCHANGED <<pc, writers, handle, poolVars, sent>>

JobFails(p) ==
    /\ job[p].state = "queued"
    /\ MayFail(job[p])
    /\ job' = [job EXCEPT ![p].state = "failed"]
    /\ UNCHANGED <<fsVars, pc, writers, handle, poolVars, sent>>

\* A file that is created for a future that is gone is closed again.  Of the
\* flush of a directory that was dropped, the open may be all that is left.
DetachedRuns(j) ==
    /\ j \in detached
    /\ \/ Perform(j)
       \/ (MayFail(j) \/ j.kind = "syncdir") /\ UNCHANGED fsVars
    /\ detached' = detached \ {j}
    /\ UNCHANGED <<taskVars, pending, failed, sent>>

WriteRuns(f) ==
    /\ pending[f] # None
    /\ WriteFile(f, pending[f])
    /\ pending' = [pending EXCEPT ![f] = None]
    /\ UNCHANGED <<taskVars, detached, failed, sent>>

\* The bytes are gone.
WriteFails(f) ==
    /\ "io" \in Faults
    /\ pending[f] # None
    /\ pending' = [pending EXCEPT ![f] = None]
    /\ failed' = failed \cup {f}
    /\ UNCHANGED <<fsVars, taskVars, detached, sent>>

(***************************************************************************)
(* Opening and creating.                                                   *)
(***************************************************************************)

Open(p, path, writable) ==
    LET f == Current(path)
    IN  /\ pc[p] = "idle" /\ handle[p] = None
        /\ Openable(path)
        /\ handle' = [handle EXCEPT ![p] =
               [file |-> f, path |-> path, header |-> file[f].header,
                metadata |-> file[f].metadata, writable |-> writable]]
        /\ UNCHANGED <<fsVars, pc, writers, job, poolVars, sent>>

Close(p) ==
    /\ pc[p] = "idle" /\ handle[p] # None
    /\ handle' = [handle EXCEPT ![p] = None]
    /\ UNCHANGED <<fsVars, pc, writers, job, poolVars, sent>>

\* AsyncObjectWriter::create up to the await in create_temp_file; outer are the
\* writers the call has already.
Create(p, outer, path, options, sync, m, t) ==
    LET layout == compute(options, Size[m], Size[t])
    IN  /\ layout # None
        /\ writers' = [writers EXCEPT ![p] = Append(outer,
               [file |-> NoFile, temp_path |-> FALSE, final_path |-> path,
                layout |-> layout, layout_options |-> options, metadata |-> m,
                tags |-> t, content_length |-> 0, sync |-> sync])]
        /\ Await(p, "creating",
                 [FileJob("create", NoFile) EXCEPT
                     !.content_start = layout.content_start])
        /\ UNCHANGED <<fsVars, handle, poolVars, sent>>

CallerCreates(p, path, options, sync, m, t) ==
    /\ pc[p] = "idle" /\ handle[p] = None
    /\ Create(p, <<>>, path, options, sync, m, t)

\* create returns: to the caller, to a setter, or to finish_by_rewriting.
Created(p) ==
    /\ pc[p] = "creating"
    /\ JobOk(p)
    /\ SetWriter(p, [Writer(p) EXCEPT !.file = job[p].file, !.temp_path = TRUE])
    /\ Await(p, IF Len(writers[p]) > 1 THEN "srcflush"
                ELSE IF handle[p] # None THEN "copying" ELSE "writing", NoJob)
    /\ UNCHANGED <<fsVars, handle, poolVars, sent>>

\* The setters up to their create: rewrite, given the sections.  A setter keeps
\* the prefix it finds if it can, and works on uncompressed objects only.
Rewrite(p, m, t) ==
    LET h == handle[p]
    IN  /\ pc[p] = "idle" /\ h # None
        /\ h.writable /\ h.header.compression_type = Stored
        /\ Create(p, <<>>, h.path,
                  [DefaultOptions EXCEPT
                      !.min_content_start = h.header.content_start],
                  TRUE, m, t)

\* read_tags, at the offset the handle remembers.
ReadTags(h) ==
    IF file[h.file].header.tags_start = h.header.tags_start
    THEN file[h.file].tags
    ELSE None

SetMetadata(p, m) ==
    /\ pc[p] = "idle" /\ handle[p] # None
    /\ ReadTags(handle[p]) # None
    /\ Rewrite(p, m, ReadTags(handle[p]))

SetTags(p, t) ==
    /\ pc[p] = "idle" /\ handle[p] # None
    /\ Rewrite(p, handle[p].metadata, t)

SetSections(p, m, t) == Rewrite(p, m, t)

(***************************************************************************)
(* Writing.                                                                *)
(***************************************************************************)

\* Wrong: the bytes are handed over and not counted.
Queue_Uncounted(p, pieces, w) ==
    /\ pending' = [pending EXCEPT
           ![w.file] = [file[w.file] EXCEPT !.content = @ \o pieces]]
    /\ SetWriter(p, w)

\* poll_write: the bytes go to the background and count as written.
Queue(p, pieces, w) ==
    /\ pending' = [pending EXCEPT
           ![w.file] = [file[w.file] EXCEPT !.content = @ \o pieces]]
    /\ SetWriter(p, [w EXCEPT !.content_length = @ + Len(pieces)])

Write(p, chunk) ==
    /\ pc[p] = "writing"
    /\ Writer(p).content_length < MaxContent
    /\ FlushOk(Writer(p).file)
    /\ Queue(p, <<chunk>>, Writer(p))
    /\ sent' = [sent EXCEPT ![Writer(p).file] = Append(@, chunk)]
    /\ UNCHANGED <<fsVars, pc, handle, job, detached, failed>>

\* A write, or a flush of the caller, returns the error of the write before it;
\* the caller drops the writer or goes on.
WriteErrs(p) ==
    /\ pc[p] = "writing"
    /\ FlushFailed(Writer(p).file)
    /\ IF GoOn
       THEN /\ failed' = failed \ {Writer(p).file}
            /\ UNCHANGED <<fsVars, taskVars, pending, sent>>
       ELSE DropWriters(p)
    /\ UNCHANGED detached

\* metadata_mut and tags_mut.
Mutate(p, m, t) ==
    LET w == Writer(p)
    IN  /\ pc[p] = "writing"
        /\ <<m, t>> # <<w.metadata, w.tags>>
        /\ SetWriter(p, [w EXCEPT !.metadata = m, !.tags = t])
        /\ UNCHANGED <<fsVars, pc, handle, job, poolVars, sent>>

\* The caller drops the writer.
Abandon(p) ==
    /\ pc[p] = "writing"
    /\ DropWriters(p)
    /\ UNCHANGED detached

\* abort: temp_path is taken, then the file is unlinked on the pool.
Abort(p) ==
    /\ pc[p] = "writing"
    /\ SetWriter(p, [Writer(p) EXCEPT !.temp_path = FALSE])
    /\ Await(p, "aborting", FileJob("unlink", Writer(p).file))
    /\ UNCHANGED <<fsVars, handle, poolVars, sent>>

\* abort returns Ok or an error.
Aborted(p) ==
    /\ pc[p] = "aborting"
    /\ JobOk(p) \/ JobFailed(p)
    /\ DropWriters(p)
    /\ UNCHANGED detached

(***************************************************************************)
(* finish, of the caller, of a setter, or of a replacement.                *)
(***************************************************************************)

\* tokio::io::copy has flushed what it copied.
AtFinish(p) ==
    \/ pc[p] = "writing"
    \/ pc[p] = "copyflush" /\ FlushOk(Writer(p).file)

Refit(p) ==
    LET w == Writer(p)
    IN  repartition(w.layout.content_start, Size[w.metadata], Size[w.tags],
                    w.layout_options.alignment)

\* The sections fit.
Finish(p) ==
    /\ AtFinish(p)
    /\ Refit(p) # None
    /\ SetWriter(p, [Writer(p) EXCEPT !.layout = Refit(p)])
    /\ Goto(p, "flush")
    /\ UNCHANGED <<fsVars, handle, job, poolVars, sent>>

\* They do not: finish_by_rewriting creates a replacement.
FinishByRewriting(p) ==
    LET w == Writer(p)
    IN  /\ AtFinish(p)
        /\ Refit(p) = None
        /\ Create(p, writers[p], w.final_path,
                  RaiseReserves(w.layout_options, RewriteReserve), w.sync,
                  w.metadata, w.tags)

\* The replacement has no layout.
RewritingFails(p) ==
    LET w == Writer(p)
    IN  /\ AtFinish(p)
        /\ Refit(p) = None
        /\ compute(RaiseReserves(w.layout_options, RewriteReserve),
                   Size[w.metadata], Size[w.tags]) = None
        /\ DropWriters(p)
        /\ UNCHANGED detached

\* Wrong: finish_by_rewriting reads the source without flushing it; the read
\* waits for the write in the background, and does not look at its result.
SourceFlushed_ReadsOnly(p) ==
    /\ pc[p] = "srcflush"
    /\ pending[writers[p][1].file] = None
    /\ Goto(p, "copying")
    /\ UNCHANGED <<fsVars, writers, handle, job, poolVars, sent>>

SourceFlushed(p) ==
    /\ pc[p] = "srcflush"
    /\ FlushOk(writers[p][1].file)
    /\ Goto(p, "copying")
    /\ UNCHANGED <<fsVars, writers, handle, job, poolVars, sent>>

\* What tokio::io::copy reads, and what it should.
CopySource(p) ==
    IF Len(writers[p]) > 1
    THEN LET w == writers[p][1]
         IN  StoredContent(w.file, w.layout.content_start, w.content_length)
    ELSE LET h == handle[p]
         IN  StoredContent(h.file, h.header.content_start,
                           h.header.content_length)

SourceFile(p) ==
    IF Len(writers[p]) > 1 THEN writers[p][1].file ELSE handle[p].file

Copy(p) ==
    /\ pc[p] = "copying"
    /\ Queue(p, CopySource(p), Writer(p))
    /\ sent' = [sent EXCEPT ![Writer(p).file] = sent[SourceFile(p)]]
    /\ Goto(p, "copyflush")
    /\ UNCHANGED <<fsVars, handle, job, detached, failed>>

BuildHeader(w) ==
    [compression_type |-> Stored, tags_start |-> w.layout.tags_start,
     content_start |-> w.layout.content_start,
     content_length |-> w.content_length]

\* The content is flushed; the prefix is handed over.
Flushed(p) ==
    LET w == Writer(p)
    IN  /\ pc[p] = "flush"
        /\ FlushOk(w.file)
        /\ pending' = [pending EXCEPT ![w.file] =
               [file[w.file] EXCEPT !.header = BuildHeader(w),
                                    !.metadata = w.metadata, !.tags = w.tags]]
        /\ Goto(p, "prefixflush")
        /\ UNCHANGED <<fsVars, writers, handle, job, detached, failed, sent>>

\* Wrong: temp_path is not taken before the await.
StartRename_KeepsTemp(p) ==
    LET w == Writer(p)
    IN  /\ UNCHANGED writers
        /\ Await(p, "renaming",
                 [FileJob("rename", w.file) EXCEPT !.path = w.final_path])

\* publish takes temp_path, then hands the rename to the pool.
StartRename(p) ==
    LET w == Writer(p)
    IN  /\ SetWriter(p, [w EXCEPT !.temp_path = FALSE])
        /\ Await(p, "renaming",
                 [FileJob("rename", w.file) EXCEPT !.path = w.final_path])

\* Wrong: a synced writer does not flush its file.
PrefixFlushed_NoSync(p) ==
    /\ pc[p] = "prefixflush"
    /\ FlushOk(Writer(p).file)
    /\ StartRename(p)
    /\ UNCHANGED <<fsVars, handle, poolVars, sent>>

PrefixFlushed(p) ==
    /\ pc[p] = "prefixflush"
    /\ FlushOk(Writer(p).file)
    /\ IF Writer(p).sync
       THEN /\ Await(p, "syncing", FileJob("fsync", Writer(p).file))
            /\ UNCHANGED writers
       ELSE StartRename(p)
    /\ UNCHANGED <<fsVars, handle, poolVars, sent>>

Synced(p) ==
    /\ pc[p] = "syncing"
    /\ JobOk(p)
    /\ StartRename(p)
    /\ UNCHANGED <<fsVars, handle, poolVars, sent>>

Renamed(p) ==
    /\ pc[p] = "renaming"
    /\ JobOk(p)
    /\ IF Writer(p).sync
       THEN Await(p, "syncdir", FileJob("syncdir", NoFile))
       ELSE Await(p, "reopen", NoJob)
    /\ UNCHANGED <<fsVars, writers, handle, poolVars, sent>>

\* The outcome of the flush of the directory is not looked at.
ParentSynced(p) ==
    /\ pc[p] = "syncdir"
    /\ JobOk(p)
    /\ Await(p, "reopen", NoJob)
    /\ UNCHANGED <<fsVars, writers, handle, poolVars, sent>>

\* Wrong: the replaced writer loses its temp_path and keeps its file.
CleanUp_TakesOnly(p) ==
    /\ pc[p] = "reopen"
    /\ Len(writers[p]) > 1
    /\ writers' = [writers EXCEPT ![p][1].temp_path = FALSE]
    /\ Await(p, "cleaning", NoJob)
    /\ UNCHANGED <<fsVars, handle, poolVars, sent>>

\* finish of the replacement returned; the writer it replaces is aborted.
CleanUp(p) ==
    /\ pc[p] = "reopen"
    /\ Len(writers[p]) > 1
    /\ writers' = [writers EXCEPT ![p][1].temp_path = FALSE]
    /\ Await(p, "cleaning", FileJob("unlink", writers[p][1].file))
    /\ UNCHANGED <<fsVars, handle, poolVars, sent>>

\* finish returns the object, to the caller or to the setter's `*self = ...`.
Return(p) ==
    LET w == Writer(p)
    IN  /\ \/ pc[p] = "reopen" /\ Len(writers[p]) = 1
           \/ pc[p] = "cleaning" /\ (JobOk(p) \/ JobFailed(p))
        /\ handle' = [handle EXCEPT ![p] =
               [file |-> w.file, path |-> w.final_path, header |-> BuildHeader(w),
                metadata |-> w.metadata, writable |-> TRUE]]
        /\ writers' = [writers EXCEPT ![p] = <<>>]
        /\ Await(p, "idle", NoJob)
        /\ UNCHANGED <<fsVars, poolVars, sent>>

(***************************************************************************)
(* Failures.                                                               *)
(***************************************************************************)

\* `?` at an await whose job failed or whose flush reports a failed write.
CallFails(p) ==
    /\ \/ pc[p] \in {"creating", "syncing", "renaming"} /\ JobFailed(p)
       \/ pc[p] = "srcflush" /\ FlushFailed(writers[p][1].file)
       \/ pc[p] \in {"copyflush", "flush", "prefixflush"} /\ FlushFailed(Writer(p).file)
       \/ pc[p] \in {"copying", "reopen"} /\ "io" \in Faults
    /\ DropWriters(p)
    /\ UNCHANGED detached

\* Calls refused before they change anything: as in ObjectStore, and create
\* with a codec.
CallRefused(p) ==
    /\ pc[p] = "idle"
    /\ \/ handle[p] = None
       \/ /\ handle[p] # None
          /\ ~handle[p].writable \/ handle[p].header.compression_type # Stored
    /\ UNCHANGED vars

\* The future of the call is dropped at an await.  Bound: no two detached jobs
\* are the same, so that a set holds them.
Cancel(p) ==
    /\ pc[p] \in Cancels
    /\ job[p] \notin detached
    /\ detached' = IF job[p].state = "queued" THEN detached \cup {job[p]} ELSE detached
    /\ DropWriters(p)

\* Every task ends where it is, and so does what the pool was to do.
Forget ==
    /\ pc' = [p \in Tasks |-> "idle"]
    /\ writers' = [p \in Tasks |-> <<>>]
    /\ handle' = [p \in Tasks |-> None]
    /\ job' = [p \in Tasks |-> NoJob]
    /\ detached' = {}
    /\ pending' = [f \in Files |-> None]
    /\ failed' = {}
    /\ UNCHANGED sent

Kill ==
    /\ "kill" \in Faults
    /\ Forget
    /\ UNCHANGED fsVars

PowerLoss ==
    /\ "power" \in Faults
    /\ PowerIsLost
    /\ Forget

-----------------------------------------------------------------------------
\* What a future does when it is polled, for the fairness below.
Poll(p) ==
    \/ Created(p)
    \/ pc[p] = "copyflush" /\ (Finish(p) \/ FinishByRewriting(p) \/ RewritingFails(p))
    \/ SourceFlushed(p) \/ Copy(p) \/ Flushed(p) \/ PrefixFlushed(p) \/ Synced(p)
    \/ Renamed(p) \/ ParentSynced(p) \/ CleanUp(p) \/ Return(p) \/ Aborted(p)
    \/ pc[p] \notin {"copying", "reopen"} /\ CallFails(p)

Pool ==
    \/ \E p \in Tasks : JobRuns(p) \/ JobFails(p)
    \/ \E j \in detached : DetachedRuns(j)
    \/ \E f \in Files : WriteRuns(f) \/ WriteFails(f)

Next ==
    \/ \E p \in Tasks :
        \/ \E path \in Paths, writable \in BOOLEAN : Open(p, path, writable)
        \/ Close(p)
        \/ \E path \in Paths, options \in LayoutChoices, sync \in Syncs,
              m \in Metadata, t \in Tags :
               CallerCreates(p, path, options, sync, m, t)
        \/ \E chunk \in Chunks : Write(p, chunk)
        \/ WriteErrs(p)
        \/ \E m \in Metadata, t \in Tags : Mutate(p, m, t)
        \/ Abandon(p)
        \/ Abort(p)
        \/ Finish(p) \/ FinishByRewriting(p) \/ RewritingFails(p)
        \/ Created(p) \/ SourceFlushed(p) \/ Copy(p)
        \/ Flushed(p) \/ PrefixFlushed(p) \/ Synced(p) \/ Renamed(p)
        \/ ParentSynced(p) \/ CleanUp(p) \/ Return(p) \/ Aborted(p)
        \/ \E m \in Metadata : SetMetadata(p, m)
        \/ \E t \in Tags : SetTags(p, t)
        \/ \E m \in Metadata, t \in Tags : SetSections(p, m, t)
        \/ CallFails(p)
        \/ CallRefused(p)
        \/ Cancel(p)
    \/ Pool
    \/ Kill
    \/ PowerLoss

Spec == Init /\ [][Next]_vars

\* The runtime polls a future that can go on, and the blocking pool runs every
\* job and every write it was given, also those nobody waits for any more.
\* Nothing is assumed of callers.
Fairness ==
    /\ \A p \in Tasks : WF_vars(Poll(p)) /\ WF_vars(JobRuns(p) \/ JobFails(p))
    /\ \A f \in Files : WF_vars(WriteRuns(f) \/ WriteFails(f))
    /\ \A f \in Files : WF_vars(\E j \in detached : j.file = f /\ DetachedRuns(j))

FairSpec == Spec /\ Fairness

-----------------------------------------------------------------------------
(* Properties.                                                             *)

\* Types, and what each await says of the writers and the job of a task.
TypeOK ==
    /\ created \in 0 .. MaxFiles
    /\ file \in [Files -> ObjectFile \cup {Blank}]
    /\ unsynced \subseteq Files
    /\ temps \subseteq Files
    /\ names \in [Paths -> Seq(Files \cup {NoFile}) \ {<<>>}]
    /\ pc \in [Tasks -> Locations]
    /\ writers \in [Tasks -> Seq(AsyncObjectWriter)]
    /\ handle \in [Tasks -> TuxObject \cup {None}]
    /\ job \in [Tasks -> Job]
    /\ detached \subseteq Job
    /\ pending \in [Files -> ObjectFile \cup {None}]
    /\ failed \subseteq Files
    /\ sent \in [Files -> Seq(Pieces)]
    /\ \A p \in Tasks :
           /\ Len(writers[p]) <= 2
           /\ pc[p] = "idle" <=> writers[p] = <<>>
           /\ job[p].kind # "none" =>
                  pc[p] \in {"creating", "syncing", "renaming", "syncdir",
                            "cleaning", "aborting"}

\* Every byte a caller was told is written, and every byte of the object a
\* setter or finish_by_rewriting copies, is in what is published: the error of
\* a background write comes out before the rename (async_io.rs:579-587,
\* 639-647).
NothingLost ==
    \A path \in Paths :
        Current(path) # NoFile =>
            file[Current(path)].content = sent[Current(path)]

\* What an AsyncTuxObject remembers is what its file holds, also after a setter
\* was dropped half way.
HandlesFaithful ==
    \A p \in Tasks : handle[p] # None =>
        LET h == handle[p]
        IN  /\ Complete(h.file)
            /\ h.header = file[h.file].header
            /\ h.metadata = file[h.file].metadata

\* Files a job will take out of the temporary names, or has just made.
HandedOver ==
    {job[p].file : p \in Tasks} \cup
    {j.file : j \in {d \in detached : d.kind \in {"rename", "unlink"}}}

\* "Removes the temporary file when a write was neither finished nor aborted"
\* (async_io.rs:658): a temporary file belongs to a writer, or a job on the
\* pool has it in hand.
TempsOwned ==
    temps \subseteq (UNION {OwnedTemps(p) : p \in Tasks}) \cup HandedOver

\* A temporary file no writer of a running call owns is gone in the end: the
\* removal or the rename happens although nobody waits for it.
OrphansGo ==
    \A f \in Files :
        (f \in temps /\ \A p \in Tasks : f \notin OwnedTemps(p) \cup {job[p].file})
            ~> f \notin temps
=============================================================================
