---------------------- MODULE AsyncObjectStoreInvariant ----------------------
(***************************************************************************)
(* The inductive invariant of AsyncObjectStore, for callers that drop a    *)
(* writer whose write failed.  It follows each file from the job that      *)
(* creates it to the rename: who holds it, what it will hold once the      *)
(* background writes have run, and when nobody writes to it or unlinks it  *)
(* any more.                                                               *)
(***************************************************************************)
EXTENDS AsyncObjectStore

\* What f holds once its background write has run.
Coming(f) == IF pending[f] = None THEN file[f] ELSE pending[f]

\* The file of a writer, or the one that was created for it and did not reach
\* it yet.
FileOf(p, k) ==
    IF writers[p][k].file = NoFile THEN job[p].file ELSE writers[p][k].file
InnermostFile(p) == FileOf(p, Len(writers[p]))

\* Its rename was handed over; finish did not return yet.
Publishing(p) == pc[p] \in {"renaming", "syncdir", "reopen", "cleaning"}

\* finish has flushed the prefix, or handed it over, or has the final layout.
Settled(p)      == Publishing(p) \/ pc[p] = "syncing"
PrefixQueued(p) == Settled(p) \/ pc[p] = "prefixflush"
Fitted(p)       == PrefixQueued(p) \/ pc[p] = "flush"

\* A writer made for a copy, up to its finish.
ForCopy(p) == pc[p] \in {"creating", "srcflush", "copying", "copyflush"}

\* A writer whose file the pool unlinks.
BeingRemoved(p, k) == pc[p] = "aborting" \/ (pc[p] = "cleaning" /\ k = 1)

\* Every writer but one that is being created has a file, and that file will
\* hold what the writer counted, where it put it, if no write fails.
WritersHaveFiles(p) ==
    \A k \in DOMAIN writers[p] :
        LET w == writers[p][k]
            f == FileOf(p, k)
        IN  /\ w.file = NoFile <=> (pc[p] = "creating" /\ k = Len(writers[p]))
            /\ f # NoFile => f \in 1 .. created
            /\ f # NoFile /\ ~BeingRemoved(p, k) =>
                  /\ file[f] \in ObjectFile
                  /\ f \notin failed =>
                        /\ Coming(f).content_at = w.layout.content_start
                        /\ Len(Coming(f).content) = w.content_length

\* What a job works on, by the await that waits for it.
JobsInStep(p) ==
    /\ pc[p] = "creating" =>
          /\ job[p].kind = "create"
          /\ job[p].content_start = Writer(p).layout.content_start
          /\ Writer(p).content_length = 0
          /\ job[p].file # NoFile <=> JobOk(p)
    /\ pc[p] = "syncing" => job[p].kind = "fsync" /\ job[p].file = Writer(p).file
    /\ pc[p] = "renaming" => job[p].kind = "rename" /\ job[p].file = Writer(p).file
    /\ pc[p] = "syncdir" => job[p].kind = "syncdir"
    /\ pc[p] = "cleaning" =>
          job[p].kind = "unlink" /\ job[p].file = writers[p][1].file
    /\ pc[p] = "aborting" => job[p].kind = "unlink" /\ job[p].file = Writer(p).file

\* A caller streams into one writer; only finish has two.  A replacement fits
\* what it was made for, so it is not replaced again, and is empty until the copy.
CallsNest(p) ==
    /\ pc[p] = "writing" => Len(writers[p]) = 1
    /\ pc[p] \in {"srcflush", "cleaning"} => Len(writers[p]) = 2
    /\ pc[p] = "copying" => Len(writers[p]) = 2 \/ handle[p] # None
    /\ pc[p] \in {"srcflush", "copying"} => Writer(p).content_length = 0
    /\ ForCopy(p) => Refit(p) # None
    /\ Publishing(p) => ~Writer(p).temp_path

\* No background write is under way on a file that was not written to yet, on
\* one that is copied, nor on one whose prefix was flushed, and none has failed.
NothingUnderWay(p) ==
    /\ Settled(p) \/ (ForCopy(p) /\ pc[p] # "copyflush") =>
          LET f == InnermostFile(p)
          IN  f # NoFile => pending[f] = None /\ f \notin failed
    /\ pc[p] = "copying" /\ Len(writers[p]) = 2 => FlushOk(writers[p][1].file)

\* Between finish and its return: the sections fit the layout, then the prefix
\* is handed over, then the file is flushed if it is to be.
FinishInOrder(p) ==
    LET w == Writer(p)
    IN  /\ Fitted(p) =>
              /\ HeaderSize + Size[w.metadata] <= w.layout.tags_start
              /\ w.layout.tags_start + Size[w.tags] <= w.layout.content_start
        /\ PrefixQueued(p) /\ w.file \notin failed =>
              /\ Coming(w.file).header = BuildHeader(w)
              /\ Coming(w.file).metadata = w.metadata
              /\ Coming(w.file).tags = w.tags
        /\ (Publishing(p) \/ (pc[p] = "syncing" /\ JobOk(p))) /\ w.sync =>
              w.file \notin unsynced

\* Every writer syncs when every caller asks for it: setters always do.
AllSynced == Syncs \subseteq {TRUE}

WritersSync(p) ==
    AllSynced => \A k \in DOMAIN writers[p] : writers[p][k].sync

TaskInv(p) ==
    /\ WritersHaveFiles(p)
    /\ JobsInStep(p)
    /\ CallsNest(p)
    /\ NothingUnderWay(p)
    /\ FinishInOrder(p)
    /\ WritersSync(p)

WritersApart ==
    \A p, q \in Tasks : \A k \in DOMAIN writers[p], j \in DOMAIN writers[q] :
        FileOf(p, k) = FileOf(q, j) /\ FileOf(p, k) # NoFile => p = q /\ k = j

\* Only a writer that is publishing f holds it, no job is to unlink it, and no
\* write to it is under way: f is whole and stays as it is.
Shown(f) ==
    /\ f \in 1 .. created
    /\ Complete(f)
    /\ pending[f] = None /\ f \notin failed
    /\ AllSynced => f \notin unsynced
    /\ \A p \in Tasks : \A k \in DOMAIN writers[p] :
           FileOf(p, k) = f => Publishing(p) /\ k = Len(writers[p])
    /\ \A j \in detached : j.kind = "unlink" => j.file # f

NamesShown ==
    \A path \in Paths : \A i \in DOMAIN names[path] :
        names[path][i] # NoFile => Shown(names[path][i])

HandlesShown ==
    \A p \in Tasks : handle[p] # None =>
        /\ Shown(handle[p].file)
        /\ handle[p].header = file[handle[p].file].header
        /\ handle[p].metadata = file[handle[p].file].metadata

\* A rename nobody waits for publishes a whole object; a file nobody waits to
\* see unlinked is nobody's.
DetachedApart ==
    \A j \in detached :
        /\ j.kind = "rename" => Shown(j.file)
        /\ j.kind = "unlink" =>
              /\ j.file \in 1 .. created
              /\ \A p \in Tasks : \A k \in DOMAIN writers[p] : FileOf(p, k) # j.file

\* Nothing was written to a file that is still to be created.
FreshUntouched ==
    \A f \in Files : f > created => pending[f] = None /\ f \notin failed

AsyncIInv ==
    /\ TypeOK
    /\ FreshUntouched
    /\ \A p \in Tasks : TaskInv(p)
    /\ WritersApart
    /\ NamesShown
    /\ HandlesShown
    /\ DetachedApart

\* The files a writer has that is not given up, and those that are open, that are
\* published, or that will be although nobody waits for it.
Held(p) == {FileOf(p, k) : k \in {i \in DOMAIN writers[p] : ~BeingRemoved(p, i)}}

Live(f) ==
    \/ \E p \in Tasks : f \in Held(p) \/ (handle[p] # None /\ f = handle[p].file)
    \/ \E path \in Paths : \E i \in DOMAIN names[path] : f = names[path][i]
    \/ \E j \in detached : j.kind = "rename" /\ f = j.file

\* A live file will hold every byte its writers were told is written, in order,
\* unless a write failed and nobody was told of that yet.
SentArrives ==
    /\ \A f \in 1 .. created :
           Live(f) /\ f \notin failed => Coming(f).content = sent[f]
    /\ \A f \in Files : f > created => sent[f] = <<>>

\* p owns f, or waits for a job that created f or is to rename or unlink it.
InHand(p, f) ==
    \/ f \in OwnedTemps(p)
    \/ job[p].kind \in {"create", "rename", "unlink"} /\ f = job[p].file

\* Where no rename and no unlink fails, and no future is dropped while its file
\* is being created: what goes with each temporary file, and what a job that is
\* over has done.
TempsIInv ==
    /\ \A f \in temps :
           \/ \E p \in Tasks : InHand(p, f)
           \/ \E j \in detached : j.kind \in {"rename", "unlink"} /\ f = j.file
    /\ \A p \in Tasks :
           /\ job[p].kind \in {"rename", "unlink"} =>
                 \/ job[p].state = "queued"
                 \/ JobOk(p) /\ job[p].file \notin temps
           /\ pc[p] = "cleaning" => ~writers[p][1].temp_path
    /\ \A j \in detached : j.kind # "create"
=============================================================================
