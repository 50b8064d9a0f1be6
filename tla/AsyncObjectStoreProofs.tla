------------------------ MODULE AsyncObjectStoreProofs ------------------------
(***************************************************************************)
(* What AsyncObjectStore promises, for any number of tasks, paths and files *)
(* and whatever await a future is dropped at.  In this order: the invariant *)
(* AsyncIInv and what follows from it; that what was written arrives; who  *)
(* owns the temporary files; and that AsyncObjectStore implements          *)
(* AsyncRegister.                                                          *)
(***************************************************************************)
EXTENDS AsyncObjectStoreRefinement, AsyncObjectStoreInvariant, LayoutLemmas

-----------------------------------------------------------------------------
(* Writers.                                                                *)

\* A task inside a call, or streaming, has an innermost writer.
LEMMA InnermostWriter ==
    ASSUME TypeOK, NEW p \in Tasks, pc[p] # "idle"
    PROVE  /\ writers[p] \in Seq(AsyncObjectWriter)
           /\ Len(writers[p]) \in DOMAIN writers[p]
           /\ Len(writers[p]) \in 1 .. 2
           /\ 1 \in DOMAIN writers[p]
           /\ Writer(p) \in AsyncObjectWriter
           /\ Writer(p) = writers[p][Len(writers[p])]
  <1>1. /\ writers[p] \in Seq(AsyncObjectWriter) /\ writers[p] # <<>>
        /\ Len(writers[p]) <= 2
    BY DEF TypeOK
  <1> DEFINE s == writers[p]
  <1>2. Len(s) \in Nat \ {0} /\ DOMAIN s = 1 .. Len(s)
    BY <1>1
  <1>3. Len(s) \in 1 .. 2 /\ Len(s) \in DOMAIN s /\ 1 \in DOMAIN s
    <2> HIDE DEF s
    <2>1. Len(s) <= 2
      BY <1>1 DEF s
    <2> QED BY <2>1, <1>2
  <1> QED BY <1>1, <1>3 DEF Writer

\* Assigning to the innermost writer leaves all others alone.
LEMMA SetWriterEffect ==
    ASSUME TypeOK, NEW p \in Tasks, pc[p] # "idle",
           NEW w \in AsyncObjectWriter, SetWriter(p, w)
    PROVE  /\ writers' \in [Tasks -> Seq(AsyncObjectWriter)]
           /\ Len(writers'[p]) = Len(writers[p])
           /\ DOMAIN writers'[p] = DOMAIN writers[p]
           /\ writers'[p] # <<>>
           /\ writers'[p][Len(writers[p])] = w
           /\ \A k \in DOMAIN writers[p] :
                 k # Len(writers[p]) => writers'[p][k] = writers[p][k]
           /\ \A q \in Tasks : q # p => writers'[q] = writers[q]
  <1>1. /\ writers[p] \in Seq(AsyncObjectWriter)
        /\ Len(writers[p]) \in DOMAIN writers[p]
    BY InnermostWriter
  <1>2. writers \in [Tasks -> Seq(AsyncObjectWriter)]
    BY DEF TypeOK
  <1>3. writers'[p] = [writers[p] EXCEPT ![Len(writers[p])] = w]
    BY <1>2 DEF SetWriter
  <1>4. writers'[p] \in Seq(AsyncObjectWriter)
    BY <1>1, <1>3
  <1>5. \A q \in Tasks : q # p => writers'[q] = writers[q]
    BY <1>2 DEF SetWriter
  <1>6. writers' \in [Tasks -> Seq(AsyncObjectWriter)]
    BY <1>2, <1>4, <1>5 DEF SetWriter
  <1> QED BY <1>1, <1>3, <1>4, <1>5, <1>6

\* What SetWriter does, and what leaving the writers alone does as well.
InnermostBecomes(p, w) ==
    /\ writers' \in [Tasks -> Seq(AsyncObjectWriter)]
    /\ Len(writers'[p]) = Len(writers[p])
    /\ DOMAIN writers'[p] = DOMAIN writers[p]
    /\ writers'[p] # <<>>
    /\ writers'[p][Len(writers[p])] = w
    /\ \A k \in DOMAIN writers[p] :
          k # Len(writers[p]) => writers'[p][k] = writers[p][k]
    /\ \A q \in Tasks : q # p => writers'[q] = writers[q]

\* The files there are have numbers, which no marker is.
LEMMA FileNumbers ==
    ASSUME TypeOK
    PROVE  /\ 1 .. created \subseteq Files
           /\ NoFile \notin Files
           /\ created \in Nat
  BY FileSystemAssumption DEF TypeOK, Files

\* The file of the innermost writer, unless it is being created.
LEMMA InnermostFileIs ==
    ASSUME AsyncIInv, NEW p \in Tasks, pc[p] \notin {"idle", "creating"}
    PROVE  /\ Writer(p).file = InnermostFile(p)
           /\ Writer(p).file \in 1 .. created
           /\ Writer(p).file \in Files
           /\ Writer(p).file # NoFile
  <1>1. /\ Len(writers[p]) \in DOMAIN writers[p]
        /\ Writer(p) = writers[p][Len(writers[p])]
        /\ Writer(p) \in AsyncObjectWriter
    BY InnermostWriter DEF AsyncIInv
  <1>2. WritersHaveFiles(p)
    BY DEF AsyncIInv, TaskInv
  <1>3. Writer(p).file # NoFile
    BY <1>1, <1>2 DEF WritersHaveFiles
  <1>4. Writer(p).file = InnermostFile(p)
    BY <1>1, <1>3 DEF InnermostFile, FileOf
  <1>5. Writer(p).file \in 1 .. created
    BY <1>1, <1>2, <1>3, <1>4 DEF WritersHaveFiles, InnermostFile
  <1> QED BY <1>3, <1>4, <1>5, FileNumbers DEF AsyncIInv

\* A writer whose file was renamed, or is about to be, has published it: it is
\* whole, and nobody touches it any more.
LEMMA PublishedIsShown ==
    ASSUME AsyncIInv, NEW p \in Tasks, Publishing(p)
    PROVE  /\ Shown(Writer(p).file)
           /\ BuildHeader(Writer(p)) = file[Writer(p).file].header
           /\ Writer(p).metadata = file[Writer(p).file].metadata
  <1> DEFINE w == Writer(p)
             f == w.file
             n == Len(writers[p])
  <1>0. TypeOK /\ TaskInv(p)
    BY DEF AsyncIInv
  <1>1. pc[p] \notin {"idle", "creating"}
    BY DEF Publishing
  <1>2. /\ n \in DOMAIN writers[p] /\ w = writers[p][n] /\ w \in AsyncObjectWriter
        /\ n \in 1 .. 2
    BY <1>0, <1>1, InnermostWriter
  <1>3. /\ f = InnermostFile(p) /\ f = FileOf(p, n) /\ f \in 1 .. created
        /\ f \in Files /\ f # NoFile
    BY <1>1, InnermostFileIs DEF InnermostFile
  <1>4. ~BeingRemoved(p, n)
    BY <1>0 DEF TaskInv, CallsNest, BeingRemoved, Publishing
  <1>5. pending[f] = None /\ f \notin failed
    BY <1>0, <1>3 DEF TaskInv, NothingUnderWay, Settled
  <1>6. Coming(f) = file[f]
    BY <1>5 DEF Coming
  <1>7. /\ file[f] \in ObjectFile
        /\ file[f].content_at = w.layout.content_start
        /\ Len(file[f].content) = w.content_length
    <2> HIDE DEF f, w, n
    <2>1. /\ file[f] \in ObjectFile
          /\ Coming(f).content_at = writers[p][n].layout.content_start
          /\ Len(Coming(f).content) = writers[p][n].content_length
      BY <1>0, <1>2, <1>3, <1>4, <1>5 DEF TaskInv, WritersHaveFiles
    <2> QED BY <2>1, <1>2, <1>6
  <1>8. /\ HeaderSize + Size[w.metadata] <= w.layout.tags_start
        /\ w.layout.tags_start + Size[w.tags] <= w.layout.content_start
        /\ file[f].header = BuildHeader(w)
        /\ file[f].metadata = w.metadata
        /\ file[f].tags = w.tags
        /\ w.sync => f \notin unsynced
    BY <1>0, <1>5, <1>6 DEF TaskInv, FinishInOrder, Fitted, PrefixQueued, Settled
  <1>9. w.metadata \in Metadata /\ w.tags \in Tags /\ w.layout \in SectionLayout
        /\ w.content_length \in Nat
    BY <1>2 DEF AsyncObjectWriter
  <1>10. /\ BuildHeader(w).content_start = w.layout.content_start
         /\ BuildHeader(w).tags_start = w.layout.tags_start
         /\ BuildHeader(w).content_length = w.content_length
         /\ BuildHeader(w) \in ObjectHeader
    BY <1>9, ObjectFilesAssumption DEF BuildHeader, ObjectHeader, SectionLayout
  <1>11. Complete(f)
    <2>1. file[f] # Blank /\ file[f].header # None
      BY <1>7, <1>8, <1>10, MarkersAssumption
    <2> HIDE DEF f, w
    <2> QED BY <2>1, <1>7, <1>8, <1>9, <1>10 DEF Complete
  <1>12. AllSynced => f \notin unsynced
    BY <1>0, <1>2, <1>8 DEF TaskInv, WritersSync
  <1>13. \A q \in Tasks : \A k \in DOMAIN writers[q] :
            FileOf(q, k) = f => Publishing(q) /\ k = Len(writers[q])
    BY <1>2, <1>3 DEF AsyncIInv, WritersApart
  <1>14. \A j \in detached : j.kind = "unlink" => j.file # f
    BY <1>2, <1>3 DEF AsyncIInv, DetachedApart
  <1> QED BY <1>3, <1>5, <1>8, <1>11, <1>12, <1>13, <1>14 DEF Shown

-----------------------------------------------------------------------------
(* What a task need not notice.                                            *)

\* f is written to by the pool at most: what it will hold stays the same, or a
\* write fails, and it is not written to when nothing is under way.
Undisturbed(f) ==
    /\ file[f] \in ObjectFile => file'[f] \in ObjectFile
    /\ f \notin failed' => f \notin failed /\ Coming(f)' = Coming(f)
    /\ pending[f] = None /\ f \notin failed => pending'[f] = None /\ f \notin failed'
    /\ pending[f] = None /\ f \in unsynced' => f \in unsynced

\* f stays as it is; it may be flushed.
Same(f) ==
    /\ file'[f] = file[f]
    /\ pending'[f] = pending[f]
    /\ f \in failed' <=> f \in failed
    /\ f \in unsynced' => f \in unsynced

LEMMA SameIsUndisturbed ==
    ASSUME NEW f, Same(f)
    PROVE  Undisturbed(f)
  BY DEF Same, Undisturbed, Coming

\* A task that waits keeps what is true of it while its files are not disturbed,
\* and its job goes on as it should.
LEMMA TaskWaits ==
    ASSUME AsyncIInv, NEW q \in Tasks,
           pc'[q] = pc[q], writers'[q] = writers[q], job'[q].file = job[q].file,
           handle[q] # None => handle'[q] # None,
           created' \in Nat, created <= created',
           \A k \in DOMAIN writers[q] :
              FileOf(q, k) # NoFile /\ ~BeingRemoved(q, k) =>
                 Undisturbed(FileOf(q, k)),
           JobsInStep(q)',
           pc[q] = "syncing" /\ JobOk(q)' /\ ~JobOk(q) =>
              Writer(q).file \notin unsynced'
    PROVE  TaskInv(q)'
  <1>0. TypeOK /\ TaskInv(q) /\ created \in Nat
    BY FileNumbers DEF AsyncIInv
  <1>1. /\ Writer(q)' = Writer(q)
        /\ InnermostFile(q)' = InnermostFile(q)
        /\ \A k \in DOMAIN writers[q] : FileOf(q, k)' = FileOf(q, k)
        /\ \A k : BeingRemoved(q, k)' <=> BeingRemoved(q, k)
    BY DEF Writer, InnermostFile, FileOf, BeingRemoved
  <1>2. /\ Publishing(q)' <=> Publishing(q)
        /\ Settled(q)' <=> Settled(q)
        /\ PrefixQueued(q)' <=> PrefixQueued(q)
        /\ Fitted(q)' <=> Fitted(q)
        /\ ForCopy(q)' <=> ForCopy(q)
    BY DEF Publishing, Settled, PrefixQueued, Fitted, ForCopy
  <1>3. WritersHaveFiles(q)'
    <2> SUFFICES ASSUME NEW k \in DOMAIN writers[q]
                 PROVE  LET w == writers[q][k]
                            f == FileOf(q, k)
                        IN  /\ w.file = NoFile <=>
                                  (pc[q] = "creating" /\ k = Len(writers[q]))
                            /\ f # NoFile => f \in 1 .. created'
                            /\ f # NoFile /\ ~BeingRemoved(q, k) =>
                                  /\ file'[f] \in ObjectFile
                                  /\ f \notin failed' =>
                                        /\ Coming(f)'.content_at
                                              = w.layout.content_start
                                        /\ Len(Coming(f)'.content)
                                              = w.content_length
      BY <1>1 DEF WritersHaveFiles, FileOf, BeingRemoved, Coming
    <2> DEFINE f == FileOf(q, k)
    <2>1. /\ writers[q][k].file = NoFile <=>
                  (pc[q] = "creating" /\ k = Len(writers[q]))
          /\ f # NoFile => f \in 1 .. created
          /\ f # NoFile /\ ~BeingRemoved(q, k) =>
                /\ file[f] \in ObjectFile
                /\ f \notin failed =>
                      /\ Coming(f).content_at = writers[q][k].layout.content_start
                      /\ Len(Coming(f).content) = writers[q][k].content_length
      BY <1>0 DEF TaskInv, WritersHaveFiles
    <2>2. f # NoFile /\ ~BeingRemoved(q, k) => Undisturbed(f)
      OBVIOUS
    <2>3. f # NoFile => f \in 1 .. created'
      <3> HIDE DEF f
      <3> QED BY <1>0, <2>1
    <2> HIDE DEF f
    <2> QED BY <2>1, <2>2, <2>3 DEF Undisturbed, f
  <1>4. JobsInStep(q)'
    OBVIOUS
  <1>5. CallsNest(q)'
    BY <1>0, <1>1, <1>2 DEF TaskInv, CallsNest, Refit
  <1>6. /\ pc[q] # "idle" => Len(writers[q]) \in DOMAIN writers[q]
        /\ pc[q] # "aborting" => ~BeingRemoved(q, Len(writers[q]))
    <2>1. pc[q] # "idle" => Len(writers[q]) \in DOMAIN writers[q]
      BY <1>0, InnermostWriter
    <2>2. pc[q] = "cleaning" => Len(writers[q]) = 2
      BY <1>0 DEF TaskInv, CallsNest
    <2>3. ASSUME NEW k, pc[q] # "aborting", pc[q] = "cleaning" => k = 2
          PROVE  ~BeingRemoved(q, k)
      BY <2>3 DEF BeingRemoved
    <2> QED BY <2>1, <2>2, <2>3
  <1>7. NothingUnderWay(q)'
    <2>1. ASSUME Settled(q) \/ (ForCopy(q) /\ pc[q] # "copyflush"),
                 InnermostFile(q) # NoFile
          PROVE  /\ pending'[InnermostFile(q)] = None
                 /\ InnermostFile(q) \notin failed'
      <3>1. pc[q] \notin {"idle", "aborting"}
        BY <2>1 DEF Settled, ForCopy, Publishing
      <3>2. Undisturbed(InnermostFile(q))
        BY <1>6, <2>1, <3>1 DEF InnermostFile
      <3>3. pending[InnermostFile(q)] = None /\ InnermostFile(q) \notin failed
        BY <1>0, <2>1 DEF TaskInv, NothingUnderWay
      <3> QED BY <3>2, <3>3 DEF Undisturbed
    <2>2. ASSUME pc[q] = "copying", Len(writers[q]) = 2
          PROVE  LET f == writers[q][1].file
                 IN  pending'[f] = None /\ f \notin failed'
      <3> DEFINE f == writers[q][1].file
      <3>1. 1 \in DOMAIN writers[q]
        BY <1>0, <2>2, InnermostWriter
      <3>2. pending[f] = None /\ f \notin failed
        BY <1>0, <2>2 DEF TaskInv, NothingUnderWay, FlushOk
      <3>3. f # NoFile
        BY <1>0, <2>2, <3>1 DEF TaskInv, WritersHaveFiles
      <3>4. FileOf(q, 1) = f /\ ~BeingRemoved(q, 1)
        BY <2>2, <3>3 DEF FileOf, BeingRemoved
      <3>5. Undisturbed(f)
        <4> HIDE DEF f
        <4> QED BY <3>1, <3>3, <3>4
      <3> QED BY <3>2, <3>5 DEF Undisturbed
    <2> QED BY <2>1, <2>2, <1>1, <1>2 DEF NothingUnderWay, FlushOk
  <1>8. FinishInOrder(q)'
    <2> DEFINE w == Writer(q)
               f == w.file
    <2>1. CASE ~Fitted(q)
      BY <2>1, <1>2 DEF FinishInOrder, Fitted, PrefixQueued, Settled
    <2>2. CASE Fitted(q)
      <3>1. pc[q] \notin {"idle", "creating", "aborting"}
        BY <2>2 DEF Fitted, PrefixQueued, Settled, Publishing
      <3>2. Undisturbed(f)
        <4>1. f = FileOf(q, Len(writers[q])) /\ f # NoFile
          BY <3>1, InnermostFileIs DEF InnermostFile
        <4> QED BY <4>1, <3>1, <1>6
      <3>3. FinishInOrder(q)
        BY <1>0 DEF TaskInv
      <3>4. Settled(q) => pending[f] = None
        BY <1>0, <3>1, InnermostFileIs DEF TaskInv, NothingUnderWay
      <3>5. Publishing(q) \/ (pc[q] = "syncing" /\ JobOk(q)) => Settled(q)
        BY DEF Settled
      <3>6. BuildHeader(w)' = BuildHeader(w)
        BY <1>1 DEF BuildHeader
      <3>7. f \notin failed' => f \notin failed /\ Coming(f)' = Coming(f)
        BY <3>2 DEF Undisturbed
      <3>8. pending[f] = None /\ f \in unsynced' => f \in unsynced
        BY <3>2 DEF Undisturbed
      <3>9. /\ HeaderSize + Size[w.metadata] <= w.layout.tags_start
            /\ w.layout.tags_start + Size[w.tags] <= w.layout.content_start
        BY <2>2, <3>3 DEF FinishInOrder
      <3>10. PrefixQueued(q) /\ f \notin failed' =>
                /\ Coming(f)'.header = BuildHeader(w)
                /\ Coming(f)'.metadata = w.metadata
                /\ Coming(f)'.tags = w.tags
        BY <3>3, <3>7 DEF FinishInOrder
      <3>11. (Publishing(q) \/ (pc[q] = "syncing" /\ JobOk(q)')) /\ w.sync
                => f \notin unsynced'
        BY <3>3, <3>4, <3>5, <3>8 DEF FinishInOrder
      <3>12. w' = w
        BY <1>1
      <3> QED
        BY <1>2, <3>9, <3>10, <3>11, <3>12 DEF FinishInOrder, Coming, BuildHeader
    <2> QED BY <2>1, <2>2
  <1>9. WritersSync(q)'
    BY <1>0 DEF TaskInv, WritersSync, AllSynced
  <1> QED BY <1>3, <1>4, <1>5, <1>7, <1>8, <1>9 DEF TaskInv

\* A task that does not move, nor its job, keeps what is true of it while its
\* files are not disturbed.
LEMMA TaskKept ==
    ASSUME AsyncIInv, NEW q \in Tasks,
           pc'[q] = pc[q], writers'[q] = writers[q], job'[q] = job[q],
           handle[q] # None => handle'[q] # None,
           created' \in Nat, created <= created',
           \A k \in DOMAIN writers[q] :
              FileOf(q, k) # NoFile => Undisturbed(FileOf(q, k))
    PROVE  TaskInv(q)'
  <1>1. JobsInStep(q)'
    BY DEF AsyncIInv, TaskInv, JobsInStep, Writer, JobOk
  <1>2. JobOk(q)' <=> JobOk(q)
    BY DEF JobOk
  <1> QED BY <1>1, <1>2, TaskWaits

-----------------------------------------------------------------------------
(* Steps of a call.                                                        *)

\* A writer of p other than one that is publishing has f.
WritesTo(p, f) ==
    \E k \in DOMAIN writers[p] :
        FileOf(p, k) = f /\ ~(Publishing(p) /\ k = Len(writers[p]))

\* After a step of p its writers have files they had before, and one that was
\* publishing still is.
HoldsKept(p) ==
    \A k \in DOMAIN writers'[p] :
        FileOf(p, k)' # NoFile =>
            /\ k \in DOMAIN writers[p]
            /\ FileOf(p, k)' = FileOf(p, k)
            /\ Publishing(p) /\ k = Len(writers[p]) =>
                  Publishing(p)' /\ k = Len(writers'[p])

\* A handle after a step is one from before, or to a file that is published.
HandleKept(h) ==
    h # None =>
        /\ Shown(h.file)
        /\ h.header = file[h.file].header
        /\ h.metadata = file[h.file].metadata

\* A job that is left to the pool leaves what is published alone.
DetachedKept(p, j) ==
    \/ j \in detached
    \/ j.kind \notin {"rename", "unlink"}
    \/ j.kind = "rename" /\ Shown(j.file)
    \/ /\ j.kind = "unlink" /\ j.file \in Files
       /\ WritesTo(p, j.file) /\ writers'[p] = <<>>

\* A step of a call that keeps to its own files keeps the invariant, if what is
\* true of the task that takes it is true again.
LEMMA CallStep ==
    ASSUME AsyncIInv, NEW p \in Tasks, TypeOK', TaskInv(p)',
           created' = created, names' = names,
           \A q \in Tasks : q # p =>
              /\ pc'[q] = pc[q] /\ writers'[q] = writers[q]
              /\ job'[q] = job[q] /\ handle'[q] = handle[q],
           HoldsKept(p),
           \A f \in Files : ~WritesTo(p, f) => Same(f),
           HandleKept(handle'[p]),
           \A j \in detached' : DetachedKept(p, j)
    PROVE  AsyncIInv'
  <1>0. TypeOK /\ created \in Nat /\ 1 .. created \subseteq Files
    BY FileNumbers DEF AsyncIInv
  <1>1. ASSUME NEW q \in Tasks, q # p, NEW k \in DOMAIN writers'[q]
        PROVE  /\ k \in DOMAIN writers[q] /\ FileOf(q, k)' = FileOf(q, k)
               /\ Publishing(q)' <=> Publishing(q)
               /\ Len(writers'[q]) = Len(writers[q])
    BY <1>1 DEF FileOf, Publishing
  <1>2. ASSUME NEW q \in Tasks, NEW k \in DOMAIN writers'[q],
               FileOf(q, k)' # NoFile
        PROVE  /\ k \in DOMAIN writers[q] /\ FileOf(q, k)' = FileOf(q, k)
               /\ Publishing(q) /\ k = Len(writers[q]) =>
                     Publishing(q)' /\ k = Len(writers'[q])
    BY <1>1, <1>2 DEF HoldsKept
  <1>3. ASSUME NEW f, Shown(f)
        PROVE  ~WritesTo(p, f) /\ f \in Files /\ Same(f)
    <2>1. f \in Files
      BY <1>0, <1>3 DEF Shown
    <2>2. ~WritesTo(p, f)
      BY <1>3 DEF Shown, WritesTo
    <2> QED BY <2>1, <2>2
  <1>4. ASSUME NEW f, Shown(f)
        PROVE  Shown(f)'
    <2>1. f \in Files /\ Same(f) /\ f # NoFile
      BY <1>3, <1>4, <1>0, FileNumbers
    <2>2. Complete(f)'
      BY <1>4, <2>1 DEF Shown, Complete, Same
    <2>3. f \in 1 .. created' /\ pending'[f] = None /\ f \notin failed'
      BY <1>4, <2>1 DEF Shown, Same
    <2>4. AllSynced' => f \notin unsynced'
      BY <1>4, <2>1 DEF Shown, Same, AllSynced
    <2>5. ASSUME NEW q \in Tasks, NEW k \in DOMAIN writers'[q],
                 FileOf(q, k)' = f
          PROVE  Publishing(q)' /\ k = Len(writers'[q])
      <3>1. /\ k \in DOMAIN writers[q] /\ FileOf(q, k) = f
            /\ Publishing(q) /\ k = Len(writers[q]) =>
                  Publishing(q)' /\ k = Len(writers'[q])
        BY <1>2, <2>1, <2>5
      <3> QED BY <3>1, <1>4 DEF Shown
    <2>6. ASSUME NEW j \in detached', j.kind = "unlink"
          PROVE  j.file # f
      <3>1. CASE j \in detached
        BY <3>1, <1>4, <2>6 DEF Shown
      <3>2. CASE WritesTo(p, j.file)
        BY <3>2, <1>3, <1>4
      <3> QED BY <2>6, <3>1, <3>2 DEF DetachedKept
    <2> QED BY <2>2, <2>3, <2>4, <2>5, <2>6 DEF Shown
  <1>5. ASSUME NEW q \in Tasks, q # p
        PROVE  TaskInv(q)'
    <2>1. ASSUME NEW k \in DOMAIN writers[q], FileOf(q, k) # NoFile
          PROVE  Undisturbed(FileOf(q, k))
      <3>1. FileOf(q, k) \in Files
        BY <1>0, <2>1 DEF AsyncIInv, TaskInv, WritersHaveFiles
      <3>2. ~WritesTo(p, FileOf(q, k))
        BY <1>5, <2>1 DEF AsyncIInv, WritersApart, WritesTo
      <3> QED BY <3>1, <3>2, SameIsUndisturbed
    <2>2. created' \in Nat /\ created <= created'
      BY <1>0
    <2> QED BY <1>5, <2>1, <2>2, TaskKept
  <1>6. WritersApart'
    BY <1>2 DEF WritersApart, AsyncIInv
  <1>7. NamesShown'
    BY <1>4 DEF NamesShown, AsyncIInv
  <1>8. HandlesShown'
    <2> SUFFICES ASSUME NEW q \in Tasks, NEW h, h = handle'[q], h # None
                 PROVE  /\ Shown(h.file)'
                        /\ h.header = file'[h.file].header
                        /\ h.metadata = file'[h.file].metadata
      BY DEF HandlesShown, Shown, Complete, FileOf, Publishing
    <2>1. /\ Shown(h.file)
          /\ h.header = file[h.file].header
          /\ h.metadata = file[h.file].metadata
      <3>1. CASE q = p
        BY <3>1 DEF HandleKept
      <3>2. CASE q # p
        BY <3>2 DEF AsyncIInv, HandlesShown
      <3> QED BY <3>1, <3>2
    <2>2. Shown(h.file)'
      BY <2>1, <1>4
    <2>3. file'[h.file] = file[h.file]
      BY <2>1, <1>3 DEF Same
    <2> QED BY <2>1, <2>2, <2>3
  <1>9. DetachedApart'
    <2> SUFFICES ASSUME NEW j \in detached'
                 PROVE  /\ j.kind = "rename" => Shown(j.file)'
                        /\ j.kind = "unlink" =>
                              /\ j.file \in 1 .. created'
                              /\ \A q \in Tasks : \A k \in DOMAIN writers'[q] :
                                    FileOf(q, k)' # j.file
      BY DEF DetachedApart, Shown
    <2>1. ASSUME j.kind = "rename"
          PROVE  Shown(j.file)'
      <3>1. Shown(j.file)
        BY <2>1 DEF DetachedKept, AsyncIInv, DetachedApart
      <3> QED BY <3>1, <1>4
    <2>2. ASSUME j.kind = "unlink"
          PROVE  /\ j.file \in 1 .. created
                 /\ \A q \in Tasks : \A k \in DOMAIN writers'[q] :
                       FileOf(q, k)' # j.file
      <3>0. j.file # NoFile
        <4>1. j.file \in Files
          BY <2>2, <1>0 DEF DetachedKept, AsyncIInv, DetachedApart
        <4> QED BY <4>1, <1>0, FileNumbers
      <3>1. CASE j \in detached
        BY <3>1, <3>0, <2>2, <1>2 DEF AsyncIInv, DetachedApart
      <3>2. CASE WritesTo(p, j.file) /\ writers'[p] = <<>>
        <4>1. PICK i \in DOMAIN writers[p] : FileOf(p, i) = j.file
          BY <3>2 DEF WritesTo
        <4>2. j.file \in 1 .. created
          BY <3>0, <4>1 DEF AsyncIInv, TaskInv, WritersHaveFiles
        <4>3. ASSUME NEW q \in Tasks, NEW k \in DOMAIN writers'[q]
              PROVE  FileOf(q, k)' # j.file
          <5>1. q # p
            BY <3>2
          <5> QED BY <3>0, <4>1, <5>1, <1>1 DEF AsyncIInv, WritersApart
        <4> QED BY <4>2, <4>3
      <3> QED BY <2>2, <3>1, <3>2 DEF DetachedKept
    <2> QED BY <2>1, <2>2
  <1>10. FreshUntouched'
    <2> SUFFICES ASSUME NEW f \in Files, f > created
                 PROVE  pending'[f] = None /\ f \notin failed'
      BY DEF FreshUntouched
    <2>1. ~WritesTo(p, f)
      <3>1. f \notin 1 .. created /\ f # NoFile
        BY <1>0, FileNumbers
      <3> QED BY <3>1 DEF WritesTo, AsyncIInv, TaskInv, WritersHaveFiles
    <2> QED BY <2>1 DEF Same, AsyncIInv, FreshUntouched
  <1> QED BY <1>5, <1>6, <1>7, <1>8, <1>9, <1>10 DEF AsyncIInv

\* A task outside a call has nothing to keep true.
LEMMA IdleTask ==
    ASSUME NEW p \in Tasks, pc'[p] = "idle", writers'[p] = <<>>
    PROVE  TaskInv(p)'
  BY DEF TaskInv, WritersHaveFiles, JobsInStep, CallsNest, NothingUnderWay,
         FinishInOrder, WritersSync, Settled, PrefixQueued, Fitted, Publishing, ForCopy

\* The jobs there are, as records.
LEMMA JobTypes ==
    /\ NoJob \in Job /\ NoJob.kind = "none" /\ NoJob.file = NoFile /\ NoJob.state = "ok"
    /\ \A kind \in {"none", "create", "fsync", "rename", "syncdir", "unlink"},
          f \in Files \cup {NoFile} :
          /\ FileJob(kind, f) \in Job
          /\ FileJob(kind, f).kind = kind
          /\ FileJob(kind, f).file = f
          /\ FileJob(kind, f).state = "queued"
  <1>1. 0 \in 0 .. U32Max
    BY LayoutAssumption
  <1>2. NoJob \in Job
    BY <1>1 DEF Job, NoJob
  <1>3. ASSUME NEW kind \in {"none", "create", "fsync", "rename", "syncdir", "unlink"},
               NEW f \in Files \cup {NoFile}
        PROVE  FileJob(kind, f) \in Job
    BY <1>1 DEF FileJob, Job
  <1> QED BY <1>2, <1>3 DEF NoJob, FileJob

\* What every step that ends a call does to the writers of its task.
LEMMA EndStep ==
    ASSUME AsyncIInv, NEW p \in Tasks, NEW h2 \in TuxObject \cup {None},
           file' \in [Files -> ObjectFile \cup {Blank}],
           unsynced' \subseteq Files, temps' \subseteq Files,
           pending' \in [Files -> ObjectFile \cup {None}], failed' \subseteq Files,
           detached' \subseteq Job,
           created' = created, names' = names, sent' = sent,
           pc' = [pc EXCEPT ![p] = "idle"],
           writers' = [writers EXCEPT ![p] = <<>>],
           job' = [job EXCEPT ![p] = NoJob],
           handle' = [handle EXCEPT ![p] = h2],
           HandleKept(h2),
           \A f \in Files : ~WritesTo(p, f) => Same(f),
           \A j \in detached' : DetachedKept(p, j)
    PROVE  AsyncIInv'
  <1>0. TypeOK
    BY DEF AsyncIInv
  <1>1. /\ pc \in [Tasks -> Locations] /\ writers \in [Tasks -> Seq(AsyncObjectWriter)]
        /\ job \in [Tasks -> Job] /\ handle \in [Tasks -> TuxObject \cup {None}]
    BY <1>0 DEF TypeOK
  <1>2. /\ pc' \in [Tasks -> Locations] /\ writers' \in [Tasks -> Seq(AsyncObjectWriter)]
        /\ job' \in [Tasks -> Job] /\ handle' \in [Tasks -> TuxObject \cup {None}]
    BY <1>1, JobTypes DEF Locations
  <1>3. /\ pc'[p] = "idle" /\ writers'[p] = <<>> /\ job'[p] = NoJob /\ handle'[p] = h2
        /\ \A q \in Tasks : q # p =>
              /\ pc'[q] = pc[q] /\ writers'[q] = writers[q]
              /\ job'[q] = job[q] /\ handle'[q] = handle[q]
    BY <1>1
  <1>4. TypeOK'
    <2>1. \A q \in Tasks :
             /\ Len(writers'[q]) <= 2
             /\ pc'[q] = "idle" <=> writers'[q] = <<>>
             /\ job'[q].kind # "none" =>
                   pc'[q] \in {"creating", "syncing", "renaming", "syncdir",
                               "cleaning", "aborting"}
      BY <1>0, <1>3, JobTypes DEF TypeOK
    <2> QED BY <1>0, <1>2, <2>1 DEF TypeOK
  <1>5. TaskInv(p)'
    BY <1>3, IdleTask
  <1>6. HoldsKept(p)
    BY <1>3 DEF HoldsKept
  <1>7. HandleKept(handle'[p])
    BY <1>3
  <1> QED BY <1>3, <1>4, <1>5, <1>6, <1>7, CallStep

\* Drop for AsyncObjectWriter takes files that only their writer has.
LEMMA OwnedAreWrittenTo ==
    ASSUME AsyncIInv, NEW p \in Tasks, NEW f \in OwnedTemps(p), f \in Files
    PROVE  WritesTo(p, f)
  <1>1. PICK k \in DOMAIN writers[p] :
            writers[p][k].temp_path /\ writers[p][k].file = f
    BY DEF OwnedTemps
  <1>2. FileOf(p, k) = f
    BY <1>1, FileNumbers DEF FileOf, AsyncIInv
  <1>3. ~(Publishing(p) /\ k = Len(writers[p]))
    BY <1>1 DEF AsyncIInv, TaskInv, CallsNest, Writer
  <1> QED BY <1>2, <1>3 DEF WritesTo

LEMMA DropStep ==
    ASSUME AsyncIInv, NEW p \in Tasks, DropWriters(p), detached' \subseteq Job,
           \A j \in detached' : DetachedKept(p, j)
    PROVE  AsyncIInv'
  <1>0. TypeOK
    BY DEF AsyncIInv
  <1> DEFINE D == OwnedTemps(p)
  <1>1. /\ created' = created /\ names' = names /\ sent' = sent
        /\ temps' = temps \ D /\ unsynced' = unsynced \ D /\ failed' = failed \ D
        /\ file' = [f \in Files |-> IF f \in D THEN Blank ELSE file[f]]
        /\ pending' = [f \in Files |-> IF f \in D THEN None ELSE pending[f]]
    BY DEF DropWriters, RemoveTemps, DeleteTemps
  <1>2. /\ pc' = [pc EXCEPT ![p] = "idle"]
        /\ writers' = [writers EXCEPT ![p] = <<>>]
        /\ job' = [job EXCEPT ![p] = NoJob]
        /\ handle' = handle
    BY DEF DropWriters, Goto
  <1>3. handle[p] \in TuxObject \cup {None} /\ handle' = [handle EXCEPT ![p] = handle[p]]
    BY <1>0, <1>2 DEF TypeOK
  <1>4. HandleKept(handle[p])
    BY DEF HandleKept, AsyncIInv, HandlesShown
  <1>5. \A f \in Files : ~WritesTo(p, f) => Same(f)
    <2> SUFFICES ASSUME NEW f \in Files, ~WritesTo(p, f) PROVE Same(f)
      OBVIOUS
    <2>1. f \notin D
      BY OwnedAreWrittenTo
    <2> HIDE DEF D
    <2> QED BY <2>1, <1>1 DEF Same
  <1>6. /\ file' \in [Files -> ObjectFile \cup {Blank}]
        /\ unsynced' \subseteq Files /\ temps' \subseteq Files
        /\ pending' \in [Files -> ObjectFile \cup {None}] /\ failed' \subseteq Files
    <2> HIDE DEF D
    <2> QED BY <1>0, <1>1 DEF TypeOK
  <1> QED BY <1>1, <1>2, <1>3, <1>4, <1>5, <1>6, EndStep

\* Every end of a call without a new object, but for a dropped future.
LEMMA DropWritersStep ==
    ASSUME AsyncIInv, NEW p \in Tasks, DropWriters(p), detached' = detached
    PROVE  AsyncIInv'
  <1>1. detached' \subseteq Job /\ \A j \in detached' : DetachedKept(p, j)
    BY DEF AsyncIInv, TypeOK, DetachedKept
  <1> QED BY <1>1, DropStep

\* The pool unlinks the file of a writer that is gone but for that.
LEMMA UnlinkedIsRemoved ==
    ASSUME AsyncIInv, NEW p \in Tasks, job[p].kind = "unlink"
    PROVE  /\ job[p].file \in Files
           /\ \E k \in DOMAIN writers[p] :
                 /\ FileOf(p, k) = job[p].file
                 /\ BeingRemoved(p, k)
                 /\ ~(Publishing(p) /\ k = Len(writers[p]))
  <1>0. TypeOK /\ TaskInv(p)
    BY DEF AsyncIInv
  <1>1. pc[p] \in {"cleaning", "aborting"}
    <2>1. pc[p] \in {"creating", "syncing", "renaming", "syncdir", "cleaning",
                     "aborting"}
      BY <1>0 DEF TypeOK
    <2> QED BY <1>0, <2>1 DEF TaskInv, JobsInStep
  <1>2. /\ Len(writers[p]) \in DOMAIN writers[p] /\ 1 \in DOMAIN writers[p]
        /\ Writer(p) = writers[p][Len(writers[p])]
    BY <1>0, <1>1, InnermostWriter
  <1>3. PICK k \in DOMAIN writers[p] :
            /\ job[p].file = writers[p][k].file
            /\ BeingRemoved(p, k)
            /\ ~(Publishing(p) /\ k = Len(writers[p]))
    <2>1. CASE pc[p] = "cleaning"
      <3>1. job[p].file = writers[p][1].file /\ Len(writers[p]) # 1
        BY <1>0, <2>1 DEF TaskInv, JobsInStep, CallsNest
      <3>2. BeingRemoved(p, 1)
        BY <2>1 DEF BeingRemoved
      <3> QED BY <1>2, <3>1, <3>2
    <2>2. CASE pc[p] = "aborting"
      BY <1>0, <1>2, <2>2 DEF TaskInv, JobsInStep, Publishing, BeingRemoved
    <2> QED BY <1>1, <2>1, <2>2
  <1>4. writers[p][k].file # NoFile
    BY <1>0, <1>1 DEF TaskInv, WritersHaveFiles
  <1>5. FileOf(p, k) = job[p].file /\ job[p].file \in 1 .. created
    BY <1>0, <1>3, <1>4 DEF FileOf, TaskInv, WritersHaveFiles
  <1> QED BY <1>0, <1>3, <1>5, FileNumbers

LEMMA RenamedIsShown ==
    ASSUME AsyncIInv, NEW p \in Tasks, job[p].kind = "rename"
    PROVE  Shown(job[p].file)
  <1>0. TypeOK /\ TaskInv(p)
    BY DEF AsyncIInv
  <1>1. pc[p] = "renaming"
    BY <1>0 DEF TypeOK, TaskInv, JobsInStep
  <1> QED BY <1>0, <1>1, PublishedIsShown DEF Publishing, TaskInv, JobsInStep

LEMMA CancelStep ==
    ASSUME AsyncIInv, NEW p \in Tasks, Cancel(p)
    PROVE  AsyncIInv'
  <1>0. TypeOK /\ TaskInv(p)
    BY DEF AsyncIInv
  <1>1. DropWriters(p) /\ detached' \subseteq detached \cup {job[p]}
    BY DEF Cancel
  <1>2. writers'[p] = <<>> /\ job[p] \in Job
    BY <1>0, <1>1 DEF DropWriters, TypeOK
  <1>3. job[p].kind = "unlink" => job[p].file \in Files /\ WritesTo(p, job[p].file)
    BY UnlinkedIsRemoved DEF WritesTo
  <1>4. \A j \in detached' : DetachedKept(p, j)
    BY <1>1, <1>2, <1>3, RenamedIsShown DEF DetachedKept
  <1>5. detached' \subseteq Job
    BY <1>0, <1>1, <1>2 DEF TypeOK
  <1> QED BY <1>1, <1>4, <1>5, DropStep

\* finish returns the object it published.
LEMMA ReturnStep ==
    ASSUME AsyncIInv, NEW p \in Tasks, Return(p)
    PROVE  AsyncIInv'
  <1>0. TypeOK
    BY DEF AsyncIInv
  <1> DEFINE w == Writer(p)
             h2 == [file |-> w.file, path |-> w.final_path, header |-> BuildHeader(w),
                    metadata |-> w.metadata, writable |-> TRUE]
  <1>1. pc[p] \in {"reopen", "cleaning"}
    BY DEF Return
  <1>2. /\ Shown(w.file) /\ BuildHeader(w) = file[w.file].header
        /\ w.metadata = file[w.file].metadata
    BY <1>1, PublishedIsShown DEF Publishing
  <1>3. w \in AsyncObjectWriter /\ w.file \in Files
    BY <1>0, <1>1, InnermostWriter, InnermostFileIs
  <1>4. h2 \in TuxObject
    <2>1. BuildHeader(w) \in ObjectHeader
      BY <1>3, ObjectFilesAssumption
      DEF BuildHeader, ObjectHeader, AsyncObjectWriter, SectionLayout
    <2> QED BY <1>3, <2>1 DEF TuxObject, AsyncObjectWriter
  <1>5. HandleKept(h2)
    <2>1. h2.file = w.file /\ h2.header = BuildHeader(w) /\ h2.metadata = w.metadata
      OBVIOUS
    <2> HIDE DEF h2, w
    <2> QED BY <1>2, <2>1 DEF HandleKept
  <1>6. /\ created' = created /\ names' = names /\ sent' = sent /\ file' = file
        /\ unsynced' = unsynced /\ temps' = temps /\ pending' = pending
        /\ failed' = failed /\ detached' = detached
        /\ pc' = [pc EXCEPT ![p] = "idle"]
        /\ writers' = [writers EXCEPT ![p] = <<>>]
        /\ job' = [job EXCEPT ![p] = NoJob]
        /\ handle' = [handle EXCEPT ![p] = h2]
    BY DEF Return, Await, Goto, fsVars, poolVars
  <1>7. \A f \in Files : ~WritesTo(p, f) => Same(f)
    BY <1>6 DEF Same
  <1>8. \A j \in detached' : DetachedKept(p, j)
    BY <1>6 DEF DetachedKept
  <1>9. /\ file' \in [Files -> ObjectFile \cup {Blank}]
        /\ unsynced' \subseteq Files /\ temps' \subseteq Files
        /\ pending' \in [Files -> ObjectFile \cup {None}] /\ failed' \subseteq Files
        /\ detached' \subseteq Job
    BY <1>0, <1>6 DEF TypeOK
  <1> HIDE DEF h2
  <1> QED BY <1>4, <1>5, <1>6, <1>7, <1>8, <1>9, EndStep

\* A task changes its innermost writer, hands bytes to its file, or goes on to
\* the next await, and nobody else notices.
LEMMA WriterStep ==
    ASSUME AsyncIInv, NEW p \in Tasks, NEW w2 \in AsyncObjectWriter,
           NEW loc \in Locations \ {"idle", "creating", "cleaning"}, NEW j2 \in Job,
           pc[p] \notin {"idle", "cleaning", "aborting"},
           pc' = [pc EXCEPT ![p] = loc],
           job' = [job EXCEPT ![p] = j2],
           InnermostBecomes(p, w2),
           j2.kind # "none" =>
              loc \in {"syncing", "renaming", "syncdir", "aborting"},
           w2.file = InnermostFile(p), w2.file # NoFile,
           w2.sync = Writer(p).sync,
           Publishing(p) => loc \in {"renaming", "syncdir", "reopen"},
           Publishing(p) => pending' = pending,
           pending' \in [Files -> ObjectFile \cup {None}],
           \A f \in Files : f # w2.file => pending'[f] = pending[f],
           sent' \in [Files -> Seq(Pieces)],
           w2.file \notin failed =>
              /\ Coming(w2.file)'.content_at = w2.layout.content_start
              /\ Len(Coming(w2.file)'.content) = w2.content_length,
           JobsInStep(p)', CallsNest(p)', NothingUnderWay(p)', FinishInOrder(p)',
           UNCHANGED <<fsVars, failed, detached, handle>>
    PROVE  AsyncIInv'
  <1> DEFINE n == Len(writers[p])
  <1>0. TypeOK /\ TaskInv(p)
    BY DEF AsyncIInv
  <1>1. /\ n \in DOMAIN writers[p] /\ Writer(p) = writers[p][n]
        /\ writers[p] \in Seq(AsyncObjectWriter)
    BY <1>0, InnermostWriter
  <1>2. /\ created' = created /\ file' = file /\ unsynced' = unsynced /\ temps' = temps
        /\ names' = names /\ failed' = failed /\ detached' = detached
        /\ handle' = handle
    BY DEF fsVars
  <1>3. /\ pc'[p] = loc /\ job'[p] = j2
        /\ \A q \in Tasks : q # p =>
              /\ pc'[q] = pc[q] /\ writers'[q] = writers[q]
              /\ job'[q] = job[q] /\ handle'[q] = handle[q]
        /\ pc' \in [Tasks -> Locations] /\ job' \in [Tasks -> Job]
    BY <1>0, <1>2 DEF TypeOK, InnermostBecomes
  <1>4. /\ DOMAIN writers'[p] = DOMAIN writers[p] /\ Len(writers'[p]) = n
        /\ writers'[p] # <<>> /\ writers'[p][n] = w2
        /\ \A k \in DOMAIN writers[p] : k # n => writers'[p][k] = writers[p][k]
        /\ writers' \in [Tasks -> Seq(AsyncObjectWriter)]
    BY DEF InnermostBecomes
  <1>5. TypeOK'
    <2>1. \A q \in Tasks :
             /\ Len(writers'[q]) <= 2
             /\ pc'[q] = "idle" <=> writers'[q] = <<>>
             /\ job'[q].kind # "none" =>
                   pc'[q] \in {"creating", "syncing", "renaming", "syncdir",
                               "cleaning", "aborting"}
      <3> SUFFICES ASSUME NEW q \in Tasks
                   PROVE  /\ Len(writers'[q]) <= 2
                          /\ pc'[q] = "idle" <=> writers'[q] = <<>>
                          /\ job'[q].kind # "none" =>
                                pc'[q] \in {"creating", "syncing", "renaming",
                                            "syncdir", "cleaning", "aborting"}
        OBVIOUS
      <3>1. CASE q = p
        <4>1. n <= 2
          BY <1>0 DEF TypeOK
        <4> QED BY <3>1, <4>1, <1>3, <1>4
      <3>2. CASE q # p
        BY <3>2, <1>0, <1>3 DEF TypeOK
      <3> QED BY <3>1, <3>2
    <2> QED BY <1>0, <1>2, <1>3, <1>4, <2>1 DEF TypeOK
  <1>6. ASSUME NEW k \in DOMAIN writers[p], k # n
        PROVE  /\ writers[p][k].file # NoFile
               /\ FileOf(p, k)' = FileOf(p, k) /\ FileOf(p, k) = writers[p][k].file
               /\ ~BeingRemoved(p, k)
               /\ FileOf(p, k) # w2.file /\ FileOf(p, k) \in Files
    <2>1. writers[p][k].file # NoFile
      BY <1>0, <1>6 DEF TaskInv, WritersHaveFiles
    <2>2. FileOf(p, k)' = FileOf(p, k) /\ FileOf(p, k) = writers[p][k].file
      BY <2>1, <1>4, <1>6 DEF FileOf
    <2>3. FileOf(p, k) \in 1 .. created
      BY <1>0, <2>1, <2>2 DEF TaskInv, WritersHaveFiles
    <2>4. FileOf(p, k) # w2.file
      BY <1>1, <1>6, <2>1, <2>2 DEF AsyncIInv, WritersApart, InnermostFile
    <2> QED BY <1>0, <2>1, <2>2, <2>3, <2>4, FileNumbers DEF BeingRemoved
  <1>7. FileOf(p, n)' = w2.file /\ FileOf(p, n) = w2.file
    BY <1>4 DEF FileOf, InnermostFile
  <1>8. WritersHaveFiles(p)'
    <2> SUFFICES ASSUME NEW k \in DOMAIN writers'[p]
                 PROVE  LET w == writers'[p][k]
                            f == FileOf(p, k)'
                        IN  /\ w.file = NoFile <=>
                                  (pc'[p] = "creating" /\ k = Len(writers'[p]))
                            /\ f # NoFile => f \in 1 .. created'
                            /\ f # NoFile /\ ~BeingRemoved(p, k)' =>
                                  /\ file'[f] \in ObjectFile
                                  /\ f \notin failed' =>
                                        /\ (IF pending'[f] = None THEN file'[f]
                                            ELSE pending'[f]).content_at
                                              = w.layout.content_start
                                        /\ Len((IF pending'[f] = None THEN file'[f]
                                                ELSE pending'[f]).content)
                                              = w.content_length
      BY DEF WritersHaveFiles, FileOf, BeingRemoved, Coming
    <2>1. CASE k = n
      <3>1. /\ w2.file \in 1 .. created
            /\ ~BeingRemoved(p, n) => file[w2.file] \in ObjectFile
        BY <1>0, <1>1, <1>7 DEF TaskInv, WritersHaveFiles
      <3>2. ~BeingRemoved(p, n)
        BY DEF BeingRemoved
      <3> QED BY <2>1, <3>1, <3>2, <1>2, <1>3, <1>4, <1>7 DEF Coming
    <2>2. CASE k # n
      <3> DEFINE f == FileOf(p, k)
      <3>1. /\ f \in 1 .. created /\ file[f] \in ObjectFile
            /\ f \notin failed =>
                  /\ Coming(f).content_at = writers[p][k].layout.content_start
                  /\ Len(Coming(f).content) = writers[p][k].content_length
        BY <1>0, <1>4, <1>6, <2>2 DEF TaskInv, WritersHaveFiles
      <3>2. /\ FileOf(p, k)' = f /\ writers'[p][k] = writers[p][k]
            /\ writers[p][k].file # NoFile
            /\ pending'[f] = pending[f]
        BY <1>4, <1>6, <2>2
      <3> HIDE DEF f
      <3> QED BY <3>1, <3>2, <2>2, <1>2, <1>3, <1>4 DEF Coming
    <2> QED BY <2>1, <2>2
  <1>9. WritersSync(p)'
    <2> SUFFICES ASSUME AllSynced, NEW k \in DOMAIN writers'[p]
                 PROVE  writers'[p][k].sync
      BY DEF WritersSync, AllSynced
    <2> QED BY <1>0, <1>1, <1>4 DEF TaskInv, WritersSync
  <1>10. TaskInv(p)'
    BY <1>8, <1>9 DEF TaskInv
  <1>11. HoldsKept(p)
    <2> SUFFICES ASSUME NEW k \in DOMAIN writers'[p]
                 PROVE  /\ k \in DOMAIN writers[p]
                        /\ FileOf(p, k)' = FileOf(p, k)
                        /\ Publishing(p) /\ k = Len(writers[p]) =>
                              Publishing(p)' /\ k = Len(writers'[p])
      BY DEF HoldsKept
    <2>1. FileOf(p, k)' = FileOf(p, k)
      BY <1>4, <1>6, <1>7
    <2>2. Publishing(p) => Publishing(p)'
      BY <1>3 DEF Publishing
    <2> QED BY <1>4, <2>1, <2>2
  <1>12. \A f \in Files : ~WritesTo(p, f) => Same(f)
    <2> SUFFICES ASSUME NEW f \in Files, ~WritesTo(p, f) PROVE Same(f)
      OBVIOUS
    <2>1. pending'[f] = pending[f]
      BY <1>1, <1>7 DEF WritesTo
    <2> QED BY <2>1, <1>2 DEF Same
  <1>13. HandleKept(handle'[p])
    BY <1>2 DEF HandleKept, AsyncIInv, HandlesShown
  <1>14. \A j \in detached' : DetachedKept(p, j)
    BY <1>2 DEF DetachedKept
  <1> QED BY <1>2, <1>3, <1>5, <1>10, <1>11, <1>12, <1>13, <1>14, CallStep

-----------------------------------------------------------------------------
(* The steps of a writer.                                                  *)

\* What is known of the innermost writer at an await, but for its creation and
\* the removal of its file.
LEMMA WriterFacts ==
    ASSUME AsyncIInv, NEW p \in Tasks,
           pc[p] \notin {"idle", "creating", "aborting", "cleaning"}
    PROVE  LET w == Writer(p)
           IN  /\ w \in AsyncObjectWriter
               /\ w.file = InnermostFile(p) /\ w.file \in Files /\ w.file # NoFile
               /\ file[w.file] \in ObjectFile
               /\ w.file \notin failed =>
                     /\ Coming(w.file).content_at = w.layout.content_start
                     /\ Len(Coming(w.file).content) = w.content_length
               /\ job[p] \in Job
               /\ job = [job EXCEPT ![p] = job[p]]
               /\ pc = [pc EXCEPT ![p] = pc[p]]
  <1>0. TypeOK /\ TaskInv(p)
    BY DEF AsyncIInv
  <1> DEFINE w == Writer(p)
             n == Len(writers[p])
  <1>1. w \in AsyncObjectWriter /\ n \in DOMAIN writers[p] /\ w = writers[p][n]
    BY <1>0, InnermostWriter
  <1>2. w.file = InnermostFile(p) /\ w.file \in Files /\ w.file # NoFile
    BY InnermostFileIs
  <1>3. ~BeingRemoved(p, n)
    BY DEF BeingRemoved
  <1>4. /\ file[w.file] \in ObjectFile
        /\ w.file \notin failed =>
              /\ Coming(w.file).content_at = w.layout.content_start
              /\ Len(Coming(w.file).content) = w.content_length
    <2>1. FileOf(p, n) = w.file
      BY <1>2 DEF InnermostFile
    <2> HIDE DEF w, n
    <2> QED BY <1>0, <1>1, <1>2, <1>3, <2>1 DEF TaskInv, WritersHaveFiles
  <1>5. job[p] \in Job /\ job = [job EXCEPT ![p] = job[p]] /\ pc = [pc EXCEPT ![p] = pc[p]]
    BY <1>0 DEF TypeOK
  <1> QED BY <1>1, <1>2, <1>4, <1>5

LEMMA WritersUntouched ==
    ASSUME AsyncIInv, NEW p \in Tasks, pc[p] # "idle", writers' = writers
    PROVE  InnermostBecomes(p, Writer(p))
  BY InnermostWriter DEF AsyncIInv, TypeOK, InnermostBecomes, Writer

LEMMA InnermostAfter ==
    ASSUME NEW p \in Tasks, NEW w2, InnermostBecomes(p, w2)
    PROVE  /\ Writer(p)' = w2
           /\ Len(writers'[p]) = Len(writers[p])
           /\ w2.file # NoFile => InnermostFile(p)' = w2.file
  BY DEF InnermostBecomes, Writer, InnermostFile, FileOf

\* While a caller streams there is little to keep.
LEMMA StreamingTask ==
    ASSUME NEW p \in Tasks, pc'[p] = "writing", Len(writers'[p]) = 1
    PROVE  /\ JobsInStep(p)' /\ CallsNest(p)' /\ NothingUnderWay(p)'
           /\ FinishInOrder(p)'
  BY DEF JobsInStep, CallsNest, NothingUnderWay, FinishInOrder, Settled,
         PrefixQueued, Fitted, Publishing, ForCopy

\* Bytes that are handed over are at the end of what the file will hold.
LEMMA QueueEffect ==
    ASSUME AsyncIInv, NEW p \in Tasks, pc[p] \in {"writing", "copying"},
           NEW pieces \in Seq(Pieces), NEW w, w = Writer(p),
           Queue(p, pieces, w), FlushOk(w.file), file' = file
    PROVE  LET w2 == [w EXCEPT !.content_length = @ + Len(pieces)]
           IN  /\ w2 \in AsyncObjectWriter /\ w2.file = w.file /\ w2.sync = w.sync
               /\ w2.layout = w.layout /\ w2.metadata = w.metadata
               /\ w2.tags = w.tags /\ w2.layout_options = w.layout_options
               /\ InnermostBecomes(p, w2)
               /\ pending' \in [Files -> ObjectFile \cup {None}]
               /\ \A f \in Files : f # w.file => pending'[f] = pending[f]
               /\ Coming(w.file)'.content_at = w2.layout.content_start
               /\ Len(Coming(w.file)'.content) = w2.content_length
  <1> DEFINE f == w.file
             w2 == [w EXCEPT !.content_length = @ + Len(pieces)]
             bytes == [file[f] EXCEPT !.content = @ \o pieces]
  <1>0. TypeOK
    BY DEF AsyncIInv
  <1>1. /\ w \in AsyncObjectWriter /\ f \in Files
        /\ file[f] \in ObjectFile
        /\ f \notin failed =>
              /\ Coming(f).content_at = w.layout.content_start
              /\ Len(Coming(f).content) = w.content_length
    BY WriterFacts
  <1>2. pending[f] = None /\ f \notin failed
    BY DEF FlushOk
  <1>3. /\ file[f].content_at = w.layout.content_start
        /\ Len(file[f].content) = w.content_length
        /\ file[f].content \in Seq(Pieces)
    BY <1>1, <1>2 DEF Coming, ObjectFile
  <1>4. /\ w2 \in AsyncObjectWriter /\ w2.file = w.file /\ w2.sync = w.sync
        /\ w2.layout = w.layout /\ w2.metadata = w.metadata
        /\ w2.tags = w.tags /\ w2.layout_options = w.layout_options
        /\ w2.content_length = w.content_length + Len(pieces)
    <2>1. w.content_length + Len(pieces) \in Nat
      BY <1>1 DEF AsyncObjectWriter
    <2> QED BY <1>1, <2>1 DEF AsyncObjectWriter
  <1>5. /\ bytes \in ObjectFile /\ bytes.content_at = file[f].content_at
        /\ bytes.content = file[f].content \o pieces
    <2>1. file[f].content \o pieces \in Seq(Pieces)
      BY <1>3
    <2> QED BY <1>1, <2>1 DEF ObjectFile
  <1>6. Len(bytes.content) = w.content_length + Len(pieces)
    BY <1>3, <1>5
  <1>7. SetWriter(p, w2) /\ pending' = [pending EXCEPT ![f] = bytes]
    BY DEF Queue
  <1>8. InnermostBecomes(p, w2)
    <2> HIDE DEF w2
    <2> QED BY <1>0, <1>4, <1>7, SetWriterEffect DEF InnermostBecomes
  <1>9. /\ pending' \in [Files -> ObjectFile \cup {None}]
        /\ pending'[f] = bytes
        /\ \A g \in Files : g # f => pending'[g] = pending[g]
    <2> HIDE DEF bytes
    <2> QED BY <1>0, <1>1, <1>5, <1>7 DEF TypeOK
  <1>10. bytes # None
    BY <1>5, AsyncObjectStoreAssumption
  <1> QED BY <1>3, <1>4, <1>5, <1>6, <1>8, <1>9, <1>10 DEF Coming

\* A step that leaves the bytes on their way alone leaves what a file will hold.
LEMMA ComingKept ==
    ASSUME NEW f, file' = file, pending' = pending
    PROVE  Coming(f)' = Coming(f)
  BY DEF Coming

LEMMA WriteStep ==
    ASSUME AsyncIInv, NEW p \in Tasks, NEW chunk \in Chunks, Write(p, chunk)
    PROVE  AsyncIInv'
  <1> SUFFICES ASSUME NEW w, w = Writer(p) PROVE AsyncIInv'
    OBVIOUS
  <1> DEFINE pieces == <<chunk>>
             w2 == [w EXCEPT !.content_length = @ + Len(pieces)]
  <1>0. TypeOK /\ TaskInv(p)
    BY DEF AsyncIInv
  <1>1. /\ pc[p] = "writing" /\ FlushOk(w.file) /\ Queue(p, pieces, w)
        /\ sent' = [sent EXCEPT ![w.file] = Append(@, chunk)]
        /\ UNCHANGED <<fsVars, pc, handle, job, detached, failed>>
    BY DEF Write
  <1>2. pieces \in Seq(Pieces) /\ chunk \in Pieces
    BY DEF Pieces
  <1>3. file' = file
    BY <1>1 DEF fsVars
  <1>4. /\ w2 \in AsyncObjectWriter /\ w2.file = w.file /\ w2.sync = w.sync
        /\ InnermostBecomes(p, w2)
        /\ pending' \in [Files -> ObjectFile \cup {None}]
        /\ \A f \in Files : f # w.file => pending'[f] = pending[f]
        /\ Coming(w2.file)'.content_at = w2.layout.content_start
        /\ Len(Coming(w2.file)'.content) = w2.content_length
    <2> HIDE DEF pieces
    <2> QED BY <1>1, <1>2, <1>3, QueueEffect
  <1>5. /\ w.file = InnermostFile(p) /\ w.file \in Files /\ w.file # NoFile
        /\ job[p] \in Job /\ job = [job EXCEPT ![p] = job[p]]
        /\ pc = [pc EXCEPT ![p] = pc[p]]
    BY <1>1, WriterFacts
  <1>6. sent' \in [Files -> Seq(Pieces)]
    BY <1>0, <1>1, <1>2, <1>5 DEF TypeOK
  <1>7. Len(writers'[p]) = 1 /\ pc'[p] = "writing"
    BY <1>0, <1>1, <1>4 DEF InnermostBecomes, TaskInv, CallsNest
  <1>8. JobsInStep(p)' /\ CallsNest(p)' /\ NothingUnderWay(p)' /\ FinishInOrder(p)'
    BY <1>7, StreamingTask
  <1>9. job[p].kind = "none" /\ ~Publishing(p)
    BY <1>0, <1>1 DEF TypeOK, Publishing
  <1>10. "writing" \in Locations \ {"idle", "creating", "cleaning"}
    BY DEF Locations
  <1>11. job[p] \in Job /\ job' = [job EXCEPT ![p] = job[p]]
         /\ pc' = [pc EXCEPT ![p] = "writing"]
    BY <1>1, <1>5
  <1>12. PICK j2 : j2 = job[p]
    OBVIOUS
  <1>13. UNCHANGED <<fsVars, failed, detached, handle>>
    BY <1>1
  <1>14. /\ pc[p] \notin {"idle", "cleaning", "aborting"}
         /\ j2 \in Job /\ job' = [job EXCEPT ![p] = j2]
         /\ j2.kind # "none" =>
               "writing" \in {"syncing", "renaming", "syncdir", "aborting"}
         /\ Publishing(p) => "writing" \in {"renaming", "syncdir", "reopen"}
         /\ Publishing(p) => pending' = pending
    BY <1>1, <1>9, <1>11, <1>12
  <1>15. /\ w2.file = InnermostFile(p) /\ w2.file # NoFile /\ w2.sync = Writer(p).sync
         /\ \A f \in Files : f # w2.file => pending'[f] = pending[f]
         /\ w2.file \notin failed =>
               /\ Coming(w2.file)'.content_at = w2.layout.content_start
               /\ Len(Coming(w2.file)'.content) = w2.content_length
    BY <1>4, <1>5
  <1> HIDE DEF w2
  <1> QED
    BY <1>4, <1>6, <1>8, <1>10, <1>11, <1>13, <1>14, <1>15, WriterStep

\* A writer that waits for a job, or goes on, without handing over bytes.
LEMMA QuietStep ==
    ASSUME AsyncIInv, NEW p \in Tasks, NEW w, w = Writer(p),
           NEW w2 \in AsyncObjectWriter,
           NEW loc \in Locations \ {"idle", "creating", "cleaning"}, NEW j2 \in Job,
           pc[p] \notin {"idle", "creating", "cleaning", "aborting"},
           pc' = [pc EXCEPT ![p] = loc],
           job' = [job EXCEPT ![p] = j2],
           SetWriter(p, w2) \/ (writers' = writers /\ w2 = w),
           j2.kind # "none" =>
              loc \in {"syncing", "renaming", "syncdir", "aborting"},
           w2.file = w.file, w2.sync = w.sync,
           w2.layout.content_start = w.layout.content_start,
           w2.content_length = w.content_length,
           Publishing(p) => loc \in {"renaming", "syncdir", "reopen"},
           JobsInStep(p)', CallsNest(p)', NothingUnderWay(p)', FinishInOrder(p)',
           UNCHANGED <<fsVars, handle, poolVars, sent>>
    PROVE  AsyncIInv'
  <1>0. TypeOK
    BY DEF AsyncIInv
  <1>1. /\ w.file = InnermostFile(p) /\ w.file \in Files /\ w.file # NoFile
        /\ file[w.file] \in ObjectFile
        /\ w.file \notin failed =>
              /\ Coming(w.file).content_at = w.layout.content_start
              /\ Len(Coming(w.file).content) = w.content_length
    BY WriterFacts
  <1>2. InnermostBecomes(p, w2)
    <2>1. CASE SetWriter(p, w2)
      BY <1>0, <2>1, SetWriterEffect DEF InnermostBecomes
    <2>2. CASE writers' = writers /\ w2 = w
      BY <2>2, WritersUntouched
    <2> QED BY <2>1, <2>2
  <1>3. /\ pending' = pending /\ file' = file /\ sent' = sent
        /\ UNCHANGED <<fsVars, failed, detached, handle>>
    BY DEF fsVars, poolVars
  <1>4. Coming(w2.file)' = Coming(w2.file)
    BY <1>3, ComingKept
  <1>5. pending' \in [Files -> ObjectFile \cup {None}] /\ sent' \in [Files -> Seq(Pieces)]
    BY <1>0, <1>3 DEF TypeOK
  <1> QED BY <1>1, <1>2, <1>3, <1>4, <1>5, WriterStep

LEMMA MutateStep ==
    ASSUME AsyncIInv, NEW p \in Tasks, NEW m \in Metadata, NEW t \in Tags,
           Mutate(p, m, t)
    PROVE  AsyncIInv'
  <1> SUFFICES ASSUME NEW w, w = Writer(p), NEW j2, j2 = job[p] PROVE AsyncIInv'
    OBVIOUS
  <1> DEFINE w2 == [w EXCEPT !.metadata = m, !.tags = t]
  <1>0. TypeOK /\ TaskInv(p)
    BY DEF AsyncIInv
  <1>1. /\ pc[p] = "writing" /\ SetWriter(p, w2)
        /\ UNCHANGED <<fsVars, pc, handle, job, poolVars, sent>>
    BY DEF Mutate
  <1>2. /\ w \in AsyncObjectWriter
        /\ j2 \in Job /\ job' = [job EXCEPT ![p] = j2]
        /\ pc' = [pc EXCEPT ![p] = "writing"]
    BY <1>1, WriterFacts
  <1>3. /\ w2 \in AsyncObjectWriter /\ w2.file = w.file /\ w2.sync = w.sync
        /\ w2.layout = w.layout /\ w2.content_length = w.content_length
    BY <1>2 DEF AsyncObjectWriter
  <1> HIDE DEF w2
  <1>4. Len(writers'[p]) = 1 /\ pc'[p] = "writing"
    BY <1>0, <1>1, <1>3, SetWriterEffect DEF TaskInv, CallsNest
  <1>5. JobsInStep(p)' /\ CallsNest(p)' /\ NothingUnderWay(p)' /\ FinishInOrder(p)'
    BY <1>4, StreamingTask
  <1>6. j2.kind = "none" /\ ~Publishing(p)
    BY <1>0, <1>1 DEF TypeOK, Publishing
  <1>7. "writing" \in Locations \ {"idle", "creating", "cleaning"}
    BY DEF Locations
  <1>8. /\ p \in Tasks /\ w2 \in AsyncObjectWriter /\ j2 \in Job /\ w = Writer(p)
    BY <1>1, <1>2, <1>3
  <1>9. /\ pc[p] \notin {"idle", "creating", "cleaning", "aborting"}
        /\ pc' = [pc EXCEPT ![p] = "writing"]
        /\ job' = [job EXCEPT ![p] = j2]
    BY <1>1, <1>2
  <1>10. SetWriter(p, w2) \/ (writers' = writers /\ w2 = w)
    BY <1>1
  <1>11. /\ w2.file = w.file /\ w2.sync = w.sync
        /\ w2.layout.content_start = w.layout.content_start
        /\ w2.content_length = w.content_length
    BY <1>3
  <1>12. UNCHANGED <<fsVars, handle, poolVars, sent>>
    BY <1>1
  <1> QED BY <1>5, <1>6, <1>7, <1>8, <1>9, <1>10, <1>11, <1>12, QuietStep

LEMMA WriterAfter ==
    ASSUME AsyncIInv, NEW p \in Tasks, NEW w, w = Writer(p), NEW w2 \in AsyncObjectWriter,
           pc[p] # "idle",
           SetWriter(p, w2) \/ (writers' = writers /\ w2 = w)
    PROVE  /\ InnermostBecomes(p, w2)
           /\ Writer(p)' = w2
           /\ Len(writers'[p]) = Len(writers[p])
           /\ w2.file # NoFile => InnermostFile(p)' = w2.file
  <1>1. InnermostBecomes(p, w2)
    <2>1. CASE SetWriter(p, w2)
      BY <2>1, SetWriterEffect DEF InnermostBecomes, AsyncIInv
    <2>2. CASE writers' = writers /\ w2 = w
      BY <2>2, WritersUntouched
    <2> QED BY <2>1, <2>2
  <1> QED BY <1>1, InnermostAfter

\* The sizes of what a writer has to put in front of the content.
LEMMA SizesAreNaturals ==
    ASSUME NEW m \in Metadata, NEW t \in Tags
    PROVE  Size[m] \in Nat /\ Size[t] \in Nat
  BY ObjectFilesAssumption

LEMMA AbortStep ==
    ASSUME AsyncIInv, NEW p \in Tasks, Abort(p)
    PROVE  AsyncIInv'
  <1> SUFFICES ASSUME NEW w, w = Writer(p) PROVE AsyncIInv'
    OBVIOUS
  <1> DEFINE w2 == [w EXCEPT !.temp_path = FALSE]
             j2 == FileJob("unlink", w.file)
  <1>0. TypeOK /\ TaskInv(p)
    BY DEF AsyncIInv
  <1>1. /\ pc[p] = "writing" /\ SetWriter(p, w2)
        /\ pc' = [pc EXCEPT ![p] = "aborting"]
        /\ job' = [job EXCEPT ![p] = j2]
    BY DEF Abort, Await, Goto
  <1>2. w \in AsyncObjectWriter /\ w.file \in Files /\ w.file # NoFile
    BY <1>1, WriterFacts
  <1>3. /\ w2 \in AsyncObjectWriter /\ w2.file = w.file /\ w2.sync = w.sync
        /\ w2.layout.content_start = w.layout.content_start
        /\ w2.content_length = w.content_length
    BY <1>2 DEF AsyncObjectWriter
  <1>4. j2 \in Job /\ j2.kind = "unlink" /\ j2.file = w.file
    BY <1>2, JobTypes
  <1> HIDE DEF w2, j2
  <1>5. Writer(p)' = w2 /\ pc'[p] = "aborting" /\ job'[p] = j2
    BY <1>0, <1>1, <1>3, WriterAfter DEF TypeOK
  <1>6. JobsInStep(p)' /\ CallsNest(p)' /\ NothingUnderWay(p)' /\ FinishInOrder(p)'
    BY <1>3, <1>4, <1>5 DEF JobsInStep, CallsNest, NothingUnderWay, FinishInOrder,
       Settled, PrefixQueued, Fitted, Publishing, ForCopy
  <1>7. /\ pc[p] \notin {"idle", "creating", "cleaning", "aborting"}
        /\ "aborting" \in Locations \ {"idle", "creating", "cleaning"}
        /\ ~Publishing(p)
    BY <1>1 DEF Locations, Awaits, Publishing
  <1>8. UNCHANGED <<fsVars, handle, poolVars, sent>>
    BY DEF Abort
  <1> QED BY <1>1, <1>3, <1>4, <1>6, <1>7, <1>8, QuietStep

LEMMA FinishStep ==
    ASSUME AsyncIInv, NEW p \in Tasks, Finish(p)
    PROVE  AsyncIInv'
  <1> SUFFICES ASSUME NEW w, w = Writer(p), NEW l, l = Refit(p), NEW j2, j2 = job[p]
               PROVE  AsyncIInv'
    OBVIOUS
  <1> DEFINE w2 == [w EXCEPT !.layout = l]
  <1>0. TypeOK /\ TaskInv(p)
    BY DEF AsyncIInv
  <1>1. /\ pc[p] \in {"writing", "copyflush"} /\ SetWriter(p, w2)
        /\ pc' = [pc EXCEPT ![p] = "flush"] /\ job' = job /\ l # None
    BY DEF Finish, AtFinish, Goto
  <1>2. /\ w \in AsyncObjectWriter /\ w.file \in Files /\ w.file # NoFile
        /\ j2 \in Job /\ job' = [job EXCEPT ![p] = j2]
    BY <1>1, WriterFacts
  <1>3. /\ l \in SectionLayout
        /\ l.content_start = w.layout.content_start
        /\ HeaderSize + Size[w.metadata] <= l.tags_start
        /\ l.tags_start + Size[w.tags] <= l.content_start
    <2>1. /\ w.layout.content_start \in 0 .. U32Max
          /\ w.layout_options.alignment \in Nat
          /\ Size[w.metadata] \in Nat /\ Size[w.tags] \in Nat
      BY <1>2, SizesAreNaturals DEF AsyncObjectWriter, SectionLayout, LayoutOptions
    <2> QED BY <1>1, <2>1, RepartitionSound DEF Refit
  <1>4. /\ w2 \in AsyncObjectWriter /\ w2.file = w.file /\ w2.sync = w.sync
        /\ w2.layout = l /\ w2.metadata = w.metadata /\ w2.tags = w.tags
        /\ w2.content_length = w.content_length
    BY <1>2, <1>3 DEF AsyncObjectWriter
  <1> HIDE DEF w2
  <1>5. Writer(p)' = w2 /\ pc'[p] = "flush"
    BY <1>0, <1>1, <1>4, WriterAfter DEF TypeOK
  <1>6. JobsInStep(p)' /\ CallsNest(p)' /\ NothingUnderWay(p)'
    BY <1>5 DEF JobsInStep, CallsNest, NothingUnderWay, Settled, Publishing, ForCopy
  <1>7. FinishInOrder(p)'
    <2>1. ~PrefixQueued(p)' /\ ~Publishing(p)' /\ pc'[p] # "syncing"
      BY <1>5 DEF PrefixQueued, Settled, Publishing
    <2>2. /\ HeaderSize + Size[w2.metadata] <= w2.layout.tags_start
          /\ w2.layout.tags_start + Size[w2.tags] <= w2.layout.content_start
      BY <1>3, <1>4
    <2> QED BY <1>5, <2>1, <2>2 DEF FinishInOrder
  <1>8. /\ pc[p] \notin {"idle", "creating", "cleaning", "aborting"}
        /\ "flush" \in Locations \ {"idle", "creating", "cleaning"}
        /\ ~Publishing(p)
    BY <1>1 DEF Locations, Awaits, Publishing
  <1>9. j2.kind = "none"
    BY <1>0, <1>1 DEF TypeOK
  <1>10. UNCHANGED <<fsVars, handle, poolVars, sent>>
    BY DEF Finish
  <1>11. /\ w2.layout.content_start = w.layout.content_start
         /\ w2.file = w.file /\ w2.sync = w.sync
         /\ w2.content_length = w.content_length
    BY <1>3, <1>4
  <1> QED BY <1>1, <1>2, <1>4, <1>6, <1>7, <1>8, <1>9, <1>10, <1>11, QuietStep

LEMMA SourceFlushedStep ==
    ASSUME AsyncIInv, NEW p \in Tasks, SourceFlushed(p)
    PROVE  AsyncIInv'
  <1> SUFFICES ASSUME NEW w, w = Writer(p), NEW j2, j2 = job[p] PROVE AsyncIInv'
    OBVIOUS
  <1>0. TypeOK /\ TaskInv(p)
    BY DEF AsyncIInv
  <1>1. /\ pc[p] = "srcflush" /\ pc' = [pc EXCEPT ![p] = "copying"]
        /\ UNCHANGED <<fsVars, writers, handle, job, poolVars, sent>>
    BY DEF SourceFlushed, Goto
  <1>2. /\ w \in AsyncObjectWriter /\ w.file \in Files /\ w.file # NoFile
        /\ w.file = InnermostFile(p)
        /\ j2 \in Job /\ job' = [job EXCEPT ![p] = j2]
    BY <1>1, WriterFacts
  <1>3. SetWriter(p, w) \/ (writers' = writers /\ w = w)
    BY <1>1
  <1>4. /\ Writer(p)' = w /\ pc'[p] = "copying" /\ InnermostFile(p)' = w.file
        /\ Len(writers'[p]) = Len(writers[p])
    <2>1. pc[p] # "idle"
      BY <1>1
    <2>2. /\ Writer(p)' = w /\ Len(writers'[p]) = Len(writers[p])
          /\ InnermostFile(p)' = w.file
      BY <2>1, <1>2, <1>3, WriterAfter
    <2> QED BY <1>0, <1>1, <2>2 DEF TypeOK
  <1>5. pending' = pending /\ failed' = failed
    BY <1>1 DEF poolVars
  <1>6. JobsInStep(p)' /\ FinishInOrder(p)'
    BY <1>4 DEF JobsInStep, FinishInOrder, Settled, PrefixQueued, Fitted, Publishing
  <1>7. CallsNest(p)'
    <2>1. Len(writers'[p]) = 2
      BY <1>0, <1>1, <1>4 DEF TaskInv, CallsNest
    <2>2. Refit(p)' # None /\ w.content_length = 0
      BY <1>0, <1>1, <1>4 DEF TaskInv, CallsNest, ForCopy, Refit
    <2> QED BY <1>4, <2>1, <2>2 DEF CallsNest, Publishing
  <1>8. NothingUnderWay(p)'
    <2>1. FlushOk(writers[p][1].file) /\ writers' = writers
      BY <1>1 DEF SourceFlushed
    <2>2. pending[w.file] = None /\ w.file \notin failed
      BY <1>0, <1>1, <1>2 DEF TaskInv, NothingUnderWay, ForCopy
    <2> QED
      BY <1>4, <1>5, <2>1, <2>2 DEF NothingUnderWay, FlushOk
  <1>9. /\ pc[p] \notin {"idle", "creating", "cleaning", "aborting"}
        /\ "copying" \in Locations \ {"idle", "creating", "cleaning"}
        /\ ~Publishing(p) /\ j2.kind = "none"
    BY <1>0, <1>1 DEF Locations, Awaits, Publishing, TypeOK
  <1>10. UNCHANGED <<fsVars, handle, poolVars, sent>>
    BY <1>1
  <1> QED BY <1>1, <1>2, <1>3, <1>6, <1>7, <1>8, <1>9, <1>10, QuietStep

\* temp_path is taken and the rename handed to the pool, with everything in the
\* file, and flushed if the writer syncs.
LEMMA StartRenameStep ==
    ASSUME AsyncIInv, NEW p \in Tasks, NEW w, w = Writer(p), StartRename(p),
           pc[p] \in {"prefixflush", "syncing"}, FlushOk(w.file),
           w.sync => w.file \notin unsynced,
           UNCHANGED <<fsVars, handle, poolVars, sent>>
    PROVE  AsyncIInv'
  <1> DEFINE w2 == [w EXCEPT !.temp_path = FALSE]
             j2 == [FileJob("rename", w.file) EXCEPT !.path = w.final_path]
  <1>0. TypeOK /\ TaskInv(p)
    BY DEF AsyncIInv
  <1>1. /\ SetWriter(p, w2)
        /\ pc' = [pc EXCEPT ![p] = "renaming"]
        /\ job' = [job EXCEPT ![p] = j2]
    BY DEF StartRename, Await, Goto
  <1>2. w \in AsyncObjectWriter /\ w.file \in Files /\ w.file # NoFile
    BY WriterFacts
  <1>3. /\ w2 \in AsyncObjectWriter /\ w2.file = w.file /\ w2.sync = w.sync
        /\ w2.layout = w.layout /\ w2.metadata = w.metadata /\ w2.tags = w.tags
        /\ w2.content_length = w.content_length /\ ~w2.temp_path
        /\ w2.layout.content_start = w.layout.content_start
    BY <1>2 DEF AsyncObjectWriter
  <1>4. j2 \in Job /\ j2.kind = "rename" /\ j2.file = w.file
    <2>1. w.final_path \in Paths
      BY <1>2 DEF AsyncObjectWriter
    <2> QED BY <1>2, <2>1, LayoutAssumption DEF Job, FileJob
  <1>5. BuildHeader(w2) = BuildHeader(w)
    BY <1>3 DEF BuildHeader
  <1> HIDE DEF w2, j2
  <1>6. /\ Writer(p)' = w2 /\ pc'[p] = "renaming" /\ job'[p] = j2
        /\ InnermostFile(p)' = w.file
    BY <1>0, <1>1, <1>2, <1>3, WriterAfter DEF TypeOK
  <1>7. /\ pending' = pending /\ failed' = failed /\ file' = file
        /\ unsynced' = unsynced
    BY DEF poolVars, fsVars
  <1>8. JobsInStep(p)'
    BY <1>3, <1>4, <1>6 DEF JobsInStep
  <1>9. CallsNest(p)'
    BY <1>3, <1>6 DEF CallsNest, ForCopy
  <1>10. NothingUnderWay(p)'
    BY <1>6, <1>7 DEF NothingUnderWay, FlushOk
  <1>11. FinishInOrder(p)'
    <2>1. /\ HeaderSize + Size[w.metadata] <= w.layout.tags_start
          /\ w.layout.tags_start + Size[w.tags] <= w.layout.content_start
          /\ Coming(w.file).header = BuildHeader(w)
          /\ Coming(w.file).metadata = w.metadata
          /\ Coming(w.file).tags = w.tags
      BY <1>0 DEF TaskInv, FinishInOrder, Fitted, PrefixQueued, Settled, FlushOk
    <2>2. Coming(w.file)' = Coming(w.file)
      BY <1>7, ComingKept
    <2> SUFFICES /\ HeaderSize + Size[w2.metadata] <= w2.layout.tags_start
                 /\ w2.layout.tags_start + Size[w2.tags] <= w2.layout.content_start
                 /\ Coming(w2.file)'.header = BuildHeader(w2)
                 /\ Coming(w2.file)'.metadata = w2.metadata
                 /\ Coming(w2.file)'.tags = w2.tags
                 /\ w2.sync => w2.file \notin unsynced'
      BY <1>6 DEF FinishInOrder, Coming, BuildHeader
    <2> QED BY <2>1, <2>2, <1>3, <1>5, <1>7
  <1>12. /\ pc[p] \notin {"idle", "creating", "cleaning", "aborting"}
         /\ "renaming" \in Locations \ {"idle", "creating", "cleaning"}
    BY DEF Locations, Awaits
  <1> QED BY <1>1, <1>3, <1>4, <1>8, <1>9, <1>10, <1>11, <1>12, QuietStep

LEMMA PrefixFlushedStep ==
    ASSUME AsyncIInv, NEW p \in Tasks, PrefixFlushed(p)
    PROVE  AsyncIInv'
  <1> SUFFICES ASSUME NEW w, w = Writer(p) PROVE AsyncIInv'
    OBVIOUS
  <1>0. TypeOK /\ TaskInv(p)
    BY DEF AsyncIInv
  <1>1. /\ pc[p] = "prefixflush" /\ FlushOk(w.file)
    BY DEF PrefixFlushed
  <1>2. UNCHANGED <<fsVars, handle, poolVars, sent>>
    BY DEF PrefixFlushed
  <1>3. CASE ~w.sync
    <2>1. StartRename(p)
      BY <1>3 DEF PrefixFlushed
    <2> QED BY <1>1, <1>2, <1>3, <2>1, StartRenameStep
  <1>4. CASE w.sync
    <2> DEFINE j2 == FileJob("fsync", w.file)
    <2>1. /\ pc' = [pc EXCEPT ![p] = "syncing"] /\ job' = [job EXCEPT ![p] = j2]
          /\ writers' = writers
      BY <1>4 DEF PrefixFlushed, Await, Goto
    <2>2. w \in AsyncObjectWriter /\ w.file \in Files /\ w.file # NoFile
      BY <1>1, WriterFacts
    <2>3. /\ j2 \in Job /\ j2.kind = "fsync" /\ j2.file = w.file
          /\ j2.state = "queued"
      BY <2>2, JobTypes
    <2> HIDE DEF j2
    <2>4. SetWriter(p, w) \/ (writers' = writers /\ w = w)
      BY <2>1
    <2>5. /\ Writer(p)' = w /\ pc'[p] = "syncing" /\ job'[p] = j2
          /\ InnermostFile(p)' = w.file
      <3>1. pc[p] # "idle"
        BY <1>1
      <3>2. Writer(p)' = w /\ InnermostFile(p)' = w.file
        BY <2>2, <2>4, <3>1, WriterAfter
      <3> QED BY <1>0, <2>1, <3>2 DEF TypeOK
    <2>6. pending' = pending /\ failed' = failed /\ file' = file
      BY <1>2 DEF poolVars, fsVars
    <2>7. JobsInStep(p)' /\ CallsNest(p)'
      BY <2>3, <2>5 DEF JobsInStep, CallsNest, ForCopy, Publishing
    <2>8. NothingUnderWay(p)'
      BY <1>1, <2>5, <2>6 DEF NothingUnderWay, FlushOk
    <2>9. FinishInOrder(p)'
      <3>1. /\ HeaderSize + Size[w.metadata] <= w.layout.tags_start
            /\ w.layout.tags_start + Size[w.tags] <= w.layout.content_start
            /\ Coming(w.file).header = BuildHeader(w)
            /\ Coming(w.file).metadata = w.metadata
            /\ Coming(w.file).tags = w.tags
        BY <1>0, <1>1 DEF TaskInv, FinishInOrder, Fitted, PrefixQueued, FlushOk
      <3>2. Coming(w.file)' = Coming(w.file)
        BY <2>6, ComingKept
      <3>3. ~JobOk(p)' /\ ~Publishing(p)'
        BY <2>3, <2>5 DEF JobOk, Publishing
      <3> SUFFICES /\ HeaderSize + Size[w.metadata] <= w.layout.tags_start
                   /\ w.layout.tags_start + Size[w.tags] <= w.layout.content_start
                   /\ Coming(w.file)'.header = BuildHeader(w)
                   /\ Coming(w.file)'.metadata = w.metadata
                   /\ Coming(w.file)'.tags = w.tags
        BY <2>5, <3>3 DEF FinishInOrder, Coming, BuildHeader
      <3> QED BY <3>1, <3>2
    <2>10. /\ pc[p] \notin {"idle", "creating", "cleaning", "aborting"}
           /\ "syncing" \in Locations \ {"idle", "creating", "cleaning"}
           /\ ~Publishing(p)
      BY <1>1 DEF Locations, Awaits, Publishing
    <2> QED BY <1>2, <2>1, <2>2, <2>3, <2>4, <2>7, <2>8, <2>9, <2>10, QuietStep
  <1> QED BY <1>3, <1>4

LEMMA SyncedStep ==
    ASSUME AsyncIInv, NEW p \in Tasks, Synced(p)
    PROVE  AsyncIInv'
  <1> SUFFICES ASSUME NEW w, w = Writer(p) PROVE AsyncIInv'
    OBVIOUS
  <1>0. TaskInv(p)
    BY DEF AsyncIInv
  <1>1. /\ pc[p] = "syncing" /\ JobOk(p) /\ StartRename(p)
    BY DEF Synced
  <1>2. UNCHANGED <<fsVars, handle, poolVars, sent>>
    BY DEF Synced
  <1>3. w.file = InnermostFile(p) /\ w.file # NoFile
    BY <1>1, WriterFacts
  <1>4. FlushOk(w.file)
    BY <1>0, <1>1, <1>3 DEF TaskInv, NothingUnderWay, Settled, FlushOk
  <1>5. w.sync => w.file \notin unsynced
    BY <1>0, <1>1 DEF TaskInv, FinishInOrder
  <1> QED BY <1>1, <1>2, <1>4, <1>5, StartRenameStep

\* What is true of a writer that publishes stays true at the next await.
LEMMA PublishingGoesOn ==
    ASSUME AsyncIInv, NEW p \in Tasks, NEW w, w = Writer(p), Publishing(p),
           NEW loc \in {"syncdir", "reopen"}, NEW j2 \in Job,
           pc[p] # "cleaning",
           pc' = [pc EXCEPT ![p] = loc], job' = [job EXCEPT ![p] = j2],
           j2.kind = IF loc = "syncdir" THEN "syncdir" ELSE "none",
           writers' = writers,
           UNCHANGED <<fsVars, handle, poolVars, sent>>
    PROVE  AsyncIInv'
  <1>0. TypeOK /\ TaskInv(p)
    BY DEF AsyncIInv
  <1>1. pc[p] \notin {"idle", "creating", "cleaning", "aborting"}
    BY DEF Publishing
  <1>2. w \in AsyncObjectWriter /\ w.file \in Files /\ w.file # NoFile
        /\ w.file = InnermostFile(p)
    BY <1>1, WriterFacts
  <1>3. /\ Writer(p)' = w /\ pc'[p] = loc /\ job'[p] = j2
        /\ InnermostFile(p)' = w.file
    BY <1>0, <1>2 DEF TypeOK, Writer, InnermostFile, FileOf
  <1>4. /\ pending' = pending /\ failed' = failed /\ file' = file
        /\ unsynced' = unsynced
    BY DEF poolVars, fsVars
  <1>5. JobsInStep(p)'
    BY <1>3 DEF JobsInStep
  <1>6. CallsNest(p)'
    BY <1>0, <1>3 DEF CallsNest, ForCopy, TaskInv
  <1>7. NothingUnderWay(p)'
    BY <1>0, <1>2, <1>3, <1>4 DEF NothingUnderWay, TaskInv, Settled
  <1>8. FinishInOrder(p)'
    <2>1. /\ HeaderSize + Size[w.metadata] <= w.layout.tags_start
          /\ w.layout.tags_start + Size[w.tags] <= w.layout.content_start
          /\ w.file \notin failed =>
                /\ Coming(w.file).header = BuildHeader(w)
                /\ Coming(w.file).metadata = w.metadata
                /\ Coming(w.file).tags = w.tags
          /\ w.sync => w.file \notin unsynced
      BY <1>0 DEF TaskInv, FinishInOrder, Fitted, PrefixQueued, Settled
    <2>2. Coming(w.file)' = Coming(w.file)
      BY <1>4, ComingKept
    <2> SUFFICES /\ HeaderSize + Size[w.metadata] <= w.layout.tags_start
                 /\ w.layout.tags_start + Size[w.tags] <= w.layout.content_start
                 /\ w.file \notin failed' =>
                       /\ Coming(w.file)'.header = BuildHeader(w)
                       /\ Coming(w.file)'.metadata = w.metadata
                       /\ Coming(w.file)'.tags = w.tags
                 /\ w.sync => w.file \notin unsynced'
      BY <1>3 DEF FinishInOrder, Coming, BuildHeader
    <2> QED BY <2>1, <2>2, <1>4
  <1>9. /\ loc \in Locations \ {"idle", "creating", "cleaning"}
        /\ loc \in {"renaming", "syncdir", "reopen"}
        /\ j2.kind # "none" => loc \in {"syncing", "renaming", "syncdir", "aborting"}
    BY DEF Locations, Awaits
  <1>10. SetWriter(p, w) \/ (writers' = writers /\ w = w)
    OBVIOUS
  <1> QED BY <1>1, <1>2, <1>5, <1>6, <1>7, <1>8, <1>9, <1>10, QuietStep

LEMMA RenamedStep ==
    ASSUME AsyncIInv, NEW p \in Tasks, Renamed(p)
    PROVE  AsyncIInv'
  <1> SUFFICES ASSUME NEW w, w = Writer(p) PROVE AsyncIInv'
    OBVIOUS
  <1>1. pc[p] = "renaming" /\ writers' = writers
    BY DEF Renamed
  <1>2. UNCHANGED <<fsVars, handle, poolVars, sent>>
    BY DEF Renamed
  <1>3. Publishing(p) /\ pc[p] # "cleaning"
    BY <1>1 DEF Publishing
  <1> DEFINE loc == IF w.sync THEN "syncdir" ELSE "reopen"
             j2  == IF w.sync THEN FileJob("syncdir", NoFile) ELSE NoJob
  <1>4. pc' = [pc EXCEPT ![p] = loc] /\ job' = [job EXCEPT ![p] = j2]
    BY DEF Renamed, Await, Goto
  <1>5. /\ loc \in {"syncdir", "reopen"} /\ j2 \in Job
        /\ j2.kind = IF loc = "syncdir" THEN "syncdir" ELSE "none"
    BY JobTypes
  <1> HIDE DEF loc, j2
  <1> QED BY <1>1, <1>2, <1>3, <1>4, <1>5, PublishingGoesOn

LEMMA ParentSyncedStep ==
    ASSUME AsyncIInv, NEW p \in Tasks, ParentSynced(p)
    PROVE  AsyncIInv'
  <1> SUFFICES ASSUME NEW w, w = Writer(p) PROVE AsyncIInv'
    OBVIOUS
  <1>1. /\ pc[p] = "syncdir" /\ writers' = writers
        /\ pc' = [pc EXCEPT ![p] = "reopen"] /\ job' = [job EXCEPT ![p] = NoJob]
    BY DEF ParentSynced, Await, Goto
  <1>2. UNCHANGED <<fsVars, handle, poolVars, sent>>
    BY DEF ParentSynced
  <1>3. Publishing(p) /\ pc[p] # "cleaning"
    BY <1>1 DEF Publishing
  <1>4. NoJob \in Job /\ NoJob.kind = IF "reopen" = "syncdir" THEN "syncdir" ELSE "none"
    BY JobTypes
  <1>5. "reopen" \in {"syncdir", "reopen"}
    OBVIOUS
  <1> QED BY <1>1, <1>2, <1>3, <1>4, <1>5, PublishingGoesOn

\* create returns the writer with the file that was made for it.
LEMMA CreatedStep ==
    ASSUME AsyncIInv, NEW p \in Tasks, Created(p)
    PROVE  AsyncIInv'
  <1> SUFFICES ASSUME NEW w, w = Writer(p), NEW f, f = job[p].file PROVE AsyncIInv'
    OBVIOUS
  <1> DEFINE w2 == [w EXCEPT !.file = f, !.temp_path = TRUE]
             n == Len(writers[p])
             loc == IF n > 1 THEN "srcflush"
                    ELSE IF handle[p] # None THEN "copying" ELSE "writing"
  <1>0. TypeOK /\ TaskInv(p)
    BY DEF AsyncIInv
  <1>1. /\ pc[p] = "creating" /\ JobOk(p) /\ SetWriter(p, w2)
        /\ pc' = [pc EXCEPT ![p] = loc] /\ job' = [job EXCEPT ![p] = NoJob]
        /\ UNCHANGED <<fsVars, handle, poolVars, sent>>
    BY DEF Created, Await, Goto
  <1>2. /\ w \in AsyncObjectWriter /\ n \in DOMAIN writers[p] /\ w = writers[p][n]
        /\ n \in 1 .. 2
    BY <1>0, <1>1, InnermostWriter
  <1>3. w.file = NoFile /\ f # NoFile
    BY <1>0, <1>1, <1>2 DEF TaskInv, WritersHaveFiles, JobsInStep
  <1>4. f = FileOf(p, n) /\ f = InnermostFile(p)
    BY <1>2, <1>3 DEF FileOf, InnermostFile
  <1>5. /\ f \in 1 .. created /\ f \in Files
        /\ file[f] \in ObjectFile
        /\ f \notin failed =>
              /\ Coming(f).content_at = w.layout.content_start
              /\ Len(Coming(f).content) = w.content_length
    <2>1. ~BeingRemoved(p, n)
      BY <1>1 DEF BeingRemoved
    <2>2. f \in 1 .. created
      BY <1>0, <1>2, <1>3, <1>4 DEF TaskInv, WritersHaveFiles
    <2> HIDE DEF n
    <2> QED BY <1>0, <1>2, <1>3, <1>4, <2>1, <2>2, FileNumbers
            DEF TaskInv, WritersHaveFiles
  <1>6. /\ w2 \in AsyncObjectWriter /\ w2.file = f /\ w2.sync = w.sync
        /\ w2.layout = w.layout /\ w2.metadata = w.metadata /\ w2.tags = w.tags
        /\ w2.layout_options = w.layout_options
        /\ w2.content_length = w.content_length
    BY <1>2, <1>5 DEF AsyncObjectWriter
  <1> HIDE DEF w2
  <1>7. InnermostBecomes(p, w2)
    BY <1>0, <1>1, <1>6, SetWriterEffect DEF InnermostBecomes
  <1>8. /\ Writer(p)' = w2 /\ Len(writers'[p]) = n /\ InnermostFile(p)' = f
    BY <1>3, <1>6, <1>7, InnermostAfter
  <1>9. pc'[p] = loc
    BY <1>0, <1>1 DEF TypeOK
  <1>10. /\ pending' = pending /\ failed' = failed /\ file' = file /\ sent' = sent
         /\ handle' = handle
    BY <1>1 DEF fsVars, poolVars
  <1>11. loc \in {"srcflush", "copying", "writing"}
    OBVIOUS
  <1>12. JobsInStep(p)' /\ FinishInOrder(p)'
    BY <1>9, <1>11
    DEF JobsInStep, FinishInOrder, Settled, PrefixQueued, Fitted, Publishing
  <1>13. CallsNest(p)'
    <2>1. Refit(p)' # None /\ w2.content_length = 0
      BY <1>0, <1>1, <1>6, <1>8 DEF TaskInv, JobsInStep, CallsNest, ForCopy, Refit
    <2>2. /\ loc = "writing" => n = 1
          /\ loc = "srcflush" => n = 2
          /\ loc = "copying" => handle[p] # None
      <3> HIDE DEF n
      <3> QED BY <1>2
    <2> HIDE DEF loc, n
    <2> QED BY <2>1, <2>2, <1>8, <1>9, <1>10, <1>11 DEF CallsNest, Publishing
  <1>14. NothingUnderWay(p)'
    <2>1. n = 2 => pc'[p] # "copying"
      BY <1>9
    <2> QED
      BY <2>1, <1>0, <1>1, <1>3, <1>4, <1>8, <1>10
      DEF TaskInv, NothingUnderWay, ForCopy
  <1>15. w2.file \notin failed =>
            /\ Coming(w2.file)'.content_at = w2.layout.content_start
            /\ Len(Coming(w2.file)'.content) = w2.content_length
    <2>1. Coming(w2.file)' = Coming(w2.file)
      BY <1>10, ComingKept
    <2> QED BY <2>1, <1>5, <1>6
  <1>16. /\ pc[p] \notin {"idle", "cleaning", "aborting"}
         /\ loc \in Locations \ {"idle", "creating", "cleaning"}
         /\ ~Publishing(p)
    BY <1>1, <1>11 DEF Locations, Awaits, Publishing
  <1>17. /\ w2.file = InnermostFile(p) /\ w2.file # NoFile /\ w2.sync = Writer(p).sync
         /\ pending' \in [Files -> ObjectFile \cup {None}]
         /\ sent' \in [Files -> Seq(Pieces)]
         /\ \A g \in Files : g # w2.file => pending'[g] = pending[g]
    BY <1>0, <1>3, <1>4, <1>6, <1>10 DEF TypeOK
  <1>18. UNCHANGED <<fsVars, failed, detached, handle>>
    BY <1>1 DEF poolVars
  <1>19. NoJob \in Job /\ NoJob.kind = "none"
    BY JobTypes
  <1> HIDE DEF loc, n
  <1> QED
    BY <1>1, <1>6, <1>7, <1>12, <1>13, <1>14, <1>15, <1>16, <1>17, <1>18, <1>19,
       WriterStep

\* What a copy reads is pieces of content.
LEMMA SourceIsPieces ==
    ASSUME AsyncIInv, NEW p \in Tasks, pc[p] = "copying"
    PROVE  CopySource(p) \in Seq(Pieces) /\ SourceFile(p) \in Files
  <1>0. TypeOK /\ TaskInv(p)
    BY DEF AsyncIInv
  <1>1. ASSUME NEW f \in Files, file[f] \in ObjectFile,
               NEW start \in Nat, NEW len \in Nat
        PROVE  StoredContent(f, start, len) \in Seq(Pieces)
    <2>1. file[f].content \in Seq(Pieces)
      BY <1>1 DEF ObjectFile
    <2>2. [k \in 1 .. len |-> Garbage] \in Seq(Pieces)
      BY DEF Pieces
    <2>3. ASSUME NEW l \in Nat, l <= Len(file[f].content)
          PROVE  SubSeq(file[f].content, 1, l) \in Seq(Pieces)
      BY <2>1, <2>3
    <2>4. Len(file[f].content) \in Nat
      BY <2>1
    <2> QED BY <2>2, <2>3, <2>4 DEF StoredContent
  <1>2. CASE Len(writers[p]) > 1
    <2> DEFINE w == writers[p][1]
    <2>1. 1 \in DOMAIN writers[p] /\ w \in AsyncObjectWriter
      BY <1>0, InnermostWriter
    <2>2. w.file # NoFile /\ FileOf(p, 1) = w.file /\ ~BeingRemoved(p, 1)
      BY <1>0, <2>1 DEF TaskInv, WritersHaveFiles, FileOf, BeingRemoved
    <2>3. w.file \in 1 .. created /\ file[w.file] \in ObjectFile
      BY <1>0, <2>1, <2>2 DEF TaskInv, WritersHaveFiles
    <2>4. w.file \in Files
      BY <1>0, <2>3, FileNumbers
    <2>5. w.layout.content_start \in Nat /\ w.content_length \in Nat
      BY <2>1, LayoutAssumption DEF AsyncObjectWriter, SectionLayout
    <2>6. /\ CopySource(p)
               = StoredContent(w.file, w.layout.content_start, w.content_length)
          /\ SourceFile(p) = w.file
      BY <1>2 DEF CopySource, SourceFile
    <2> HIDE DEF w
    <2> QED BY <2>3, <2>4, <2>5, <2>6, <1>1
  <1>3. CASE ~(Len(writers[p]) > 1)
    <2> DEFINE h == handle[p]
    <2>1. h # None /\ h \in TuxObject
      <3>1. Len(writers[p]) # 2
        BY <1>3
      <3> QED BY <3>1, <1>0 DEF TaskInv, CallsNest, TypeOK
    <2>2. h.file \in Files /\ file[h.file] \in ObjectFile
      BY <2>1, <1>0, FileNumbers DEF AsyncIInv, HandlesShown, Shown, Complete, TypeOK
    <2>3. h.header.content_start \in Nat /\ h.header.content_length \in Nat
      BY <2>1, LayoutAssumption DEF TuxObject, ObjectHeader
    <2>4. /\ CopySource(p) = StoredContent(h.file, h.header.content_start,
                                           h.header.content_length)
          /\ SourceFile(p) = h.file
      BY <1>3 DEF CopySource, SourceFile
    <2> HIDE DEF h
    <2> QED BY <2>2, <2>3, <2>4, <1>1
  <1> QED BY <1>2, <1>3

LEMMA CopyStep ==
    ASSUME AsyncIInv, NEW p \in Tasks, Copy(p)
    PROVE  AsyncIInv'
  <1> SUFFICES ASSUME NEW w, w = Writer(p), NEW pieces, pieces = CopySource(p),
                      NEW g, g = SourceFile(p), NEW j2, j2 = job[p]
               PROVE  AsyncIInv'
    OBVIOUS
  <1> DEFINE w2 == [w EXCEPT !.content_length = @ + Len(pieces)]
  <1>0. TypeOK /\ TaskInv(p)
    BY DEF AsyncIInv
  <1>1. /\ pc[p] = "copying" /\ Queue(p, pieces, w)
        /\ sent' = [sent EXCEPT ![w.file] = sent[g]]
        /\ pc' = [pc EXCEPT ![p] = "copyflush"]
        /\ UNCHANGED <<fsVars, handle, job, detached, failed>>
    BY DEF Copy, Goto
  <1>2. pieces \in Seq(Pieces) /\ g \in Files
    BY <1>1, SourceIsPieces
  <1>3. file' = file /\ job' = job
    BY <1>1 DEF fsVars
  <1>4. /\ w.file = InnermostFile(p) /\ w.file \in Files /\ w.file # NoFile
        /\ j2 \in Job /\ job' = [job EXCEPT ![p] = j2]
    BY <1>1, <1>3, WriterFacts
  <1>5. FlushOk(w.file)
    BY <1>0, <1>1, <1>4 DEF TaskInv, NothingUnderWay, ForCopy, FlushOk
  <1>6. /\ w2 \in AsyncObjectWriter /\ w2.file = w.file /\ w2.sync = w.sync
        /\ w2.layout = w.layout /\ w2.metadata = w.metadata
        /\ w2.tags = w.tags /\ w2.layout_options = w.layout_options
        /\ InnermostBecomes(p, w2)
        /\ pending' \in [Files -> ObjectFile \cup {None}]
        /\ \A f \in Files : f # w.file => pending'[f] = pending[f]
        /\ Coming(w2.file)'.content_at = w2.layout.content_start
        /\ Len(Coming(w2.file)'.content) = w2.content_length
    BY <1>1, <1>2, <1>3, <1>5, QueueEffect
  <1>7. sent' \in [Files -> Seq(Pieces)]
    BY <1>0, <1>1, <1>2, <1>4 DEF TypeOK
  <1> HIDE DEF w2
  <1>8. Writer(p)' = w2 /\ pc'[p] = "copyflush"
    BY <1>0, <1>1, <1>6, InnermostAfter DEF TypeOK
  <1>9. JobsInStep(p)' /\ FinishInOrder(p)' /\ NothingUnderWay(p)'
    BY <1>8 DEF JobsInStep, FinishInOrder, NothingUnderWay, Settled, PrefixQueued,
                Fitted, Publishing
  <1>10. CallsNest(p)'
    <2>1. Refit(p)' # None
      BY <1>0, <1>1, <1>6, <1>8 DEF TaskInv, CallsNest, ForCopy, Refit
    <2> QED BY <2>1, <1>8 DEF CallsNest, Publishing
  <1>11. /\ pc[p] \notin {"idle", "cleaning", "aborting"}
         /\ "copyflush" \in Locations \ {"idle", "creating", "cleaning"}
         /\ ~Publishing(p) /\ j2.kind = "none"
    BY <1>0, <1>1 DEF Locations, Awaits, Publishing, TypeOK
  <1>12. UNCHANGED <<fsVars, failed, detached, handle>>
    BY <1>1
  <1>13. /\ w2.file = InnermostFile(p) /\ w2.file # NoFile /\ w2.sync = Writer(p).sync
         /\ \A f \in Files : f # w2.file => pending'[f] = pending[f]
    BY <1>4, <1>6
  <1> QED
    BY <1>1, <1>4, <1>6, <1>7, <1>9, <1>10, <1>11, <1>12, <1>13, WriterStep

\* finish hands the prefix over, for a file that has all its content.
LEMMA FlushedStep ==
    ASSUME AsyncIInv, NEW p \in Tasks, Flushed(p)
    PROVE  AsyncIInv'
  <1> SUFFICES ASSUME NEW w, w = Writer(p), NEW j2, j2 = job[p],
                      NEW bytes,
                      bytes = [file[w.file] EXCEPT !.header = BuildHeader(w),
                                                   !.metadata = w.metadata,
                                                   !.tags = w.tags]
               PROVE  AsyncIInv'
    OBVIOUS
  <1>0. TypeOK /\ TaskInv(p)
    BY DEF AsyncIInv
  <1>1. /\ pc[p] = "flush" /\ FlushOk(w.file)
        /\ pending' = [pending EXCEPT ![w.file] = bytes]
        /\ pc' = [pc EXCEPT ![p] = "prefixflush"]
        /\ UNCHANGED <<fsVars, writers, handle, job, detached, failed, sent>>
    BY DEF Flushed, Goto
  <1>2. /\ w \in AsyncObjectWriter
        /\ w.file = InnermostFile(p) /\ w.file \in Files /\ w.file # NoFile
        /\ file[w.file] \in ObjectFile
        /\ w.file \notin failed =>
              /\ Coming(w.file).content_at = w.layout.content_start
              /\ Len(Coming(w.file).content) = w.content_length
        /\ j2 \in Job /\ job' = [job EXCEPT ![p] = j2]
    BY <1>1, WriterFacts
  <1>3. /\ file[w.file].content_at = w.layout.content_start
        /\ Len(file[w.file].content) = w.content_length
    BY <1>1, <1>2 DEF FlushOk, Coming
  <1>4. BuildHeader(w) \in ObjectHeader
    BY <1>2, ObjectFilesAssumption
    DEF BuildHeader, ObjectHeader, AsyncObjectWriter, SectionLayout
  <1>5. /\ bytes \in ObjectFile /\ bytes.content_at = file[w.file].content_at
        /\ bytes.content = file[w.file].content
        /\ bytes.header = BuildHeader(w) /\ bytes.metadata = w.metadata
        /\ bytes.tags = w.tags
    BY <1>2, <1>4 DEF ObjectFile, AsyncObjectWriter
  <1>6. bytes # None
    BY <1>5, AsyncObjectStoreAssumption
  <1>7. /\ pending' \in [Files -> ObjectFile \cup {None}]
        /\ \A f \in Files : f # w.file => pending'[f] = pending[f]
        /\ pending'[w.file] = bytes
    BY <1>0, <1>1, <1>2, <1>5 DEF TypeOK
  <1>8. Coming(w.file)' = bytes
    BY <1>6, <1>7 DEF Coming
  <1>9. InnermostBecomes(p, w)
    BY <1>1, WritersUntouched
  <1>10. Writer(p)' = w /\ pc'[p] = "prefixflush"
    BY <1>0, <1>1, <1>9, InnermostAfter DEF TypeOK
  <1>11. JobsInStep(p)' /\ CallsNest(p)' /\ NothingUnderWay(p)'
    BY <1>10 DEF JobsInStep, CallsNest, NothingUnderWay, Settled, Publishing, ForCopy
  <1>12. FinishInOrder(p)'
    <2>1. /\ HeaderSize + Size[w.metadata] <= w.layout.tags_start
          /\ w.layout.tags_start + Size[w.tags] <= w.layout.content_start
      BY <1>0, <1>1 DEF TaskInv, FinishInOrder, Fitted
    <2>2. ~Publishing(p)' /\ pc'[p] # "syncing"
      BY <1>10 DEF Publishing
    <2> SUFFICES /\ HeaderSize + Size[w.metadata] <= w.layout.tags_start
                 /\ w.layout.tags_start + Size[w.tags] <= w.layout.content_start
                 /\ Coming(w.file)'.header = BuildHeader(w)
                 /\ Coming(w.file)'.metadata = w.metadata
                 /\ Coming(w.file)'.tags = w.tags
      BY <1>10, <2>2 DEF FinishInOrder, Coming, BuildHeader
    <2> QED BY <2>1, <1>5, <1>8
  <1>13. /\ pc[p] \notin {"idle", "cleaning", "aborting"}
         /\ "prefixflush" \in Locations \ {"idle", "creating", "cleaning"}
         /\ ~Publishing(p) /\ j2.kind = "none"
    BY <1>0, <1>1 DEF Locations, Awaits, Publishing, TypeOK
  <1>14. UNCHANGED <<fsVars, failed, detached, handle>>
    BY <1>1
  <1>15. /\ w.file \notin failed =>
               /\ Coming(w.file)'.content_at = w.layout.content_start
               /\ Len(Coming(w.file)'.content) = w.content_length
         /\ w.sync = Writer(p).sync
         /\ sent' \in [Files -> Seq(Pieces)]
    BY <1>0, <1>1, <1>3, <1>5, <1>8 DEF TypeOK
  <1>16. /\ pc' = [pc EXCEPT ![p] = "prefixflush"]
         /\ w \in AsyncObjectWriter /\ w.file = InnermostFile(p) /\ w.file # NoFile
         /\ j2 \in Job /\ job' = [job EXCEPT ![p] = j2]
    BY <1>1, <1>2
  <1> QED
    BY <1>7, <1>9, <1>11, <1>12, <1>13, <1>14, <1>15, <1>16, WriterStep

\* finish of the replacement returned; the pool is to unlink the file of the
\* writer it replaces.
LEMMA CleanUpStep ==
    ASSUME AsyncIInv, NEW p \in Tasks, CleanUp(p)
    PROVE  AsyncIInv'
  <1> SUFFICES ASSUME NEW w, w = Writer(p), NEW u, u = writers[p][1],
                      NEW j2, j2 = FileJob("unlink", u.file)
               PROVE  AsyncIInv'
    OBVIOUS
  <1>0. TypeOK /\ TaskInv(p)
    BY DEF AsyncIInv
  <1>1. /\ pc[p] = "reopen" /\ Len(writers[p]) > 1
        /\ writers' = [writers EXCEPT ![p][1].temp_path = FALSE]
        /\ pc' = [pc EXCEPT ![p] = "cleaning"]
        /\ job' = [job EXCEPT ![p] = j2]
        /\ UNCHANGED <<fsVars, handle, poolVars, sent>>
    BY DEF CleanUp, Await, Goto
  <1>2. /\ Len(writers[p]) = 2 /\ writers[p] \in Seq(AsyncObjectWriter)
        /\ DOMAIN writers[p] = 1 .. 2 /\ w = writers[p][2]
        /\ u \in AsyncObjectWriter /\ w \in AsyncObjectWriter
    <2>1. /\ Len(writers[p]) \in 1 .. 2 /\ writers[p] \in Seq(AsyncObjectWriter)
          /\ w = writers[p][Len(writers[p])]
      BY <1>0, <1>1, InnermostWriter
    <2> QED BY <1>1, <2>1
  <1> DEFINE u2 == [u EXCEPT !.temp_path = FALSE]
  <1>3. u2 \in AsyncObjectWriter /\ u2.file = u.file /\ u2.sync = u.sync
    BY <1>2 DEF AsyncObjectWriter
  <1>4. /\ writers'[p] \in Seq(AsyncObjectWriter) /\ Len(writers'[p]) = 2
        /\ DOMAIN writers'[p] = 1 .. 2 /\ writers'[p] # <<>>
        /\ writers'[p][1] = u2 /\ writers'[p][2] = w
        /\ \A q \in Tasks : q # p => writers'[q] = writers[q]
        /\ writers' \in [Tasks -> Seq(AsyncObjectWriter)]
    <2>1. writers \in [Tasks -> Seq(AsyncObjectWriter)]
      BY <1>0 DEF TypeOK
    <2>2. writers'[p] = [writers[p] EXCEPT ![1] = u2]
      BY <1>1, <2>1
    <2> HIDE DEF u2
    <2>3. writers'[p] \in Seq(AsyncObjectWriter)
      BY <1>2, <1>3, <2>2
    <2>4. \A q \in Tasks : q # p => writers'[q] = writers[q]
      BY <1>1, <2>1
    <2>5. writers' \in [Tasks -> Seq(AsyncObjectWriter)]
      BY <1>1, <2>1, <2>3, <2>4
    <2> QED BY <1>2, <2>2, <2>3, <2>4, <2>5
  <1>5. /\ u.file # NoFile /\ u.file \in 1 .. created /\ w.file # NoFile
        /\ FileOf(p, 1) = u.file /\ FileOf(p, 2) = w.file
    <2>1. u.file # NoFile /\ w.file # NoFile
      BY <1>0, <1>1, <1>2 DEF TaskInv, WritersHaveFiles
    <2>2. FileOf(p, 1) = u.file /\ FileOf(p, 2) = w.file
      BY <2>1, <1>2 DEF FileOf
    <2> QED BY <1>0, <1>2, <2>1, <2>2 DEF TaskInv, WritersHaveFiles
  <1>6. /\ j2 \in Job /\ j2.kind = "unlink" /\ j2.file = u.file
    BY <1>0, <1>5, JobTypes, FileNumbers
  <1>7. /\ pc'[p] = "cleaning" /\ job'[p] = j2
        /\ pc' \in [Tasks -> Locations] /\ job' \in [Tasks -> Job]
        /\ \A q \in Tasks : q # p => pc'[q] = pc[q] /\ job'[q] = job[q]
    BY <1>0, <1>1, <1>6 DEF TypeOK, Locations, Awaits
  <1>8. /\ created' = created /\ file' = file /\ unsynced' = unsynced /\ temps' = temps
        /\ names' = names /\ failed' = failed /\ detached' = detached
        /\ pending' = pending /\ handle' = handle /\ sent' = sent
    BY <1>1 DEF fsVars, poolVars
  <1> HIDE DEF u2
  <1>9. TypeOK'
    <2>1. \A q \in Tasks :
             /\ Len(writers'[q]) <= 2
             /\ pc'[q] = "idle" <=> writers'[q] = <<>>
             /\ job'[q].kind # "none" =>
                   pc'[q] \in {"creating", "syncing", "renaming", "syncdir",
                               "cleaning", "aborting"}
      <3> SUFFICES ASSUME NEW q \in Tasks
                   PROVE  /\ Len(writers'[q]) <= 2
                          /\ pc'[q] = "idle" <=> writers'[q] = <<>>
                          /\ job'[q].kind # "none" =>
                                pc'[q] \in {"creating", "syncing", "renaming",
                                            "syncdir", "cleaning", "aborting"}
        OBVIOUS
      <3>1. CASE q = p
        BY <3>1, <1>4, <1>7
      <3>2. CASE q # p
        BY <3>2, <1>0, <1>4, <1>7 DEF TypeOK
      <3> QED BY <3>1, <3>2
    <2> QED BY <1>0, <1>4, <1>7, <1>8, <2>1 DEF TypeOK
  <1>10. /\ FileOf(p, 1)' = FileOf(p, 1) /\ FileOf(p, 2)' = FileOf(p, 2)
         /\ Writer(p)' = w /\ InnermostFile(p)' = w.file
         /\ InnermostFile(p) = w.file
    BY <1>2, <1>3, <1>4, <1>5 DEF FileOf, Writer, InnermostFile
  <1>11. WritersHaveFiles(p)'
    <2>1. /\ file[w.file] \in ObjectFile /\ w.file \in 1 .. created
          /\ w.file \notin failed =>
                /\ Coming(w.file).content_at = w.layout.content_start
                /\ Len(Coming(w.file).content) = w.content_length
      <3>1. ~BeingRemoved(p, 2) /\ 2 \in DOMAIN writers[p]
        BY <1>1, <1>2 DEF BeingRemoved
      <3> QED BY <1>0, <1>2, <1>5, <3>1 DEF TaskInv, WritersHaveFiles
    <2>2. BeingRemoved(p, 1)'
      BY <1>7 DEF BeingRemoved
    <2>3. Coming(w.file)' = Coming(w.file)
      BY <1>8, ComingKept
    <2> SUFFICES ASSUME NEW k \in DOMAIN writers'[p]
                 PROVE  LET v == writers'[p][k]
                            f == FileOf(p, k)'
                        IN  /\ v.file = NoFile <=>
                                  (pc'[p] = "creating" /\ k = Len(writers'[p]))
                            /\ f # NoFile => f \in 1 .. created'
                            /\ f # NoFile /\ ~BeingRemoved(p, k)' =>
                                  /\ file'[f] \in ObjectFile
                                  /\ f \notin failed' =>
                                        /\ (IF pending'[f] = None THEN file'[f]
                                            ELSE pending'[f]).content_at
                                              = v.layout.content_start
                                        /\ Len((IF pending'[f] = None THEN file'[f]
                                                ELSE pending'[f]).content)
                                              = v.content_length
      BY DEF WritersHaveFiles, FileOf, BeingRemoved, Coming
    <2>4. CASE k = 1
      BY <2>2, <2>4, <1>3, <1>4, <1>5, <1>7, <1>8, <1>10
    <2>5. CASE k = 2
      BY <2>1, <2>5, <1>4, <1>5, <1>7, <1>8, <1>10 DEF Coming
    <2> QED BY <2>4, <2>5, <1>4
  <1>12. JobsInStep(p)'
    BY <1>3, <1>4, <1>6, <1>7 DEF JobsInStep
  <1>13. CallsNest(p)'
    BY <1>0, <1>1, <1>4, <1>7, <1>10 DEF TaskInv, CallsNest, ForCopy, Publishing
  <1>14. NothingUnderWay(p)'
    BY <1>0, <1>1, <1>5, <1>7, <1>8, <1>10
    DEF TaskInv, NothingUnderWay, Settled, Publishing, ForCopy
  <1>15. FinishInOrder(p)'
    <2>1. BuildHeader(w)' = BuildHeader(w)
      BY DEF BuildHeader
    <2>2. Publishing(p) /\ Settled(p) /\ PrefixQueued(p) /\ Fitted(p)
      BY <1>1 DEF Publishing, Settled, PrefixQueued, Fitted
    <2> QED
      BY <1>0, <1>8, <1>10, <2>1, <2>2
      DEF TaskInv, FinishInOrder, Coming, BuildHeader
  <1>16. WritersSync(p)'
    <2> SUFFICES ASSUME AllSynced, NEW k \in DOMAIN writers'[p]
                 PROVE  writers'[p][k].sync
      BY DEF WritersSync, AllSynced
    <2>1. writers[p][k].sync /\ k \in 1 .. 2
      BY <1>0, <1>2, <1>4 DEF TaskInv, WritersSync
    <2>2. CASE k = 1
      BY <2>1, <2>2, <1>3, <1>4
    <2>3. CASE k = 2
      BY <2>1, <2>3, <1>2, <1>4
    <2> QED BY <2>1, <2>2, <2>3
  <1>17. TaskInv(p)'
    BY <1>11, <1>12, <1>13, <1>14, <1>15, <1>16 DEF TaskInv
  <1>18. HoldsKept(p)
    BY <1>2, <1>4, <1>7, <1>10 DEF HoldsKept, Publishing
  <1>19. \A f \in Files : Same(f)
    BY <1>8 DEF Same
  <1>20. HandleKept(handle'[p])
    BY <1>8 DEF HandleKept, AsyncIInv, HandlesShown
  <1>21. \A j \in detached' : DetachedKept(p, j)
    BY <1>8 DEF DetachedKept
  <1> QED
    BY <1>4, <1>7, <1>8, <1>9, <1>17, <1>18, <1>19, <1>20, <1>21, CallStep

-----------------------------------------------------------------------------
(* Opening, creating, and the setters.                                     *)

\* What a path names is a file it was renamed to.
LEMMA CurrentIsAName ==
    ASSUME AsyncIInv, NEW path \in Paths
    PROVE  /\ Len(names[path]) \in DOMAIN names[path]
           /\ Current(path) \in Files \cup {NoFile}
           /\ Current(path) # NoFile => Shown(Current(path))
  <1>1. names[path] \in Seq(Files \cup {NoFile}) /\ names[path] # <<>>
    BY DEF AsyncIInv, TypeOK
  <1>2. Len(names[path]) \in DOMAIN names[path]
    BY <1>1
  <1>3. Current(path) \in Files \cup {NoFile}
    BY <1>1, <1>2 DEF Current
  <1> QED BY <1>2, <1>3 DEF Current, AsyncIInv, NamesShown

\* An idle task gets or drops a handle.
LEMMA HandleStep ==
    ASSUME AsyncIInv, NEW p \in Tasks, NEW h2 \in TuxObject \cup {None},
           pc[p] = "idle", HandleKept(h2),
           handle' = [handle EXCEPT ![p] = h2],
           UNCHANGED <<fsVars, pc, writers, job, poolVars, sent>>
    PROVE  AsyncIInv'
  <1>0. TypeOK
    BY DEF AsyncIInv
  <1>1. /\ created' = created /\ names' = names /\ file' = file
        /\ unsynced' = unsynced /\ temps' = temps /\ pending' = pending
        /\ failed' = failed /\ detached' = detached /\ sent' = sent
        /\ pc' = pc /\ writers' = writers /\ job' = job
    BY DEF fsVars, poolVars
  <1>2. /\ handle'[p] = h2 /\ handle' \in [Tasks -> TuxObject \cup {None}]
        /\ \A q \in Tasks : q # p => handle'[q] = handle[q]
    BY <1>0 DEF TypeOK
  <1>3. TypeOK'
    BY <1>0, <1>1, <1>2 DEF TypeOK
  <1>4. pc'[p] = "idle" /\ writers'[p] = <<>>
    BY <1>0, <1>1 DEF TypeOK
  <1>5. TaskInv(p)' /\ HoldsKept(p)
    BY <1>4, IdleTask DEF HoldsKept
  <1>6. \A f \in Files : Same(f)
    BY <1>1 DEF Same
  <1>7. \A j \in detached' : DetachedKept(p, j)
    BY <1>1 DEF DetachedKept
  <1>8. HandleKept(handle'[p])
    BY <1>2
  <1> QED BY <1>1, <1>2, <1>3, <1>5, <1>6, <1>7, <1>8, CallStep

LEMMA OpenStep ==
    ASSUME AsyncIInv, NEW p \in Tasks, NEW path \in Paths, NEW writable \in BOOLEAN,
           Open(p, path, writable)
    PROVE  AsyncIInv'
  <1> SUFFICES ASSUME NEW f, f = Current(path) PROVE AsyncIInv'
    OBVIOUS
  <1> DEFINE h2 == [file |-> f, path |-> path, header |-> file[f].header,
                    metadata |-> file[f].metadata, writable |-> writable]
  <1>1. /\ pc[p] = "idle" /\ f # NoFile /\ file[f] # Blank /\ file[f].header # None
        /\ handle' = [handle EXCEPT ![p] = h2]
        /\ UNCHANGED <<fsVars, pc, writers, job, poolVars, sent>>
    BY DEF Open, Openable
  <1>2. f \in Files /\ Shown(f)
    BY <1>1, CurrentIsAName
  <1>3. file[f] \in ObjectFile /\ file[f].metadata \in Metadata
    BY <1>1, <1>2 DEF AsyncIInv, TypeOK, Shown, Complete
  <1>4. h2 \in TuxObject
    BY <1>1, <1>2, <1>3 DEF TuxObject, ObjectFile
  <1>5. h2.file = f /\ h2.header = file[f].header /\ h2.metadata = file[f].metadata
    OBVIOUS
  <1> HIDE DEF h2
  <1>6. HandleKept(h2)
    BY <1>2, <1>5 DEF HandleKept
  <1> QED BY <1>1, <1>4, <1>6, HandleStep

LEMMA CloseStep ==
    ASSUME AsyncIInv, NEW p \in Tasks, Close(p)
    PROVE  AsyncIInv'
  <1>1. HandleKept(None)
    BY DEF HandleKept
  <1>2. /\ pc[p] = "idle" /\ handle' = [handle EXCEPT ![p] = None]
        /\ UNCHANGED <<fsVars, pc, writers, job, poolVars, sent>>
    BY DEF Close
  <1> QED BY <1>1, <1>2, HandleStep

\* create hands the file to the pool; the writer has none yet.
LEMMA CreateStep ==
    ASSUME AsyncIInv, NEW p \in Tasks, NEW path \in Paths,
           NEW options \in LayoutOptions, NEW sync \in BOOLEAN, AllSynced => sync,
           NEW m \in Metadata, NEW t \in Tags,
           pc[p] \in {"idle", "writing"},
           Create(p, writers[p], path, options, sync, m, t)
    PROVE  AsyncIInv'
  <1> SUFFICES ASSUME NEW s, s = writers[p],
                      NEW layout, layout = compute(options, Size[m], Size[t])
               PROVE  AsyncIInv'
    OBVIOUS
  <1> DEFINE w2 == [file |-> NoFile, temp_path |-> FALSE, final_path |-> path,
                    layout |-> layout, layout_options |-> options, metadata |-> m,
                    tags |-> t, content_length |-> 0, sync |-> sync]
             j2 == [FileJob("create", NoFile) EXCEPT
                       !.content_start = layout.content_start]
             n == Len(s)
  <1>0. TypeOK /\ TaskInv(p)
    BY DEF AsyncIInv
  <1>1. /\ layout # None
        /\ writers' = [writers EXCEPT ![p] = Append(s, w2)]
        /\ pc' = [pc EXCEPT ![p] = "creating"]
        /\ job' = [job EXCEPT ![p] = j2]
        /\ UNCHANGED <<fsVars, handle, poolVars, sent>>
    BY DEF Create, Await, Goto
  <1>2. /\ layout \in SectionLayout
        /\ repartition(layout.content_start, Size[m], Size[t], options.alignment)
             # None
    BY <1>1, SizesAreNaturals, ComputeSound
  <1>3. /\ w2 \in AsyncObjectWriter /\ w2.file = NoFile /\ w2.temp_path = FALSE
        /\ w2.layout = layout /\ w2.layout_options = options /\ w2.metadata = m
        /\ w2.tags = t /\ w2.content_length = 0 /\ w2.sync = sync
    BY <1>2 DEF AsyncObjectWriter
  <1>4. /\ j2 \in Job /\ j2.kind = "create" /\ j2.file = NoFile
        /\ j2.content_start = layout.content_start /\ j2.state = "queued"
    BY <1>2 DEF FileJob, Job, SectionLayout
  <1>5. s \in Seq(AsyncObjectWriter) /\ Len(s) \in 0 .. 1
    <2>1. s \in Seq(AsyncObjectWriter)
      BY <1>0 DEF TypeOK
    <2>2. CASE pc[p] = "idle"
      <3>1. s = <<>>
        BY <2>2, <1>0 DEF TypeOK
      <3> QED BY <2>1, <3>1
    <2>3. CASE pc[p] = "writing"
      <3>1. Len(s) = 1
        BY <2>3, <1>0 DEF TaskInv, CallsNest
      <3> QED BY <2>1, <3>1
    <2> QED BY <2>2, <2>3
  <1> HIDE DEF w2, j2, n
  <1>6. /\ writers'[p] = Append(s, w2) /\ writers'[p] \in Seq(AsyncObjectWriter)
        /\ Len(writers'[p]) = n + 1 /\ DOMAIN writers'[p] = 1 .. n + 1
        /\ writers'[p] # <<>> /\ writers'[p][n + 1] = w2
        /\ \A k \in 1 .. n : writers'[p][k] = s[k]
        /\ n \in 0 .. 1 /\ DOMAIN s = 1 .. n
        /\ \A q \in Tasks : q # p => writers'[q] = writers[q]
        /\ writers' \in [Tasks -> Seq(AsyncObjectWriter)]
    <2>1. writers \in [Tasks -> Seq(AsyncObjectWriter)]
      BY <1>0 DEF TypeOK
    <2>2. writers'[p] = Append(s, w2)
      BY <1>1, <2>1
    <2>3. /\ \A q \in Tasks : q # p => writers'[q] = writers[q]
          /\ DOMAIN writers' = Tasks /\ writers' = [q \in Tasks |-> writers'[q]]
      BY <1>1, <2>1
    <2>4. Append(s, w2) \in Seq(AsyncObjectWriter)
      BY <1>3, <1>5
    <2>5. writers' \in [Tasks -> Seq(AsyncObjectWriter)]
      BY <2>1, <2>2, <2>3, <2>4
    <2>6. n = Len(s) /\ n \in 0 .. 1 /\ DOMAIN s = 1 .. n
      BY <1>5 DEF n
    <2>7. /\ Len(Append(s, w2)) = n + 1 /\ DOMAIN Append(s, w2) = 1 .. n + 1
          /\ Append(s, w2)[n + 1] = w2
          /\ \A k \in 1 .. n : Append(s, w2)[k] = s[k]
      BY <1>3, <1>5, <2>6
    <2>8. Append(s, w2) # <<>>
      BY <2>6, <2>7
    <2> QED BY <2>2, <2>3, <2>4, <2>5, <2>6, <2>7, <2>8
  <1>7. /\ pc'[p] = "creating" /\ job'[p] = j2
        /\ pc' \in [Tasks -> Locations] /\ job' \in [Tasks -> Job]
        /\ \A q \in Tasks : q # p => pc'[q] = pc[q] /\ job'[q] = job[q]
    BY <1>0, <1>1, <1>4 DEF TypeOK, Locations, Awaits
  <1>8. /\ created' = created /\ file' = file /\ unsynced' = unsynced /\ temps' = temps
        /\ names' = names /\ failed' = failed /\ detached' = detached
        /\ pending' = pending /\ handle' = handle /\ sent' = sent
    BY <1>1 DEF fsVars, poolVars
  <1>9. TypeOK'
    <2>1. \A q \in Tasks :
             /\ Len(writers'[q]) <= 2
             /\ pc'[q] = "idle" <=> writers'[q] = <<>>
             /\ job'[q].kind # "none" =>
                   pc'[q] \in {"creating", "syncing", "renaming", "syncdir",
                               "cleaning", "aborting"}
      <3> SUFFICES ASSUME NEW q \in Tasks
                   PROVE  /\ Len(writers'[q]) <= 2
                          /\ pc'[q] = "idle" <=> writers'[q] = <<>>
                          /\ job'[q].kind # "none" =>
                                pc'[q] \in {"creating", "syncing", "renaming",
                                            "syncdir", "cleaning", "aborting"}
        OBVIOUS
      <3>1. CASE q = p
        BY <3>1, <1>6, <1>7
      <3>2. CASE q # p
        BY <3>2, <1>0, <1>6, <1>7 DEF TypeOK
      <3> QED BY <3>1, <3>2
    <2> QED BY <1>0, <1>6, <1>7, <1>8, <2>1 DEF TypeOK
  <1>10. /\ Writer(p)' = w2 /\ InnermostFile(p)' = NoFile
         /\ FileOf(p, n + 1)' = NoFile
    BY <1>3, <1>4, <1>6, <1>7 DEF Writer, InnermostFile, FileOf
  <1>11. ASSUME NEW k \in 1 .. n
         PROVE  /\ k \in DOMAIN writers[p] /\ writers'[p][k] = writers[p][k]
                /\ writers[p][k].file # NoFile
                /\ FileOf(p, k) = writers[p][k].file
                /\ FileOf(p, k)' = FileOf(p, k)
                /\ ~BeingRemoved(p, k) /\ k # n + 1
    <2>1. k \in DOMAIN writers[p] /\ writers'[p][k] = writers[p][k]
      BY <1>6
    <2>2. pc[p] # "creating"
      OBVIOUS
    <2>3. writers[p][k].file # NoFile
      BY <1>0, <2>1, <2>2 DEF TaskInv, WritersHaveFiles
    <2>4. ~BeingRemoved(p, k) /\ k # n + 1
      BY <1>6 DEF BeingRemoved
    <2> QED BY <2>1, <2>3, <2>4 DEF FileOf
  <1>12. WritersHaveFiles(p)'
    <2> SUFFICES ASSUME NEW k \in DOMAIN writers'[p]
                 PROVE  LET v == writers'[p][k]
                            f == FileOf(p, k)'
                        IN  /\ v.file = NoFile <=>
                                  (pc'[p] = "creating" /\ k = Len(writers'[p]))
                            /\ f # NoFile => f \in 1 .. created'
                            /\ f # NoFile /\ ~BeingRemoved(p, k)' =>
                                  /\ file'[f] \in ObjectFile
                                  /\ f \notin failed' =>
                                        /\ (IF pending'[f] = None THEN file'[f]
                                            ELSE pending'[f]).content_at
                                              = v.layout.content_start
                                        /\ Len((IF pending'[f] = None THEN file'[f]
                                                ELSE pending'[f]).content)
                                              = v.content_length
      BY DEF WritersHaveFiles, FileOf, BeingRemoved, Coming
    <2>1. CASE k = n + 1
      BY <2>1, <1>3, <1>6, <1>7, <1>10
    <2>2. CASE k # n + 1
      <3>1. k \in 1 .. n
        BY <1>6, <2>2
      <3> DEFINE f == FileOf(p, k)
      <3>2. /\ f # NoFile /\ f \in 1 .. created /\ file[f] \in ObjectFile
            /\ f \notin failed =>
                  /\ Coming(f).content_at = writers[p][k].layout.content_start
                  /\ Len(Coming(f).content) = writers[p][k].content_length
        BY <1>0, <1>11, <3>1 DEF TaskInv, WritersHaveFiles
      <3>3. /\ FileOf(p, k)' = f /\ writers'[p][k] = writers[p][k]
            /\ writers[p][k].file # NoFile /\ k # Len(writers'[p])
        BY <1>6, <1>11, <3>1
      <3> HIDE DEF f
      <3> QED BY <3>2, <3>3, <1>8 DEF Coming
    <2> QED BY <2>1, <2>2
  <1>13. JobsInStep(p)'
    BY <1>3, <1>4, <1>7, <1>10 DEF JobsInStep, JobOk
  <1>14. CallsNest(p)'
    <2>1. Refit(p)' # None
      BY <1>2, <1>3, <1>10 DEF Refit
    <2> QED BY <1>7, <2>1 DEF CallsNest, Publishing
  <1>15. NothingUnderWay(p)'
    BY <1>7, <1>10 DEF NothingUnderWay
  <1>16. FinishInOrder(p)'
    BY <1>7 DEF FinishInOrder, Fitted, PrefixQueued, Settled, Publishing
  <1>17. WritersSync(p)'
    <2> SUFFICES ASSUME AllSynced, NEW k \in DOMAIN writers'[p]
                 PROVE  writers'[p][k].sync
      BY DEF WritersSync, AllSynced
    <2>1. CASE k = n + 1
      BY <2>1, <1>3, <1>6
    <2>2. CASE k # n + 1
      BY <2>2, <1>0, <1>6, <1>11 DEF TaskInv, WritersSync
    <2> QED BY <2>1, <2>2
  <1>18. TaskInv(p)'
    BY <1>12, <1>13, <1>14, <1>15, <1>16, <1>17 DEF TaskInv
  <1>19. HoldsKept(p)
    <2>1. ~Publishing(p)
      BY DEF Publishing
    <2> SUFFICES ASSUME NEW k \in DOMAIN writers'[p], FileOf(p, k)' # NoFile
                 PROVE  k \in DOMAIN writers[p] /\ FileOf(p, k)' = FileOf(p, k)
      BY <2>1 DEF HoldsKept
    <2>2. k \in 1 .. n
      BY <1>6, <1>10
    <2> QED BY <2>2, <1>11
  <1>20. \A f \in Files : Same(f)
    BY <1>8 DEF Same
  <1>21. HandleKept(handle'[p])
    BY <1>8 DEF HandleKept, AsyncIInv, HandlesShown
  <1>22. \A j \in detached' : DetachedKept(p, j)
    BY <1>8 DEF DetachedKept
  <1> QED
    BY <1>6, <1>7, <1>8, <1>9, <1>18, <1>19, <1>20, <1>21, <1>22, CallStep

LEMMA CallerCreatesStep ==
    ASSUME AsyncIInv, NEW p \in Tasks, NEW path \in Paths,
           NEW options \in LayoutChoices, NEW sync \in Syncs,
           NEW m \in Metadata, NEW t \in Tags,
           CallerCreates(p, path, options, sync, m, t)
    PROVE  AsyncIInv'
  <1>1. writers[p] = <<>> /\ pc[p] = "idle"
    BY DEF CallerCreates, AsyncIInv, TypeOK
  <1>2. options \in LayoutOptions /\ sync \in BOOLEAN /\ (AllSynced => sync)
    BY AsyncObjectStoreAssumption DEF AllSynced
  <1>3. Create(p, writers[p], path, options, sync, m, t)
    BY <1>1 DEF CallerCreates
  <1> QED BY <1>1, <1>2, <1>3, CreateStep

\* Only what a caller wrote may not fit: a copy has the layout it was made with.
LEMMA FinishByRewritingStep ==
    ASSUME AsyncIInv, NEW p \in Tasks, FinishByRewriting(p)
    PROVE  AsyncIInv'
  <1> DEFINE w == Writer(p)
             options == RaiseReserves(w.layout_options, RewriteReserve)
  <1>0. TypeOK /\ TaskInv(p)
    BY DEF AsyncIInv
  <1>1. pc[p] = "writing"
    BY <1>0 DEF FinishByRewriting, AtFinish, TaskInv, CallsNest, ForCopy
  <1>2. /\ w \in AsyncObjectWriter /\ w = writers[p][Len(writers[p])]
        /\ Len(writers[p]) \in DOMAIN writers[p]
    BY <1>0, <1>1, InnermostWriter
  <1>3. options \in LayoutOptions
    BY <1>2, AsyncObjectStoreAssumption
    DEF RaiseReserves, AtLeast, AsyncObjectWriter, LayoutOptions
  <1>4. AllSynced => w.sync
    BY <1>0, <1>2 DEF TaskInv, WritersSync
  <1>5. /\ w.final_path \in Paths /\ w.sync \in BOOLEAN
        /\ w.metadata \in Metadata /\ w.tags \in Tags
    BY <1>2 DEF AsyncObjectWriter
  <1>6. Create(p, writers[p], w.final_path, options, w.sync, w.metadata, w.tags)
    BY DEF FinishByRewriting
  <1>7. pc[p] \in {"idle", "writing"}
    BY <1>1
  <1> HIDE DEF w, options
  <1> QED BY <1>3, <1>4, <1>5, <1>6, <1>7, CreateStep

LEMMA RewriteStep ==
    ASSUME AsyncIInv, NEW p \in Tasks, NEW m \in Metadata, NEW t \in Tags,
           Rewrite(p, m, t)
    PROVE  AsyncIInv'
  <1> DEFINE h == handle[p]
             options == [DefaultOptions EXCEPT
                            !.min_content_start = h.header.content_start]
  <1>1. /\ pc[p] = "idle" /\ h # None /\ h \in TuxObject /\ writers[p] = <<>>
    BY DEF Rewrite, AsyncIInv, TypeOK
  <1>2. h.path \in Paths /\ options \in LayoutOptions
    BY <1>1, AsyncObjectStoreAssumption
    DEF TuxObject, ObjectHeader, LayoutOptions
  <1>3. Create(p, writers[p], h.path, options, TRUE, m, t)
    BY <1>1 DEF Rewrite
  <1>4. pc[p] \in {"idle", "writing"} /\ (AllSynced => TRUE)
    BY <1>1
  <1> HIDE DEF options
  <1> QED BY <1>2, <1>3, <1>4, CreateStep

LEMMA SettersStep ==
    ASSUME AsyncIInv, NEW p \in Tasks,
           \/ \E m \in Metadata : SetMetadata(p, m)
           \/ \E t \in Tags : SetTags(p, t)
           \/ \E m \in Metadata, t \in Tags : SetSections(p, m, t)
    PROVE  AsyncIInv'
  <1>1. ASSUME NEW m \in Metadata, SetMetadata(p, m) PROVE AsyncIInv'
    <2> DEFINE h == handle[p]
    <2>1. h # None /\ ReadTags(h) # None /\ Rewrite(p, m, ReadTags(h))
      BY <1>1 DEF SetMetadata
    <2>2. Shown(h.file)
      BY <2>1 DEF AsyncIInv, HandlesShown
    <2>3. ReadTags(h) \in Tags
      BY <2>1, <2>2 DEF ReadTags, Shown, Complete
    <2> QED BY <2>1, <2>3, RewriteStep
  <1>2. ASSUME NEW t \in Tags, SetTags(p, t) PROVE AsyncIInv'
    <2>1. handle[p].metadata \in Metadata
      BY <1>2 DEF SetTags, AsyncIInv, TypeOK, TuxObject
    <2> QED BY <1>2, <2>1, RewriteStep DEF SetTags
  <1>3. ASSUME NEW m \in Metadata, NEW t \in Tags, SetSections(p, m, t)
        PROVE  AsyncIInv'
    BY <1>3, RewriteStep DEF SetSections
  <1> QED BY <1>1, <1>2, <1>3

\* Every way a call ends without a new object.
LEMMA EndingsStep ==
    ASSUME AsyncIInv, ~GoOn, NEW p \in Tasks,
           WriteErrs(p) \/ Abandon(p) \/ Aborted(p) \/ RewritingFails(p) \/ CallFails(p)
    PROVE  AsyncIInv'
  <1>1. DropWriters(p) /\ detached' = detached
    BY DEF WriteErrs, Abandon, Aborted, RewritingFails, CallFails
  <1> QED BY <1>1, DropWritersStep

-----------------------------------------------------------------------------
(* The blocking pool.                                                      *)

\* A step of the pool moves no task; it leaves what is published alone, renames
\* whole files only, and gives a writer no file but a fresh one.
LEMMA PoolStep ==
    ASSUME AsyncIInv,
           pc' = pc, writers' = writers, handle' = handle, sent' = sent,
           detached' \subseteq detached,
           created' \in 0 .. MaxFiles, created <= created',
           file' \in [Files -> ObjectFile \cup {Blank}],
           unsynced' \subseteq Files, temps' \subseteq Files,
           names' \in [Paths -> Seq(Files \cup {NoFile}) \ {<<>>}],
           pending' \in [Files -> ObjectFile \cup {None}], failed' \subseteq Files,
           job' \in [Tasks -> Job],
           \A q \in Tasks : job'[q].kind = job[q].kind,
           \A q \in Tasks : \A k \in DOMAIN writers[q] :
              FileOf(q, k)' # FileOf(q, k) => FileOf(q, k)' = created + 1,
           WritersApart',
           \A q \in Tasks : TaskInv(q)',
           \A f \in Files : Shown(f) => Same(f),
           \A path \in Paths : \A i \in DOMAIN names'[path] :
              names'[path][i] # NoFile => Shown(names'[path][i]),
           FreshUntouched'
    PROVE  AsyncIInv'
  <1>0. TypeOK /\ created \in Nat /\ 1 .. created \subseteq Files
    BY FileNumbers DEF AsyncIInv
  <1>1. TypeOK'
    BY <1>0 DEF TypeOK
  <1>2. ASSUME NEW f, f \in 1 .. created, NEW q \in Tasks, NEW k \in DOMAIN writers[q],
               FileOf(q, k)' = f
        PROVE  FileOf(q, k) = f
    BY <1>0, <1>2
  <1>3. ASSUME NEW f, Shown(f)
        PROVE  Shown(f)'
    <2>1. f \in 1 .. created /\ f \in Files /\ Same(f)
      BY <1>0, <1>3 DEF Shown
    <2>2. f \in 1 .. created'
      BY <1>0, <2>1
    <2>3. Complete(f)'
      BY <1>3, <2>1 DEF Shown, Complete, Same
    <2>4. /\ pending'[f] = None /\ f \notin failed'
          /\ AllSynced' => f \notin unsynced'
      BY <1>3, <2>1 DEF Shown, Same, AllSynced
    <2>5. ASSUME NEW q \in Tasks, NEW k \in DOMAIN writers'[q], FileOf(q, k)' = f
          PROVE  Publishing(q)' /\ k = Len(writers'[q])
      BY <2>1, <2>5, <1>2, <1>3 DEF Shown, Publishing
    <2>6. \A j \in detached' : j.kind = "unlink" => j.file # f
      BY <1>3 DEF Shown
    <2> QED BY <2>2, <2>3, <2>4, <2>5, <2>6 DEF Shown
  <1>4. NamesShown'
    BY <1>3 DEF NamesShown
  <1>5. HandlesShown'
    <2> SUFFICES ASSUME NEW q \in Tasks, NEW h, h = handle[q], h # None
                 PROVE  /\ Shown(h.file)'
                        /\ h.header = file'[h.file].header
                        /\ h.metadata = file'[h.file].metadata
      BY DEF HandlesShown, Shown, Complete, FileOf, Publishing
    <2>1. /\ Shown(h.file)
          /\ h.header = file[h.file].header
          /\ h.metadata = file[h.file].metadata
      BY DEF AsyncIInv, HandlesShown
    <2>2. file'[h.file] = file[h.file]
      BY <1>0, <2>1 DEF Same, Shown
    <2> QED BY <1>3, <2>1, <2>2
  <1>6. DetachedApart'
    <2> SUFFICES ASSUME NEW j \in detached'
                 PROVE  /\ j.kind = "rename" => Shown(j.file)'
                        /\ j.kind = "unlink" =>
                              /\ j.file \in 1 .. created'
                              /\ \A q \in Tasks : \A k \in DOMAIN writers'[q] :
                                    FileOf(q, k)' # j.file
      BY DEF DetachedApart, Shown
    <2>1. j.kind = "rename" => Shown(j.file)'
      BY <1>3 DEF AsyncIInv, DetachedApart
    <2>2. ASSUME j.kind = "unlink"
          PROVE  /\ j.file \in 1 .. created
                 /\ \A q \in Tasks : \A k \in DOMAIN writers'[q] :
                       FileOf(q, k)' # j.file
      BY <1>2, <2>2 DEF AsyncIInv, DetachedApart
    <2>3. 1 .. created \subseteq 1 .. created'
      BY <1>0
    <2> QED BY <2>1, <2>2, <2>3
  <1> QED BY <1>1, <1>4, <1>5, <1>6 DEF AsyncIInv

\* What a job does to the directory, if it renames a whole file.
LEMMA PerformEffect ==
    ASSUME AsyncIInv, NEW j \in Job, Perform(j), j.kind = "rename" => Shown(j.file)
    PROVE  /\ created' \in 0 .. MaxFiles /\ created <= created'
           /\ created' = IF j.kind = "create" THEN created + 1 ELSE created
           /\ file' \in [Files -> ObjectFile \cup {Blank}]
           /\ unsynced' \subseteq Files /\ temps' \subseteq Files
           /\ names' \in [Paths -> Seq(Files \cup {NoFile}) \ {<<>>}]
           /\ \A path \in Paths : \A i \in DOMAIN names'[path] :
                 names'[path][i] # NoFile => Shown(names'[path][i])
           /\ \A f \in 1 .. created :
                 /\ ~(j.kind = "unlink" /\ f = j.file) => file'[f] = file[f]
                 /\ f \in unsynced' => f \in unsynced
           /\ j.kind = "create" =>
                 Fresh \in Files /\ file'[Fresh] = NewFile(j.content_start)
           /\ j.kind = "fsync" => j.file \notin unsynced'
  <1>0. TypeOK /\ created \in Nat /\ 1 .. created \subseteq Files /\ MaxFiles \in Nat
    BY FileNumbers, FileSystemAssumption DEF AsyncIInv
  <1>1. /\ created \in 0 .. MaxFiles
        /\ file \in [Files -> ObjectFile \cup {Blank}]
        /\ unsynced \subseteq Files /\ temps \subseteq Files
        /\ names \in [Paths -> Seq(Files \cup {NoFile}) \ {<<>>}]
        /\ \A path \in Paths : \A i \in DOMAIN names[path] :
              names[path][i] # NoFile => Shown(names[path][i])
    BY <1>0 DEF TypeOK, AsyncIInv, NamesShown
  <1>2. CASE j.kind = "create"
    <2>1. CreateFile(NewFile(j.content_start))
      BY <1>2 DEF Perform
    <2>2. Fresh \in Files /\ Fresh = created + 1 /\ created + 1 \in 0 .. MaxFiles
      BY <1>0, <2>1 DEF CreateFile, CanCreate, Fresh, Files
    <2>3. NewFile(j.content_start) \in ObjectFile
      <3>1. j.content_start \in Nat
        BY LayoutAssumption DEF Job
      <3> QED BY <3>1 DEF NewFile, ObjectFile
    <2>4. \A f \in 1 .. created : f # Fresh
      BY <1>0 DEF Fresh
    <2> QED BY <1>0, <1>1, <1>2, <2>1, <2>2, <2>3, <2>4 DEF CreateFile
  <1>3. CASE j.kind = "fsync"
    <2>1. SyncFile(j.file)
      BY <1>3 DEF Perform
    <2> QED BY <1>0, <1>1, <1>3, <2>1 DEF SyncFile
  <1>4. CASE j.kind = "rename"
    <2>1. RenameFile(j.file, j.path)
      BY <1>4 DEF Perform
    <2>2. j.file \in Files
      BY <1>0, <1>4 DEF Shown
    <2>3. ASSUME NEW path \in Paths
          PROVE  /\ names'[path] \in Seq(Files \cup {NoFile}) \ {<<>>}
                 /\ \A i \in DOMAIN names'[path] :
                       names'[path][i] # NoFile => Shown(names'[path][i])
      <3>0. names[path] \in Seq(Files \cup {NoFile}) /\ names[path] # <<>>
        BY <1>1
      <3>1. CASE path # j.path
        BY <1>1, <2>1, <3>0, <3>1 DEF RenameFile
      <3>2. CASE path = j.path
        <4>1. names'[path] = Append(names[path], j.file)
          BY <1>1, <2>1, <3>2 DEF RenameFile
        <4>2. /\ Append(names[path], j.file) \in Seq(Files \cup {NoFile})
              /\ DOMAIN Append(names[path], j.file) = 1 .. Len(names[path]) + 1
              /\ Len(Append(names[path], j.file)) = Len(names[path]) + 1
              /\ Len(names[path]) \in Nat
              /\ Append(names[path], j.file)[Len(names[path]) + 1] = j.file
              /\ \A i \in 1 .. Len(names[path]) :
                    Append(names[path], j.file)[i] = names[path][i]
          BY <2>2, <3>0
        <4>3. Append(names[path], j.file) # <<>>
          BY <4>2
        <4>4. ASSUME NEW i \in DOMAIN names'[path], names'[path][i] # NoFile
              PROVE  Shown(names'[path][i])
          <5>1. CASE i = Len(names[path]) + 1
            BY <1>4, <4>1, <4>2, <5>1
          <5>2. CASE i # Len(names[path]) + 1
            <6>1. i \in 1 .. Len(names[path])
              BY <4>1, <4>2, <5>2
            <6>2. names'[path][i] = names[path][i] /\ i \in DOMAIN names[path]
              BY <4>1, <4>2, <6>1, <3>0
            <6> QED BY <1>1, <4>4, <6>2
          <5> QED BY <5>1, <5>2
        <4> QED BY <4>1, <4>2, <4>3, <4>4
      <3> QED BY <3>1, <3>2
    <2>4. names' \in [Paths -> Seq(Files \cup {NoFile}) \ {<<>>}]
      <3>1. DOMAIN names' = Paths /\ names' = [path \in Paths |-> names'[path]]
        BY <1>1, <2>1 DEF RenameFile
      <3> QED BY <2>3, <3>1
    <2>5. /\ created' = created /\ file' = file /\ unsynced' = unsynced
          /\ temps' \subseteq temps
      BY <2>1 DEF RenameFile
    <2> QED BY <1>0, <1>1, <1>4, <2>3, <2>4, <2>5
  <1>5. CASE j.kind = "unlink"
    <2>1. DeleteTemps({j.file})
      BY <1>5 DEF Perform
    <2> QED BY <1>0, <1>1, <1>5, <2>1 DEF DeleteTemps
  <1>6. CASE j.kind = "syncdir"
    <2>1. (names' = names \/ names' = [path \in Paths |-> <<Current(path)>>])
          /\ created' = created /\ file' = file /\ unsynced' = unsynced /\ temps' = temps
      BY <1>6 DEF Perform, SyncDirectory, fsVars
    <2>2. CASE names' = names
      BY <1>0, <1>1, <1>6, <2>1, <2>2
    <2>3. CASE names' = [path \in Paths |-> <<Current(path)>>]
      <3>1. ASSUME NEW path \in Paths
            PROVE  /\ names'[path] \in Seq(Files \cup {NoFile}) \ {<<>>}
                   /\ \A i \in DOMAIN names'[path] :
                         names'[path][i] # NoFile => Shown(names'[path][i])
        <4>1. /\ Current(path) \in Files \cup {NoFile}
              /\ Current(path) # NoFile => Shown(Current(path))
              /\ names'[path] = <<Current(path)>>
          BY <2>3, CurrentIsAName
        <4> QED BY <4>1
      <3>2. names' \in [Paths -> Seq(Files \cup {NoFile}) \ {<<>>}]
        BY <2>3, <3>1
      <3> QED BY <1>0, <1>1, <1>6, <2>1, <3>1, <3>2
    <2> QED BY <2>1, <2>2, <2>3
  <1> QED BY <1>2, <1>3, <1>4, <1>5, <1>6 DEF Perform

\* A writer's file that is not to be removed is nobody else's to unlink.
LEMMA JobsApart ==
    ASSUME AsyncIInv, NEW p \in Tasks, job[p].kind = "unlink"
    PROVE  /\ \A q \in Tasks : \A k \in DOMAIN writers[q] :
                 ~BeingRemoved(q, k) => FileOf(q, k) # job[p].file
           /\ ~Shown(job[p].file)
  <1>1. PICK i \in DOMAIN writers[p] :
            /\ FileOf(p, i) = job[p].file
            /\ BeingRemoved(p, i)
            /\ ~(Publishing(p) /\ i = Len(writers[p]))
    BY UnlinkedIsRemoved
  <1>2. job[p].file # NoFile
    BY UnlinkedIsRemoved, FileNumbers DEF AsyncIInv
  <1>3. ~Shown(job[p].file)
    BY <1>1 DEF Shown
  <1> QED BY <1>1, <1>2, <1>3 DEF AsyncIInv, WritersApart

\* A job on a file there is.
LEMMA JobRunsStep ==
    ASSUME AsyncIInv, NEW p \in Tasks, JobRuns(p), job[p].kind # "create"
    PROVE  AsyncIInv'
  <1> SUFFICES ASSUME NEW j, j = job[p] PROVE AsyncIInv'
    OBVIOUS
  <1>0. TypeOK /\ TaskInv(p) /\ created \in Nat /\ 1 .. created \subseteq Files
    BY FileNumbers DEF AsyncIInv
  <1>1. /\ Perform(j) /\ j.state = "queued" /\ j \in Job
        /\ pc' = pc /\ writers' = writers /\ handle' = handle /\ sent' = sent
        /\ pending' = pending /\ failed' = failed /\ detached' = detached
    BY <1>0 DEF JobRuns, poolVars, TypeOK
  <1>2. /\ job'[p].kind = j.kind /\ job'[p].file = j.file
        /\ job'[p].state = "ok" /\ job'[p].content_start = j.content_start
        /\ job' \in [Tasks -> Job]
        /\ \A q \in Tasks : q # p => job'[q] = job[q]
    <2>1. job' = [job EXCEPT ![p] = [j EXCEPT !.state = "ok"]]
      BY <1>0 DEF JobRuns, TypeOK, Job
    <2>2. [j EXCEPT !.state = "ok"] \in Job
      BY <1>1 DEF Job
    <2>3. /\ [j EXCEPT !.state = "ok"].kind = j.kind
          /\ [j EXCEPT !.state = "ok"].file = j.file
          /\ [j EXCEPT !.state = "ok"].state = "ok"
          /\ [j EXCEPT !.state = "ok"].content_start = j.content_start
      BY <1>1 DEF Job
    <2> QED BY <1>0, <2>1, <2>2, <2>3 DEF TypeOK
  <1>3. /\ created' = created /\ created' \in 0 .. MaxFiles
        /\ file' \in [Files -> ObjectFile \cup {Blank}]
        /\ unsynced' \subseteq Files /\ temps' \subseteq Files
        /\ names' \in [Paths -> Seq(Files \cup {NoFile}) \ {<<>>}]
        /\ \A path \in Paths : \A i \in DOMAIN names'[path] :
              names'[path][i] # NoFile => Shown(names'[path][i])
        /\ \A f \in 1 .. created :
              /\ ~(j.kind = "unlink" /\ f = j.file) => file'[f] = file[f]
              /\ f \in unsynced' => f \in unsynced
        /\ j.kind = "fsync" => j.file \notin unsynced'
    BY <1>1, RenamedIsShown, PerformEffect
  <1>4. pc[p] # "creating"
    BY <1>0 DEF TaskInv, JobsInStep
  <1>5. ASSUME NEW f \in 1 .. created, ~(j.kind = "unlink" /\ f = j.file)
        PROVE  Same(f)
    BY <1>1, <1>3, <1>5 DEF Same
  <1>6. ASSUME NEW f \in Files, Shown(f)
        PROVE  Same(f)
    BY <1>5, <1>6, JobsApart DEF Shown
  <1>7. ASSUME NEW q \in Tasks
        PROVE  TaskInv(q)'
    <2>1. ASSUME NEW k \in DOMAIN writers[q], FileOf(q, k) # NoFile,
                 ~BeingRemoved(q, k)
          PROVE  Undisturbed(FileOf(q, k))
      <3>1. FileOf(q, k) \in 1 .. created
        BY <2>1 DEF AsyncIInv, TaskInv, WritersHaveFiles
      <3>2. ~(j.kind = "unlink" /\ FileOf(q, k) = j.file)
        BY <2>1, JobsApart
      <3> QED BY <3>1, <3>2, <1>5, SameIsUndisturbed
    <2>2. JobsInStep(q)'
      <3>1. JobsInStep(q)
        BY DEF AsyncIInv, TaskInv
      <3>2. Writer(q)' = Writer(q) /\ writers'[q] = writers[q] /\ pc'[q] = pc[q]
        BY <1>1 DEF Writer
      <3>3. CASE q = p
        BY <3>1, <3>2, <3>3, <1>2, <1>4 DEF JobsInStep
      <3>4. CASE q # p
        BY <3>1, <3>2, <3>4, <1>2 DEF JobsInStep, JobOk
      <3> QED BY <3>3, <3>4
    <2>3. pc[q] = "syncing" /\ JobOk(q)' /\ ~JobOk(q) =>
             Writer(q).file \notin unsynced'
      <3>1. CASE q = p
        BY <3>1, <1>0, <1>3 DEF TaskInv, JobsInStep
      <3>2. CASE q # p
        BY <3>2, <1>2 DEF JobOk
      <3> QED BY <3>1, <3>2
    <2>4. /\ pc'[q] = pc[q] /\ writers'[q] = writers[q]
          /\ job'[q].file = job[q].file
          /\ handle[q] # None => handle'[q] # None
          /\ created' \in Nat /\ created <= created'
      BY <1>0, <1>1, <1>2, <1>3
    <2> QED BY <2>1, <2>2, <2>3, <2>4, TaskWaits
  <1>8. \A q \in Tasks : job'[q].kind = job[q].kind /\ job'[q].file = job[q].file
    BY <1>2
  <1>9. \A q \in Tasks : \A k \in DOMAIN writers[q] : FileOf(q, k)' = FileOf(q, k)
    BY <1>1, <1>8 DEF FileOf
  <1>10. WritersApart'
    BY <1>1, <1>9 DEF AsyncIInv, WritersApart
  <1>11. FreshUntouched'
    BY <1>1, <1>3 DEF AsyncIInv, FreshUntouched
  <1>12. /\ pending' \in [Files -> ObjectFile \cup {None}] /\ failed' \subseteq Files
         /\ detached' \subseteq detached /\ created <= created'
    BY <1>0, <1>1, <1>3 DEF TypeOK
  <1> QED
    BY <1>1, <1>2, <1>3, <1>6, <1>7, <1>8, <1>9, <1>10, <1>11, <1>12, PoolStep

\* A file comes into being, for the writer that waits for it alone.
LEMMA JobCreatesStep ==
    ASSUME AsyncIInv, NEW p \in Tasks, JobRuns(p), job[p].kind = "create"
    PROVE  AsyncIInv'
  <1> SUFFICES ASSUME NEW j, j = job[p], NEW w, w = Writer(p),
                      NEW n, n = Len(writers[p])
               PROVE  AsyncIInv'
    OBVIOUS
  <1>0. TypeOK /\ TaskInv(p) /\ created \in Nat /\ 1 .. created \subseteq Files
        /\ NoFile \notin Files
    BY FileNumbers DEF AsyncIInv
  <1>1. /\ Perform(j) /\ j.state = "queued" /\ j \in Job
        /\ pc' = pc /\ writers' = writers /\ handle' = handle /\ sent' = sent
        /\ pending' = pending /\ failed' = failed /\ detached' = detached
    BY <1>0 DEF JobRuns, poolVars, TypeOK
  <1>2. /\ created' = created + 1 /\ created' \in 0 .. MaxFiles
        /\ file' \in [Files -> ObjectFile \cup {Blank}]
        /\ unsynced' \subseteq Files /\ temps' \subseteq Files
        /\ names' \in [Paths -> Seq(Files \cup {NoFile}) \ {<<>>}]
        /\ \A path \in Paths : \A i \in DOMAIN names'[path] :
              names'[path][i] # NoFile => Shown(names'[path][i])
        /\ \A f \in 1 .. created :
              file'[f] = file[f] /\ (f \in unsynced' => f \in unsynced)
        /\ Fresh \in Files /\ file'[Fresh] = NewFile(j.content_start)
    BY <1>1, PerformEffect
  <1>3. /\ job'[p].kind = "create" /\ job'[p].file = Fresh
        /\ job'[p].state = "ok" /\ job'[p].content_start = j.content_start
        /\ job' \in [Tasks -> Job]
        /\ \A q \in Tasks : q # p => job'[q] = job[q]
    <2>1. job' = [job EXCEPT ![p] = [j EXCEPT !.state = "ok", !.file = Fresh]]
      BY <1>0 DEF JobRuns, TypeOK, Job
    <2>2. [j EXCEPT !.state = "ok", !.file = Fresh] \in Job
      BY <1>1, <1>2 DEF Job
    <2>3. /\ [j EXCEPT !.state = "ok", !.file = Fresh].kind = j.kind
          /\ [j EXCEPT !.state = "ok", !.file = Fresh].file = Fresh
          /\ [j EXCEPT !.state = "ok", !.file = Fresh].state = "ok"
          /\ [j EXCEPT !.state = "ok", !.file = Fresh].content_start
                = j.content_start
      BY <1>1 DEF Job
    <2> QED BY <1>0, <2>1, <2>2, <2>3 DEF TypeOK
  <1>4. pc[p] = "creating"
    BY <1>0 DEF TypeOK, TaskInv, JobsInStep
  <1>5. /\ n \in DOMAIN writers[p] /\ w = writers[p][n]
    BY <1>0, <1>4, InnermostWriter
  <1>6. /\ j.content_start = w.layout.content_start /\ w.content_length = 0
        /\ j.file = NoFile /\ w.file = NoFile
    BY <1>0, <1>1, <1>4, <1>5 DEF TaskInv, JobsInStep, WritersHaveFiles, JobOk
  <1>7. /\ Fresh = created + 1 /\ Fresh # NoFile /\ Fresh \in Nat
        /\ pending[Fresh] = None /\ Fresh \notin failed
    BY <1>0, <1>2 DEF Fresh, AsyncIInv, FreshUntouched
  <1>8. ASSUME NEW q \in Tasks, NEW k \in DOMAIN writers[q]
        PROVE  IF q = p /\ k = n
               THEN FileOf(q, k)' = Fresh
               ELSE /\ FileOf(q, k)' = FileOf(q, k)
                    /\ FileOf(q, k) # NoFile => FileOf(q, k) \in 1 .. created
                    /\ q = p => FileOf(q, k) # NoFile /\ writers[q][k].file # NoFile
    <2>1. FileOf(q, k) # NoFile => FileOf(q, k) \in 1 .. created
      BY DEF AsyncIInv, TaskInv, WritersHaveFiles
    <2>2. CASE q = p /\ k = n
      BY <2>2, <1>1, <1>3, <1>5, <1>6 DEF FileOf
    <2>3. CASE q = p /\ k # n
      <3>1. writers[q][k].file # NoFile
        BY <2>3, <1>0 DEF TaskInv, WritersHaveFiles
      <3> QED BY <2>1, <2>3, <3>1, <1>1 DEF FileOf
    <2>4. CASE q # p
      BY <2>1, <2>4, <1>1, <1>3 DEF FileOf
    <2> QED BY <2>2, <2>3, <2>4
  <1>9. WritersApart'
    <2> SUFFICES ASSUME NEW q \in Tasks, NEW r \in Tasks,
                        NEW k \in DOMAIN writers[q], NEW i \in DOMAIN writers[r],
                        FileOf(q, k)' = FileOf(r, i)', FileOf(q, k)' # NoFile
                 PROVE  q = r /\ k = i
      BY <1>1 DEF WritersApart
    <2>1. ASSUME NEW x \in 1 .. created PROVE x # Fresh
      BY <1>0, <1>7
    <2>2. CASE q = p /\ k = n
      BY <2>1, <2>2, <1>7, <1>8
    <2>3. CASE r = p /\ i = n
      BY <2>1, <2>3, <1>7, <1>8
    <2>4. CASE ~(q = p /\ k = n) /\ ~(r = p /\ i = n)
      BY <2>4, <1>8 DEF AsyncIInv, WritersApart
    <2> QED BY <2>2, <2>3, <2>4
  <1>10. ASSUME NEW f \in 1 .. created
         PROVE  Same(f)
    BY <1>1, <1>2, <1>10 DEF Same
  <1>11. ASSUME NEW q \in Tasks, q # p
         PROVE  TaskInv(q)'
    <2>1. ASSUME NEW k \in DOMAIN writers[q], FileOf(q, k) # NoFile
          PROVE  Undisturbed(FileOf(q, k))
      BY <2>1, <1>8, <1>10, <1>11, SameIsUndisturbed
    <2>2. /\ pc'[q] = pc[q] /\ writers'[q] = writers[q] /\ job'[q] = job[q]
          /\ handle[q] # None => handle'[q] # None
          /\ created' \in Nat /\ created <= created'
      BY <1>0, <1>1, <1>2, <1>3, <1>11
    <2> QED BY <2>1, <2>2, TaskKept
  <1>12. TaskInv(p)'
    <2>0. Writer(p)' = w /\ InnermostFile(p)' = Fresh
      BY <1>1, <1>5, <1>8 DEF Writer, InnermostFile
    <2>1. WritersHaveFiles(p)'
      <3> SUFFICES ASSUME NEW k \in DOMAIN writers[p]
                   PROVE  LET v == writers[p][k]
                              f == FileOf(p, k)'
                          IN  /\ v.file = NoFile <=>
                                    (pc[p] = "creating" /\ k = n)
                              /\ f # NoFile => f \in 1 .. created'
                              /\ f # NoFile /\ ~BeingRemoved(p, k)' =>
                                    /\ file'[f] \in ObjectFile
                                    /\ f \notin failed' =>
                                          /\ (IF pending'[f] = None THEN file'[f]
                                              ELSE pending'[f]).content_at
                                                = v.layout.content_start
                                          /\ Len((IF pending'[f] = None THEN file'[f]
                                                  ELSE pending'[f]).content)
                                                = v.content_length
        BY <1>1 DEF WritersHaveFiles, FileOf, BeingRemoved, Coming
      <3>1. CASE k = n
        <4>1. FileOf(p, k)' = Fresh /\ Fresh \in 1 .. created'
          BY <3>1, <1>0, <1>2, <1>7, <1>8
        <4>2. /\ NewFile(j.content_start) \in ObjectFile
              /\ NewFile(j.content_start).content_at = w.layout.content_start
              /\ Len(NewFile(j.content_start).content) = w.content_length
          <5>1. j.content_start \in Nat
            BY <1>1, LayoutAssumption DEF Job
          <5> QED BY <5>1, <1>6 DEF NewFile, ObjectFile
        <4> QED BY <3>1, <4>1, <4>2, <1>1, <1>2, <1>4, <1>5, <1>6, <1>7
      <3>2. CASE k # n
        <4> DEFINE f == FileOf(p, k)
        <4>1. /\ FileOf(p, k)' = f /\ f # NoFile /\ f \in 1 .. created
              /\ writers[p][k].file # NoFile
          BY <3>2, <1>8
        <4>2. ~BeingRemoved(p, k)
          BY <1>4 DEF BeingRemoved
        <4>3. /\ file[f] \in ObjectFile
              /\ f \notin failed =>
                    /\ Coming(f).content_at = writers[p][k].layout.content_start
                    /\ Len(Coming(f).content) = writers[p][k].content_length
          BY <1>0, <4>1, <4>2 DEF TaskInv, WritersHaveFiles
        <4>4. f \in 1 .. created'
          <5> HIDE DEF f
          <5> QED BY <4>1, <1>0, <1>2
        <4> HIDE DEF f
        <4> QED BY <3>2, <4>1, <4>3, <4>4, <1>1, <1>2 DEF Coming
      <3> QED BY <3>1, <3>2
    <2>2. JobsInStep(p)'
      BY <2>0, <1>1, <1>3, <1>4, <1>6, <1>7 DEF JobsInStep, JobOk
    <2>3. CallsNest(p)'
      <3>1. Refit(p)' = Refit(p)
        BY <2>0 DEF Refit
      <3> QED
        BY <3>1, <1>0, <1>1, <1>4 DEF TaskInv, CallsNest, ForCopy, Publishing
    <2>4. NothingUnderWay(p)'
      BY <2>0, <1>1, <1>4, <1>7 DEF NothingUnderWay
    <2>5. FinishInOrder(p)'
      BY <1>1, <1>4 DEF FinishInOrder, Fitted, PrefixQueued, Settled, Publishing
    <2>6. WritersSync(p)'
      BY <1>0, <1>1 DEF TaskInv, WritersSync, AllSynced
    <2> QED BY <2>1, <2>2, <2>3, <2>4, <2>5, <2>6 DEF TaskInv
  <1>13. \A f \in Files : Shown(f) => Same(f)
    BY <1>10 DEF Shown
  <1>14. FreshUntouched'
    BY <1>0, <1>1, <1>2 DEF AsyncIInv, FreshUntouched, Files
  <1>15. \A q \in Tasks : \A k \in DOMAIN writers[q] :
            FileOf(q, k)' # FileOf(q, k) => FileOf(q, k)' = created + 1
    BY <1>7, <1>8
  <1>16. /\ pending' \in [Files -> ObjectFile \cup {None}] /\ failed' \subseteq Files
         /\ detached' \subseteq detached /\ created <= created'
         /\ \A q \in Tasks : job'[q].kind = job[q].kind /\ TaskInv(q)'
    BY <1>0, <1>1, <1>2, <1>3, <1>11, <1>12 DEF TypeOK
  <1> QED
    BY <1>1, <1>2, <1>3, <1>9, <1>13, <1>14, <1>15, <1>16, PoolStep

LEMMA JobFailsStep ==
    ASSUME AsyncIInv, NEW p \in Tasks, JobFails(p)
    PROVE  AsyncIInv'
  <1> SUFFICES ASSUME NEW j, j = job[p] PROVE AsyncIInv'
    OBVIOUS
  <1>0. TypeOK /\ created \in Nat
    BY FileNumbers DEF AsyncIInv
  <1>1. /\ j.state = "queued" /\ j \in Job
        /\ pc' = pc /\ writers' = writers /\ handle' = handle /\ sent' = sent
        /\ pending' = pending /\ failed' = failed /\ detached' = detached
        /\ created' = created /\ file' = file /\ unsynced' = unsynced
        /\ temps' = temps /\ names' = names
    BY <1>0 DEF JobFails, poolVars, fsVars, TypeOK
  <1>2. /\ job'[p].kind = j.kind /\ job'[p].file = j.file
        /\ job'[p].state = "failed" /\ job'[p].content_start = j.content_start
        /\ job' \in [Tasks -> Job]
        /\ \A q \in Tasks : q # p => job'[q] = job[q]
    <2>1. job' = [job EXCEPT ![p] = [j EXCEPT !.state = "failed"]]
      BY <1>0 DEF JobFails, TypeOK, Job
    <2>2. [j EXCEPT !.state = "failed"] \in Job
      BY <1>1 DEF Job
    <2>3. /\ [j EXCEPT !.state = "failed"].kind = j.kind
          /\ [j EXCEPT !.state = "failed"].file = j.file
          /\ [j EXCEPT !.state = "failed"].state = "failed"
          /\ [j EXCEPT !.state = "failed"].content_start = j.content_start
      BY <1>1 DEF Job
    <2> QED BY <1>0, <2>1, <2>2, <2>3 DEF TypeOK
  <1>3. \A f \in Files : Same(f)
    BY <1>1 DEF Same
  <1>4. ASSUME NEW q \in Tasks
        PROVE  TaskInv(q)'
    <2>1. ASSUME NEW k \in DOMAIN writers[q], FileOf(q, k) # NoFile
          PROVE  Undisturbed(FileOf(q, k))
      BY <2>1, <1>3, SameIsUndisturbed, FileNumbers
      DEF AsyncIInv, TaskInv, WritersHaveFiles
    <2>2. JobsInStep(q)'
      <3>1. JobsInStep(q)
        BY DEF AsyncIInv, TaskInv
      <3>2. Writer(q)' = Writer(q) /\ writers'[q] = writers[q] /\ pc'[q] = pc[q]
        BY <1>1 DEF Writer
      <3>3. CASE q = p
        BY <3>1, <3>2, <3>3, <1>1, <1>2 DEF JobsInStep, JobOk
      <3>4. CASE q # p
        BY <3>1, <3>2, <3>4, <1>2 DEF JobsInStep, JobOk
      <3> QED BY <3>3, <3>4
    <2>3. JobOk(q)' => JobOk(q)
      BY <1>2 DEF JobOk
    <2>4. /\ pc'[q] = pc[q] /\ writers'[q] = writers[q]
          /\ job'[q].file = job[q].file
          /\ handle[q] # None => handle'[q] # None
          /\ created' \in Nat /\ created <= created'
      BY <1>0, <1>1, <1>2
    <2> QED BY <2>1, <2>2, <2>3, <2>4, TaskWaits
  <1>5. \A q \in Tasks : job'[q].kind = job[q].kind /\ job'[q].file = job[q].file
    BY <1>2
  <1>6. \A q \in Tasks : \A k \in DOMAIN writers[q] : FileOf(q, k)' = FileOf(q, k)
    BY <1>1, <1>5 DEF FileOf
  <1>7. WritersApart' /\ FreshUntouched'
    BY <1>1, <1>6 DEF AsyncIInv, WritersApart, FreshUntouched
  <1>8. /\ created' \in 0 .. MaxFiles /\ created <= created'
        /\ file' \in [Files -> ObjectFile \cup {Blank}]
        /\ unsynced' \subseteq Files /\ temps' \subseteq Files
        /\ names' \in [Paths -> Seq(Files \cup {NoFile}) \ {<<>>}]
        /\ pending' \in [Files -> ObjectFile \cup {None}] /\ failed' \subseteq Files
        /\ detached' \subseteq detached
        /\ \A path \in Paths : \A i \in DOMAIN names'[path] :
              names'[path][i] # NoFile => Shown(names'[path][i])
    BY <1>0, <1>1 DEF TypeOK, AsyncIInv, NamesShown
  <1> QED BY <1>1, <1>2, <1>3, <1>4, <1>5, <1>6, <1>7, <1>8, PoolStep

\* A step of the pool that no task waits for.
LEMMA UnawaitedStep ==
    ASSUME AsyncIInv,
           UNCHANGED taskVars, sent' = sent,
           detached' \subseteq detached,
           created' \in 0 .. MaxFiles, created <= created',
           file' \in [Files -> ObjectFile \cup {Blank}],
           unsynced' \subseteq Files, temps' \subseteq Files,
           names' \in [Paths -> Seq(Files \cup {NoFile}) \ {<<>>}],
           pending' \in [Files -> ObjectFile \cup {None}], failed' \subseteq Files,
           \A q \in Tasks : \A k \in DOMAIN writers[q] :
              FileOf(q, k) # NoFile => Undisturbed(FileOf(q, k)),
           \A f \in Files : Shown(f) => Same(f),
           \A path \in Paths : \A i \in DOMAIN names'[path] :
              names'[path][i] # NoFile => Shown(names'[path][i]),
           FreshUntouched'
    PROVE  AsyncIInv'
  <1>0. TypeOK /\ created \in Nat
    BY FileNumbers DEF AsyncIInv
  <1>1. pc' = pc /\ writers' = writers /\ handle' = handle /\ job' = job
    BY DEF taskVars
  <1>2. \A q \in Tasks : TaskInv(q)'
    <2> TAKE q \in Tasks
    <2>1. /\ pc'[q] = pc[q] /\ writers'[q] = writers[q] /\ job'[q] = job[q]
          /\ handle[q] # None => handle'[q] # None
          /\ created' \in Nat /\ created <= created'
      BY <1>0, <1>1
    <2> QED BY <2>1, TaskKept
  <1>3. \A q \in Tasks : \A k \in DOMAIN writers[q] : FileOf(q, k)' = FileOf(q, k)
    BY <1>1 DEF FileOf
  <1>4. WritersApart'
    BY <1>1, <1>3 DEF AsyncIInv, WritersApart
  <1>5. /\ job' \in [Tasks -> Job]
        /\ \A q \in Tasks : job'[q].kind = job[q].kind
        /\ \A q \in Tasks : \A k \in DOMAIN writers[q] :
              FileOf(q, k)' # FileOf(q, k) => FileOf(q, k)' = created + 1
    BY <1>0, <1>1, <1>3 DEF TypeOK
  <1> QED BY <1>1, <1>2, <1>4, <1>5, PoolStep

\* A job nobody waits for: its file is nobody's, or it renames a whole one.
LEMMA DetachedRunsStep ==
    ASSUME AsyncIInv, NEW j \in detached, DetachedRuns(j)
    PROVE  AsyncIInv'
  <1>0. TypeOK /\ created \in Nat /\ 1 .. created \subseteq Files /\ j \in Job
    BY FileNumbers DEF AsyncIInv, TypeOK
  <1>1. /\ UNCHANGED taskVars /\ sent' = sent /\ detached' \subseteq detached
        /\ pending' = pending /\ failed' = failed
        /\ Perform(j) \/ UNCHANGED fsVars
    BY DEF DetachedRuns
  <1>2. /\ created' \in 0 .. MaxFiles /\ created <= created' /\ created' \in Nat
        /\ file' \in [Files -> ObjectFile \cup {Blank}]
        /\ unsynced' \subseteq Files /\ temps' \subseteq Files
        /\ names' \in [Paths -> Seq(Files \cup {NoFile}) \ {<<>>}]
        /\ \A path \in Paths : \A i \in DOMAIN names'[path] :
              names'[path][i] # NoFile => Shown(names'[path][i])
        /\ \A f \in 1 .. created :
              /\ ~(j.kind = "unlink" /\ f = j.file) => file'[f] = file[f]
              /\ f \in unsynced' => f \in unsynced
    <2>1. CASE Perform(j)
      <3>1. j.kind = "rename" => Shown(j.file)
        BY DEF AsyncIInv, DetachedApart
      <3> QED BY <1>0, <2>1, <3>1, PerformEffect
    <2>2. CASE UNCHANGED fsVars
      BY <1>0, <2>2 DEF fsVars, TypeOK, AsyncIInv, NamesShown
    <2> QED BY <1>1, <2>1, <2>2
  <1>3. ASSUME NEW f \in 1 .. created, ~(j.kind = "unlink" /\ f = j.file)
        PROVE  Same(f)
    BY <1>1, <1>2, <1>3 DEF Same
  <1>4. \A q \in Tasks : \A k \in DOMAIN writers[q] :
           FileOf(q, k) # NoFile => Undisturbed(FileOf(q, k))
    BY <1>3, SameIsUndisturbed
    DEF AsyncIInv, TaskInv, WritersHaveFiles, DetachedApart
  <1>5. \A f \in Files : Shown(f) => Same(f)
    BY <1>3 DEF Shown
  <1>6. FreshUntouched'
    BY <1>0, <1>1, <1>2 DEF AsyncIInv, FreshUntouched, Files
  <1>7. pending' \in [Files -> ObjectFile \cup {None}] /\ failed' \subseteq Files
    BY <1>0, <1>1 DEF TypeOK
  <1> QED BY <1>1, <1>2, <1>4, <1>5, <1>6, <1>7, UnawaitedStep

\* A write in the background leaves what its file will hold, or fails.
LEMMA BackgroundWriteStep ==
    ASSUME AsyncIInv, NEW f \in Files, WriteRuns(f) \/ WriteFails(f)
    PROVE  AsyncIInv'
  <1>0. TypeOK /\ created \in Nat /\ created \in 0 .. MaxFiles
    BY FileNumbers DEF AsyncIInv, TypeOK
  <1>1. /\ UNCHANGED taskVars /\ sent' = sent /\ detached' = detached
        /\ pending[f] # None /\ pending' = [pending EXCEPT ![f] = None]
        /\ created' = created /\ temps' = temps /\ names' = names
        /\ \/ /\ file' = [file EXCEPT ![f] = pending[f]]
              /\ unsynced' = unsynced \cup {f} /\ failed' = failed
           \/ file' = file /\ unsynced' = unsynced /\ failed' = failed \cup {f}
    BY DEF WriteRuns, WriteFails, WriteFile, fsVars
  <1>2. pending[f] \in ObjectFile
    BY <1>0, <1>1 DEF TypeOK
  <1>3. /\ file' \in [Files -> ObjectFile \cup {Blank}]
        /\ unsynced' \subseteq Files /\ temps' \subseteq Files
        /\ names' \in [Paths -> Seq(Files \cup {NoFile}) \ {<<>>}]
        /\ pending' \in [Files -> ObjectFile \cup {None}] /\ failed' \subseteq Files
    BY <1>0, <1>1, <1>2 DEF TypeOK
  <1>4. ASSUME NEW g \in Files, g # f
        PROVE  Same(g)
    BY <1>0, <1>1, <1>4 DEF Same, TypeOK
  <1>5. Undisturbed(f)
    BY <1>0, <1>1, <1>2 DEF Undisturbed, Coming, TypeOK
  <1>6. \A q \in Tasks : \A k \in DOMAIN writers[q] :
           FileOf(q, k) # NoFile => Undisturbed(FileOf(q, k))
    BY <1>4, <1>5, SameIsUndisturbed, FileNumbers
    DEF AsyncIInv, TaskInv, WritersHaveFiles
  <1>7. \A g \in Files : Shown(g) => Same(g)
    BY <1>1, <1>4 DEF Shown
  <1>8. FreshUntouched'
    BY <1>0, <1>1 DEF AsyncIInv, FreshUntouched, TypeOK
  <1>9. /\ created' \in 0 .. MaxFiles /\ created <= created' /\ detached' \subseteq detached
        /\ \A path \in Paths : \A i \in DOMAIN names'[path] :
              names'[path][i] # NoFile => Shown(names'[path][i])
    BY <1>0, <1>1 DEF AsyncIInv, NamesShown
  <1> QED BY <1>1, <1>3, <1>6, <1>7, <1>8, <1>9, UnawaitedStep

-----------------------------------------------------------------------------
(* Crashes.                                                                *)

\* Once every task has ended, what is named is still whole if its bytes are.
LEMMA ForgetStep ==
    ASSUME AsyncIInv, Forget, created' = created,
           file' \in [Files -> ObjectFile \cup {Blank}],
           unsynced' \subseteq unsynced, temps' \subseteq temps,
           names' \in [Paths -> Seq(Files \cup {NoFile}) \ {<<>>}],
           \A path \in Paths : \A i \in DOMAIN names'[path] :
              names'[path][i] # NoFile => Shown(names'[path][i]),
           \A f \in Files : Shown(f) => file'[f] = file[f]
    PROVE  AsyncIInv'
  <1>0. TypeOK /\ 1 .. created \subseteq Files
    BY FileNumbers DEF AsyncIInv
  <1>1. /\ \A p \in Tasks : /\ pc'[p] = "idle" /\ writers'[p] = <<>>
                            /\ handle'[p] = None /\ job'[p] = NoJob
        /\ detached' = {} /\ failed' = {} /\ sent' = sent
        /\ \A f \in Files : pending'[f] = None
    BY DEF Forget
  <1>2. TypeOK'
    <2>1. /\ pc' \in [Tasks -> Locations]
          /\ writers' \in [Tasks -> Seq(AsyncObjectWriter)]
          /\ handle' \in [Tasks -> TuxObject \cup {None}]
          /\ job' \in [Tasks -> Job]
          /\ pending' \in [Files -> ObjectFile \cup {None}]
      BY JobTypes DEF Forget, Locations
    <2>2. \A q \in Tasks :
             /\ Len(writers'[q]) <= 2
             /\ pc'[q] = "idle" <=> writers'[q] = <<>>
             /\ job'[q].kind # "none" =>
                   pc'[q] \in {"creating", "syncing", "renaming", "syncdir",
                               "cleaning", "aborting"}
      BY <1>1, JobTypes
    <2> QED BY <1>0, <1>1, <2>1, <2>2 DEF TypeOK
  <1>3. \A p \in Tasks : TaskInv(p)'
    BY <1>1, IdleTask
  <1>4. ASSUME NEW f, Shown(f)
        PROVE  Shown(f)'
    <2>1. f \in 1 .. created' /\ f \in Files /\ file'[f] = file[f]
      BY <1>0, <1>4 DEF Shown
    <2>2. Complete(f)'
      BY <1>4, <2>1 DEF Shown, Complete
    <2>3. AllSynced' => f \notin unsynced'
      BY <1>4 DEF Shown, AllSynced
    <2> QED BY <1>1, <2>1, <2>2, <2>3 DEF Shown
  <1>5. NamesShown'
    BY <1>4 DEF NamesShown
  <1>6. WritersApart' /\ HandlesShown' /\ DetachedApart' /\ FreshUntouched'
    BY <1>1 DEF WritersApart, HandlesShown, DetachedApart, FreshUntouched
  <1> QED BY <1>2, <1>3, <1>5, <1>6 DEF AsyncIInv

LEMMA KillStep ==
    ASSUME AsyncIInv, Kill
    PROVE  AsyncIInv'
  <1>1. /\ Forget /\ created' = created /\ file' = file /\ unsynced' = unsynced
        /\ temps' = temps /\ names' = names
    BY DEF Kill, fsVars
  <1>2. /\ file' \in [Files -> ObjectFile \cup {Blank}]
        /\ unsynced' \subseteq unsynced /\ temps' \subseteq temps
        /\ names' \in [Paths -> Seq(Files \cup {NoFile}) \ {<<>>}]
        /\ \A path \in Paths : \A i \in DOMAIN names'[path] :
              names'[path][i] # NoFile => Shown(names'[path][i])
        /\ \A f \in Files : Shown(f) => file'[f] = file[f]
    BY <1>1 DEF AsyncIInv, TypeOK, NamesShown
  <1> QED BY <1>1, <1>2, ForgetStep

LEMMA PowerStep ==
    ASSUME AsyncIInv, AllSynced, PowerLoss
    PROVE  AsyncIInv'
  <1>0. TypeOK
    BY DEF AsyncIInv
  <1>1. PICK kept \in [Paths -> Files \cup {NoFile}], lost \in SUBSET unsynced :
            /\ \A path \in Paths :
                   \E k \in DOMAIN names[path] : kept[path] = names[path][k]
            /\ names' = [path \in Paths |-> <<kept[path]>>]
            /\ file' = [f \in Files |-> IF f \in lost THEN Blank ELSE file[f]]
            /\ unsynced' = {} /\ temps' = {} /\ created' = created
    BY DEF PowerLoss, PowerIsLost
  <1>2. file' \in [Files -> ObjectFile \cup {Blank}]
    BY <1>0, <1>1 DEF TypeOK
  <1>3. \A f \in Files : Shown(f) => file'[f] = file[f]
    BY <1>1 DEF Shown
  <1>4. ASSUME NEW path \in Paths
        PROVE  /\ names'[path] \in Seq(Files \cup {NoFile}) \ {<<>>}
               /\ \A i \in DOMAIN names'[path] :
                     names'[path][i] # NoFile => Shown(names'[path][i])
    <2>1. kept[path] \in Files \cup {NoFile} /\ names'[path] = <<kept[path]>>
      BY <1>1
    <2>2. kept[path] # NoFile => Shown(kept[path])
      BY <1>1 DEF AsyncIInv, NamesShown
    <2> QED BY <2>1, <2>2
  <1>5. names' \in [Paths -> Seq(Files \cup {NoFile}) \ {<<>>}]
    BY <1>1, <1>4
  <1>6. Forget /\ unsynced' \subseteq unsynced /\ temps' \subseteq temps
    BY <1>1 DEF PowerLoss
  <1> QED BY <1>1, <1>2, <1>3, <1>4, <1>5, <1>6, ForgetStep

-----------------------------------------------------------------------------
(* The theorems.                                                           *)

\* Power is lost only where every writer syncs.
PowerSafe == "power" \in Faults => AllSynced

LEMMA InitAsyncIInv == Init => AsyncIInv
  <1> SUFFICES ASSUME Init PROVE AsyncIInv
    OBVIOUS
  <1> USE DEF Init, FsInit
  <1>1. TypeOK
    <2>1. created \in 0 .. MaxFiles
      BY FileSystemAssumption
    <2>2. <<NoFile>> \in Seq(Files \cup {NoFile}) /\ <<NoFile>> # <<>>
      OBVIOUS
    <2>3. names \in [Paths -> Seq(Files \cup {NoFile}) \ {<<>>}]
      BY <2>2
    <2>4. /\ pc \in [Tasks -> Locations]
          /\ writers \in [Tasks -> Seq(AsyncObjectWriter)]
          /\ handle \in [Tasks -> TuxObject \cup {None}]
          /\ job \in [Tasks -> Job]
          /\ pending \in [Files -> ObjectFile \cup {None}]
          /\ sent \in [Files -> Seq(Pieces)]
          /\ \A p \in Tasks : job[p].kind = "none"
      BY JobTypes DEF Locations
    <2>5. \A p \in Tasks : Len(writers[p]) <= 2
      BY <2>4
    <2> QED BY <2>1, <2>3, <2>4, <2>5 DEF TypeOK
  <1>2. \A p \in Tasks : TaskInv(p)
    BY DEF TaskInv, WritersHaveFiles, JobsInStep, CallsNest, NothingUnderWay,
           FinishInOrder, WritersSync, Settled, PrefixQueued, Fitted, Publishing,
           ForCopy
  <1>3. NamesShown
    BY DEF NamesShown
  <1>4. WritersApart /\ HandlesShown /\ DetachedApart /\ FreshUntouched
    BY DEF WritersApart, HandlesShown, DetachedApart, FreshUntouched
  <1> QED BY <1>1, <1>2, <1>3, <1>4 DEF AsyncIInv

\* Nothing happens.
LEMMA StutterStep ==
    ASSUME AsyncIInv, UNCHANGED vars
    PROVE  AsyncIInv'
  <1>0. TypeOK /\ created \in Nat
    BY FileNumbers DEF AsyncIInv
  <1>1. /\ UNCHANGED taskVars /\ sent' = sent /\ detached' = detached
        /\ pending' = pending /\ failed' = failed /\ created' = created
        /\ file' = file /\ unsynced' = unsynced /\ temps' = temps /\ names' = names
    BY DEF vars, fsVars, poolVars
  <1>2. /\ created' \in 0 .. MaxFiles /\ created <= created'
        /\ detached' \subseteq detached
        /\ file' \in [Files -> ObjectFile \cup {Blank}]
        /\ unsynced' \subseteq Files /\ temps' \subseteq Files
        /\ names' \in [Paths -> Seq(Files \cup {NoFile}) \ {<<>>}]
        /\ pending' \in [Files -> ObjectFile \cup {None}] /\ failed' \subseteq Files
        /\ \A path \in Paths : \A i \in DOMAIN names'[path] :
              names'[path][i] # NoFile => Shown(names'[path][i])
    BY <1>0, <1>1 DEF TypeOK, AsyncIInv, NamesShown
  <1>3. \A f : Same(f) /\ Undisturbed(f)
    <2> TAKE f
    <2>1. Same(f)
      BY <1>1 DEF Same
    <2> QED BY <2>1, SameIsUndisturbed
  <1>4. FreshUntouched'
    BY <1>1 DEF AsyncIInv, FreshUntouched
  <1> QED BY <1>1, <1>2, <1>3, <1>4, UnawaitedStep

LEMMA NextAsyncIInv ==
    ASSUME ~GoOn, PowerSafe, AsyncIInv, [Next]_vars
    PROVE  AsyncIInv'
  <1>1. CASE UNCHANGED vars
    BY <1>1, StutterStep
  <1>2. CASE Kill \/ PowerLoss
    BY <1>2, KillStep, PowerStep DEF PowerLoss, PowerSafe
  <1>3. ASSUME NEW p \in Tasks,
               \/ \E path \in Paths, writable \in BOOLEAN :
                      Open(p, path, writable)
               \/ Close(p)
               \/ CallRefused(p)
        PROVE  AsyncIInv'
    BY <1>3, OpenStep, CloseStep, StutterStep DEF CallRefused
  <1>4. ASSUME NEW p \in Tasks,
               \/ \E path \in Paths, options \in LayoutChoices, sync \in Syncs,
                     m \in Metadata, t \in Tags :
                      CallerCreates(p, path, options, sync, m, t)
               \/ FinishByRewriting(p)
               \/ Created(p)
        PROVE  AsyncIInv'
    BY <1>4, CallerCreatesStep, FinishByRewritingStep, CreatedStep
  <1>5. ASSUME NEW p \in Tasks,
               \/ \E m \in Metadata : SetMetadata(p, m)
               \/ \E t \in Tags : SetTags(p, t)
               \/ \E m \in Metadata, t \in Tags : SetSections(p, m, t)
        PROVE  AsyncIInv'
    BY <1>5, SettersStep
  <1>6. ASSUME NEW p \in Tasks,
               \/ \E chunk \in Chunks : Write(p, chunk)
               \/ \E m \in Metadata, t \in Tags : Mutate(p, m, t)
               \/ SourceFlushed(p)
               \/ Copy(p)
        PROVE  AsyncIInv'
    BY <1>6, WriteStep, MutateStep, SourceFlushedStep, CopyStep
  <1>7. ASSUME NEW p \in Tasks,
               \/ Finish(p) \/ Flushed(p) \/ PrefixFlushed(p) \/ Synced(p)
               \/ Renamed(p) \/ ParentSynced(p) \/ CleanUp(p) \/ Return(p)
        PROVE  AsyncIInv'
    BY <1>7, FinishStep, FlushedStep, PrefixFlushedStep, SyncedStep, RenamedStep,
       ParentSyncedStep, CleanUpStep, ReturnStep
  <1>8. ASSUME NEW p \in Tasks,
               \/ WriteErrs(p) \/ Abandon(p) \/ Aborted(p) \/ RewritingFails(p)
               \/ CallFails(p) \/ Abort(p) \/ Cancel(p)
        PROVE  AsyncIInv'
    BY <1>8, EndingsStep, AbortStep, CancelStep
  <1>9. CASE Pool
    BY <1>9, JobRunsStep, JobCreatesStep, JobFailsStep, DetachedRunsStep,
       BackgroundWriteStep DEF Pool
  <1> QED
    BY <1>1, <1>2, <1>3, <1>4, <1>5, <1>6, <1>7, <1>8, <1>9 DEF Next

\* The invariant, for any number of tasks, paths and files, in any mix of
\* failures, dropped futures, crashes and power losses, if callers drop a writer
\* whose write failed and writers sync wherever power may be lost.
THEOREM AsyncInvariant == ASSUME ~GoOn, PowerSafe PROVE Spec => []AsyncIInv
  <1>1. Init => AsyncIInv
    BY InitAsyncIInv
  <1>2. AsyncIInv /\ [Next]_vars => AsyncIInv'
    BY NextAsyncIInv
  <1> QED BY <1>1, <1>2, PTL DEF Spec

\* Every variable keeps its type, and a future waits for a job only at an await
\* that has one.
THEOREM AsyncTypeCorrect == ASSUME ~GoOn, PowerSafe PROVE Spec => []TypeOK
  <1>1. AsyncIInv => TypeOK
    BY DEF AsyncIInv
  <1> QED BY <1>1, AsyncInvariant, PTL

\* A path names a whole object or nothing (async_io.rs:579-587 writes the prefix
\* before the rename), although writes go to the background, jobs run after
\* their future was dropped, and calls fail or are cut short at any await.
THEOREM AsyncNamedObjectsAreWhole ==
    ASSUME ~GoOn, PowerSafe PROVE Spec => []PublishedComplete
  <1>1. AsyncIInv => PublishedComplete
    BY CurrentIsAName DEF AsyncIInv, PublishedComplete, Shown
  <1> QED BY <1>1, AsyncInvariant, PTL

\* What an open AsyncTuxObject remembers is what its file holds, also after a
\* setter was dropped half way (async_io.rs:266).
THEOREM AsyncHandlesAreFaithful ==
    ASSUME ~GoOn, PowerSafe PROVE Spec => []HandlesFaithful
  <1>1. AsyncIInv => HandlesFaithful
    BY DEF AsyncIInv, HandlesShown, HandlesFaithful, Shown
  <1> QED BY <1>1, AsyncInvariant, PTL

-----------------------------------------------------------------------------
(* What was written arrives.                                               *)

\* Live files were created.
LEMMA LiveWasCreated ==
    ASSUME AsyncIInv, NEW f \in Files, Live(f)
    PROVE  f \in 1 .. created
  <1>0. NoFile \notin Files
    BY FileNumbers DEF AsyncIInv
  <1>1. ASSUME NEW p \in Tasks, f \in Held(p)
        PROVE  f \in 1 .. created
    BY <1>0, <1>1 DEF Held, AsyncIInv, TaskInv, WritersHaveFiles
  <1>2. ASSUME NEW p \in Tasks, handle[p] # None, f = handle[p].file
        PROVE  f \in 1 .. created
    BY <1>2 DEF AsyncIInv, HandlesShown, Shown
  <1>3. ASSUME NEW path \in Paths, NEW i \in DOMAIN names[path], f = names[path][i]
        PROVE  f \in 1 .. created
    BY <1>0, <1>3 DEF AsyncIInv, NamesShown, Shown
  <1>4. ASSUME NEW j \in detached, j.kind = "rename", f = j.file
        PROVE  f \in 1 .. created
    BY <1>4 DEF AsyncIInv, DetachedApart, Shown
  <1> QED BY <1>1, <1>2, <1>3, <1>4 DEF Live

\* A live file is shown, or is a writer's.
LEMMA LiveIsShownOrHeld ==
    ASSUME AsyncIInv, NEW f \in Files, Live(f),
           \A p \in Tasks : f \notin Held(p)
    PROVE  Shown(f)
  <1>1. NoFile \notin Files
    BY FileNumbers DEF AsyncIInv
  <1> QED BY <1>1 DEF Live, AsyncIInv, NamesShown, HandlesShown, DetachedApart

\* A step that keeps the content of what stays live keeps SentArrives.
LEMMA SentKept ==
    ASSUME AsyncIInv, SentArrives, created' = created, sent' = sent,
           \A f \in 1 .. created : Live(f)' =>
              /\ Live(f)
              /\ f \notin failed' =>
                    f \notin failed /\ Coming(f)'.content = Coming(f).content
    PROVE  SentArrives'
  BY DEF SentArrives

\* The same of a step that leaves the file system and the background alone.
LEMMA SentUntouched ==
    ASSUME AsyncIInv, SentArrives, NEW p \in Tasks,
           \A q \in Tasks : q # p =>
              /\ pc'[q] = pc[q] /\ writers'[q] = writers[q]
              /\ job'[q] = job[q] /\ handle'[q] = handle[q],
           Held(p)' \subseteq Held(p) \cup {NoFile},
           handle'[p] # None => Live(handle'[p].file),
           \A j \in detached' : j.kind = "rename" => Live(j.file),
           UNCHANGED <<created, file, names, pending, failed, sent>>
    PROVE  SentArrives'
  <1>0. NoFile \notin Files /\ 1 .. created \subseteq Files
    BY FileNumbers DEF AsyncIInv
  <1>1. ASSUME NEW f \in 1 .. created, Live(f)'
        PROVE  Live(f)
    <2>1. ASSUME NEW q \in Tasks, f \in Held(q)'
          PROVE  Live(f)
      <3>1. CASE q = p
        BY <1>0, <2>1, <3>1 DEF Live
      <3>2. CASE q # p
        <4>1. Held(q)' = Held(q)
          BY <3>2 DEF Held, FileOf, BeingRemoved
        <4> QED BY <2>1, <4>1 DEF Live
      <3> QED BY <3>1, <3>2
    <2>2. ASSUME NEW q \in Tasks, handle'[q] # None, f = handle'[q].file
          PROVE  Live(f)
      BY <2>2 DEF Live
    <2>3. ASSUME NEW path \in Paths, NEW i \in DOMAIN names'[path], f = names'[path][i]
          PROVE  Live(f)
      BY <2>3 DEF Live
    <2>4. ASSUME NEW j \in detached', j.kind = "rename", f = j.file
          PROVE  Live(f)
      BY <2>4
    <2> QED BY <1>1, <2>1, <2>2, <2>3, <2>4 DEF Live
  <1>2. ASSUME NEW f \in 1 .. created
        PROVE  /\ f \notin failed' => f \notin failed
               /\ Coming(f)'.content = Coming(f).content
    BY DEF Coming
  <1> QED BY <1>1, <1>2, SentKept

\* What a step of a call that goes on holds was held before.
LEMMA HeldBefore ==
    ASSUME NEW p \in Tasks, pc[p] \notin {"creating", "cleaning", "aborting"},
           DOMAIN writers'[p] = DOMAIN writers[p],
           \A k \in DOMAIN writers[p] : writers'[p][k].file = writers[p][k].file,
           \A k \in DOMAIN writers[p] : writers[p][k].file # NoFile
    PROVE  Held(p)' \subseteq Held(p)
  BY DEF Held, FileOf, BeingRemoved

\* The same of an action that assigns to the innermost writer and waits for a
\* job, or does not.
LEMMA SentQuiet ==
    ASSUME AsyncIInv, SentArrives, NEW p \in Tasks, NEW w, w = Writer(p),
           NEW w2 \in AsyncObjectWriter, NEW loc, NEW j2,
           pc[p] \notin {"idle", "creating", "cleaning", "aborting"},
           pc' = [pc EXCEPT ![p] = loc],
           job' = [job EXCEPT ![p] = j2],
           SetWriter(p, w2) \/ (writers' = writers /\ w2 = w),
           w2.file = w.file,
           UNCHANGED <<fsVars, handle, poolVars, sent>>
    PROVE  SentArrives'
  <1>0. TypeOK /\ TaskInv(p)
    BY DEF AsyncIInv
  <1>1. InnermostBecomes(p, w2)
    BY WriterAfter
  <1>2. Len(writers[p]) \in DOMAIN writers[p] /\ w = writers[p][Len(writers[p])]
    BY <1>0, InnermostWriter
  <1>3. \A k \in DOMAIN writers[p] : writers[p][k].file # NoFile
    BY <1>0 DEF TaskInv, WritersHaveFiles
  <1>4. /\ DOMAIN writers'[p] = DOMAIN writers[p]
        /\ \A k \in DOMAIN writers[p] : writers'[p][k].file = writers[p][k].file
    BY <1>1, <1>2 DEF InnermostBecomes
  <1>5. Held(p)' \subseteq Held(p)
    BY <1>3, <1>4, HeldBefore
  <1>6. \A q \in Tasks : q # p =>
           /\ pc'[q] = pc[q] /\ writers'[q] = writers[q]
           /\ job'[q] = job[q] /\ handle'[q] = handle[q]
    BY <1>0, <1>1 DEF InnermostBecomes, TypeOK
  <1>7. /\ handle'[p] # None => Live(handle'[p].file)
        /\ \A j \in detached' : j.kind = "rename" => Live(j.file)
    BY DEF Live, poolVars
  <1>8. UNCHANGED <<created, file, names, pending, failed, sent>>
    BY DEF fsVars, poolVars
  <1> QED BY <1>5, <1>6, <1>7, <1>8, SentUntouched

\* The actions of a call that change only its writer and where it waits.
LEMMA SentByCalls ==
    ASSUME AsyncIInv, SentArrives, NEW p \in Tasks,
           \/ \E m \in Metadata, t \in Tags : Mutate(p, m, t)
           \/ Abort(p) \/ Finish(p) \/ SourceFlushed(p) \/ PrefixFlushed(p)
           \/ Synced(p) \/ Renamed(p) \/ ParentSynced(p)
    PROVE  SentArrives'
  <1> SUFFICES ASSUME NEW w, w = Writer(p) PROVE SentArrives'
    OBVIOUS
  <1>0. TypeOK
    BY DEF AsyncIInv
  <1>1. pc[p] \notin {"idle", "creating", "cleaning", "aborting"}
    BY DEF Mutate, Abort, Finish, AtFinish, SourceFlushed, PrefixFlushed, Synced,
           Renamed, ParentSynced
  <1>2. /\ w \in AsyncObjectWriter
        /\ job = [job EXCEPT ![p] = job[p]] /\ pc = [pc EXCEPT ![p] = pc[p]]
    BY <1>1, WriterFacts
  <1>3. ASSUME NEW m \in Metadata, NEW t \in Tags, Mutate(p, m, t)
        PROVE  SentArrives'
    <2> DEFINE w2 == [w EXCEPT !.metadata = m, !.tags = t]
    <2>1. w2 \in AsyncObjectWriter /\ w2.file = w.file
      BY <1>2 DEF AsyncObjectWriter
    <2>2. /\ SetWriter(p, w2)
          /\ pc' = [pc EXCEPT ![p] = pc[p]] /\ job' = [job EXCEPT ![p] = job[p]]
          /\ UNCHANGED <<fsVars, handle, poolVars, sent>>
      BY <1>2, <1>3 DEF Mutate
    <2> HIDE DEF w2
    <2> QED BY <1>1, <2>1, <2>2, SentQuiet
  <1>4. CASE Abort(p)
    <2> DEFINE w2 == [w EXCEPT !.temp_path = FALSE]
               j2 == FileJob("unlink", w.file)
    <2>1. w2 \in AsyncObjectWriter /\ w2.file = w.file
      BY <1>2 DEF AsyncObjectWriter
    <2>2. /\ SetWriter(p, w2)
          /\ pc' = [pc EXCEPT ![p] = "aborting"] /\ job' = [job EXCEPT ![p] = j2]
          /\ UNCHANGED <<fsVars, handle, poolVars, sent>>
      BY <1>4 DEF Abort, Await, Goto
    <2> HIDE DEF w2, j2
    <2> QED BY <1>1, <2>1, <2>2, SentQuiet
  <1>5. CASE Finish(p)
    <2> DEFINE w2 == [w EXCEPT !.layout = Refit(p)]
    <2>1. Refit(p) \in SectionLayout
      <3>1. /\ w.layout \in SectionLayout /\ w.layout_options \in LayoutOptions
            /\ w.metadata \in Metadata /\ w.tags \in Tags
        BY <1>2 DEF AsyncObjectWriter
      <3>2. w.layout.content_start \in 0 .. U32Max /\ w.layout_options.alignment \in Nat
        BY <3>1 DEF SectionLayout, LayoutOptions
      <3>3. Size[w.metadata] \in Nat /\ Size[w.tags] \in Nat
        BY <3>1, SizesAreNaturals
      <3>4. w.layout.content_start \in Nat
        BY <3>2, LayoutAssumption
      <3> QED BY <1>5, <3>2, <3>3, <3>4, RepartitionSound DEF Finish, Refit
    <2>2. w2 \in AsyncObjectWriter /\ w2.file = w.file
      BY <1>2, <2>1 DEF AsyncObjectWriter
    <2>3. /\ SetWriter(p, w2)
          /\ pc' = [pc EXCEPT ![p] = "flush"] /\ job' = [job EXCEPT ![p] = job[p]]
          /\ UNCHANGED <<fsVars, handle, poolVars, sent>>
      BY <1>2, <1>5 DEF Finish, Goto
    <2> HIDE DEF w2
    <2> QED BY <1>1, <2>2, <2>3, SentQuiet
  <1>6. CASE SourceFlushed(p)
    <2>1. /\ writers' = writers
          /\ pc' = [pc EXCEPT ![p] = "copying"] /\ job' = [job EXCEPT ![p] = job[p]]
          /\ UNCHANGED <<fsVars, handle, poolVars, sent>>
      BY <1>2, <1>6 DEF SourceFlushed, Goto
    <2> QED BY <1>1, <1>2, <2>1, SentQuiet
  <1>7. ASSUME StartRename(p), UNCHANGED <<fsVars, handle, poolVars, sent>>
        PROVE  SentArrives'
    <2> DEFINE w2 == [w EXCEPT !.temp_path = FALSE]
               j2 == [FileJob("rename", w.file) EXCEPT !.path = w.final_path]
    <2>1. w2 \in AsyncObjectWriter /\ w2.file = w.file
      BY <1>2 DEF AsyncObjectWriter
    <2>2. /\ SetWriter(p, w2)
          /\ pc' = [pc EXCEPT ![p] = "renaming"] /\ job' = [job EXCEPT ![p] = j2]
      BY <1>7 DEF StartRename, Await, Goto
    <2> HIDE DEF w2, j2
    <2> QED BY <1>1, <1>7, <2>1, <2>2, SentQuiet
  <1>8. CASE PrefixFlushed(p)
    <2>1. CASE w.sync
      <3> DEFINE j2 == FileJob("fsync", w.file)
      <3>1. /\ writers' = writers
            /\ pc' = [pc EXCEPT ![p] = "syncing"] /\ job' = [job EXCEPT ![p] = j2]
            /\ UNCHANGED <<fsVars, handle, poolVars, sent>>
        BY <1>8, <2>1 DEF PrefixFlushed, Await, Goto
      <3> HIDE DEF j2
      <3> QED BY <1>1, <1>2, <3>1, SentQuiet
    <2>2. CASE ~w.sync
      BY <1>7, <1>8, <2>2 DEF PrefixFlushed
    <2> QED BY <2>1, <2>2
  <1>9. CASE Synced(p)
    BY <1>7, <1>9 DEF Synced
  <1>10. CASE Renamed(p) \/ ParentSynced(p)
    <2>1. PICK loc \in {"syncdir", "reopen"}, j2 \in {NoJob, FileJob("syncdir", NoFile)} :
             pc' = [pc EXCEPT ![p] = loc] /\ job' = [job EXCEPT ![p] = j2]
      BY <1>10 DEF Renamed, ParentSynced, Await, Goto
    <2>2. writers' = writers /\ UNCHANGED <<fsVars, handle, poolVars, sent>>
      BY <1>10 DEF Renamed, ParentSynced
    <2> QED BY <1>1, <1>2, <2>1, <2>2, SentQuiet
  <1> QED BY <1>3, <1>4, <1>5, <1>6, <1>8, <1>9, <1>10

\* An object is opened, or closed.
LEMMA SentByHandles ==
    ASSUME AsyncIInv, SentArrives, NEW p \in Tasks,
           \/ \E path \in Paths, writable \in BOOLEAN : Open(p, path, writable)
           \/ Close(p)
    PROVE  SentArrives'
  <1>0. TypeOK
    BY DEF AsyncIInv
  <1>1. UNCHANGED <<fsVars, pc, writers, job, poolVars, sent>>
    BY DEF Open, Close
  <1>2. Held(p)' \subseteq Held(p)
    BY <1>1 DEF Held, FileOf, BeingRemoved
  <1>3. \A q \in Tasks : q # p => handle'[q] = handle[q]
    BY <1>0 DEF Open, Close, TypeOK
  <1>4. handle'[p] # None => Live(handle'[p].file)
    <2>1. ASSUME NEW path \in Paths, NEW writable \in BOOLEAN, Open(p, path, writable)
          PROVE  Live(handle'[p].file)
      <3>1. handle'[p].file = Current(path)
        BY <1>0, <2>1 DEF Open, TypeOK
      <3> QED BY <3>1, CurrentIsAName DEF Live, Current
    <2>2. CASE Close(p)
      BY <1>0, <2>2 DEF Close, TypeOK
    <2> QED BY <2>1, <2>2
  <1>5. \A j \in detached' : j.kind = "rename" => Live(j.file)
    BY <1>1 DEF Live, poolVars
  <1>6. UNCHANGED <<created, file, names, pending, failed, sent>>
    BY <1>1 DEF fsVars, poolVars
  <1> QED BY <1>1, <1>2, <1>3, <1>4, <1>5, <1>6, SentUntouched

\* A writer that is being created has no file.
LEMMA SentByCreate ==
    ASSUME AsyncIInv, SentArrives, NEW p \in Tasks, NEW path, NEW options,
           NEW sync, NEW m, NEW t, pc[p] \in {"idle", "writing", "copyflush"},
           Create(p, writers[p], path, options, sync, m, t)
    PROVE  SentArrives'
  <1>0. TypeOK /\ TaskInv(p)
    BY DEF AsyncIInv
  <1>1. PICK w2 : w2.file = NoFile /\ writers' = [writers EXCEPT ![p] = Append(writers[p], w2)]
    BY DEF Create
  <1>2. PICK start :
            job' = [job EXCEPT ![p] = [FileJob("create", NoFile) EXCEPT
                                           !.content_start = start]]
    BY DEF Create, Await
  <1>3. job'[p].file = NoFile
    BY <1>0, <1>2 DEF TypeOK, FileJob
  <1>4. /\ pc' = [pc EXCEPT ![p] = "creating"]
        /\ UNCHANGED <<fsVars, handle, poolVars, sent>>
    BY DEF Create, Await, Goto
  <1>5. Held(p)' \subseteq Held(p) \cup {NoFile}
    <2>1. pc'[p] = "creating"
      BY <1>0, <1>4 DEF TypeOK
    <2>2. /\ DOMAIN writers'[p] = DOMAIN writers[p] \cup {Len(writers[p]) + 1}
          /\ writers'[p][Len(writers[p]) + 1].file = NoFile
          /\ \A k \in DOMAIN writers[p] : writers'[p][k] = writers[p][k]
      <3>1. writers[p] \in Seq(AsyncObjectWriter)
        BY <1>0 DEF TypeOK
      <3>2. writers'[p] = Append(writers[p], w2)
        BY <1>0, <1>1 DEF TypeOK
      <3> QED BY <1>1, <3>1, <3>2
    <2>3. \A k \in DOMAIN writers[p] : writers[p][k].file # NoFile
      BY <1>0 DEF TaskInv, WritersHaveFiles
    <2>4. \A k \in DOMAIN writers[p] : ~BeingRemoved(p, k)
      BY DEF BeingRemoved
    <2>5. ASSUME NEW k \in DOMAIN writers'[p]
          PROVE  FileOf(p, k)' \in Held(p) \cup {NoFile}
      <3>1. CASE k \in DOMAIN writers[p]
        BY <2>2, <2>3, <2>4, <3>1 DEF FileOf, Held
      <3>2. CASE k = Len(writers[p]) + 1
        BY <1>3, <2>2, <3>2 DEF FileOf
      <3> QED BY <2>2, <3>1, <3>2
    <2> QED BY <2>5 DEF Held
  <1>6. \A q \in Tasks : q # p =>
           /\ pc'[q] = pc[q] /\ writers'[q] = writers[q]
           /\ job'[q] = job[q] /\ handle'[q] = handle[q]
    BY <1>0, <1>1, <1>2, <1>4 DEF TypeOK
  <1>7. /\ handle'[p] # None => Live(handle'[p].file)
        /\ \A j \in detached' : j.kind = "rename" => Live(j.file)
    BY <1>4 DEF Live, poolVars
  <1>8. UNCHANGED <<created, file, names, pending, failed, sent>>
    BY <1>4 DEF fsVars, poolVars
  <1> QED BY <1>5, <1>6, <1>7, <1>8, SentUntouched

\* create, of a caller, of finish, or of a setter.
LEMMA SentByCreates ==
    ASSUME AsyncIInv, SentArrives, NEW p \in Tasks,
           \/ \E path \in Paths, options \in LayoutChoices, sync \in Syncs,
                 m \in Metadata, t \in Tags :
                  CallerCreates(p, path, options, sync, m, t)
           \/ FinishByRewriting(p)
           \/ \E m \in Metadata : SetMetadata(p, m)
           \/ \E t \in Tags : SetTags(p, t)
           \/ \E m \in Metadata, t \in Tags : SetSections(p, m, t)
    PROVE  SentArrives'
  <1>0. TypeOK
    BY DEF AsyncIInv
  <1>1. ASSUME NEW m, NEW t, Rewrite(p, m, t)
        PROVE  SentArrives'
    <2>1. pc[p] = "idle" /\ writers[p] = <<>>
      BY <1>0, <1>1 DEF Rewrite, TypeOK
    <2> DEFINE h == handle[p]
               options == [DefaultOptions EXCEPT
                              !.min_content_start = h.header.content_start]
    <2>2. PICK sync : sync = TRUE
      OBVIOUS
    <2>3. Create(p, writers[p], h.path, options, sync, m, t)
      BY <1>1, <2>1, <2>2 DEF Rewrite
    <2> HIDE DEF h, options
    <2> QED BY <2>1, <2>3, SentByCreate
  <1>2. ASSUME NEW path \in Paths, NEW options \in LayoutChoices, NEW sync \in Syncs,
               NEW m \in Metadata, NEW t \in Tags,
               CallerCreates(p, path, options, sync, m, t)
        PROVE  SentArrives'
    <2>1. pc[p] = "idle" /\ writers[p] = <<>>
      BY <1>0, <1>2 DEF CallerCreates, TypeOK
    <2> QED BY <1>2, <2>1, SentByCreate DEF CallerCreates
  <1>3. CASE FinishByRewriting(p)
    BY <1>3, SentByCreate DEF FinishByRewriting, AtFinish
  <1> QED BY <1>1, <1>2, <1>3 DEF SetMetadata, SetTags, SetSections

\* The created file reaches its writer.
LEMMA SentByCreated ==
    ASSUME AsyncIInv, SentArrives, NEW p \in Tasks, Created(p)
    PROVE  SentArrives'
  <1> SUFFICES ASSUME NEW w, w = Writer(p) PROVE SentArrives'
    OBVIOUS
  <1>0. TypeOK /\ TaskInv(p)
    BY DEF AsyncIInv
  <1>1. pc[p] = "creating" /\ JobOk(p)
    BY DEF Created
  <1> DEFINE w2 == [w EXCEPT !.file = job[p].file, !.temp_path = TRUE]
  <1>2. /\ w \in AsyncObjectWriter
        /\ Len(writers[p]) \in DOMAIN writers[p] /\ w = writers[p][Len(writers[p])]
    BY <1>0, <1>1, InnermostWriter
  <1>3. job[p].file \in Files \cup {NoFile}
    BY <1>0 DEF TypeOK, Job
  <1>4. w2 \in AsyncObjectWriter /\ w2.file = job[p].file
    BY <1>2, <1>3 DEF AsyncObjectWriter
  <1>5. SetWriter(p, w2)
    BY DEF Created
  <1> HIDE DEF w2
  <1>6. InnermostBecomes(p, w2)
    BY <1>0, <1>1, <1>4, <1>5, SetWriterEffect DEF InnermostBecomes
  <1>7. /\ pc'[p] \in {"srcflush", "copying", "writing"}
        /\ UNCHANGED <<fsVars, handle, poolVars, sent>>
        /\ \A q \in Tasks : q # p => pc'[q] = pc[q] /\ job'[q] = job[q]
    BY <1>0 DEF Created, Await, Goto, TypeOK
  <1>8. Held(p)' \subseteq Held(p)
    <2>1. \A k \in DOMAIN writers[p] : ~BeingRemoved(p, k)
      BY <1>1 DEF BeingRemoved
    <2>2. job[p].file # NoFile
      BY <1>0, <1>1 DEF TaskInv, JobsInStep
    <2>3. \A k \in DOMAIN writers[p] :
             writers[p][k].file = NoFile <=> k = Len(writers[p])
      BY <1>0, <1>1 DEF TaskInv, WritersHaveFiles
    <2>4. ASSUME NEW k \in DOMAIN writers[p]
          PROVE  FileOf(p, k)' = FileOf(p, k)
      <3>1. CASE k = Len(writers[p])
        BY <1>4, <1>6, <2>2, <2>3, <3>1 DEF FileOf, InnermostBecomes
      <3>2. CASE k # Len(writers[p])
        BY <1>6, <2>3, <3>2 DEF FileOf, InnermostBecomes
      <3> QED BY <3>1, <3>2
    <2>5. DOMAIN writers'[p] = DOMAIN writers[p]
      BY <1>6 DEF InnermostBecomes
    <2> QED BY <2>1, <2>4, <2>5 DEF Held
  <1>9. \A q \in Tasks : q # p =>
           /\ pc'[q] = pc[q] /\ writers'[q] = writers[q]
           /\ job'[q] = job[q] /\ handle'[q] = handle[q]
    BY <1>6, <1>7 DEF InnermostBecomes
  <1>10. /\ handle'[p] # None => Live(handle'[p].file)
         /\ \A j \in detached' : j.kind = "rename" => Live(j.file)
    BY <1>7 DEF Live, poolVars
  <1>11. UNCHANGED <<created, file, names, pending, failed, sent>>
    BY <1>7 DEF fsVars, poolVars
  <1> QED BY <1>8, <1>9, <1>10, <1>11, SentUntouched

\* The writer that was replaced gives its file up.
LEMMA SentByCleanUp ==
    ASSUME AsyncIInv, SentArrives, NEW p \in Tasks, CleanUp(p)
    PROVE  SentArrives'
  <1>0. TypeOK /\ TaskInv(p)
    BY DEF AsyncIInv
  <1>1. pc[p] = "reopen" /\ Len(writers[p]) > 1
    BY DEF CleanUp
  <1>2. /\ pc' = [pc EXCEPT ![p] = "cleaning"]
        /\ job' = [job EXCEPT ![p] = FileJob("unlink", writers[p][1].file)]
        /\ writers' = [writers EXCEPT ![p][1].temp_path = FALSE]
        /\ UNCHANGED <<fsVars, handle, poolVars, sent>>
    BY DEF CleanUp, Await, Goto
  <1>3. writers[p] \in Seq(AsyncObjectWriter)
    BY <1>0 DEF TypeOK
  <1>4. /\ DOMAIN writers'[p] = DOMAIN writers[p]
        /\ \A k \in DOMAIN writers[p] : writers'[p][k].file = writers[p][k].file
        /\ \A q \in Tasks : q # p => writers'[q] = writers[q]
    <2>1. writers'[p] = [writers[p] EXCEPT ![1] = [@ EXCEPT !.temp_path = FALSE]]
      BY <1>0, <1>2 DEF TypeOK
    <2>2. \A k \in DOMAIN writers[p] : writers[p][k] \in AsyncObjectWriter
      BY <1>3
    <2>3. \A k \in DOMAIN writers[p] : writers'[p][k].file = writers[p][k].file
      BY <2>1, <2>2 DEF AsyncObjectWriter
    <2>4. DOMAIN writers'[p] = DOMAIN writers[p]
      BY <2>1
    <2> QED BY <1>0, <1>2, <2>3, <2>4 DEF TypeOK
  <1>5. \A k \in DOMAIN writers[p] : writers[p][k].file # NoFile
    BY <1>0, <1>1 DEF TaskInv, WritersHaveFiles
  <1>6. Held(p)' \subseteq Held(p)
    BY <1>1, <1>4, <1>5, HeldBefore
  <1>7. \A q \in Tasks : q # p =>
           /\ pc'[q] = pc[q] /\ writers'[q] = writers[q]
           /\ job'[q] = job[q] /\ handle'[q] = handle[q]
    BY <1>0, <1>2, <1>4 DEF TypeOK
  <1>8. /\ handle'[p] # None => Live(handle'[p].file)
        /\ \A j \in detached' : j.kind = "rename" => Live(j.file)
    BY <1>2 DEF Live, poolVars
  <1>9. UNCHANGED <<created, file, names, pending, failed, sent>>
    BY <1>2 DEF fsVars, poolVars
  <1> QED BY <1>6, <1>7, <1>8, <1>9, SentUntouched

\* finish returns: what its writer held, the object holds.
LEMMA SentByReturn ==
    ASSUME AsyncIInv, SentArrives, NEW p \in Tasks, Return(p)
    PROVE  SentArrives'
  <1> SUFFICES ASSUME NEW w, w = Writer(p) PROVE SentArrives'
    OBVIOUS
  <1>0. TypeOK /\ TaskInv(p)
    BY DEF AsyncIInv
  <1>1. pc[p] \in {"reopen", "cleaning"}
    BY DEF Return
  <1>2. Len(writers[p]) \in DOMAIN writers[p] /\ w = writers[p][Len(writers[p])]
    BY <1>0, <1>1, InnermostWriter
  <1>3. w.file \in Held(p)
    <2>1. pc[p] = "cleaning" => Len(writers[p]) = 2
      BY <1>0 DEF TaskInv, CallsNest
    <2>2. ~BeingRemoved(p, Len(writers[p]))
      BY <1>1, <2>1 DEF BeingRemoved
    <2>3. FileOf(p, Len(writers[p])) = w.file
      BY <1>0, <1>1, <1>2 DEF TaskInv, WritersHaveFiles, FileOf
    <2> QED BY <1>2, <2>2, <2>3 DEF Held
  <1>4. /\ writers' = [writers EXCEPT ![p] = <<>>]
        /\ pc' = [pc EXCEPT ![p] = "idle"] /\ job' = [job EXCEPT ![p] = NoJob]
        /\ UNCHANGED <<fsVars, poolVars, sent>>
    BY DEF Return, Await, Goto
  <1>5. PICK h2 : h2.file = w.file /\ handle' = [handle EXCEPT ![p] = h2]
    BY DEF Return
  <1>6. Held(p)' \subseteq Held(p)
    <2>1. writers'[p] = <<>>
      BY <1>0, <1>4 DEF TypeOK
    <2> QED BY <2>1 DEF Held
  <1>7. \A q \in Tasks : q # p =>
           /\ pc'[q] = pc[q] /\ writers'[q] = writers[q]
           /\ job'[q] = job[q] /\ handle'[q] = handle[q]
    BY <1>0, <1>4, <1>5 DEF TypeOK
  <1>8. Live(handle'[p].file)
    BY <1>0, <1>3, <1>5 DEF Live, TypeOK
  <1>9. \A j \in detached' : j.kind = "rename" => Live(j.file)
    BY <1>4 DEF Live, poolVars
  <1>10. UNCHANGED <<created, file, names, pending, failed, sent>>
    BY <1>4 DEF fsVars, poolVars
  <1> QED BY <1>6, <1>7, <1>8, <1>9, <1>10, SentUntouched

\* A job fails.
LEMMA SentByFailingJob ==
    ASSUME AsyncIInv, SentArrives, NEW p \in Tasks, JobFails(p)
    PROVE  SentArrives'
  <1>0. TypeOK
    BY DEF AsyncIInv
  <1>1. /\ UNCHANGED <<fsVars, pc, writers, handle, poolVars, sent>>
        /\ job' = [job EXCEPT ![p].state = "failed"]
    BY DEF JobFails
  <1>2. job'[p].file = job[p].file /\ \A q \in Tasks : q # p => job'[q] = job[q]
    BY <1>0, <1>1 DEF TypeOK, Job
  <1>3. Held(p)' \subseteq Held(p)
    BY <1>1, <1>2 DEF Held, FileOf, BeingRemoved
  <1>4. /\ handle'[p] # None => Live(handle'[p].file)
        /\ \A j \in detached' : j.kind = "rename" => Live(j.file)
    BY <1>1 DEF Live, poolVars
  <1>5. UNCHANGED <<created, file, names, pending, failed, sent>>
    BY <1>1 DEF fsVars, poolVars
  <1> QED BY <1>1, <1>2, <1>3, <1>4, <1>5, SentUntouched

\* Drop, whether the call failed, was given up, or its future was dropped: what
\* goes is nobody else's, and a rename that runs on is of a file that stays.
LEMMA SentByDrop ==
    ASSUME AsyncIInv, AsyncIInv', SentArrives, NEW p \in Tasks, DropWriters(p),
           \A j \in detached' : j.kind = "rename" => Live(j.file)
    PROVE  SentArrives'
  <1>0. TypeOK /\ TaskInv(p) /\ WritersApart
    BY DEF AsyncIInv
  <1>1. /\ created' = created /\ sent' = sent /\ names' = names
        /\ handle' = handle
        /\ pending' = [f \in Files |-> IF f \in OwnedTemps(p) THEN None ELSE pending[f]]
        /\ file' = [f \in Files |-> IF f \in OwnedTemps(p) THEN Blank ELSE file[f]]
        /\ failed' = failed \ OwnedTemps(p)
    BY DEF DropWriters, RemoveTemps, DeleteTemps
  <1>2. /\ writers'[p] = <<>>
        /\ \A q \in Tasks : q # p =>
              pc'[q] = pc[q] /\ writers'[q] = writers[q] /\ job'[q] = job[q]
    BY <1>0 DEF DropWriters, Goto, TypeOK
  <1>3. 1 .. created \subseteq Files /\ NoFile \notin Files
    BY <1>0, FileNumbers
  <1>4. Held(p)' = {}
    BY <1>2 DEF Held
  <1>5. \A q \in Tasks : q # p => Held(q)' = Held(q)
    BY <1>2 DEF Held, FileOf, BeingRemoved
  <1>6. ASSUME NEW f \in 1 .. created, Live(f)'
        PROVE  Live(f) /\ f \notin OwnedTemps(p)
    <2>0. f \in Files
      BY <1>3
    <2>1. ASSUME NEW q \in Tasks, f \in Held(q)'
          PROVE  Live(f) /\ f \notin OwnedTemps(p)
      <3>1. q # p /\ f \in Held(q)
        BY <1>4, <1>5, <2>1
      <3>2. PICK k \in DOMAIN writers[q] : f = FileOf(q, k)
        BY <3>1 DEF Held
      <3>3. ASSUME f \in OwnedTemps(p)
            PROVE  FALSE
        <4>1. PICK i \in DOMAIN writers[p] : f = writers[p][i].file
          BY <3>3 DEF OwnedTemps
        <4>2. f = FileOf(p, i)
          BY <1>3, <2>0, <4>1 DEF FileOf
        <4> QED BY <1>0, <1>3, <2>0, <3>1, <3>2, <4>2 DEF WritersApart
      <3> QED BY <3>1, <3>3 DEF Live
    <2>2. ASSUME Live(f), Shown(f)'
          PROVE  f \notin OwnedTemps(p)
      <3>1. file'[f] # Blank
        BY <2>2 DEF Shown, Complete
      <3> QED BY <1>1, <2>0, <3>1
    <2>3. ASSUME NEW q \in Tasks, handle'[q] # None, f = handle'[q].file
          PROVE  Live(f) /\ Shown(f)'
      BY <1>1, <2>3 DEF Live, AsyncIInv, HandlesShown
    <2>4. ASSUME NEW path \in Paths, NEW i \in DOMAIN names'[path], f = names'[path][i]
          PROVE  Live(f) /\ Shown(f)'
      BY <1>1, <1>3, <2>0, <2>4 DEF Live, AsyncIInv, NamesShown
    <2>5. ASSUME NEW j \in detached', j.kind = "rename", f = j.file
          PROVE  Live(f) /\ Shown(f)'
      BY <2>5 DEF AsyncIInv, DetachedApart
    <2> QED BY <1>6, <2>1, <2>2, <2>3, <2>4, <2>5 DEF Live
  <1>7. ASSUME NEW f \in 1 .. created, f \notin OwnedTemps(p)
        PROVE  Coming(f)' = Coming(f) /\ (f \in failed' <=> f \in failed)
    BY <1>1, <1>3, <1>7 DEF Coming
  <1> QED BY <1>1, <1>6, <1>7, SentKept

LEMMA SentByEndings ==
    ASSUME AsyncIInv, AsyncIInv', SentArrives, ~GoOn, NEW p \in Tasks,
           \/ WriteErrs(p) \/ Abandon(p) \/ Aborted(p) \/ RewritingFails(p)
           \/ CallFails(p) \/ Cancel(p)
    PROVE  SentArrives'
  <1>1. DropWriters(p) /\ detached' \subseteq detached \cup {job[p]}
    BY DEF WriteErrs, Abandon, Aborted, RewritingFails, CallFails, Cancel
  <1>2. job[p].kind = "rename" => Live(job[p].file)
    <2> SUFFICES ASSUME job[p].kind = "rename"
                 PROVE  Live(job[p].file)
      OBVIOUS
    <2>0. TypeOK /\ TaskInv(p)
      BY DEF AsyncIInv
    <2>1. pc[p] = "renaming" /\ job[p].file = Writer(p).file
      BY <2>0 DEF TypeOK, TaskInv, JobsInStep
    <2>2. /\ Len(writers[p]) \in DOMAIN writers[p]
          /\ Writer(p) = writers[p][Len(writers[p])]
      BY <2>0, <2>1, InnermostWriter
    <2>3. /\ ~BeingRemoved(p, Len(writers[p]))
          /\ FileOf(p, Len(writers[p])) = Writer(p).file
      BY <2>0, <2>1, <2>2 DEF BeingRemoved, TaskInv, WritersHaveFiles, FileOf
    <2> QED BY <2>1, <2>2, <2>3 DEF Live, Held
  <1>3. \A j \in detached' : j.kind = "rename" => Live(j.file)
    BY <1>1, <1>2 DEF Live
  <1> QED BY <1>1, <1>3, SentByDrop

\* What a writer in use holds is live.
LEMMA WriterIsLive ==
    ASSUME AsyncIInv, NEW p \in Tasks,
           pc[p] \notin {"idle", "creating", "aborting", "cleaning"},
           NEW k \in DOMAIN writers[p]
    PROVE  Live(writers[p][k].file) /\ writers[p][k].file \in 1 .. created
  <1>1. /\ ~BeingRemoved(p, k) /\ writers[p][k].file # NoFile
        /\ FileOf(p, k) = writers[p][k].file
        /\ FileOf(p, k) \in 1 .. created
    BY DEF BeingRemoved, AsyncIInv, TaskInv, WritersHaveFiles, FileOf
  <1> QED BY <1>1 DEF Live, Held

\* A step that changes what one writer's file will hold and was told.
LEMMA SentByWriter ==
    ASSUME AsyncIInv, SentArrives, NEW p \in Tasks, NEW w, w = Writer(p),
           NEW w2 \in AsyncObjectWriter,
           pc[p] \notin {"idle", "creating", "cleaning", "aborting"},
           \A q \in Tasks : q # p => pc'[q] = pc[q],
           InnermostBecomes(p, w2), w2.file = w.file,
           \A f \in Files : f # w.file => pending'[f] = pending[f] /\ sent'[f] = sent[f],
           Coming(w.file)'.content = sent'[w.file],
           UNCHANGED <<fsVars, handle, job, detached, failed>>
    PROVE  SentArrives'
  <1>0. TypeOK /\ TaskInv(p)
    BY DEF AsyncIInv
  <1>1. 1 .. created \subseteq Files
    BY <1>0, FileNumbers
  <1>2. Len(writers[p]) \in DOMAIN writers[p] /\ w = writers[p][Len(writers[p])]
    BY <1>0, InnermostWriter
  <1>3. \A k \in DOMAIN writers[p] : writers[p][k].file # NoFile
    BY <1>0 DEF TaskInv, WritersHaveFiles
  <1>4. /\ DOMAIN writers'[p] = DOMAIN writers[p]
        /\ \A k \in DOMAIN writers[p] : writers'[p][k].file = writers[p][k].file
    BY <1>2 DEF InnermostBecomes
  <1>5. Held(p)' \subseteq Held(p)
    BY <1>3, <1>4, HeldBefore
  <1>6. \A q \in Tasks : q # p => Held(q)' = Held(q)
    <2> SUFFICES ASSUME NEW q \in Tasks, q # p PROVE Held(q)' = Held(q)
      OBVIOUS
    <2>1. pc'[q] = pc[q] /\ writers'[q] = writers[q] /\ job' = job
      BY <1>0 DEF InnermostBecomes, TypeOK
    <2> QED BY <2>1 DEF Held, FileOf, BeingRemoved
  <1>7. w.file \in 1 .. created
    BY <1>2, WriterIsLive
  <1>8. ASSUME NEW f \in 1 .. created, Live(f)', f \notin failed'
        PROVE  Coming(f)'.content = sent'[f]
    <2>1. CASE f # w.file
      <3>1. Live(f)
        BY <1>5, <1>6, <1>8 DEF Live, fsVars
      <3>2. f \in Files
        BY <1>1
      <3>3. Coming(f)' = Coming(f) /\ sent'[f] = sent[f]
        BY <2>1, <3>2 DEF Coming, fsVars
      <3> QED BY <1>8, <3>1, <3>3 DEF SentArrives
    <2> QED BY <2>1
  <1>9. \A f \in Files : f > created' => sent'[f] = <<>>
    <2>1. created' = created /\ created \in Nat
      BY <1>0, FileNumbers DEF fsVars
    <2>2. ASSUME NEW f \in Files, f > created PROVE f # w.file
      BY <1>7, <2>1, <2>2
    <2> QED BY <2>1, <2>2 DEF SentArrives
  <1>10. created' = created
    BY DEF fsVars
  <1> QED BY <1>8, <1>9, <1>10 DEF SentArrives

LEMMA AppendAsConcat ==
    ASSUME NEW S, NEW s \in Seq(S), NEW e \in S
    PROVE  Append(s, e) = s \o <<e>>
  OBVIOUS

\* A chunk is written: the bytes on their way are what the file had, and it.
LEMMA SentByWrite ==
    ASSUME AsyncIInv, SentArrives, NEW p \in Tasks, NEW chunk \in Chunks,
           Write(p, chunk)
    PROVE  SentArrives'
  <1> SUFFICES ASSUME NEW w, w = Writer(p) PROVE SentArrives'
    OBVIOUS
  <1> DEFINE pieces == <<chunk>>
             bytes == [file[w.file] EXCEPT !.content = @ \o pieces]
             w2 == [w EXCEPT !.content_length = @ + Len(pieces)]
  <1>0. TypeOK
    BY DEF AsyncIInv
  <1>1a. pc[p] = "writing" /\ FlushOk(w.file) /\ Queue(p, pieces, w)
    BY DEF Write
  <1>1. /\ pc[p] = "writing" /\ FlushOk(w.file)
        /\ pending' = [pending EXCEPT ![w.file] = bytes]
        /\ sent' = [sent EXCEPT ![w.file] = Append(@, chunk)]
        /\ UNCHANGED <<fsVars, pc, handle, job, detached, failed>>
    BY DEF Write, Queue
  <1>2. /\ w \in AsyncObjectWriter /\ w.file \in Files
        /\ file[w.file] \in ObjectFile
    BY <1>1, WriterFacts
  <1>3. pieces \in Seq(Pieces)
    BY DEF Pieces
  <1>4. file' = file
    BY <1>1 DEF fsVars
  <1>5. /\ w2 \in AsyncObjectWriter /\ w2.file = w.file /\ w2.sync = w.sync
        /\ w2.layout = w.layout /\ w2.metadata = w.metadata
        /\ w2.tags = w.tags /\ w2.layout_options = w.layout_options
        /\ InnermostBecomes(p, w2)
        /\ pending' \in [Files -> ObjectFile \cup {None}]
        /\ \A f \in Files : f # w.file => pending'[f] = pending[f]
        /\ Coming(w2.file)'.content_at = w2.layout.content_start
        /\ Len(Coming(w2.file)'.content) = w2.content_length
    <2> HIDE DEF pieces
    <2> QED BY <1>1a, <1>3, <1>4, QueueEffect
  <1>6. file[w.file].content = sent[w.file]
    <2>1. Live(w.file) /\ w.file \in 1 .. created
      BY <1>0, <1>1, InnermostWriter, WriterIsLive
    <2>2. w.file \notin failed /\ Coming(w.file) = file[w.file]
      BY <1>1 DEF FlushOk, Coming
    <2> QED BY <2>1, <2>2 DEF SentArrives
  <1>7. bytes.content = file[w.file].content \o pieces /\ bytes # None
    <2>1. bytes.content = file[w.file].content \o pieces
      BY <1>2 DEF ObjectFile
    <2>2. bytes \in ObjectFile
      <3>1. file[w.file].content \o pieces \in Seq(Pieces)
        BY <1>2, <1>3 DEF ObjectFile
      <3> QED BY <1>2, <3>1 DEF ObjectFile
    <2> QED BY <2>1, <2>2, AsyncObjectStoreAssumption
  <1>8. /\ pending'[w.file] = bytes
        /\ sent'[w.file] = Append(sent[w.file], chunk)
        /\ sent[w.file] \in Seq(Pieces)
        /\ \A f \in Files : f # w.file => pending'[f] = pending[f] /\ sent'[f] = sent[f]
    BY <1>0, <1>1, <1>2 DEF TypeOK
  <1>9. Coming(w.file)'.content = sent'[w.file]
    <2>1. Append(sent[w.file], chunk) = sent[w.file] \o pieces
      <3>1. chunk \in Pieces
        BY DEF Pieces
      <3>2. PICK s : s = sent[w.file] /\ s \in Seq(Pieces)
        BY <1>8
      <3>3. Append(s, chunk) = s \o <<chunk>>
        BY ONLY <3>1, <3>2, AppendAsConcat
      <3> QED BY <3>2, <3>3
    <2>2. pending'[w.file] # None /\ pending'[w.file].content = file[w.file].content \o pieces
      <3> HIDE DEF bytes, pieces
      <3> QED BY ONLY <1>7, <1>8
    <2>3. file[w.file].content \o pieces = sent'[w.file]
      BY <1>6, <1>8, <2>1
    <2> QED BY ONLY <2>2, <2>3 DEF Coming
  <1>10. /\ \A q \in Tasks : q # p => pc'[q] = pc[q]
         /\ pc[p] \notin {"idle", "creating", "cleaning", "aborting"}
         /\ UNCHANGED <<fsVars, handle, job, detached, failed>>
    BY <1>1
  <1> HIDE DEF w2, bytes, pieces
  <1> QED BY <1>5, <1>8, <1>9, <1>10, SentByWriter

\* The copy reads all of what its source was told, and nothing else.
LEMMA SourceIsWhole ==
    ASSUME AsyncIInv, SentArrives, NEW p \in Tasks, pc[p] = "copying"
    PROVE  CopySource(p) = sent[SourceFile(p)]
  <1>0. TypeOK /\ TaskInv(p) /\ 1 .. created \subseteq Files
    BY FileNumbers DEF AsyncIInv
  <1>1. ASSUME NEW f \in 1 .. created, Live(f), FlushOk(f), file[f] \in ObjectFile,
               NEW start, NEW len, file[f].content_at = start,
               Len(file[f].content) = len
        PROVE  StoredContent(f, start, len) = sent[f]
    <2>1. file[f].content = sent[f]
      BY <1>1 DEF SentArrives, Coming, FlushOk
    <2>2. file[f].content \in Seq(Pieces)
      BY <1>1 DEF ObjectFile
    <2>3. Len(file[f].content) \in Nat
      BY <2>2
    <2>4. SubSeq(file[f].content, 1, Len(file[f].content)) = file[f].content
      BY <2>2
    <2> QED BY <1>1, <2>1, <2>3, <2>4 DEF StoredContent
  <1>2. CASE Len(writers[p]) > 1
    <2> DEFINE w == writers[p][1]
    <2>1. 1 \in DOMAIN writers[p] /\ Len(writers[p]) = 2
      <3>1. 1 \in DOMAIN writers[p]
        BY <1>0, InnermostWriter
      <3>2. Len(writers[p]) = 2
        <4> DEFINE n == Len(writers[p])
        <4>1. n \in 1 .. 2 /\ n > 1
          BY <1>0, <1>2, InnermostWriter
        <4> HIDE DEF n
        <4>2. n = 2
          BY <4>1
        <4> QED BY <4>2 DEF n
      <3> QED BY <3>1, <3>2
    <2>2. Live(w.file) /\ w.file \in 1 .. created
      BY <2>1, WriterIsLive
    <2>3. FlushOk(w.file)
      BY <1>0, <2>1 DEF TaskInv, NothingUnderWay
    <2>4. /\ w.file # NoFile /\ FileOf(p, 1) = w.file /\ ~BeingRemoved(p, 1)
      BY <1>0, <2>1 DEF TaskInv, WritersHaveFiles, FileOf, BeingRemoved
    <2>5. /\ file[w.file] \in ObjectFile
          /\ file[w.file].content_at = w.layout.content_start
          /\ Len(file[w.file].content) = w.content_length
      BY <1>0, <2>1, <2>3, <2>4 DEF TaskInv, WritersHaveFiles, FlushOk, Coming
    <2>6. /\ CopySource(p)
               = StoredContent(w.file, w.layout.content_start, w.content_length)
          /\ SourceFile(p) = w.file
      BY <1>2 DEF CopySource, SourceFile
    <2> HIDE DEF w
    <2> QED BY <1>1, <2>2, <2>3, <2>5, <2>6
  <1>3. CASE ~(Len(writers[p]) > 1)
    <2> DEFINE h == handle[p]
    <2>1. h # None
      <3> DEFINE n == Len(writers[p])
      <3>1. n # 2
        <4>1. ~(n > 1)
          BY <1>3
        <4> HIDE DEF n
        <4> QED BY <4>1
      <3> QED BY <1>0, <3>1 DEF TaskInv, CallsNest
    <2>2. Shown(h.file) /\ h.header = file[h.file].header
      BY <2>1 DEF AsyncIInv, HandlesShown
    <2>3. /\ h.file \in 1 .. created /\ FlushOk(h.file)
          /\ file[h.file] \in ObjectFile
          /\ file[h.file].content_at = h.header.content_start
          /\ Len(file[h.file].content) = h.header.content_length
      BY <1>0, <2>2 DEF Shown, Complete, FlushOk, TypeOK
    <2>4. Live(h.file)
      BY <2>1 DEF Live
    <2>5. /\ CopySource(p) = StoredContent(h.file, h.header.content_start,
                                           h.header.content_length)
          /\ SourceFile(p) = h.file
      BY <1>3 DEF CopySource, SourceFile
    <2> HIDE DEF h
    <2> QED BY <1>1, <2>3, <2>4, <2>5
  <1> QED BY <1>2, <1>3

LEMMA SentByCopy ==
    ASSUME AsyncIInv, SentArrives, NEW p \in Tasks, Copy(p)
    PROVE  SentArrives'
  <1> SUFFICES ASSUME NEW w, w = Writer(p), NEW pieces, pieces = CopySource(p),
                      NEW bytes,
                      bytes = [file[w.file] EXCEPT !.content = @ \o pieces]
               PROVE  SentArrives'
    OBVIOUS
  <1> DEFINE w2 == [w EXCEPT !.content_length = @ + Len(pieces)]
  <1>0. TypeOK /\ TaskInv(p)
    BY DEF AsyncIInv
  <1>1a. pc[p] = "copying" /\ Queue(p, pieces, w)
    BY DEF Copy
  <1>1. /\ pc[p] = "copying"
        /\ pending' = [pending EXCEPT ![w.file] = bytes]
        /\ sent' = [sent EXCEPT ![w.file] = sent[SourceFile(p)]]
        /\ pc' = [pc EXCEPT ![p] = "copyflush"]
        /\ UNCHANGED <<fsVars, handle, job, detached, failed>>
    BY DEF Copy, Queue, Goto
  <1>2. /\ w \in AsyncObjectWriter /\ w.file = InnermostFile(p) /\ w.file \in Files
        /\ w.file # NoFile /\ file[w.file] \in ObjectFile
        /\ w.file \notin failed =>
              /\ Coming(w.file).content_at = w.layout.content_start
              /\ Len(Coming(w.file).content) = w.content_length
    BY <1>1, WriterFacts
  <1>3. pieces \in Seq(Pieces) /\ pieces = sent[SourceFile(p)]
    BY <1>1, SourceIsPieces, SourceIsWhole
  <1>4. file' = file
    BY <1>1 DEF fsVars
  <1>5. FlushOk(w.file)
    BY <1>0, <1>1, <1>2 DEF TaskInv, NothingUnderWay, ForCopy, FlushOk
  <1>6. /\ w2 \in AsyncObjectWriter /\ w2.file = w.file /\ w2.sync = w.sync
        /\ w2.layout = w.layout /\ w2.metadata = w.metadata
        /\ w2.tags = w.tags /\ w2.layout_options = w.layout_options
        /\ InnermostBecomes(p, w2)
        /\ pending' \in [Files -> ObjectFile \cup {None}]
        /\ \A f \in Files : f # w.file => pending'[f] = pending[f]
        /\ Coming(w2.file)'.content_at = w2.layout.content_start
        /\ Len(Coming(w2.file)'.content) = w2.content_length
    BY <1>1a, <1>3, <1>4, <1>5, QueueEffect
  <1>7. file[w.file].content = <<>>
    <2>1. w.content_length = 0
      BY <1>0, <1>1 DEF TaskInv, CallsNest
    <2>2. Len(file[w.file].content) = 0
      BY <1>2, <1>5, <2>1 DEF FlushOk, Coming
    <2>3. file[w.file].content \in Seq(Pieces)
      BY <1>2 DEF ObjectFile
    <2> QED BY <2>2, <2>3
  <1>8. bytes.content = pieces /\ bytes # None
    <2>1. <<>> \o pieces = pieces
      BY <1>3
    <2>2. bytes.content = file[w.file].content \o pieces
      BY <1>2 DEF ObjectFile
    <2>3. bytes \in ObjectFile
      <3>1. file[w.file].content \o pieces \in Seq(Pieces)
        BY <1>3, <1>7, <2>1
      <3> QED BY <1>2, <3>1 DEF ObjectFile
    <2> QED BY <1>7, <2>1, <2>2, <2>3, AsyncObjectStoreAssumption
  <1>9. /\ pending'[w.file] = bytes
        /\ sent'[w.file] = sent[SourceFile(p)]
        /\ \A f \in Files : f # w.file => pending'[f] = pending[f] /\ sent'[f] = sent[f]
    BY <1>0, <1>1, <1>2 DEF TypeOK
  <1>10. Coming(w.file)'.content = sent'[w.file]
    BY <1>3, <1>8, <1>9 DEF Coming
  <1>11. /\ \A q \in Tasks : q # p => pc'[q] = pc[q]
         /\ pc[p] \notin {"idle", "creating", "cleaning", "aborting"}
         /\ UNCHANGED <<fsVars, handle, job, detached, failed>>
    BY <1>0, <1>1 DEF TypeOK
  <1> HIDE DEF w2
  <1> QED BY <1>6, <1>9, <1>10, <1>11, SentByWriter

\* The prefix goes in front of the content, and leaves it as it is.
LEMMA SentByFlushed ==
    ASSUME AsyncIInv, SentArrives, NEW p \in Tasks, Flushed(p)
    PROVE  SentArrives'
  <1> SUFFICES ASSUME NEW w, w = Writer(p), NEW bytes,
                      bytes = [file[w.file] EXCEPT !.header = BuildHeader(w),
                                                   !.metadata = w.metadata,
                                                   !.tags = w.tags]
               PROVE  SentArrives'
    OBVIOUS
  <1>0. TypeOK
    BY DEF AsyncIInv
  <1>1. /\ pc[p] = "flush" /\ FlushOk(w.file)
        /\ pending' = [pending EXCEPT ![w.file] = bytes]
        /\ pc' = [pc EXCEPT ![p] = "prefixflush"]
        /\ UNCHANGED <<fsVars, writers, handle, job, detached, failed, sent>>
    BY DEF Flushed, Goto
  <1>2. /\ w \in AsyncObjectWriter /\ w.file \in Files
        /\ file[w.file] \in ObjectFile
    BY <1>1, WriterFacts
  <1>3. BuildHeader(w) \in ObjectHeader
    BY <1>2, ObjectFilesAssumption
    DEF BuildHeader, ObjectHeader, AsyncObjectWriter, SectionLayout
  <1>4. bytes \in ObjectFile /\ bytes.content = file[w.file].content
    BY <1>2, <1>3 DEF ObjectFile, AsyncObjectWriter
  <1>5. file[w.file].content = sent[w.file]
    <2>1. Live(w.file) /\ w.file \in 1 .. created
      BY <1>0, <1>1, InnermostWriter, WriterIsLive
    <2>2. w.file \notin failed /\ Coming(w.file) = file[w.file]
      BY <1>1 DEF FlushOk, Coming
    <2> QED BY <2>1, <2>2 DEF SentArrives
  <1>6. /\ pending'[w.file] = bytes /\ bytes # None
        /\ \A f \in Files : f # w.file => pending'[f] = pending[f] /\ sent'[f] = sent[f]
    BY <1>0, <1>1, <1>2, <1>4, AsyncObjectStoreAssumption DEF TypeOK
  <1>7. Coming(w.file)'.content = sent'[w.file]
    BY <1>1, <1>4, <1>5, <1>6 DEF Coming
  <1>8. InnermostBecomes(p, w)
    BY <1>1, WritersUntouched
  <1>9. /\ \A q \in Tasks : q # p => pc'[q] = pc[q]
        /\ pc[p] \notin {"idle", "creating", "cleaning", "aborting"}
        /\ UNCHANGED <<fsVars, handle, job, detached, failed>>
    BY <1>0, <1>1 DEF TypeOK
  <1> QED BY <1>2, <1>6, <1>7, <1>8, <1>9, SentByWriter


\* What a job leaves a path naming was named before, or is what it renamed.
LEMMA PerformNames ==
    ASSUME AsyncIInv, NEW j \in Job, Perform(j), NEW path \in Paths,
           NEW i \in DOMAIN names'[path]
    PROVE  \/ \E k \in DOMAIN names[path] : names'[path][i] = names[path][k]
           \/ j.kind = "rename" /\ names'[path][i] = j.file
  <1>0. TypeOK /\ names[path] \in Seq(Files \cup {NoFile}) /\ names[path] # <<>>
    BY DEF AsyncIInv, TypeOK
  <1>1. CASE names' = names
    BY <1>1
  <1>2. CASE j.kind = "rename" /\ RenameFile(j.file, j.path)
    <2>1. names'[path] = names[path] \/ names'[path] = Append(names[path], j.file)
      BY <1>0, <1>2 DEF RenameFile, TypeOK
    <2>2. CASE names'[path] = Append(names[path], j.file)
      <3>1. CASE i \in DOMAIN names[path]
        BY <1>0, <2>2, <3>1
      <3>2. CASE i \notin DOMAIN names[path]
        <4>1. i = Len(names[path]) + 1
          BY <1>0, <2>2, <3>2
        <4> QED BY <1>0, <1>2, <2>2, <4>1
      <3> QED BY <3>1, <3>2
    <2> QED BY <2>1, <2>2
  <1>3. CASE SyncDirectory
    <2>1. names'[path] = <<Current(path)>>
      BY <1>3 DEF SyncDirectory
    <2>2. names'[path][i] = Current(path)
      BY <2>1
    <2> QED BY <2>2, CurrentIsAName DEF Current
  <1>4. \/ names' = names
        \/ j.kind = "rename" /\ RenameFile(j.file, j.path)
        \/ SyncDirectory
    BY DEF Perform, CreateFile, SyncFile, DeleteTemps, fsVars
  <1> QED BY <1>1, <1>2, <1>3, <1>4

\* What a task waits to see renamed is its writer's.
LEMMA RenameIsLive ==
    ASSUME AsyncIInv, NEW p \in Tasks, job[p].kind = "rename"
    PROVE  Live(job[p].file)
  <1>0. TypeOK /\ TaskInv(p)
    BY DEF AsyncIInv
  <1>1. pc[p] = "renaming" /\ job[p].file = Writer(p).file
    BY <1>0 DEF TypeOK, TaskInv, JobsInStep
  <1>2. /\ Len(writers[p]) \in DOMAIN writers[p]
        /\ Writer(p) = writers[p][Len(writers[p])]
    BY <1>0, <1>1, InnermostWriter
  <1> QED BY <1>1, <1>2, WriterIsLive

\* A job, awaited or not: it creates an empty file, renames a live one, or
\* unlinks one that is not.
LEMMA SentByPool ==
    ASSUME AsyncIInv, SentArrives, NEW j \in Job,
           Perform(j) \/ UNCHANGED fsVars,
           j.kind = "rename" => Shown(j.file) /\ Live(j.file),
           j.kind = "unlink" =>
              ~Shown(j.file) /\ \A q \in Tasks : j.file \notin Held(q),
           handle' = handle, pending' = pending, failed' = failed, sent' = sent,
           detached' \subseteq detached,
           \A q \in Tasks : \A f \in Held(q)' : f \in 1 .. created => f \in Held(q)
    PROVE  SentArrives'
  <1>0. TypeOK /\ created \in Nat /\ 1 .. created \subseteq Files
    BY FileNumbers DEF AsyncIInv
  <1>1. /\ created' \in Nat /\ created <= created'
        /\ created' = created \/ (j.kind = "create" /\ created' = created + 1)
        /\ \A f \in 1 .. created :
              ~(j.kind = "unlink" /\ f = j.file) => file'[f] = file[f]
        /\ created' # created => Fresh \in Files /\ file'[Fresh] = NewFile(j.content_start)
    <2>1. CASE Perform(j)
      <3>1. /\ created' \in 0 .. MaxFiles /\ created <= created'
            /\ created' = IF j.kind = "create" THEN created + 1 ELSE created
            /\ \A f \in 1 .. created :
                  ~(j.kind = "unlink" /\ f = j.file) => file'[f] = file[f]
            /\ j.kind = "create" =>
                  Fresh \in Files /\ file'[Fresh] = NewFile(j.content_start)
        BY <2>1, PerformEffect
      <3> QED BY <1>0, <3>1
    <2>2. CASE UNCHANGED fsVars
      BY <1>0, <2>2 DEF fsVars
    <2> QED BY <2>1, <2>2
  <1>2. ASSUME NEW f \in 1 .. created, Live(f)'
        PROVE  Live(f)
    <2>1. ASSUME NEW path \in Paths, NEW i \in DOMAIN names'[path], f = names'[path][i]
          PROVE  Live(f)
      <3>1. CASE Perform(j)
        BY <2>1, <3>1, PerformNames DEF Live
      <3>2. CASE UNCHANGED fsVars
        BY <2>1, <3>2 DEF Live, fsVars
      <3> QED BY <3>1, <3>2
    <2>2. ASSUME NEW q \in Tasks, f \in Held(q)'
          PROVE  Live(f)
      BY <2>2 DEF Live
    <2>3. ASSUME NEW q \in Tasks, handle'[q] # None, f = handle'[q].file
          PROVE  Live(f)
      BY <2>3 DEF Live
    <2>4. ASSUME NEW d \in detached', d.kind = "rename", f = d.file
          PROVE  Live(f)
      BY <2>4 DEF Live
    <2> QED BY <1>2, <2>1, <2>2, <2>3, <2>4 DEF Live
  <1>3. ASSUME NEW f \in 1 .. created, Live(f)', f \notin failed'
        PROVE  Coming(f)'.content = sent'[f]
    <2>1. Live(f) /\ f \in Files
      BY <1>0, <1>2, <1>3
    <2>2. ~(j.kind = "unlink" /\ f = j.file)
      BY <2>1, LiveIsShownOrHeld
    <2>3. Coming(f)' = Coming(f)
      BY <1>1, <2>2 DEF Coming
    <2> QED BY <1>3, <2>1, <2>3 DEF SentArrives
  <1>4. ASSUME created' # created, NEW g, g = created + 1
        PROVE  Coming(g)'.content = sent'[g]
    <2>1. g \in Files /\ g > created /\ file'[g] = NewFile(j.content_start)
      BY <1>0, <1>1, <1>4 DEF Fresh
    <2>2. pending'[g] = None /\ sent'[g] = <<>>
      BY <2>1 DEF AsyncIInv, FreshUntouched, SentArrives
    <2>3. file'[g].content = <<>>
      BY <2>1 DEF NewFile
    <2> QED BY <2>2, <2>3 DEF Coming
  <1>5. ASSUME NEW f \in 1 .. created', Live(f)', f \notin failed'
        PROVE  Coming(f)'.content = sent'[f]
    <2>1. f \in 1 .. created \/ (created' # created /\ f = created + 1)
      BY <1>0, <1>1
    <2> QED BY <1>3, <1>4, <1>5, <2>1
  <1>6. \A f \in Files : f > created' => sent'[f] = <<>>
    <2>1. \A f \in Files : f > created' => f > created
      BY <1>0, <1>1 DEF Files
    <2> QED BY <2>1 DEF SentArrives
  <1> QED BY <1>5, <1>6 DEF SentArrives

LEMMA SentByJob ==
    ASSUME AsyncIInv, SentArrives, NEW p \in Tasks, JobRuns(p)
    PROVE  SentArrives'
  <1> SUFFICES ASSUME NEW j, j = job[p] PROVE SentArrives'
    OBVIOUS
  <1>0. /\ TypeOK /\ created \in Nat /\ 1 .. created \subseteq Files
        /\ NoFile \notin Files
    BY FileNumbers DEF AsyncIInv
  <1>1. /\ Perform(j) /\ j \in Job
        /\ pc' = pc /\ writers' = writers /\ handle' = handle /\ sent' = sent
        /\ pending' = pending /\ failed' = failed /\ detached' = detached
        /\ \A q \in Tasks : q # p => job'[q] = job[q]
        /\ job'[p].file = IF j.kind = "create" THEN Fresh ELSE j.file
    BY <1>0 DEF JobRuns, poolVars, TypeOK, Job
  <1>2. ASSUME NEW q \in Tasks, NEW f \in Held(q)', f \in 1 .. created
        PROVE  f \in Held(q)
    <2>1. f \in Files /\ f # Fresh /\ f # NoFile
      BY <1>0, <1>2 DEF Fresh
    <2>2. PICK k \in DOMAIN writers[q] : f = FileOf(q, k)' /\ ~BeingRemoved(q, k)
      BY <1>1 DEF Held, BeingRemoved
    <2>3. FileOf(q, k)' = FileOf(q, k)
      BY <1>1, <2>1, <2>2 DEF FileOf
    <2> QED BY <2>2, <2>3 DEF Held
  <1>3. /\ j.kind = "unlink" =>
              ~Shown(j.file) /\ \A q \in Tasks : j.file \notin Held(q)
        /\ j.kind = "rename" => Shown(j.file) /\ Live(j.file)
    BY JobsApart, RenamedIsShown, RenameIsLive DEF Held
  <1> QED BY <1>1, <1>2, <1>3, SentByPool

LEMMA SentByDetached ==
    ASSUME AsyncIInv, SentArrives, NEW j \in detached, DetachedRuns(j)
    PROVE  SentArrives'
  <1>0. j \in Job
    BY DEF AsyncIInv, TypeOK
  <1>1. /\ UNCHANGED taskVars /\ sent' = sent /\ detached' \subseteq detached
        /\ pending' = pending /\ failed' = failed
        /\ Perform(j) \/ UNCHANGED fsVars
    BY DEF DetachedRuns
  <1>2. /\ j.kind = "rename" => Shown(j.file) /\ Live(j.file)
        /\ j.kind = "unlink" =>
              ~Shown(j.file) /\ \A q \in Tasks : j.file \notin Held(q)
    BY DEF AsyncIInv, DetachedApart, Live, Shown, Held
  <1>3. handle' = handle /\ \A q \in Tasks : Held(q)' = Held(q)
    BY <1>1 DEF Held, FileOf, BeingRemoved, taskVars
  <1> QED BY <1>0, <1>1, <1>2, <1>3, SentByPool

\* A background write puts down what was coming, or fails.
LEMMA SentByBackground ==
    ASSUME AsyncIInv, SentArrives, NEW f \in Files, WriteRuns(f) \/ WriteFails(f)
    PROVE  SentArrives'
  <1>0. TypeOK /\ 1 .. created \subseteq Files
    BY FileNumbers DEF AsyncIInv
  <1>1. /\ UNCHANGED taskVars /\ sent' = sent /\ detached' = detached
        /\ pending[f] # None /\ pending' = [pending EXCEPT ![f] = None]
        /\ created' = created /\ names' = names
        /\ \/ file' = [file EXCEPT ![f] = pending[f]] /\ failed' = failed
           \/ file' = file /\ failed' = failed \cup {f}
    BY DEF WriteRuns, WriteFails, WriteFile, fsVars
  <1>2. ASSUME NEW g \in 1 .. created, Live(g)'
        PROVE  Live(g)
    BY <1>1, <1>2 DEF Live, Held, FileOf, BeingRemoved, taskVars
  <1>3. ASSUME NEW g \in 1 .. created, g \notin failed'
        PROVE  g \notin failed /\ Coming(g)' = Coming(g)
    BY <1>0, <1>1, <1>3 DEF Coming, TypeOK
  <1> QED BY <1>1, <1>2, <1>3, SentKept

\* After a crash only names are left, and what they name was whole.
LEMMA SentByCrash ==
    ASSUME AsyncIInv, AsyncIInv', SentArrives, Kill \/ PowerLoss
    PROVE  SentArrives'
  <1>0. TypeOK /\ 1 .. created \subseteq Files /\ NoFile \notin Files
    BY FileNumbers DEF AsyncIInv
  <1>1. /\ Forget /\ created' = created /\ sent' = sent
        /\ \A p \in Tasks : writers'[p] = <<>> /\ handle'[p] = None
        /\ detached' = {} /\ \A f \in Files : pending'[f] = None
    BY DEF Kill, PowerLoss, PowerIsLost, Forget, fsVars
  <1>2. ASSUME NEW path \in Paths, NEW i \in DOMAIN names'[path]
        PROVE  \E k \in DOMAIN names[path] : names'[path][i] = names[path][k]
    <2>1. CASE Kill
      BY <2>1 DEF Kill, fsVars
    <2>2. CASE PowerLoss
      <3>1. PICK kept : /\ \A q \in Paths :
                              \E k \in DOMAIN names[q] : kept[q] = names[q][k]
                        /\ names' = [q \in Paths |-> <<kept[q]>>]
        BY <2>2 DEF PowerLoss, PowerIsLost
      <3>2. names'[path][i] = kept[path]
        BY <3>1
      <3> QED BY <3>1, <3>2
    <2> QED BY <2>1, <2>2
  <1>3. ASSUME NEW f \in 1 .. created, Live(f)'
        PROVE  Live(f) /\ Shown(f)'
    <2>1. f \in Files /\ f # NoFile
      BY <1>0
    <2>2. PICK path \in Paths : \E i \in DOMAIN names'[path] : f = names'[path][i]
      BY <1>1, <1>3 DEF Live, Held
    <2>3. Live(f)
      BY <1>2, <2>2 DEF Live
    <2>4. Shown(f)'
      BY <2>1, <2>2 DEF AsyncIInv, NamesShown
    <2> QED BY <2>3, <2>4
  <1>4. ASSUME NEW f \in 1 .. created, Live(f)'
        PROVE  f \notin failed /\ Coming(f)' = Coming(f)
    <2>1. f \in Files /\ Live(f) /\ Shown(f)
      <3>1. PICK path \in Paths : \E i \in DOMAIN names'[path] : f = names'[path][i]
        BY <1>1, <1>4 DEF Live, Held
      <3> QED BY <1>0, <1>2, <1>3, <1>4, <3>1 DEF AsyncIInv, NamesShown
    <2>2. file'[f] # Blank
      BY <1>3, <1>4 DEF Shown, Complete
    <2>3. file'[f] = file[f]
      BY <2>1, <2>2 DEF Kill, PowerLoss, PowerIsLost, fsVars
    <2> QED BY <1>1, <2>1, <2>3 DEF Coming, Shown
  <1> QED BY <1>1, <1>3, <1>4, SentKept

LEMMA InitSent == Init => SentArrives
  BY FileSystemAssumption DEF Init, FsInit, SentArrives, Files

LEMMA NextSent ==
    ASSUME ~GoOn, AsyncIInv, AsyncIInv', SentArrives, [Next]_vars
    PROVE  SentArrives'
  <1>1. CASE UNCHANGED vars
    BY <1>1 DEF SentArrives, Live, Held, FileOf, BeingRemoved, Coming, vars,
                fsVars, taskVars, poolVars
  <1>2. CASE Kill \/ PowerLoss
    BY <1>2, SentByCrash
  <1>3. ASSUME NEW p \in Tasks,
               \/ \E path \in Paths, writable \in BOOLEAN :
                      Open(p, path, writable)
               \/ Close(p)
        PROVE  SentArrives'
    BY <1>3, SentByHandles
  <1>4. ASSUME NEW p \in Tasks,
               \/ \E path \in Paths, options \in LayoutChoices, sync \in Syncs,
                     m \in Metadata, t \in Tags :
                      CallerCreates(p, path, options, sync, m, t)
               \/ FinishByRewriting(p)
               \/ \E m \in Metadata : SetMetadata(p, m)
               \/ \E t \in Tags : SetTags(p, t)
               \/ \E m \in Metadata, t \in Tags : SetSections(p, m, t)
        PROVE  SentArrives'
    BY <1>4, SentByCreates
  <1>5. ASSUME NEW p \in Tasks,
               \/ \E m \in Metadata, t \in Tags : Mutate(p, m, t)
               \/ Abort(p) \/ Finish(p) \/ SourceFlushed(p) \/ PrefixFlushed(p)
               \/ Synced(p) \/ Renamed(p) \/ ParentSynced(p)
        PROVE  SentArrives'
    BY <1>5, SentByCalls
  <1>6. ASSUME NEW p \in Tasks,
               \/ \E chunk \in Chunks : Write(p, chunk)
               \/ Copy(p) \/ Flushed(p) \/ Created(p) \/ CleanUp(p) \/ Return(p)
        PROVE  SentArrives'
    BY <1>6, SentByWrite, SentByCopy, SentByFlushed, SentByCreated, SentByCleanUp,
       SentByReturn
  <1>7. ASSUME NEW p \in Tasks,
               \/ WriteErrs(p) \/ Abandon(p) \/ Aborted(p) \/ RewritingFails(p)
               \/ CallFails(p) \/ Cancel(p)
        PROVE  SentArrives'
    BY <1>7, SentByEndings
  <1>8. CASE Pool
    BY <1>8, SentByJob, SentByFailingJob, SentByDetached, SentByBackground DEF Pool
  <1> QED
    BY <1>1, <1>2, <1>3, <1>4, <1>5, <1>6, <1>7, <1>8 DEF Next, CallRefused

\* A file that is held, open, named or about to be named will hold all that its
\* writers were told is written, unless a write to it failed and the next call on
\* it will say so (poll_write counts and promises, async_io.rs:675-687).
THEOREM AsyncSentArrives ==
    ASSUME ~GoOn, PowerSafe PROVE Spec => []SentArrives
  <1>1. Init => AsyncIInv /\ SentArrives
    BY InitAsyncIInv, InitSent
  <1>2. AsyncIInv /\ SentArrives /\ [Next]_vars => AsyncIInv' /\ SentArrives'
    BY NextAsyncIInv, NextSent
  <1> QED BY <1>1, <1>2, PTL DEF Spec

\* Nothing a writer was told is written is missing from what a path names: the
\* errors that tokio keeps for the next call come out before the rename
\* (async_io.rs:579-587, 639-647), in a copy too.
THEOREM AsyncNothingLost ==
    ASSUME ~GoOn, PowerSafe PROVE Spec => []NothingLost
  <1>1. AsyncIInv /\ SentArrives => NothingLost
    <2> SUFFICES ASSUME AsyncIInv, SentArrives, NEW path \in Paths,
                        Current(path) # NoFile
                 PROVE  file[Current(path)].content = sent[Current(path)]
      BY DEF NothingLost
    <2>1. Shown(Current(path)) /\ Live(Current(path))
      BY CurrentIsAName DEF Live, Current
    <2> QED BY <2>1 DEF Shown, SentArrives, Coming
  <1> QED BY <1>1, AsyncInvariant, AsyncSentArrives, PTL

-----------------------------------------------------------------------------
(* Temporary files.                                                        *)

\* Processes are not killed, power is not lost, renames and unlinks do not
\* fail, and no future is dropped while its file is being created.
NothingCutShort ==
    /\ Faults \cap {"kill", "power", "rename", "unlink"} = {}
    /\ "creating" \notin Cancels

\* What TempsIInv says of a job.
DoneJob(p) ==
    job[p].kind \in {"rename", "unlink"} =>
       \/ job[p].state = "queued"
       \/ JobOk(p) /\ job[p].file \notin temps

Cleaned(p) == pc[p] = "cleaning" => ~writers[p][1].temp_path

OnThePool(f) == \E j \in detached : j.kind \in {"rename", "unlink"} /\ f = j.file

\* A step of p that takes no temporary file without a trace.
LEMMA TempsKept ==
    ASSUME TempsIInv, NEW p \in Tasks, temps' \subseteq temps,
           \A q \in Tasks : q # p =>
              pc'[q] = pc[q] /\ writers'[q] = writers[q] /\ job'[q] = job[q],
           \A f \in temps' : OnThePool(f) => OnThePool(f)',
           \A j \in detached' : j.kind # "create",
           \A f \in temps' : InHand(p, f) => InHand(p, f)' \/ OnThePool(f)',
           DoneJob(p)', Cleaned(p)'
    PROVE  TempsIInv'
  <1>1. ASSUME NEW q \in Tasks, q # p, NEW f \in temps', InHand(q, f)
        PROVE  InHand(q, f)'
    BY <1>1 DEF InHand, OwnedTemps
  <1>2. ASSUME NEW f \in temps'
        PROVE  (\E q \in Tasks : InHand(q, f)') \/ OnThePool(f)'
    <2>1. (\E q \in Tasks : InHand(q, f)) \/ OnThePool(f)
      BY <1>2 DEF TempsIInv, OnThePool
    <2>2. CASE InHand(p, f)
      BY <2>2
    <2>3. CASE OnThePool(f)
      BY <2>3
    <2>4. ASSUME NEW q \in Tasks, q # p, InHand(q, f)
          PROVE  InHand(q, f)'
      BY <1>1, <2>4
    <2> QED BY <2>1, <2>2, <2>3, <2>4
  <1>3. ASSUME NEW q \in Tasks
        PROVE  DoneJob(q)' /\ Cleaned(q)'
    <2>1. CASE q = p
      BY <2>1
    <2>2. CASE q # p
      BY <2>2 DEF TempsIInv, DoneJob, Cleaned, JobOk
    <2> QED BY <2>1, <2>2
  <1> QED BY <1>2, <1>3 DEF TempsIInv, OnThePool, DoneJob, Cleaned

\* A task that waits for no job, and one that waits for one that is queued.
LEMMA JobKinds ==
    ASSUME AsyncIInv, NEW p \in Tasks
    PROVE  /\ job[p].kind = "create" => pc[p] = "creating"
           /\ job[p].kind = "rename" => pc[p] = "renaming"
           /\ job[p].kind = "unlink" => pc[p] \in {"cleaning", "aborting"}
           /\ pc[p] = "creating" => job[p].kind = "create"
           /\ pc[p] = "creating" /\ ~JobOk(p) => job[p].file = NoFile
  BY DEF AsyncIInv, TypeOK, TaskInv, JobsInStep

\* A step of a call that leaves the file system and the pool alone.
LEMMA TempsQuiet ==
    ASSUME AsyncIInv, TempsIInv, NEW p \in Tasks,
           UNCHANGED <<fsVars, detached>>,
           \A q \in Tasks : q # p =>
              pc'[q] = pc[q] /\ writers'[q] = writers[q] /\ job'[q] = job[q],
           \A f \in temps : InHand(p, f) => InHand(p, f)',
           DoneJob(p)', Cleaned(p)'
    PROVE  TempsIInv'
  <1>1. temps' = temps /\ detached' = detached
    BY DEF fsVars
  <1>2. \A f \in temps' : OnThePool(f) => OnThePool(f)'
    BY <1>1 DEF OnThePool
  <1>3. \A j \in detached' : j.kind # "create"
    BY <1>1 DEF TempsIInv
  <1> QED BY <1>1, <1>2, <1>3, TempsKept

\* One that keeps its writers' files and temp_paths, and waited for no job that
\* creates, renames or unlinks, or for one that is over.
LEMMA TempsByWriter ==
    ASSUME AsyncIInv, TempsIInv, NEW p \in Tasks, NEW w, w = Writer(p),
           NEW w2 \in AsyncObjectWriter, NEW j2,
           pc[p] \notin {"idle", "creating", "cleaning", "aborting"},
           pc'[p] # "cleaning",
           pc[p] = "renaming" => JobOk(p),
           \A q \in Tasks : q # p => pc'[q] = pc[q] /\ job'[q] = job[q],
           job'[p] = j2,
           j2.kind \in {"rename", "unlink"} => j2.state = "queued",
           SetWriter(p, w2) \/ (writers' = writers /\ w2 = w),
           w2.file = w.file,
           \/ w2.temp_path = w.temp_path
           \/ j2.kind \in {"rename", "unlink"} /\ j2.file = w.file,
           UNCHANGED <<fsVars, detached>>
    PROVE  TempsIInv'
  <1>0. TypeOK /\ TaskInv(p)
    BY DEF AsyncIInv
  <1>1. InnermostBecomes(p, w2)
    BY WriterAfter
  <1>2. Len(writers[p]) \in DOMAIN writers[p] /\ w = writers[p][Len(writers[p])]
    BY <1>0, InnermostWriter
  <1>3. ASSUME NEW f \in temps, InHand(p, f)
        PROVE  InHand(p, f)'
    <2>1. CASE f \in OwnedTemps(p)
      <3>1. PICK k \in DOMAIN writers[p] : writers[p][k].temp_path /\ f = writers[p][k].file
        BY <2>1 DEF OwnedTemps
      <3>2. CASE k = Len(writers[p])
        <4>1. writers'[p][k] = w2 /\ f = w2.file
          BY <1>1, <1>2, <3>1, <3>2 DEF InnermostBecomes
        <4>2. CASE w2.temp_path = w.temp_path
          BY <1>1, <1>2, <3>1, <3>2, <4>1, <4>2 DEF InHand, OwnedTemps, InnermostBecomes
        <4>3. CASE j2.kind \in {"rename", "unlink"} /\ j2.file = w.file
          BY <4>1, <4>3 DEF InHand
        <4> QED BY <4>2, <4>3
      <3>3. CASE k # Len(writers[p])
        BY <1>1, <3>1, <3>3 DEF InHand, OwnedTemps, InnermostBecomes
      <3> QED BY <3>2, <3>3
    <2>2. CASE job[p].kind \in {"create", "rename", "unlink"} /\ f = job[p].file
      <3>1. job[p].kind = "rename" /\ JobOk(p)
        BY <2>2, JobKinds
      <3> QED BY <1>3, <2>2, <3>1 DEF TempsIInv, JobOk
    <2> QED BY <1>3, <2>1, <2>2 DEF InHand
  <1>4. DoneJob(p)' /\ Cleaned(p)'
    BY DEF DoneJob, Cleaned
  <1>5. \A q \in Tasks : q # p => writers'[q] = writers[q]
    BY <1>1 DEF InnermostBecomes
  <1> QED BY <1>3, <1>4, <1>5, TempsQuiet

\* The actions of a call that change only its writer, where it waits, and what
\* it hands to the background.
LEMMA TempsByCalls ==
    ASSUME AsyncIInv, TempsIInv, NEW p \in Tasks,
           \/ \E m \in Metadata, t \in Tags : Mutate(p, m, t)
           \/ Abort(p) \/ Finish(p) \/ SourceFlushed(p) \/ PrefixFlushed(p)
           \/ Synced(p) \/ Renamed(p) \/ ParentSynced(p) \/ Flushed(p)
    PROVE  TempsIInv'
  <1> SUFFICES ASSUME NEW w, w = Writer(p) PROVE TempsIInv'
    OBVIOUS
  <1>0. TypeOK
    BY DEF AsyncIInv
  <1>1. /\ pc[p] \notin {"idle", "creating", "cleaning", "aborting"}
        /\ pc[p] = "renaming" => JobOk(p)
        /\ UNCHANGED <<fsVars, detached>>
    BY DEF Mutate, Abort, Finish, AtFinish, SourceFlushed, PrefixFlushed, Synced,
           Renamed, ParentSynced, Flushed, poolVars
  <1>2. w \in AsyncObjectWriter
    BY <1>1, WriterFacts
  <1>3. ASSUME NEW m \in Metadata, NEW t \in Tags, Mutate(p, m, t)
        PROVE  TempsIInv'
    <2> DEFINE w2 == [w EXCEPT !.metadata = m, !.tags = t]
               j2 == job[p]
    <2>1. w2 \in AsyncObjectWriter /\ w2.file = w.file /\ w2.temp_path = w.temp_path
      BY <1>2 DEF AsyncObjectWriter
    <2>2. /\ SetWriter(p, w2) /\ pc' = pc /\ job' = job /\ job'[p] = j2
          /\ pc'[p] # "cleaning"
          /\ \A q \in Tasks : q # p => pc'[q] = pc[q] /\ job'[q] = job[q]
          /\ j2.kind \in {"rename", "unlink"} => j2.state = "queued"
      BY <1>1, <1>3, JobKinds DEF Mutate
    <2> HIDE DEF w2, j2
    <2> QED BY <1>1, <2>1, <2>2, TempsByWriter
  <1>4. CASE Abort(p)
    <2> DEFINE w2 == [w EXCEPT !.temp_path = FALSE]
               j2 == FileJob("unlink", w.file)
    <2>1. w2 \in AsyncObjectWriter /\ w2.file = w.file
      BY <1>2 DEF AsyncObjectWriter
    <2>2. /\ SetWriter(p, w2) /\ job'[p] = j2 /\ pc'[p] # "cleaning"
          /\ \A q \in Tasks : q # p => pc'[q] = pc[q] /\ job'[q] = job[q]
      BY <1>0, <1>4 DEF Abort, Await, Goto, TypeOK
    <2>3. j2.kind = "unlink" /\ j2.state = "queued" /\ j2.file = w.file
      BY DEF FileJob
    <2> HIDE DEF w2, j2
    <2> QED BY <1>1, <2>1, <2>2, <2>3, TempsByWriter
  <1>5. CASE Finish(p)
    <2> DEFINE w2 == [w EXCEPT !.layout = Refit(p)]
               j2 == job[p]
    <2>1. Refit(p) \in SectionLayout
      <3>1. /\ w.layout \in SectionLayout /\ w.layout_options \in LayoutOptions
            /\ w.metadata \in Metadata /\ w.tags \in Tags
        BY <1>2 DEF AsyncObjectWriter
      <3>2. w.layout.content_start \in 0 .. U32Max /\ w.layout_options.alignment \in Nat
        BY <3>1 DEF SectionLayout, LayoutOptions
      <3>3. Size[w.metadata] \in Nat /\ Size[w.tags] \in Nat
        BY <3>1, SizesAreNaturals
      <3>4. w.layout.content_start \in Nat
        BY <3>2, LayoutAssumption
      <3> QED BY <1>5, <3>2, <3>3, <3>4, RepartitionSound DEF Finish, Refit
    <2>2. w2 \in AsyncObjectWriter /\ w2.file = w.file /\ w2.temp_path = w.temp_path
      BY <1>2, <2>1 DEF AsyncObjectWriter
    <2>3. /\ SetWriter(p, w2) /\ job'[p] = j2 /\ pc'[p] # "cleaning"
          /\ \A q \in Tasks : q # p => pc'[q] = pc[q] /\ job'[q] = job[q]
          /\ j2.kind \in {"rename", "unlink"} => j2.state = "queued"
      BY <1>0, <1>1, <1>5, JobKinds DEF Finish, AtFinish, Goto, TypeOK
    <2> HIDE DEF w2, j2
    <2> QED BY <1>1, <2>2, <2>3, TempsByWriter
  <1>6. CASE SourceFlushed(p) \/ Flushed(p)
    <2> DEFINE j2 == job[p]
    <2>1. /\ writers' = writers /\ job'[p] = j2 /\ pc'[p] # "cleaning"
          /\ \A q \in Tasks : q # p => pc'[q] = pc[q] /\ job'[q] = job[q]
          /\ j2.kind \in {"rename", "unlink"} => j2.state = "queued"
      BY <1>0, <1>1, <1>6, JobKinds DEF SourceFlushed, Flushed, Goto, TypeOK
    <2> HIDE DEF j2
    <2> QED BY <1>1, <1>2, <2>1, TempsByWriter
  <1>7. ASSUME StartRename(p)
        PROVE  TempsIInv'
    <2> DEFINE w2 == [w EXCEPT !.temp_path = FALSE]
               j2 == [FileJob("rename", w.file) EXCEPT !.path = w.final_path]
    <2>1. w2 \in AsyncObjectWriter /\ w2.file = w.file
      BY <1>2 DEF AsyncObjectWriter
    <2>2. /\ SetWriter(p, w2) /\ job'[p] = j2 /\ pc'[p] # "cleaning"
          /\ \A q \in Tasks : q # p => pc'[q] = pc[q] /\ job'[q] = job[q]
      BY <1>0, <1>7 DEF StartRename, Await, Goto, TypeOK
    <2>3. j2.kind = "rename" /\ j2.state = "queued" /\ j2.file = w.file
      BY DEF FileJob
    <2> HIDE DEF w2, j2
    <2> QED BY <1>1, <2>1, <2>2, <2>3, TempsByWriter
  <1>8. CASE PrefixFlushed(p)
    <2>1. CASE w.sync
      <3> DEFINE j2 == FileJob("fsync", w.file)
      <3>1. /\ writers' = writers /\ job'[p] = j2 /\ pc'[p] # "cleaning"
            /\ \A q \in Tasks : q # p => pc'[q] = pc[q] /\ job'[q] = job[q]
        BY <1>0, <1>8, <2>1 DEF PrefixFlushed, Await, Goto, TypeOK
      <3>2. j2.kind = "fsync"
        BY DEF FileJob
      <3> HIDE DEF j2
      <3> QED BY <1>1, <1>2, <3>1, <3>2, TempsByWriter
    <2>2. CASE ~w.sync
      BY <1>7, <1>8, <2>2 DEF PrefixFlushed
    <2> QED BY <2>1, <2>2
  <1>9. CASE Synced(p)
    BY <1>7, <1>9 DEF Synced
  <1>10. CASE Renamed(p) \/ ParentSynced(p)
    <2>1. PICK j2 \in {NoJob, FileJob("syncdir", NoFile)} :
             /\ job' = [job EXCEPT ![p] = j2]
             /\ pc' \in {[pc EXCEPT ![p] = "syncdir"], [pc EXCEPT ![p] = "reopen"]}
      BY <1>10 DEF Renamed, ParentSynced, Await, Goto
    <2>2. /\ writers' = writers /\ job'[p] = j2 /\ pc'[p] # "cleaning"
          /\ \A q \in Tasks : q # p => pc'[q] = pc[q] /\ job'[q] = job[q]
      BY <1>0, <1>10, <2>1 DEF Renamed, ParentSynced, TypeOK
    <2>3. j2.kind \notin {"rename", "unlink"}
      BY <2>1 DEF NoJob, FileJob
    <2> QED BY <1>1, <1>2, <2>2, <2>3, TempsByWriter
  <1> QED BY <1>3, <1>4, <1>5, <1>6, <1>8, <1>9, <1>10

\* Bytes are handed to the background.
LEMMA TempsByWrites ==
    ASSUME AsyncIInv, TempsIInv, NEW p \in Tasks,
           (\E chunk \in Chunks : Write(p, chunk)) \/ Copy(p)
    PROVE  TempsIInv'
  <1> SUFFICES ASSUME NEW w, w = Writer(p) PROVE TempsIInv'
    OBVIOUS
  <1> DEFINE j2 == job[p]
  <1>0. TypeOK
    BY DEF AsyncIInv
  <1>1. /\ pc[p] \in {"writing", "copying"} /\ pc'[p] # "cleaning"
        /\ job'[p] = j2 /\ UNCHANGED <<fsVars, detached>>
        /\ \A q \in Tasks : q # p => pc'[q] = pc[q] /\ job'[q] = job[q]
    BY <1>0 DEF Write, Copy, Goto, TypeOK
  <1>2. j2.kind \notin {"rename", "unlink"}
    BY <1>1, JobKinds
  <1>3. w \in AsyncObjectWriter
    BY <1>1, WriterFacts
  <1>4. PICK pieces \in Seq(Pieces) : Queue(p, pieces, w)
    <2>1. ASSUME NEW chunk \in Chunks, Write(p, chunk)
          PROVE  \E pieces \in Seq(Pieces) : Queue(p, pieces, w)
      <3>1. <<chunk>> \in Seq(Pieces)
        BY DEF Pieces
      <3> QED BY <2>1, <3>1 DEF Write
    <2>2. CASE Copy(p)
      BY <2>2, SourceIsPieces DEF Copy
    <2> QED BY <2>1, <2>2
  <1> DEFINE w2 == [w EXCEPT !.content_length = @ + Len(pieces)]
  <1>5. w2 \in AsyncObjectWriter /\ w2.file = w.file /\ w2.temp_path = w.temp_path
    <2>1. w.content_length + Len(pieces) \in Nat
      BY <1>3, <1>4 DEF AsyncObjectWriter
    <2> QED BY <1>3, <2>1 DEF AsyncObjectWriter
  <1>6. SetWriter(p, w2)
    BY <1>4 DEF Queue
  <1> HIDE DEF w2, j2
  <1> QED BY <1>1, <1>2, <1>3, <1>5, <1>6, TempsByWriter

\* A task that has no temporary file in hand.
LEMMA TempsElsewhere ==
    ASSUME AsyncIInv, TempsIInv, NEW p \in Tasks,
           UNCHANGED <<fsVars, detached>>,
           \A q \in Tasks : q # p =>
              pc'[q] = pc[q] /\ writers'[q] = writers[q] /\ job'[q] = job[q],
           \A f \in temps : ~InHand(p, f),
           pc'[p] # "cleaning", job'[p].kind \notin {"rename", "unlink"}
    PROVE  TempsIInv'
  <1>1. DoneJob(p)' /\ Cleaned(p)'
    BY DEF DoneJob, Cleaned
  <1> QED BY <1>1, TempsQuiet

\* An object is opened, or closed.
LEMMA TempsByHandles ==
    ASSUME AsyncIInv, TempsIInv, NEW p \in Tasks,
           \/ \E path \in Paths, writable \in BOOLEAN : Open(p, path, writable)
           \/ Close(p)
    PROVE  TempsIInv'
  BY DEF Open, Close, TempsIInv, InHand, OwnedTemps, JobOk, fsVars, poolVars

\* A writer that is being created has no file yet, and its call keeps the others.
LEMMA TempsByCreate ==
    ASSUME AsyncIInv, TempsIInv, NEW p \in Tasks, NEW path, NEW options,
           NEW sync, NEW m, NEW t, pc[p] \in {"idle", "writing", "copyflush"},
           Create(p, writers[p], path, options, sync, m, t)
    PROVE  TempsIInv'
  <1>0. TypeOK
    BY DEF AsyncIInv
  <1>1. PICK w2 : writers' = [writers EXCEPT ![p] = Append(writers[p], w2)]
    BY DEF Create
  <1>2. PICK start :
            job' = [job EXCEPT ![p] = [FileJob("create", NoFile) EXCEPT
                                           !.content_start = start]]
    BY DEF Create, Await
  <1>3. job'[p].kind = "create"
    BY <1>0, <1>2 DEF TypeOK, FileJob
  <1>4. pc' = [pc EXCEPT ![p] = "creating"] /\ UNCHANGED <<fsVars, detached>>
    BY DEF Create, Await, Goto, poolVars
  <1>5. \A q \in Tasks : q # p =>
           pc'[q] = pc[q] /\ writers'[q] = writers[q] /\ job'[q] = job[q]
    BY <1>0, <1>1, <1>2, <1>4 DEF TypeOK
  <1>6. ASSUME NEW f \in temps, InHand(p, f)
        PROVE  InHand(p, f)'
    <2>1. f \in OwnedTemps(p)
      BY <1>6, JobKinds DEF InHand
    <2>2. PICK k \in DOMAIN writers[p] : writers[p][k].temp_path /\ f = writers[p][k].file
      BY <2>1 DEF OwnedTemps
    <2>3. k \in DOMAIN writers'[p] /\ writers'[p][k] = writers[p][k]
      <3>1. writers[p] \in Seq(AsyncObjectWriter)
        BY <1>0 DEF TypeOK
      <3>2. writers'[p] = Append(writers[p], w2)
        BY <1>0, <1>1 DEF TypeOK
      <3> QED BY <2>2, <3>1, <3>2
    <2> QED BY <2>2, <2>3 DEF InHand, OwnedTemps
  <1>7. DoneJob(p)' /\ Cleaned(p)'
    BY <1>0, <1>3, <1>4 DEF DoneJob, Cleaned, TypeOK
  <1> QED BY <1>4, <1>5, <1>6, <1>7, TempsQuiet

\* create, of a caller, of finish, or of a setter.
LEMMA TempsByCreates ==
    ASSUME AsyncIInv, TempsIInv, NEW p \in Tasks,
           \/ \E path \in Paths, options \in LayoutChoices, sync \in Syncs,
                 m \in Metadata, t \in Tags :
                  CallerCreates(p, path, options, sync, m, t)
           \/ FinishByRewriting(p)
           \/ \E m \in Metadata : SetMetadata(p, m)
           \/ \E t \in Tags : SetTags(p, t)
           \/ \E m \in Metadata, t \in Tags : SetSections(p, m, t)
    PROVE  TempsIInv'
  <1>0. TypeOK
    BY DEF AsyncIInv
  <1>1. ASSUME NEW m, NEW t, Rewrite(p, m, t)
        PROVE  TempsIInv'
    <2>1. pc[p] = "idle" /\ writers[p] = <<>>
      BY <1>0, <1>1 DEF Rewrite, TypeOK
    <2> DEFINE h == handle[p]
               options == [DefaultOptions EXCEPT
                              !.min_content_start = h.header.content_start]
    <2>2. PICK sync : sync = TRUE
      OBVIOUS
    <2>3. Create(p, writers[p], h.path, options, sync, m, t)
      BY <1>1, <2>1, <2>2 DEF Rewrite
    <2> HIDE DEF h, options
    <2> QED BY <2>1, <2>3, TempsByCreate
  <1>2. ASSUME NEW path \in Paths, NEW options \in LayoutChoices, NEW sync \in Syncs,
               NEW m \in Metadata, NEW t \in Tags,
               CallerCreates(p, path, options, sync, m, t)
        PROVE  TempsIInv'
    <2>1. pc[p] = "idle" /\ writers[p] = <<>>
      BY <1>0, <1>2 DEF CallerCreates, TypeOK
    <2> QED BY <1>2, <2>1, TempsByCreate DEF CallerCreates
  <1>3. CASE FinishByRewriting(p)
    BY <1>3, TempsByCreate DEF FinishByRewriting, AtFinish
  <1> QED BY <1>1, <1>2, <1>3 DEF SetMetadata, SetTags, SetSections

\* The created file reaches its writer, which owns it.
LEMMA TempsByCreated ==
    ASSUME AsyncIInv, TempsIInv, NEW p \in Tasks, Created(p)
    PROVE  TempsIInv'
  <1> SUFFICES ASSUME NEW w, w = Writer(p) PROVE TempsIInv'
    OBVIOUS
  <1>0. TypeOK /\ TaskInv(p)
    BY DEF AsyncIInv
  <1>1. pc[p] = "creating" /\ JobOk(p)
    BY DEF Created
  <1> DEFINE w2 == [w EXCEPT !.file = job[p].file, !.temp_path = TRUE]
  <1>2. /\ w \in AsyncObjectWriter
        /\ Len(writers[p]) \in DOMAIN writers[p] /\ w = writers[p][Len(writers[p])]
    BY <1>0, <1>1, InnermostWriter
  <1>3. job[p].file \in Files \cup {NoFile}
    BY <1>0 DEF TypeOK, Job
  <1>4. w2 \in AsyncObjectWriter /\ w2.file = job[p].file /\ w2.temp_path
    BY <1>2, <1>3 DEF AsyncObjectWriter
  <1>5. SetWriter(p, w2)
    BY DEF Created
  <1> HIDE DEF w2
  <1>6. InnermostBecomes(p, w2)
    BY <1>0, <1>1, <1>4, <1>5, SetWriterEffect DEF InnermostBecomes
  <1>7. /\ pc'[p] # "cleaning" /\ job'[p] = NoJob
        /\ UNCHANGED <<fsVars, detached>>
        /\ \A q \in Tasks : q # p => pc'[q] = pc[q] /\ job'[q] = job[q]
    BY <1>0 DEF Created, Await, Goto, TypeOK, poolVars
  <1>8. ASSUME NEW f \in temps, InHand(p, f)
        PROVE  InHand(p, f)'
    <2>1. CASE f = job[p].file
      BY <1>2, <1>4, <1>6, <2>1 DEF InHand, OwnedTemps, InnermostBecomes
    <2>2. CASE f \in OwnedTemps(p)
      <3>1. PICK k \in DOMAIN writers[p] : writers[p][k].temp_path /\ f = writers[p][k].file
        BY <2>2 DEF OwnedTemps
      <3>2. f # NoFile
        BY <1>0, FileNumbers DEF TypeOK
      <3>3. k # Len(writers[p])
        BY <1>0, <1>1, <3>1, <3>2 DEF TaskInv, WritersHaveFiles
      <3> QED BY <1>6, <3>1, <3>3 DEF InHand, OwnedTemps, InnermostBecomes
    <2> QED BY <1>8, <2>1, <2>2 DEF InHand
  <1>9. DoneJob(p)' /\ Cleaned(p)'
    BY <1>7 DEF DoneJob, Cleaned, NoJob
  <1>10. \A q \in Tasks : q # p =>
            pc'[q] = pc[q] /\ writers'[q] = writers[q] /\ job'[q] = job[q]
    BY <1>6, <1>7 DEF InnermostBecomes
  <1> QED BY <1>7, <1>8, <1>9, <1>10, TempsQuiet

\* The writer that was replaced hands its file to the unlink.
LEMMA TempsByCleanUp ==
    ASSUME AsyncIInv, TempsIInv, NEW p \in Tasks, CleanUp(p)
    PROVE  TempsIInv'
  <1>0. TypeOK
    BY DEF AsyncIInv
  <1>1. pc[p] = "reopen"
    BY DEF CleanUp
  <1>2. /\ pc' = [pc EXCEPT ![p] = "cleaning"]
        /\ job' = [job EXCEPT ![p] = FileJob("unlink", writers[p][1].file)]
        /\ writers' = [writers EXCEPT ![p][1].temp_path = FALSE]
        /\ UNCHANGED <<fsVars, detached>>
    BY DEF CleanUp, Await, Goto, poolVars
  <1>3. /\ 1 \in DOMAIN writers[p] /\ writers[p][1] \in AsyncObjectWriter
        /\ DOMAIN writers'[p] = DOMAIN writers[p]
        /\ writers'[p][1] = [writers[p][1] EXCEPT !.temp_path = FALSE]
        /\ \A k \in DOMAIN writers[p] : k # 1 => writers'[p][k] = writers[p][k]
        /\ \A q \in Tasks : q # p => writers'[q] = writers[q]
    <2>1. writers'[p] = [writers[p] EXCEPT ![1] = [@ EXCEPT !.temp_path = FALSE]]
      BY <1>0, <1>2 DEF TypeOK
    <2>2. 1 \in DOMAIN writers[p] /\ writers[p] \in Seq(AsyncObjectWriter)
      BY <1>0, <1>1, InnermostWriter
    <2>3. \A q \in Tasks : q # p => writers'[q] = writers[q]
      BY <1>0, <1>2 DEF TypeOK
    <2> QED BY <2>1, <2>2, <2>3
  <1>4. ~writers'[p][1].temp_path
    BY <1>3 DEF AsyncObjectWriter
  <1>5. /\ job'[p] = FileJob("unlink", writers[p][1].file)
        /\ job'[p].kind = "unlink" /\ job'[p].file = writers[p][1].file
        /\ job'[p].state = "queued"
    BY <1>0, <1>2 DEF TypeOK, FileJob
  <1>6. ASSUME NEW f \in temps, InHand(p, f)
        PROVE  InHand(p, f)'
    <2>1. f \in OwnedTemps(p)
      BY <1>1, <1>6, JobKinds DEF InHand
    <2>2. PICK k \in DOMAIN writers[p] : writers[p][k].temp_path /\ f = writers[p][k].file
      BY <2>1 DEF OwnedTemps
    <2>3. CASE k = 1
      BY <1>5, <2>2, <2>3 DEF InHand
    <2>4. CASE k # 1
      BY <1>3, <2>2, <2>4 DEF InHand, OwnedTemps
    <2> QED BY <2>3, <2>4
  <1>7. DoneJob(p)' /\ Cleaned(p)'
    BY <1>4, <1>5 DEF DoneJob, Cleaned
  <1>8. \A q \in Tasks : q # p =>
           pc'[q] = pc[q] /\ writers'[q] = writers[q] /\ job'[q] = job[q]
    BY <1>0, <1>2, <1>3 DEF TypeOK
  <1> QED BY <1>2, <1>6, <1>7, <1>8, TempsQuiet

\* finish returns; none of its writers owns a file any more.
LEMMA TempsByReturn ==
    ASSUME AsyncIInv, TempsIInv, NEW p \in Tasks, Return(p)
    PROVE  TempsIInv'
  <1> DEFINE n == Len(writers[p])
  <1>0. TypeOK /\ TaskInv(p)
    BY DEF AsyncIInv
  <1>1. /\ pc[p] \in {"reopen", "cleaning"}
        /\ pc[p] = "reopen" => n = 1
        /\ pc[p] = "cleaning" => JobOk(p) \/ JobFailed(p)
    BY DEF Return
  <1>2. n \in DOMAIN writers[p] /\ Writer(p) = writers[p][n] /\ DOMAIN writers[p] = 1 .. n
    BY <1>0, <1>1, InnermostWriter
  <1>3. ASSUME NEW k \in DOMAIN writers[p]
        PROVE  ~writers[p][k].temp_path
    <2>1. ~writers[p][n].temp_path
      BY <1>0, <1>1, <1>2 DEF TaskInv, CallsNest, Publishing
    <2>2. CASE pc[p] = "reopen"
      <3>1. n = 1 /\ DOMAIN writers[p] = 1 .. n
        BY <1>1, <1>2, <2>2
      <3> HIDE DEF n
      <3>2. k = n
        BY <3>1
      <3> QED BY <2>1, <3>2
    <2>3. CASE pc[p] = "cleaning"
      <3>1. n = 2 /\ DOMAIN writers[p] = 1 .. n /\ ~writers[p][1].temp_path
        BY <1>0, <1>2, <2>3 DEF TaskInv, CallsNest, TempsIInv
      <3> HIDE DEF n
      <3>2. k = n \/ k = 1
        BY <3>1
      <3> QED BY <2>1, <3>1, <3>2
    <2> QED BY <1>1, <2>2, <2>3
  <1>4. ASSUME NEW f \in temps
        PROVE  ~InHand(p, f)
    <2>1. job[p].kind \in {"create", "rename", "unlink"} =>
             pc[p] = "cleaning" /\ job[p].kind = "unlink"
      BY <1>1, JobKinds
    <2>2. job[p].kind = "unlink" => job[p].file \notin temps
      BY <1>1, <2>1 DEF TempsIInv, JobOk, JobFailed
    <2> QED BY <1>3, <2>1, <2>2 DEF InHand, OwnedTemps
  <1>5. /\ writers' = [writers EXCEPT ![p] = <<>>]
        /\ pc' = [pc EXCEPT ![p] = "idle"] /\ job' = [job EXCEPT ![p] = NoJob]
        /\ UNCHANGED <<fsVars, detached>>
    BY DEF Return, Await, Goto, poolVars
  <1>6. /\ \A q \in Tasks : q # p =>
              pc'[q] = pc[q] /\ writers'[q] = writers[q] /\ job'[q] = job[q]
        /\ pc'[p] # "cleaning" /\ job'[p].kind \notin {"rename", "unlink"}
    BY <1>0, <1>5 DEF TypeOK, NoJob
  <1> QED BY <1>4, <1>5, <1>6, TempsElsewhere

\* Drop removes what the writers of the call own, and a job that was under way
\* goes on: it is over, or it is on the pool.
LEMMA TempsByEndings ==
    ASSUME AsyncIInv, TempsIInv, ~GoOn, NothingCutShort, NEW p \in Tasks,
           \/ WriteErrs(p) \/ Abandon(p) \/ Aborted(p) \/ RewritingFails(p)
           \/ CallFails(p) \/ Cancel(p)
    PROVE  TempsIInv'
  <1>0. TypeOK
    BY DEF AsyncIInv
  <1>1. DropWriters(p)
    BY DEF WriteErrs, Abandon, Aborted, RewritingFails, CallFails, Cancel
  <1>2. /\ temps' = temps \ OwnedTemps(p) /\ pc'[p] = "idle" /\ job'[p] = NoJob
        /\ \A q \in Tasks : q # p =>
              pc'[q] = pc[q] /\ writers'[q] = writers[q] /\ job'[q] = job[q]
    BY <1>0, <1>1 DEF DropWriters, RemoveTemps, DeleteTemps, Goto, TypeOK
  <1>3. NoFile \notin temps
    BY <1>0, FileNumbers DEF TypeOK
  <1>4. /\ detached \subseteq detached'
        /\ \A j \in detached' : j.kind # "create"
    <2>1. CASE Cancel(p)
      <3>1. pc[p] # "creating" /\ detached' \in {detached, detached \cup {job[p]}}
        BY <2>1 DEF Cancel, NothingCutShort
      <3>2. job[p].kind # "create"
        BY <3>1, JobKinds
      <3> QED BY <3>1, <3>2 DEF TempsIInv
    <2>2. CASE ~Cancel(p)
      <3>1. detached' = detached
        BY <2>2 DEF WriteErrs, Abandon, Aborted, RewritingFails, CallFails
      <3> QED BY <3>1 DEF TempsIInv
    <2> QED BY <2>1, <2>2
  <1>5. ASSUME NEW f \in temps', InHand(p, f)
        PROVE  OnThePool(f)'
    <2>1. job[p].kind \in {"create", "rename", "unlink"} /\ f = job[p].file
      BY <1>2, <1>5 DEF InHand
    <2>2. f \in temps /\ f # NoFile
      BY <1>2, <1>3
    <2>3. job[p].kind = "create" => pc[p] = "creating" /\ JobOk(p)
      BY <2>1, <2>2, JobKinds
    <2>4. job[p].kind \in {"rename", "unlink"} =>
             /\ job[p].state = "queued"
             /\ pc[p] \in {"renaming", "cleaning", "aborting"}
      BY <2>1, <2>2, JobKinds DEF TempsIInv
    <2>5. Cancel(p)
      BY <2>1, <2>3, <2>4
      DEF WriteErrs, Abandon, Aborted, RewritingFails, AtFinish, CallFails, JobOk,
          JobFailed
    <2>6. job[p].kind # "create" /\ job[p].state = "queued"
      BY <2>1, <2>3, <2>4, <2>5 DEF Cancel, NothingCutShort
    <2>7. job[p] \in detached'
      BY <2>5, <2>6 DEF Cancel
    <2> QED BY <2>1, <2>6, <2>7 DEF OnThePool
  <1>6. DoneJob(p)' /\ Cleaned(p)'
    BY <1>2 DEF DoneJob, Cleaned, NoJob
  <1>7. \A f \in temps' : OnThePool(f) => OnThePool(f)'
    BY <1>4 DEF OnThePool
  <1> QED BY <1>2, <1>4, <1>5, <1>6, <1>7, TempsKept

\* A rename or an unlink that has run leaves no temporary name.
LEMMA PerformTemps ==
    ASSUME NEW j, Perform(j), j.kind # "create"
    PROVE  /\ temps' \subseteq temps
           /\ j.kind \in {"rename", "unlink"} => j.file \notin temps'
  BY DEF Perform, SyncFile, RenameFile, DeleteTemps, SyncDirectory, fsVars

\* What a task waits to see renamed or unlinked was created.
LEMMA JobFileWasCreated ==
    ASSUME AsyncIInv, NEW p \in Tasks, job[p].kind \in {"rename", "unlink"}
    PROVE  job[p].file \in 1 .. created
  <1>1. CASE job[p].kind = "rename"
    BY <1>1, RenamedIsShown DEF Shown
  <1>2. CASE job[p].kind = "unlink"
    <2>1. PICK k \in DOMAIN writers[p] : FileOf(p, k) = job[p].file
      BY <1>2, UnlinkedIsRemoved
    <2>2. job[p].file # NoFile
      BY <1>2, UnlinkedIsRemoved, FileNumbers DEF AsyncIInv
    <2> QED BY <2>1, <2>2 DEF AsyncIInv, TaskInv, WritersHaveFiles
  <1> QED BY <1>1, <1>2

LEMMA TempsByJob ==
    ASSUME AsyncIInv, TempsIInv, NEW p \in Tasks, JobRuns(p)
    PROVE  TempsIInv'
  <1> SUFFICES ASSUME NEW j, j = job[p] PROVE TempsIInv'
    OBVIOUS
  <1>0. TypeOK /\ created \in Nat /\ NoFile \notin Files
    BY FileNumbers DEF AsyncIInv
  <1>1. /\ Perform(j) /\ j \in Job /\ j.state = "queued"
        /\ pc' = pc /\ writers' = writers /\ detached' = detached
        /\ \A q \in Tasks : q # p => job'[q] = job[q]
        /\ job'[p].kind = j.kind /\ job'[p].state = "ok"
        /\ job'[p].file = IF j.kind = "create" THEN Fresh ELSE j.file
    BY <1>0 DEF JobRuns, poolVars, TypeOK, Job
  <1>2. CASE j.kind # "create"
    <2>1. /\ temps' \subseteq temps
          /\ j.kind \in {"rename", "unlink"} => j.file \notin temps'
      BY <1>1, <1>2, PerformTemps
    <2>2. \A f \in temps' : InHand(p, f) => InHand(p, f)'
      BY <1>1, <1>2 DEF InHand, OwnedTemps
    <2>3. DoneJob(p)' /\ Cleaned(p)'
      BY <1>1, <1>2, <2>1 DEF DoneJob, Cleaned, JobOk, TempsIInv
    <2>4. \A f \in temps' : OnThePool(f) => OnThePool(f)'
      BY <1>1 DEF OnThePool
    <2>5. \A d \in detached' : d.kind # "create"
      BY <1>1 DEF TempsIInv
    <2>6. \A q \in Tasks : q # p =>
             pc'[q] = pc[q] /\ writers'[q] = writers[q] /\ job'[q] = job[q]
      BY <1>1
    <2> QED BY <2>1, <2>2, <2>3, <2>4, <2>5, <2>6, TempsKept
  <1>3. CASE j.kind = "create"
    <2>1. temps' = temps \cup {Fresh}
      BY <1>1, <1>3 DEF Perform, CreateFile
    <2>2. j.file = NoFile
      BY <1>1, <1>3, JobKinds DEF JobOk
    <2>3. ASSUME NEW q \in Tasks, NEW f \in temps, InHand(q, f)
          PROVE  InHand(q, f)'
      <3>1. f # NoFile
        BY <1>0 DEF TypeOK
      <3> QED BY <1>1, <2>2, <2>3, <3>1 DEF InHand, OwnedTemps
    <2>4. ASSUME NEW f \in temps'
          PROVE  (\E q \in Tasks : InHand(q, f)') \/ OnThePool(f)'
      <3>1. CASE f = Fresh
        <4>1. InHand(p, f)'
          BY <1>1, <1>3, <3>1 DEF InHand
        <4> QED BY <4>1
      <3>2. CASE f \in temps
        BY <1>1, <2>3, <3>2 DEF TempsIInv, OnThePool
      <3> QED BY <2>1, <3>1, <3>2
    <2>5. ASSUME NEW q \in Tasks
          PROVE  DoneJob(q)' /\ Cleaned(q)'
      <3>1. CASE q = p
        BY <1>1, <1>3, <3>1 DEF DoneJob, Cleaned, TempsIInv
      <3>2. CASE q # p
        <4>1. job[q].kind \in {"rename", "unlink"} => job[q].file # Fresh
          BY <1>0, JobFileWasCreated DEF Fresh
        <4> QED BY <1>1, <2>1, <3>2, <4>1 DEF DoneJob, Cleaned, JobOk, TempsIInv
      <3> QED BY <3>1, <3>2
    <2>6. \A d \in detached' : d.kind # "create"
      BY <1>1 DEF TempsIInv
    <2> QED BY <2>4, <2>5, <2>6 DEF TempsIInv, OnThePool, DoneJob, Cleaned
  <1> QED BY <1>2, <1>3

LEMMA TempsByFailingJob ==
    ASSUME AsyncIInv, TempsIInv, NothingCutShort, NEW p \in Tasks, JobFails(p)
    PROVE  TempsIInv'
  <1>0. TypeOK
    BY DEF AsyncIInv
  <1>1. /\ UNCHANGED <<fsVars, detached>> /\ pc' = pc /\ writers' = writers
        /\ \A q \in Tasks : q # p => job'[q] = job[q]
        /\ job'[p].kind = job[p].kind /\ job'[p].file = job[p].file
        /\ job[p].kind \notin {"rename", "unlink"}
    BY <1>0 DEF JobFails, MayFail, NothingCutShort, poolVars, TypeOK, Job
  <1>2. \A f \in temps : InHand(p, f) => InHand(p, f)'
    BY <1>1 DEF InHand, OwnedTemps
  <1>3. DoneJob(p)' /\ Cleaned(p)'
    BY <1>1 DEF DoneJob, Cleaned, TempsIInv
  <1> QED BY <1>1, <1>2, <1>3, TempsQuiet

\* A job nobody waits for any more does what it would have done.
LEMMA TempsByDetached ==
    ASSUME AsyncIInv, TempsIInv, NothingCutShort, NEW j \in detached, DetachedRuns(j)
    PROVE  TempsIInv'
  <1>1. /\ pc' = pc /\ writers' = writers /\ job' = job
        /\ detached' = detached \ {j}
        /\ Perform(j) \/ ((MayFail(j) \/ j.kind = "syncdir") /\ UNCHANGED fsVars)
    BY DEF DetachedRuns, taskVars
  <1>2. j.kind # "create"
    BY DEF TempsIInv
  <1>3. /\ temps' \subseteq temps
        /\ j.kind \in {"rename", "unlink"} => j.file \notin temps'
    <2>1. CASE Perform(j)
      BY <1>2, <2>1, PerformTemps
    <2>2. CASE (MayFail(j) \/ j.kind = "syncdir") /\ UNCHANGED fsVars
      BY <2>2 DEF MayFail, NothingCutShort, fsVars
    <2> QED BY <1>1, <2>1, <2>2
  <1>4. ASSUME NEW f \in temps'
        PROVE  (\E q \in Tasks : InHand(q, f)') \/ OnThePool(f)'
    <2>1. (\E q \in Tasks : InHand(q, f)) \/ OnThePool(f)
      BY <1>3, <1>4 DEF TempsIInv, OnThePool
    <2>2. CASE OnThePool(f)
      BY <1>1, <1>3, <1>4, <2>2 DEF OnThePool
    <2>3. ASSUME NEW q \in Tasks, InHand(q, f)
          PROVE  InHand(q, f)'
      BY <1>1, <2>3 DEF InHand, OwnedTemps
    <2> QED BY <2>1, <2>2, <2>3
  <1>5. \A q \in Tasks : DoneJob(q)' /\ Cleaned(q)'
    BY <1>1, <1>3 DEF DoneJob, Cleaned, JobOk, TempsIInv
  <1>6. \A d \in detached' : d.kind # "create"
    BY <1>1 DEF TempsIInv
  <1> QED BY <1>4, <1>5, <1>6 DEF TempsIInv, OnThePool, DoneJob, Cleaned

\* A step that has nothing to do with names.
LEMMA TempsUntouched ==
    ASSUME TempsIInv, UNCHANGED <<temps, pc, writers, job, detached>>
    PROVE  TempsIInv'
  BY DEF TempsIInv, InHand, OwnedTemps, JobOk

LEMMA InitTemps == Init => TempsIInv
  BY DEF Init, FsInit, TempsIInv, NoJob

LEMMA NextTemps ==
    ASSUME ~GoOn, NothingCutShort, AsyncIInv, TempsIInv, [Next]_vars
    PROVE  TempsIInv'
  <1>1. CASE UNCHANGED vars
    BY <1>1, TempsUntouched DEF vars, fsVars, taskVars, poolVars
  <1>2. ~Kill /\ ~PowerLoss
    BY DEF NothingCutShort, Kill, PowerLoss
  <1>3. ASSUME NEW p \in Tasks,
               \/ \E path \in Paths, writable \in BOOLEAN :
                      Open(p, path, writable)
               \/ Close(p)
        PROVE  TempsIInv'
    BY <1>3, TempsByHandles
  <1>4. ASSUME NEW p \in Tasks,
               \/ \E path \in Paths, options \in LayoutChoices, sync \in Syncs,
                     m \in Metadata, t \in Tags :
                      CallerCreates(p, path, options, sync, m, t)
               \/ FinishByRewriting(p)
               \/ \E m \in Metadata : SetMetadata(p, m)
               \/ \E t \in Tags : SetTags(p, t)
               \/ \E m \in Metadata, t \in Tags : SetSections(p, m, t)
        PROVE  TempsIInv'
    BY <1>4, TempsByCreates
  <1>5. ASSUME NEW p \in Tasks,
               \/ \E m \in Metadata, t \in Tags : Mutate(p, m, t)
               \/ Abort(p) \/ Finish(p) \/ SourceFlushed(p) \/ PrefixFlushed(p)
               \/ Synced(p) \/ Renamed(p) \/ ParentSynced(p) \/ Flushed(p)
        PROVE  TempsIInv'
    BY <1>5, TempsByCalls
  <1>6. ASSUME NEW p \in Tasks,
               \/ \E chunk \in Chunks : Write(p, chunk)
               \/ Copy(p) \/ Created(p) \/ CleanUp(p) \/ Return(p)
        PROVE  TempsIInv'
    BY <1>6, TempsByWrites, TempsByCreated, TempsByCleanUp, TempsByReturn
  <1>7. ASSUME NEW p \in Tasks,
               \/ WriteErrs(p) \/ Abandon(p) \/ Aborted(p) \/ RewritingFails(p)
               \/ CallFails(p) \/ Cancel(p)
        PROVE  TempsIInv'
    BY <1>7, TempsByEndings
  <1>8. ASSUME NEW f \in Files, WriteRuns(f) \/ WriteFails(f)
        PROVE  TempsIInv'
    BY <1>8, TempsUntouched DEF WriteRuns, WriteFails, WriteFile, fsVars, taskVars
  <1>9. CASE Pool
    BY <1>8, <1>9, TempsByJob, TempsByFailingJob, TempsByDetached DEF Pool
  <1> QED
    BY <1>1, <1>2, <1>3, <1>4, <1>5, <1>6, <1>7, <1>9 DEF Next, CallRefused

\* As long as no process is killed, no rename or unlink fails and no future is
\* dropped while its file is being created, whatever else fails or is dropped:
\* a rename or an unlink that is over has taken its name away, and a call that
\* comes back from finish_by_rewriting (async_io.rs:651-653) has given up the
\* first file.
THEOREM AsyncTempsInvariant ==
    ASSUME ~GoOn, NothingCutShort PROVE Spec => []TempsIInv
  <1>1. PowerSafe
    BY DEF PowerSafe, NothingCutShort
  <1>2. Init => AsyncIInv /\ TempsIInv
    BY InitAsyncIInv, InitTemps
  <1>3. AsyncIInv /\ TempsIInv /\ [Next]_vars => AsyncIInv' /\ TempsIInv'
    BY <1>1, NextAsyncIInv, NextTemps
  <1> QED BY <1>2, <1>3, PTL DEF Spec

\* Under the same conditions a temporary file belongs to a writer, or a job on the
\* pool has it in hand (Drop, async_io.rs:657-668).
THEOREM AsyncTempsAreOwned ==
    ASSUME ~GoOn, NothingCutShort PROVE Spec => []TempsOwned
  <1>1. TempsIInv => TempsOwned
    BY DEF TempsIInv, TempsOwned, InHand, HandedOver
  <1> QED BY <1>1, AsyncTempsInvariant, PTL
-----------------------------------------------------------------------------
(***************************************************************************)
(* The register.  What is published is what a caller wrote, a setter       *)
(* carries over the content of the object it replaces, no two renames      *)
(* nobody waits for are of one file, and each step of the store is a step  *)
(* of the register or none.                                                *)
(***************************************************************************)

\* What callers write, up to the bound.
Written == {s \in Seq(Chunks) : Len(s) <= MaxContent}

\* No power is lost, callers drop a writer whose write failed, every written
\* content is one the register knows, and the marker for nothing is none of its
\* values.
RegisterApplies ==
    /\ "power" \notin Faults
    /\ ~GoOn
    /\ Written \subseteq Contents
    /\ None \notin Objects
    /\ None \notin Register!Snapshot
    /\ None \notin Register!Publication

-----------------------------------------------------------------------------
(* The invariant the refinement rests on.                                  *)

SentWritten == \A f \in Files : sent[f] \in Written

\* A setter works on a writable, uncompressed object, with one writer for the
\* path of that object; from the copy on, what the writer was told is what the
\* object was.
UpdateKeeps(p) ==
    handle[p] # None /\ pc[p] # "idle" =>
        LET w == Writer(p)
            h == handle[p]
        IN  /\ pc[p] \notin {"writing", "srcflush", "cleaning", "aborting"}
            /\ Len(writers[p]) = 1
            /\ h.writable = TRUE
            /\ h.header.compression_type = Stored
            /\ w.final_path = h.path
            /\ pc[p] \notin {"creating", "copying"} => sent[w.file] = sent[h.file]

\* A rename goes to the path of the writer that asked for it.
RenamesToPath(p) ==
    job[p].kind = "rename" => job[p].path = Writer(p).final_path

\* A rename nobody waits for is the only one of its file.
LateApart ==
    \A j \in detached : j.kind = "rename" =>
        /\ j.path \in Paths
        /\ \A p \in Tasks : Publishing(p) => Writer(p).file # j.file
        /\ \A d \in detached : d.kind = "rename" /\ d.file = j.file => d = j

RegisterIInv ==
    /\ SentWritten
    /\ \A p \in Tasks : UpdateKeeps(p) /\ RenamesToPath(p)
    /\ LateApart

-----------------------------------------------------------------------------
(* The steps of a task.                                                    *)

\* A create, of a caller, of finish or of a setter.
Creates(p) ==
    \/ \E path \in Paths, options \in LayoutChoices, sync \in Syncs,
          m \in Metadata, t \in Tags :
           CallerCreates(p, path, options, sync, m, t)
    \/ FinishByRewriting(p)
    \/ \E m \in Metadata : SetMetadata(p, m)
    \/ \E t \in Tags : SetTags(p, t)
    \/ \E m \in Metadata, t \in Tags : SetSections(p, m, t)

\* A step that leaves p with the writers it has.
Moves(p) ==
    \/ \E chunk \in Chunks : Write(p, chunk)
    \/ \E m \in Metadata, t \in Tags : Mutate(p, m, t)
    \/ Abort(p) \/ Finish(p) \/ SourceFlushed(p) \/ Copy(p) \/ Flushed(p)
    \/ PrefixFlushed(p) \/ Synced(p) \/ Renamed(p) \/ ParentSynced(p)

\* A call that ends without a new object.
Ends(p) ==
    \/ WriteErrs(p) \/ Abandon(p) \/ Aborted(p) \/ RewritingFails(p)
    \/ CallFails(p) \/ Cancel(p)

TaskStep(p) ==
    \/ \E path \in Paths, writable \in BOOLEAN : Open(p, path, writable)
    \/ Close(p) \/ CallRefused(p)
    \/ Creates(p) \/ Created(p) \/ Moves(p) \/ CleanUp(p) \/ Return(p) \/ Ends(p)

\* A step is of a task, of the blocking pool, or the end of the process.
LEMMA WhoSteps ==
    ASSUME Next
    PROVE  (\E p \in Tasks : TaskStep(p)) \/ Pool \/ Kill \/ PowerLoss
  BY DEF Next, TaskStep, Creates, Moves, Ends

\* Every create is one of AsyncObjectWriter::create; a setter's is for the path
\* of its object, and a writer made for a copy is not replaced.
LEMMA CreatesCreate ==
    ASSUME AsyncIInv, NEW p \in Tasks, Creates(p)
    PROVE  /\ pc[p] \in {"idle", "writing"}
           /\ \E path \in Paths : \E options, sync, m, t :
                 /\ Create(p, writers[p], path, options, sync, m, t)
                 /\ handle[p] # None /\ pc[p] = "idle" =>
                       /\ path = handle[p].path
                       /\ handle[p].writable = TRUE
                       /\ handle[p].header.compression_type = Stored
  <1>0. TypeOK /\ TaskInv(p)
    BY DEF AsyncIInv
  <1>1. ASSUME NEW m, NEW t, Rewrite(p, m, t)
        PROVE  /\ pc[p] = "idle" /\ handle[p].writable = TRUE
               /\ handle[p].header.compression_type = Stored
               /\ handle[p].path \in Paths
               /\ \E options, sync :
                     Create(p, writers[p], handle[p].path, options, sync, m, t)
    <2>1. pc[p] = "idle" /\ writers[p] = <<>> /\ handle[p] \in TuxObject
      BY <1>0, <1>1 DEF Rewrite, TypeOK
    <2> DEFINE h == handle[p]
               options == [DefaultOptions EXCEPT
                              !.min_content_start = h.header.content_start]
    <2>2. PICK sync : sync = TRUE
      OBVIOUS
    <2>3. Create(p, writers[p], h.path, options, sync, m, t)
      BY <1>1, <2>1, <2>2 DEF Rewrite
    <2>4. h.writable = TRUE /\ h.header.compression_type = Stored
      BY <1>1, <2>1 DEF Rewrite, TuxObject
    <2>5. h.path \in Paths
      BY <2>1 DEF TuxObject
    <2> HIDE DEF h, options
    <2> QED BY <2>1, <2>3, <2>4, <2>5 DEF h
  <1>2. ASSUME NEW path \in Paths, NEW options \in LayoutChoices, NEW sync \in Syncs,
               NEW m \in Metadata, NEW t \in Tags,
               CallerCreates(p, path, options, sync, m, t)
        PROVE  /\ pc[p] = "idle" /\ handle[p] = None
               /\ Create(p, writers[p], path, options, sync, m, t)
    <2>1. pc[p] = "idle" /\ writers[p] = <<>>
      BY <1>0, <1>2 DEF CallerCreates, TypeOK
    <2> QED BY <1>2, <2>1 DEF CallerCreates
  <1>3. ASSUME FinishByRewriting(p)
        PROVE  /\ pc[p] = "writing"
               /\ \E path \in Paths : \E options, sync, m, t :
                     Create(p, writers[p], path, options, sync, m, t)
    <2> DEFINE w == Writer(p)
               options == RaiseReserves(w.layout_options, RewriteReserve)
    <2>1. /\ pc[p] \in {"writing", "copyflush"} /\ Refit(p) = None
          /\ Create(p, writers[p], w.final_path, options, w.sync, w.metadata, w.tags)
      BY <1>3 DEF FinishByRewriting, AtFinish
    <2>2. pc[p] # "copyflush"
      BY <1>0, <2>1 DEF TaskInv, CallsNest, ForCopy
    <2>3. w \in AsyncObjectWriter
      BY <1>0, <2>1, InnermostWriter
    <2>4. w.final_path \in Paths
      BY <2>3 DEF AsyncObjectWriter
    <2>5. pc[p] = "writing"
      BY <2>1, <2>2
    <2> HIDE DEF options
    <2>6. \E path \in Paths : \E o, sync, m, t : Create(p, writers[p], path, o, sync, m, t)
      BY <2>1, <2>4
    <2> QED BY <2>5, <2>6
  <1>4. \/ \E m, t : Rewrite(p, m, t)
        \/ \E path \in Paths, options \in LayoutChoices, sync \in Syncs,
              m \in Metadata, t \in Tags :
               CallerCreates(p, path, options, sync, m, t)
        \/ FinishByRewriting(p)
    BY DEF Creates, SetMetadata, SetTags, SetSections
  <1> DEFINE Fits(path) == handle[p] # None /\ pc[p] = "idle" =>
                 /\ path = handle[p].path
                 /\ handle[p].writable = TRUE
                 /\ handle[p].header.compression_type = Stored
  <1>5. /\ pc[p] \in {"idle", "writing"}
        /\ \E path \in Paths : \E options, sync, m, t :
              Create(p, writers[p], path, options, sync, m, t) /\ Fits(path)
    <2>1. ASSUME NEW m, NEW t, Rewrite(p, m, t)
          PROVE  /\ pc[p] \in {"idle", "writing"}
                 /\ \E path \in Paths : \E options, sync, m1, t1 :
                       Create(p, writers[p], path, options, sync, m1, t1) /\ Fits(path)
      <3>1. PICK path : path = handle[p].path
        OBVIOUS
      <3>2. path \in Paths /\ Fits(path) /\ pc[p] = "idle"
        BY <1>1, <2>1, <3>1
      <3>3. \E options, sync : Create(p, writers[p], path, options, sync, m, t)
        BY <1>1, <2>1, <3>1
      <3> HIDE DEF Fits
      <3> QED BY <3>2, <3>3
    <2>2. ASSUME NEW path \in Paths, NEW options \in LayoutChoices, NEW sync \in Syncs,
                 NEW m \in Metadata, NEW t \in Tags,
                 CallerCreates(p, path, options, sync, m, t)
          PROVE  /\ pc[p] \in {"idle", "writing"}
                 /\ \E path1 \in Paths : \E options1, sync1, m1, t1 :
                       /\ Create(p, writers[p], path1, options1, sync1, m1, t1)
                       /\ Fits(path1)
      <3>1. /\ Create(p, writers[p], path, options, sync, m, t) /\ Fits(path)
            /\ pc[p] = "idle"
        BY <1>2, <2>2
      <3> HIDE DEF Fits
      <3> QED BY <3>1
    <2>3. CASE FinishByRewriting(p)
      <3>1. /\ pc[p] \in {"idle", "writing"} /\ \A path : Fits(path)
            /\ \E path \in Paths : \E options, sync, m, t :
                  Create(p, writers[p], path, options, sync, m, t)
        BY <1>3, <2>3
      <3> HIDE DEF Fits
      <3> QED BY <3>1
    <2> HIDE DEF Fits
    <2> QED BY <1>4, <2>1, <2>2, <2>3
  <1> QED BY <1>5

\* A create adds the writer it waits for.
LEMMA CreateEffect ==
    ASSUME AsyncIInv, NEW p \in Tasks, NEW path, NEW options, NEW sync, NEW m, NEW t,
           Create(p, writers[p], path, options, sync, m, t),
           pc[p] \in {"idle", "writing"}
    PROVE  /\ pc'[p] = "creating" /\ job'[p].kind = "create"
           /\ Writer(p)'.final_path = path
           /\ Len(writers'[p]) = Len(writers[p]) + 1
           /\ pc[p] = "idle" => Len(writers'[p]) = 1
           /\ UNCHANGED <<fsVars, handle, poolVars, sent>>
           /\ \A q \in Tasks : q # p =>
                 pc'[q] = pc[q] /\ writers'[q] = writers[q] /\ job'[q] = job[q]
  <1>0. TypeOK
    BY DEF AsyncIInv
  <1>1. writers[p] \in Seq(AsyncObjectWriter)
    BY <1>0 DEF TypeOK
  <1>2. PICK w, j : /\ w.final_path = path /\ j.kind = "create"
                    /\ writers' = [writers EXCEPT ![p] = Append(writers[p], w)]
                    /\ pc' = [pc EXCEPT ![p] = "creating"]
                    /\ job' = [job EXCEPT ![p] = j]
                    /\ UNCHANGED <<fsVars, handle, poolVars, sent>>
    <2> DEFINE layout == compute(options, Size[m], Size[t])
               w == [file |-> NoFile, temp_path |-> FALSE, final_path |-> path,
                     layout |-> layout, layout_options |-> options, metadata |-> m,
                     tags |-> t, content_length |-> 0, sync |-> sync]
               j == [FileJob("create", NoFile) EXCEPT
                        !.content_start = layout.content_start]
    <2>1. w.final_path = path /\ j.kind = "create"
      BY DEF FileJob
    <2>2. /\ writers' = [writers EXCEPT ![p] = Append(writers[p], w)]
          /\ pc' = [pc EXCEPT ![p] = "creating"]
          /\ job' = [job EXCEPT ![p] = j]
          /\ UNCHANGED <<fsVars, handle, poolVars, sent>>
      BY DEF Create, Await, Goto
    <2> HIDE DEF w, j
    <2> QED BY <2>1, <2>2
  <1>3. writers'[p] = Append(writers[p], w)
    BY <1>0, <1>2 DEF TypeOK
  <1> DEFINE s == writers[p]
  <1>4. Len(Append(s, w)) = Len(s) + 1 /\ Append(s, w)[Len(s) + 1] = w
    <2> HIDE DEF s
    <2> QED BY <1>1 DEF s
  <1>5. Writer(p)' = w
    BY <1>3, <1>4 DEF Writer
  <1>6. pc[p] = "idle" => Len(writers[p]) = 0
    BY <1>0 DEF TypeOK
  <1>7. pc'[p] = "creating" /\ job'[p] = j
    BY <1>0, <1>2 DEF TypeOK
  <1>8. \A q \in Tasks : q # p =>
           pc'[q] = pc[q] /\ writers'[q] = writers[q] /\ job'[q] = job[q]
    BY <1>0, <1>2 DEF TypeOK
  <1>9. pc[p] = "idle" => Len(writers'[p]) = 1
    BY <1>3, <1>4, <1>6
  <1> QED BY <1>2, <1>3, <1>4, <1>5, <1>7, <1>8, <1>9

-----------------------------------------------------------------------------
(* What the steps of a task do.                                            *)

\* What a step that keeps the writers of p does to p, and to nobody else.
LEMMA MovesEffect ==
    ASSUME AsyncIInv, NEW p \in Tasks, Moves(p)
    PROVE  /\ pc[p] \notin {"idle", "creating", "cleaning", "aborting"}
           /\ pc'[p] \notin {"idle", "creating", "cleaning"}
           /\ pc[p] \notin {"writing", "srcflush"} =>
                 pc'[p] \notin {"writing", "srcflush", "copying", "aborting"}
           /\ Writer(p)'.file = Writer(p).file
           /\ Writer(p)'.final_path = Writer(p).final_path
           /\ Len(writers'[p]) = Len(writers[p])
           /\ HasPublished(p)' <=> HasPublished(p)
           /\ job'[p].kind = "rename" => job'[p].path = Writer(p).final_path
           /\ UNCHANGED <<fsVars, handle, detached>>
           /\ \A q \in Tasks : q # p =>
                 pc'[q] = pc[q] /\ writers'[q] = writers[q] /\ job'[q] = job[q]
  <1> SUFFICES ASSUME NEW w, w = Writer(p)
               PROVE  /\ pc[p] \notin {"idle", "creating", "cleaning", "aborting"}
                      /\ pc'[p] \notin {"idle", "creating", "cleaning"}
                      /\ pc[p] \notin {"writing", "srcflush"} =>
                            pc'[p] \notin {"writing", "srcflush", "copying",
                                           "aborting"}
                      /\ Writer(p)'.file = w.file
                      /\ Writer(p)'.final_path = w.final_path
                      /\ Len(writers'[p]) = Len(writers[p])
                      /\ HasPublished(p)' <=> HasPublished(p)
                      /\ job'[p].kind = "rename" => job'[p].path = w.final_path
                      /\ UNCHANGED <<fsVars, handle, detached>>
                      /\ \A q \in Tasks : q # p =>
                            /\ pc'[q] = pc[q] /\ writers'[q] = writers[q]
                            /\ job'[q] = job[q]
    OBVIOUS
  <1>0. TypeOK /\ TaskInv(p)
    BY DEF AsyncIInv
  <1>1. pc[p] \notin {"idle", "creating", "cleaning", "aborting"}
    BY DEF Moves, Write, Mutate, Abort, Finish, AtFinish, SourceFlushed, Copy,
           Flushed, PrefixFlushed, Synced, Renamed, ParentSynced
  <1>2. w \in AsyncObjectWriter
    BY <1>0, <1>1, InnermostWriter
  \* The writer that is left is one of the same file and path.
  <1>3. PICK w2 \in AsyncObjectWriter :
           /\ w2.file = w.file /\ w2.final_path = w.final_path
           /\ SetWriter(p, w2) \/ (writers' = writers /\ w2 = w)
    <2>1. CASE \E chunk \in Chunks : Write(p, chunk)
      <3>1. PICK chunk \in Chunks : Write(p, chunk)
        BY <2>1
      <3>2. PICK pieces : pieces = <<chunk>>
        OBVIOUS
      <3> DEFINE w2 == [w EXCEPT !.content_length = @ + Len(pieces)]
      <3>3. SetWriter(p, w2)
        BY <3>1, <3>2 DEF Write, Queue
      <3>4. w2 \in AsyncObjectWriter /\ w2.file = w.file /\ w2.final_path = w.final_path
        BY <1>2, <3>2 DEF AsyncObjectWriter
      <3> HIDE DEF w2
      <3> QED BY <3>3, <3>4
    <2>2. CASE Copy(p)
      <3>1. PICK pieces : pieces = CopySource(p)
        OBVIOUS
      <3> DEFINE w2 == [w EXCEPT !.content_length = @ + Len(pieces)]
      <3>2. SetWriter(p, w2)
        BY <2>2, <3>1 DEF Copy, Queue
      <3>3. w2.file = w.file /\ w2.final_path = w.final_path
        BY <1>2 DEF AsyncObjectWriter
      <3>4. Len(pieces) \in Nat
        <4>1. pieces \in Seq(Pieces)
          BY <2>2, <3>1, SourceIsPieces DEF Copy
        <4> QED BY <4>1
      <3>5. w2 \in AsyncObjectWriter
        BY <1>2, <3>4 DEF AsyncObjectWriter
      <3> HIDE DEF w2
      <3> QED BY <3>2, <3>3, <3>5
    <2>3. CASE \E m \in Metadata, t \in Tags : Mutate(p, m, t)
      <3>1. PICK m \in Metadata, t \in Tags : Mutate(p, m, t)
        BY <2>3
      <3> DEFINE w2 == [w EXCEPT !.metadata = m, !.tags = t]
      <3>2. SetWriter(p, w2)
        BY <3>1 DEF Mutate
      <3>3. w2 \in AsyncObjectWriter /\ w2.file = w.file /\ w2.final_path = w.final_path
        BY <1>2 DEF AsyncObjectWriter
      <3> HIDE DEF w2
      <3> QED BY <3>2, <3>3
    <2>4. CASE Finish(p)
      <3> DEFINE w2 == [w EXCEPT !.layout = Refit(p)]
      <3>1. SetWriter(p, w2)
        BY <2>4 DEF Finish
      <3>2. Refit(p) \in SectionLayout
        <4>1. /\ w.layout \in SectionLayout /\ w.layout_options \in LayoutOptions
              /\ w.metadata \in Metadata /\ w.tags \in Tags
          BY <1>2 DEF AsyncObjectWriter
        <4>2. /\ w.layout.content_start \in 0 .. U32Max
              /\ w.layout_options.alignment \in Nat
          BY <4>1 DEF SectionLayout, LayoutOptions
        <4>3. Size[w.metadata] \in Nat /\ Size[w.tags] \in Nat
          BY <4>1, SizesAreNaturals
        <4>4. w.layout.content_start \in Nat
          BY <4>2, LayoutAssumption
        <4> QED BY <2>4, <4>2, <4>3, <4>4, RepartitionSound DEF Finish, Refit
      <3>3. w2 \in AsyncObjectWriter /\ w2.file = w.file /\ w2.final_path = w.final_path
        BY <1>2, <3>2 DEF AsyncObjectWriter
      <3> HIDE DEF w2
      <3> QED BY <3>1, <3>3
    <2>5. CASE Abort(p) \/ StartRename(p)
      <3> DEFINE w2 == [w EXCEPT !.temp_path = FALSE]
      <3>1. SetWriter(p, w2)
        BY <2>5 DEF Abort, StartRename
      <3>2. w2 \in AsyncObjectWriter /\ w2.file = w.file /\ w2.final_path = w.final_path
        BY <1>2 DEF AsyncObjectWriter
      <3> HIDE DEF w2
      <3> QED BY <3>1, <3>2
    <2>6. CASE writers' = writers
      BY <1>2, <2>6
    <2> QED BY <2>1, <2>2, <2>3, <2>4, <2>5, <2>6
            DEF Moves, SourceFlushed, Flushed, PrefixFlushed, Synced, Renamed,
                ParentSynced
  <1>4. /\ Writer(p)' = w2 /\ Len(writers'[p]) = Len(writers[p])
        /\ \A q \in Tasks : q # p => writers'[q] = writers[q]
    BY <1>1, <1>3, WriterAfter DEF InnermostBecomes
  <1>5. UNCHANGED <<fsVars, handle, detached>>
    BY DEF Moves, Write, Mutate, Abort, Finish, SourceFlushed, Copy, Flushed,
           PrefixFlushed, Synced, Renamed, ParentSynced, poolVars
  <1>6. /\ \A q \in Tasks : q # p => pc'[q] = pc[q] /\ job'[q] = job[q]
        /\ pc'[p] \notin {"idle", "creating", "cleaning"}
        /\ pc[p] \notin {"writing", "srcflush"} =>
              pc'[p] \notin {"writing", "srcflush", "copying", "aborting"}
    <2>1. CASE \/ (\E chunk \in Chunks : Write(p, chunk))
               \/ (\E m \in Metadata, t \in Tags : Mutate(p, m, t))
               \/ Abort(p) \/ Finish(p)
      BY <1>0, <1>1, <2>1
      DEF Write, Mutate, Abort, Finish, AtFinish, StartRename, Await, Goto, TypeOK
    <2>2. CASE SourceFlushed(p) \/ Copy(p) \/ Flushed(p) \/ PrefixFlushed(p)
      BY <1>0, <1>1, <2>2
      DEF SourceFlushed, Copy, Flushed, PrefixFlushed, StartRename, Await, Goto, TypeOK
    <2>3. CASE Synced(p) \/ Renamed(p) \/ ParentSynced(p)
      BY <1>0, <1>1, <2>3
      DEF Synced, Renamed, ParentSynced, StartRename, Await, Goto, TypeOK
    <2> QED BY <2>1, <2>2, <2>3 DEF Moves
  <1>7. HasPublished(p)' <=> HasPublished(p)
    <2>1. CASE \/ (\E chunk \in Chunks : Write(p, chunk))
               \/ (\E m \in Metadata, t \in Tags : Mutate(p, m, t))
               \/ Abort(p) \/ Finish(p)
      BY <1>0, <2>1
      DEF Write, Mutate, Abort, Finish, AtFinish, StartRename, Await, Goto, TypeOK,
          HasPublished, JobOk, FileJob, NoJob
    <2>2. CASE SourceFlushed(p) \/ Copy(p) \/ Flushed(p) \/ PrefixFlushed(p)
      BY <1>0, <2>2
      DEF SourceFlushed, Copy, Flushed, PrefixFlushed, StartRename, Await, Goto, TypeOK,
          HasPublished, JobOk, FileJob, NoJob
    <2>3. CASE Synced(p) \/ Renamed(p) \/ ParentSynced(p)
      BY <1>0, <2>3
      DEF Synced, Renamed, ParentSynced, StartRename, Await, Goto, TypeOK,
          HasPublished, JobOk, FileJob, NoJob
    <2> QED BY <2>1, <2>2, <2>3 DEF Moves
  <1>8. job'[p].kind = "rename" => job'[p].path = w.final_path
    <2>1. CASE StartRename(p)
      <3> DEFINE j2 == [FileJob("rename", w.file) EXCEPT !.path = w.final_path]
      <3>1. job'[p] = j2
        BY <1>0, <2>1 DEF StartRename, Await, TypeOK
      <3>2. j2.path = w.final_path
        BY DEF FileJob
      <3> HIDE DEF j2
      <3> QED BY <3>1, <3>2
    <2>2. CASE ~StartRename(p)
      <3>1. \/ job'[p] = job[p] /\ pc[p] \notin {"renaming"}
            \/ job'[p] \in {NoJob, FileJob("syncdir", NoFile)}
            \/ job'[p] \in {FileJob("unlink", w.file), FileJob("fsync", w.file)}
        BY <1>0, <2>2
        DEF Moves, Write, Mutate, Abort, Finish, AtFinish, SourceFlushed, Copy,
            Flushed, PrefixFlushed, Synced, Renamed, ParentSynced, Await, TypeOK
      <3>2. job[p].kind = "rename" => pc[p] = "renaming"
        BY JobKinds
      <3> QED BY <3>1, <3>2 DEF NoJob, FileJob
    <2> QED BY <2>1, <2>2
  <1> QED BY <1>1, <1>3, <1>4, <1>5, <1>6, <1>7, <1>8

\* The created file reaches its writer.
LEMMA CreatedEffect ==
    ASSUME AsyncIInv, NEW p \in Tasks, Created(p)
    PROVE  /\ pc[p] = "creating"
           /\ pc'[p] \in {"srcflush", "copying", "writing"}
           /\ Len(writers[p]) = 1 /\ handle[p] # None => pc'[p] = "copying"
           /\ Writer(p)'.final_path = Writer(p).final_path
           /\ Len(writers'[p]) = Len(writers[p])
           /\ job'[p].kind = "none"
           /\ UNCHANGED <<fsVars, handle, poolVars, sent>>
           /\ \A q \in Tasks : q # p =>
                 pc'[q] = pc[q] /\ writers'[q] = writers[q] /\ job'[q] = job[q]
  <1> SUFFICES ASSUME NEW w, w = Writer(p)
               PROVE  /\ pc[p] = "creating"
                      /\ pc'[p] \in {"srcflush", "copying", "writing"}
                      /\ Len(writers[p]) = 1 /\ handle[p] # None => pc'[p] = "copying"
                      /\ Writer(p)'.final_path = w.final_path
                      /\ Len(writers'[p]) = Len(writers[p])
                      /\ job'[p].kind = "none"
                      /\ UNCHANGED <<fsVars, handle, poolVars, sent>>
                      /\ \A q \in Tasks : q # p =>
                            /\ pc'[q] = pc[q] /\ writers'[q] = writers[q]
                            /\ job'[q] = job[q]
    OBVIOUS
  <1>0. TypeOK /\ TaskInv(p)
    BY DEF AsyncIInv
  <1>1. pc[p] = "creating" /\ JobOk(p)
    BY DEF Created
  <1> DEFINE w2 == [w EXCEPT !.file = job[p].file, !.temp_path = TRUE]
  <1>2. w \in AsyncObjectWriter /\ Len(writers[p]) \in 1 .. 2
    BY <1>0, <1>1, InnermostWriter
  <1>3. job[p].file \in Files \cup {NoFile}
    BY <1>0 DEF TypeOK, Job
  <1>4. w2 \in AsyncObjectWriter /\ w2.final_path = w.final_path
    BY <1>2, <1>3 DEF AsyncObjectWriter
  <1>5. SetWriter(p, w2)
    BY DEF Created
  <1> HIDE DEF w2
  <1>6. /\ Writer(p)' = w2 /\ Len(writers'[p]) = Len(writers[p])
        /\ \A q \in Tasks : q # p => writers'[q] = writers[q]
    BY <1>1, <1>4, <1>5, WriterAfter DEF InnermostBecomes
  <1>7. /\ pc'[p] = IF Len(writers[p]) > 1 THEN "srcflush"
                    ELSE IF handle[p] # None THEN "copying" ELSE "writing"
        /\ job'[p] = NoJob
        /\ UNCHANGED <<fsVars, handle, poolVars, sent>>
        /\ \A q \in Tasks : q # p => pc'[q] = pc[q] /\ job'[q] = job[q]
    BY <1>0 DEF Created, Await, Goto, TypeOK
  <1>8. Len(writers[p]) = 1 => ~(Len(writers[p]) > 1)
    <2> DEFINE n == Len(writers[p])
    <2>1. n \in 1 .. 2
      BY <1>2
    <2> HIDE DEF n
    <2>2. n = 1 => ~(n > 1)
      BY <2>1
    <2> QED BY <2>2 DEF n
  <1> QED BY <1>1, <1>4, <1>6, <1>7, <1>8 DEF NoJob

\* The writer that was replaced gives its file up; the other is the innermost.
LEMMA CleanUpEffect ==
    ASSUME AsyncIInv, NEW p \in Tasks, CleanUp(p)
    PROVE  /\ pc[p] = "reopen" /\ pc'[p] = "cleaning"
           /\ Len(writers[p]) # 1
           /\ Writer(p)' = Writer(p)
           /\ job'[p].kind = "unlink"
           /\ UNCHANGED <<fsVars, handle, poolVars, sent>>
           /\ \A q \in Tasks : q # p =>
                 pc'[q] = pc[q] /\ writers'[q] = writers[q] /\ job'[q] = job[q]
  <1>0. TypeOK /\ TaskInv(p)
    BY DEF AsyncIInv
  <1>1. pc[p] = "reopen" /\ Len(writers[p]) > 1
    BY DEF CleanUp
  <1>2. /\ pc' = [pc EXCEPT ![p] = "cleaning"]
        /\ job' = [job EXCEPT ![p] = FileJob("unlink", writers[p][1].file)]
        /\ writers' = [writers EXCEPT ![p][1].temp_path = FALSE]
        /\ UNCHANGED <<fsVars, handle, poolVars, sent>>
    BY DEF CleanUp, Await, Goto
  <1>3. writers[p] \in Seq(AsyncObjectWriter)
    BY <1>0 DEF TypeOK
  <1>4. writers'[p] = [writers[p] EXCEPT ![1] = [@ EXCEPT !.temp_path = FALSE]]
    BY <1>0, <1>2 DEF TypeOK
  <1> DEFINE s == writers[p]
             n == Len(s)
             first == [s[1] EXCEPT !.temp_path = FALSE]
             t == [s EXCEPT ![1] = first]
  <1>5. n # 1
    <2>1. n > 1
      BY <1>1
    <2> HIDE DEF n
    <2> QED BY <2>1
  <1>6. Len(t) = n /\ t[n] = s[n]
    <2>1. s \in Seq(AsyncObjectWriter) /\ n \in DOMAIN s
      BY <1>0, <1>1, InnermostWriter
    <2> HIDE DEF first, s
    <2> QED BY <1>5, <2>1
  <1>7. Writer(p)' = Writer(p)
    BY <1>4, <1>6 DEF Writer
  <1>8. /\ pc'[p] = "cleaning" /\ job'[p] = FileJob("unlink", writers[p][1].file)
        /\ \A q \in Tasks : q # p =>
              pc'[q] = pc[q] /\ writers'[q] = writers[q] /\ job'[q] = job[q]
    BY <1>0, <1>2 DEF TypeOK
  <1> QED BY <1>1, <1>2, <1>5, <1>7, <1>8 DEF FileJob

\* A call that ends: the task is idle, and of the files only its temporary ones
\* are touched.
LEMMA EndsEffect ==
    ASSUME AsyncIInv, ~GoOn, NEW p \in Tasks, Ends(p)
    PROVE  /\ pc[p] # "idle" /\ pc'[p] = "idle" /\ job'[p].kind = "none"
           /\ created' = created /\ names' = names
           /\ handle' = handle /\ sent' = sent
           /\ \A f \in Files : Shown(f) => file'[f] = file[f]
           /\ \/ detached' = detached
              \/ Cancel(p) /\ detached' = detached \cup {job[p]}
           /\ \A q \in Tasks : q # p =>
                 pc'[q] = pc[q] /\ writers'[q] = writers[q] /\ job'[q] = job[q]
  <1>0. TypeOK /\ TaskInv(p) /\ NoFile \notin Files
    BY FileNumbers DEF AsyncIInv
  <1>1. /\ DropWriters(p) /\ pc[p] # "idle"
        /\ \/ detached' = detached
           \/ Cancel(p) /\ detached' = detached \cup {job[p]}
    BY AsyncObjectStoreAssumption
    DEF Ends, WriteErrs, Abandon, Aborted, RewritingFails, AtFinish, CallFails,
        Cancel, Awaits
  <1>2. /\ pc' = [pc EXCEPT ![p] = "idle"] /\ job' = [job EXCEPT ![p] = NoJob]
        /\ writers' = [writers EXCEPT ![p] = <<>>]
        /\ handle' = handle /\ sent' = sent
        /\ DeleteTemps(OwnedTemps(p))
    BY <1>1 DEF DropWriters, Goto, RemoveTemps
  <1>3. ASSUME NEW f \in Files, Shown(f)
        PROVE  file'[f] = file[f]
    <2>1. f \notin OwnedTemps(p)
      <3> SUFFICES ASSUME f \in OwnedTemps(p) PROVE FALSE
        OBVIOUS
      <3>1. WritesTo(p, f)
        BY <1>3, OwnedAreWrittenTo
      <3> QED BY <1>3, <3>1 DEF WritesTo, Shown
    <2> QED BY <1>2, <2>1 DEF DeleteTemps
  <1>4. /\ pc'[p] = "idle" /\ job'[p].kind = "none"
        /\ \A q \in Tasks : q # p =>
              pc'[q] = pc[q] /\ writers'[q] = writers[q] /\ job'[q] = job[q]
    BY <1>0, <1>2 DEF TypeOK, NoJob
  <1>5. created' = created /\ names' = names
    BY <1>2 DEF DeleteTemps
  <1> QED BY <1>1, <1>2, <1>3, <1>4, <1>5

\* finish returns.
LEMMA ReturnEffect ==
    ASSUME AsyncIInv, NEW p \in Tasks, Return(p)
    PROVE  /\ pc[p] \in {"reopen", "cleaning"} /\ pc'[p] = "idle"
           /\ job'[p].kind = "none"
           /\ UNCHANGED <<fsVars, poolVars, sent>>
           /\ handle' = [handle EXCEPT ![p] =
                 [file |-> Writer(p).file, path |-> Writer(p).final_path,
                  header |-> BuildHeader(Writer(p)),
                  metadata |-> Writer(p).metadata, writable |-> TRUE]]
           /\ \A q \in Tasks : q # p =>
                 pc'[q] = pc[q] /\ writers'[q] = writers[q] /\ job'[q] = job[q]
  <1>0. TypeOK
    BY DEF AsyncIInv
  <1>1. pc[p] \in {"reopen", "cleaning"} /\ UNCHANGED <<fsVars, poolVars, sent>>
    BY DEF Return
  <1>2. /\ pc' = [pc EXCEPT ![p] = "idle"] /\ job' = [job EXCEPT ![p] = NoJob]
        /\ writers' = [writers EXCEPT ![p] = <<>>]
        /\ handle' = [handle EXCEPT ![p] =
                 [file |-> Writer(p).file, path |-> Writer(p).final_path,
                  header |-> BuildHeader(Writer(p)),
                  metadata |-> Writer(p).metadata, writable |-> TRUE]]
    BY DEF Return, Await, Goto
  <1>3. /\ pc'[p] = "idle" /\ job'[p] = NoJob
        /\ \A q \in Tasks : q # p =>
              pc'[q] = pc[q] /\ writers'[q] = writers[q] /\ job'[q] = job[q]
    BY <1>0, <1>2 DEF TypeOK
  <1> QED BY <1>1, <1>2, <1>3 DEF NoJob

-----------------------------------------------------------------------------
(* Files and tasks apart.                                                  *)

\* The file of a writer that is not publishing is not shown to anybody.
LEMMA UnpublishedIsHidden ==
    ASSUME AsyncIInv, NEW p \in Tasks, pc[p] \notin {"idle", "creating"},
           ~Publishing(p)
    PROVE  ~Shown(Writer(p).file)
  <1>1. Len(writers[p]) \in DOMAIN writers[p]
    BY InnermostWriter DEF AsyncIInv
  <1>2. FileOf(p, Len(writers[p])) = Writer(p).file
    BY InnermostFileIs DEF InnermostFile
  <1> QED BY <1>1, <1>2 DEF Shown

\* Two tasks that have files write to different ones.
LEMMA TasksApart ==
    ASSUME AsyncIInv, NEW p \in Tasks, NEW q \in Tasks, p # q,
           pc[p] \notin {"idle", "creating"}, pc[q] \notin {"idle", "creating"}
    PROVE  Writer(p).file # Writer(q).file
  <1>1. /\ Len(writers[p]) \in DOMAIN writers[p] /\ Len(writers[q]) \in DOMAIN writers[q]
    BY InnermostWriter DEF AsyncIInv
  <1>2. /\ FileOf(p, Len(writers[p])) = Writer(p).file /\ Writer(p).file # NoFile
        /\ FileOf(q, Len(writers[q])) = Writer(q).file
    BY InnermostFileIs DEF InnermostFile
  <1> QED BY <1>1, <1>2 DEF AsyncIInv, WritersApart

\* What a step changes of what writers were told.
LEMMA SentByMoves ==
    ASSUME AsyncIInv, SentArrives, SentWritten, NEW p \in Tasks, Moves(p)
    PROVE  /\ SentWritten'
           /\ \A f \in Files : f # Writer(p).file => sent'[f] = sent[f]
           /\ pc[p] \notin {"writing", "copying"} => sent' = sent
           /\ pc[p] = "copying" => sent'[Writer(p).file] = sent[SourceFile(p)]
  <1> SUFFICES ASSUME NEW f, f = Writer(p).file
               PROVE  /\ SentWritten'
                      /\ \A g \in Files : g # f => sent'[g] = sent[g]
                      /\ pc[p] \notin {"writing", "copying"} => sent' = sent
                      /\ pc[p] = "copying" => sent'[f] = sent[SourceFile(p)]
    OBVIOUS
  <1>0. TypeOK /\ sent \in [Files -> Seq(Pieces)]
    BY DEF AsyncIInv, TypeOK
  <1>1. CASE \E chunk \in Chunks : Write(p, chunk)
    <2>1. PICK chunk \in Chunks : Write(p, chunk)
      BY <1>1
    <2>2. /\ pc[p] = "writing" /\ FlushOk(f) /\ Writer(p).content_length < MaxContent
          /\ sent' = [sent EXCEPT ![f] = Append(@, chunk)]
      BY <2>1 DEF Write
    <2>3. f \in Files /\ Writer(p).content_length = Len(Coming(f).content)
      BY <2>2, WriterFacts DEF FlushOk
    <2>4. Coming(f).content = sent[f]
      <3>1. Live(f) /\ f \in 1 .. created
        BY <1>0, <2>2, InnermostWriter, WriterIsLive
      <3> QED BY <2>2, <3>1 DEF SentArrives, FlushOk
    <2>5. sent[f] \in Seq(Chunks) /\ Len(sent[f]) < MaxContent
      BY <2>2, <2>3, <2>4 DEF SentWritten, Written
    <2> DEFINE s == sent[f]
               t == Append(s, chunk)
    <2>6. t \in Written
      <3>1. t \in Seq(Chunks) /\ Len(t) = Len(s) + 1
        BY <2>5
      <3>2. Len(t) <= MaxContent
        <4>1. Len(s) \in Nat /\ Len(s) < MaxContent /\ Len(t) = Len(s) + 1
          BY <2>5, <3>1
        <4> HIDE DEF s, t
        <4> QED BY <4>1, AsyncObjectStoreAssumption
      <3> QED BY <3>1, <3>2 DEF Written
    <2>7. sent'[f] = t /\ \A g \in Files : g # f => sent'[g] = sent[g]
      BY <1>0, <2>2, <2>3
    <2> HIDE DEF t
    <2> QED BY <2>2, <2>6, <2>7 DEF SentWritten
  <1>2. CASE Copy(p)
    <2>1. /\ pc[p] = "copying"
          /\ sent' = [sent EXCEPT ![f] = sent[SourceFile(p)]]
      BY <1>2 DEF Copy
    <2>2. f \in Files /\ SourceFile(p) \in Files
      BY <2>1, WriterFacts, SourceIsPieces
    <2>3. /\ sent'[f] = sent[SourceFile(p)]
          /\ \A g \in Files : g # f => sent'[g] = sent[g]
      BY <1>0, <2>1, <2>2
    <2> QED BY <2>1, <2>2, <2>3 DEF SentWritten
  <1>3. CASE ~Copy(p) /\ ~\E chunk \in Chunks : Write(p, chunk)
    <2>1. sent' = sent /\ pc[p] # "copying"
      BY <1>3
      DEF Moves, Mutate, Abort, Finish, AtFinish, SourceFlushed, Flushed,
          PrefixFlushed, Synced, Renamed, ParentSynced
    <2> QED BY <2>1 DEF SentWritten
  <1> QED BY <1>1, <1>2, <1>3

\* p changes what another file's writers were told only before it is shown.
SentElsewhere(p) ==
    \/ sent' = sent
    \/ /\ pc[p] \in {"writing", "copying"}
       /\ \A f \in Files : f # Writer(p).file => sent'[f] = sent[f]

\* A task p leaves alone goes on with its update.
LEMMA OthersUpdate ==
    ASSUME AsyncIInv, RegisterIInv, NEW p \in Tasks, NEW q \in Tasks, q # p,
           pc'[q] = pc[q], writers'[q] = writers[q], handle'[q] = handle[q],
           SentElsewhere(p)
    PROVE  UpdateKeeps(q)'
  <1>1. Writer(q)' = Writer(q) /\ UpdateKeeps(q)
    BY DEF Writer, RegisterIInv
  <1>2. ASSUME handle[q] # None, pc[q] \notin {"idle", "creating", "copying"}
        PROVE  /\ sent'[Writer(q).file] = sent[Writer(q).file]
               /\ sent'[handle[q].file] = sent[handle[q].file]
    <2>1. CASE sent' = sent
      BY <2>1
    <2>2. CASE /\ pc[p] \in {"writing", "copying"}
               /\ \A f \in Files : f # Writer(p).file => sent'[f] = sent[f]
      <3>1. Writer(q).file \in Files /\ Writer(q).file # Writer(p).file
        BY <1>2, <2>2, InnermostFileIs, TasksApart
      <3>2. handle[q].file \in Files /\ Shown(handle[q].file)
        BY <1>2 DEF AsyncIInv, TypeOK, TuxObject, HandlesShown
      <3>3. ~Shown(Writer(p).file)
        BY <2>2, UnpublishedIsHidden DEF Publishing
      <3>4. handle[q].file # Writer(p).file
        BY <3>2, <3>3
      <3> QED BY <2>2, <3>1, <3>2, <3>4
    <2> QED BY <2>1, <2>2 DEF SentElsewhere
  <1> QED BY <1>1, <1>2 DEF UpdateKeeps

\* No rename that was left to the pool is of a file that is being published.
LEMMA LateKept ==
    ASSUME AsyncIInv, RegisterIInv, NEW p \in Tasks, detached' \subseteq detached,
           \A q \in Tasks : q # p => pc'[q] = pc[q] /\ writers'[q] = writers[q],
           Publishing(p)' => /\ pc[p] \notin {"idle", "creating"}
                             /\ Writer(p)'.file = Writer(p).file
    PROVE  LateApart'
  <1> SUFFICES ASSUME NEW j \in detached, j.kind = "rename", NEW q \in Tasks,
                      Publishing(q)'
               PROVE  Writer(q)'.file # j.file
    BY DEF RegisterIInv, LateApart
  <1>1. CASE q # p
    <2>1. Publishing(q) /\ Writer(q)' = Writer(q)
      BY <1>1 DEF Publishing, Writer
    <2> QED BY <2>1 DEF RegisterIInv, LateApart
  <1>2. CASE q = p
    <2>1. CASE Publishing(p)
      BY <1>2, <2>1 DEF RegisterIInv, LateApart
    <2>2. CASE ~Publishing(p)
      <3>1. ~Shown(Writer(p).file)
        BY <1>2, <2>2, UnpublishedIsHidden
      <3>2. Shown(j.file)
        BY DEF AsyncIInv, DetachedApart
      <3>3. j.file # Writer(p).file
        BY <3>1, <3>2
      <3> QED BY <1>2, <3>3
    <2> QED BY <2>1, <2>2
  <1> QED BY <1>1, <1>2

\* A step of p that does not drop a future at an await.
LEMMA RegisterIInvKept ==
    ASSUME AsyncIInv, RegisterIInv, NEW p \in Tasks, SentWritten',
           detached' \subseteq detached, SentElsewhere(p),
           \A q \in Tasks : q # p =>
              /\ pc'[q] = pc[q] /\ writers'[q] = writers[q]
              /\ job'[q] = job[q] /\ handle'[q] = handle[q],
           UpdateKeeps(p)', RenamesToPath(p)',
           Publishing(p)' => /\ pc[p] \notin {"idle", "creating"}
                             /\ Writer(p)'.file = Writer(p).file
    PROVE  RegisterIInv'
  <1>1. ASSUME NEW q \in Tasks
        PROVE  UpdateKeeps(q)' /\ RenamesToPath(q)'
    <2>1. CASE q = p
      BY <2>1
    <2>2. CASE q # p
      <3>1. UpdateKeeps(q)'
        BY <2>2, OthersUpdate
      <3>2. RenamesToPath(q)'
        BY <2>2 DEF RegisterIInv, RenamesToPath, Writer
      <3> QED BY <3>1, <3>2
    <2> QED BY <2>1, <2>2
  <1>2. LateApart'
    BY LateKept
  <1> QED BY <1>1, <1>2 DEF RegisterIInv

-----------------------------------------------------------------------------
(* Each step keeps the invariant.                                          *)

\* A call that goes on with its writers; a copy goes into a file nobody is shown.
LEMMA KeptByMoves ==
    ASSUME AsyncIInv, SentArrives, RegisterIInv, NEW p \in Tasks, Moves(p)
    PROVE  RegisterIInv'
  <1>1. /\ pc[p] \notin {"idle", "creating", "cleaning", "aborting"}
        /\ pc'[p] \notin {"idle", "creating", "cleaning"}
        /\ pc[p] \notin {"writing", "srcflush"} =>
              pc'[p] \notin {"writing", "srcflush", "copying", "aborting"}
        /\ Writer(p)'.file = Writer(p).file
        /\ Writer(p)'.final_path = Writer(p).final_path
        /\ Len(writers'[p]) = Len(writers[p])
        /\ job'[p].kind = "rename" => job'[p].path = Writer(p).final_path
        /\ handle' = handle /\ detached' = detached
        /\ \A q \in Tasks : q # p =>
              pc'[q] = pc[q] /\ writers'[q] = writers[q] /\ job'[q] = job[q]
    BY MovesEffect
  <1>2. /\ SentWritten'
        /\ \A f \in Files : f # Writer(p).file => sent'[f] = sent[f]
        /\ pc[p] \notin {"writing", "copying"} => sent' = sent
        /\ pc[p] = "copying" => sent'[Writer(p).file] = sent[SourceFile(p)]
    BY SentByMoves DEF RegisterIInv
  <1>3. SentElsewhere(p)
    BY <1>2 DEF SentElsewhere
  <1>4. UpdateKeeps(p)'
    <2> SUFFICES ASSUME handle[p] # None
                 PROVE  UpdateKeeps(p)'
      BY <1>1 DEF UpdateKeeps
    <2>1. /\ UpdateKeeps(p) /\ pc[p] \notin {"writing", "srcflush"}
          /\ Len(writers[p]) = 1
      BY <1>1 DEF RegisterIInv, UpdateKeeps
    <2>2. sent'[Writer(p).file] = sent'[handle[p].file]
      <3>1. CASE pc[p] = "copying"
        <4>1. SourceFile(p) = handle[p].file
          <5>1. ~(Len(writers[p]) > 1)
            BY <2>1
          <5> QED BY <5>1 DEF SourceFile
        <4>2. Shown(handle[p].file) /\ handle[p].file \in Files
          BY DEF AsyncIInv, TypeOK, TuxObject, HandlesShown
        <4>3. ~Shown(Writer(p).file)
          BY <3>1, UnpublishedIsHidden DEF Publishing
        <4>4. handle[p].file # Writer(p).file
          BY <4>2, <4>3
        <4> QED BY <1>2, <3>1, <4>1, <4>2, <4>4
      <3>2. CASE pc[p] # "copying"
        <4>1. sent' = sent
          BY <1>2, <2>1, <3>2
        <4>2. sent[Writer(p).file] = sent[handle[p].file]
          BY <1>1, <2>1, <3>2 DEF UpdateKeeps
        <4> QED BY <4>1, <4>2
      <3> QED BY <3>1, <3>2
    <2> QED BY <1>1, <2>1, <2>2 DEF UpdateKeeps
  <1>5. RenamesToPath(p)'
    BY <1>1 DEF RenamesToPath
  <1> QED BY <1>1, <1>2, <1>3, <1>4, <1>5, RegisterIInvKept

\* A create has nothing to publish yet.
LEMMA KeptByCreates ==
    ASSUME AsyncIInv, RegisterIInv, NEW p \in Tasks, Creates(p) \/ Created(p)
    PROVE  RegisterIInv'
  <1>1. CASE Creates(p)
    <2>1. PICK path \in Paths : \E options, sync, m, t :
             /\ Create(p, writers[p], path, options, sync, m, t)
             /\ handle[p] # None /\ pc[p] = "idle" =>
                   /\ path = handle[p].path
                   /\ handle[p].writable = TRUE
                   /\ handle[p].header.compression_type = Stored
      BY <1>1, CreatesCreate
    <2>2. pc[p] \in {"idle", "writing"}
      BY <1>1, CreatesCreate
    <2>3. PICK options, sync, m, t : Create(p, writers[p], path, options, sync, m, t)
      BY <2>1
    <2>4. /\ pc'[p] = "creating" /\ job'[p].kind = "create"
          /\ Writer(p)'.final_path = path
          /\ pc[p] = "idle" => Len(writers'[p]) = 1
          /\ handle' = handle /\ detached' = detached /\ sent' = sent
          /\ \A q \in Tasks : q # p =>
                pc'[q] = pc[q] /\ writers'[q] = writers[q] /\ job'[q] = job[q]
      BY <2>2, <2>3, CreateEffect DEF poolVars
    <2>5. UpdateKeeps(p)'
      <3>1. handle[p] # None => pc[p] = "idle"
        BY <2>2 DEF RegisterIInv, UpdateKeeps
      <3> QED BY <2>1, <2>4, <3>1 DEF UpdateKeeps
    <2>6. RenamesToPath(p)' /\ ~Publishing(p)' /\ SentElsewhere(p) /\ SentWritten'
      BY <2>4 DEF RenamesToPath, Publishing, SentElsewhere, RegisterIInv, SentWritten
    <2> QED BY <2>4, <2>5, <2>6, RegisterIInvKept
  <1>2. CASE Created(p)
    <2>1. /\ pc[p] = "creating"
          /\ pc'[p] \in {"srcflush", "copying", "writing"}
          /\ Len(writers[p]) = 1 /\ handle[p] # None => pc'[p] = "copying"
          /\ Writer(p)'.final_path = Writer(p).final_path
          /\ Len(writers'[p]) = Len(writers[p])
          /\ job'[p].kind = "none"
          /\ handle' = handle /\ detached' = detached /\ sent' = sent
          /\ \A q \in Tasks : q # p =>
                pc'[q] = pc[q] /\ writers'[q] = writers[q] /\ job'[q] = job[q]
      BY <1>2, CreatedEffect DEF poolVars
    <2>2. UpdateKeeps(p)'
      BY <2>1 DEF RegisterIInv, UpdateKeeps
    <2>3. RenamesToPath(p)' /\ ~Publishing(p)' /\ SentElsewhere(p) /\ SentWritten'
      BY <2>1 DEF RenamesToPath, Publishing, SentElsewhere, RegisterIInv, SentWritten
    <2> QED BY <2>1, <2>2, <2>3, RegisterIInvKept
  <1> QED BY <1>1, <1>2

\* Aborting the replaced writer leaves the replacement as it was.
LEMMA KeptByCleanUp ==
    ASSUME AsyncIInv, RegisterIInv, NEW p \in Tasks, CleanUp(p)
    PROVE  RegisterIInv'
  <1>1. /\ pc[p] = "reopen" /\ pc'[p] = "cleaning"
        /\ Len(writers[p]) # 1
        /\ Writer(p)' = Writer(p)
        /\ job'[p].kind = "unlink"
        /\ handle' = handle /\ detached' = detached /\ sent' = sent
        /\ \A q \in Tasks : q # p =>
              pc'[q] = pc[q] /\ writers'[q] = writers[q] /\ job'[q] = job[q]
    BY CleanUpEffect DEF poolVars
  <1>2. UpdateKeeps(p)'
    BY <1>1 DEF RegisterIInv, UpdateKeeps
  <1>3. RenamesToPath(p)' /\ SentElsewhere(p) /\ SentWritten'
    BY <1>1 DEF RenamesToPath, SentElsewhere, RegisterIInv, SentWritten
  <1> QED BY <1>1, <1>2, <1>3, RegisterIInvKept

\* A task that is idle after the step keeps nothing.
LEMMA KeptByIdle ==
    ASSUME AsyncIInv, RegisterIInv, NEW p \in Tasks, pc'[p] = "idle",
           job'[p].kind # "rename", detached' \subseteq detached, sent' = sent,
           \A q \in Tasks : q # p =>
              /\ pc'[q] = pc[q] /\ writers'[q] = writers[q]
              /\ job'[q] = job[q] /\ handle'[q] = handle[q]
    PROVE  RegisterIInv'
  <1>1. /\ UpdateKeeps(p)' /\ RenamesToPath(p)' /\ ~Publishing(p)'
        /\ SentElsewhere(p) /\ SentWritten'
    BY DEF UpdateKeeps, RenamesToPath, Publishing, SentElsewhere, RegisterIInv,
           SentWritten
  <1> QED BY <1>1, RegisterIInvKept

\* open, close and the return of a call leave a task without writers.
LEMMA KeptByHandles ==
    ASSUME AsyncIInv, RegisterIInv, NEW p \in Tasks,
           \/ \E path \in Paths, writable \in BOOLEAN : Open(p, path, writable)
           \/ Close(p) \/ Return(p)
    PROVE  RegisterIInv'
  <1>0. TypeOK
    BY DEF AsyncIInv
  <1>1. CASE Return(p)
    <2>1. /\ pc'[p] = "idle" /\ job'[p].kind = "none"
          /\ detached' = detached /\ sent' = sent
          /\ \A q \in Tasks : q # p =>
                /\ pc'[q] = pc[q] /\ writers'[q] = writers[q] /\ job'[q] = job[q]
      BY <1>1, ReturnEffect DEF poolVars
    <2>2. \A q \in Tasks : q # p => handle'[q] = handle[q]
      BY <1>0, <1>1 DEF Return, TypeOK
    <2> QED BY <2>1, <2>2, KeptByIdle
  <1>2. CASE ~Return(p)
    <2>1. /\ pc[p] = "idle" /\ pc' = pc /\ job' = job /\ writers' = writers
          /\ detached' = detached /\ sent' = sent
          /\ \A q \in Tasks : q # p => handle'[q] = handle[q]
      BY <1>0, <1>2 DEF Open, Close, TypeOK, poolVars
    <2>2. job[p].kind # "rename"
      BY <2>1, JobKinds
    <2> QED BY <2>1, <2>2, KeptByIdle
  <1> QED BY <1>1, <1>2

\* The rename of a call that is cut short is of a file only that call had.
LEMMA KeptByEnds ==
    ASSUME AsyncIInv, RegisterIInv, ~GoOn, NEW p \in Tasks, Ends(p)
    PROVE  RegisterIInv'
  <1> SUFFICES ASSUME NEW k, k = job[p] PROVE RegisterIInv'
    OBVIOUS
  <1>1. /\ pc[p] # "idle" /\ pc'[p] = "idle" /\ job'[p].kind = "none"
        /\ handle' = handle /\ sent' = sent
        /\ detached' = detached \/ detached' = detached \cup {k}
        /\ \A q \in Tasks : q # p =>
              pc'[q] = pc[q] /\ writers'[q] = writers[q] /\ job'[q] = job[q]
    BY EndsEffect
  <1>2. /\ UpdateKeeps(p)' /\ RenamesToPath(p)' /\ ~Publishing(p)'
        /\ SentElsewhere(p) /\ SentWritten'
    BY <1>1 DEF UpdateKeeps, RenamesToPath, Publishing, SentElsewhere, RegisterIInv,
                SentWritten
  <1>3. \A q \in Tasks : UpdateKeeps(q)' /\ RenamesToPath(q)'
    <2> TAKE q \in Tasks
    <2>1. CASE q = p
      BY <1>2, <2>1
    <2>2. CASE q # p
      <3>1. UpdateKeeps(q)'
        BY <1>1, <1>2, <2>2, OthersUpdate
      <3>2. RenamesToPath(q)'
        BY <1>1, <2>2 DEF RegisterIInv, RenamesToPath, Writer
      <3> QED BY <3>1, <3>2
    <2> QED BY <2>1, <2>2
  <1>4. \A q \in Tasks : Publishing(q)' =>
           q # p /\ Publishing(q) /\ Writer(q)' = Writer(q)
    BY <1>1, <1>2 DEF Publishing, Writer
  <1>5. k.kind = "rename" =>
           /\ pc[p] = "renaming" /\ k.file = Writer(p).file
           /\ k.path \in Paths
    <2> SUFFICES ASSUME k.kind = "rename"
                 PROVE  /\ pc[p] = "renaming" /\ k.file = Writer(p).file
                        /\ k.path \in Paths
      OBVIOUS
    <2>1. pc[p] = "renaming"
      BY JobKinds
    <2>2. k.file = Writer(p).file
      BY <2>1 DEF AsyncIInv, TaskInv, JobsInStep
    <2>3. Writer(p) \in AsyncObjectWriter /\ k.path = Writer(p).final_path
      BY <2>1, InnermostWriter DEF AsyncIInv, RegisterIInv, RenamesToPath
    <2> QED BY <2>1, <2>2, <2>3 DEF AsyncObjectWriter
  <1>6. k.kind = "rename" =>
           \A q \in Tasks : q # p /\ Publishing(q) => Writer(q).file # k.file
    BY <1>5, TasksApart DEF Publishing
  <1>7. k.kind = "rename" =>
           \A d \in detached : d.kind = "rename" => d.file # k.file
    BY <1>5 DEF RegisterIInv, LateApart, Publishing
  <1>8. LateApart'
    <2> SUFFICES ASSUME NEW j \in detached', j.kind = "rename"
                 PROVE  /\ j.path \in Paths
                        /\ \A q \in Tasks : Publishing(q)' => Writer(q)'.file # j.file
                        /\ \A d \in detached' :
                              d.kind = "rename" /\ d.file = j.file => d = j
      BY DEF LateApart
    <2>1. CASE j \in detached
      <3>1. /\ j.path \in Paths
            /\ \A q \in Tasks : Publishing(q) => Writer(q).file # j.file
            /\ \A d \in detached : d.kind = "rename" /\ d.file = j.file => d = j
        BY <2>1 DEF RegisterIInv, LateApart
      <3>2. k.kind = "rename" /\ k.file = j.file => FALSE
        BY <1>7, <2>1
      <3> QED BY <1>1, <1>4, <3>1, <3>2
    <2>2. CASE j = k
      BY <1>1, <1>4, <1>5, <1>6, <1>7, <2>2
    <2> QED BY <1>1, <2>1, <2>2
  <1> QED BY <1>2, <1>3, <1>8 DEF RegisterIInv

\* What happens on the pool is nothing the tasks do.
LEMMA KeptByPool ==
    ASSUME AsyncIInv, RegisterIInv, Pool
    PROVE  RegisterIInv'
  <1>0. TypeOK
    BY DEF AsyncIInv
  <1>1. /\ pc' = pc /\ writers' = writers /\ handle' = handle /\ sent' = sent
        /\ detached' \subseteq detached
    BY DEF Pool, JobRuns, JobFails, DetachedRuns, WriteRuns, WriteFails, taskVars,
           poolVars
  <1>2. \A q \in Tasks : job'[q].kind = job[q].kind /\ job'[q].path = job[q].path
    <2>1. ASSUME NEW p \in Tasks, JobRuns(p) \/ JobFails(p), NEW q \in Tasks
          PROVE  job'[q].kind = job[q].kind /\ job'[q].path = job[q].path
      <3>1. job \in [Tasks -> Job]
        BY <1>0 DEF TypeOK
      <3>2. CASE JobFails(p)
        <4>1. job' = [job EXCEPT ![p].state = "failed"]
          BY <3>2 DEF JobFails
        <4>2. job'[q].kind = job[q].kind /\ job'[q].path = job[q].path
          <5>1. CASE q # p
            BY <3>1, <4>1, <5>1
          <5>2. CASE q = p
            <6>1. job'[p] = [job[p] EXCEPT !.state = "failed"] /\ job[p] \in Job
              BY <3>1, <4>1
            <6> QED BY <5>2, <6>1 DEF Job
          <5> QED BY <5>1, <5>2
        <4> QED BY <4>2
      <3>3. CASE JobRuns(p)
        <4>1. PICK f : job' = [job EXCEPT ![p].state = "ok", ![p].file = f]
          <5>1. PICK f : f = IF job[p].kind = "create" THEN Fresh ELSE job[p].file
            OBVIOUS
          <5>2. job' = [job EXCEPT ![p].state = "ok",
                                   ![p].file = IF job[p].kind = "create" THEN Fresh
                                               ELSE @]
            BY <3>3 DEF JobRuns
          <5>3. job' = [job EXCEPT ![p].state = "ok", ![p].file = f]
            BY <3>1, <5>1, <5>2 DEF Job
          <5> QED BY <5>3
        <4>2. CASE q # p
          BY <3>1, <4>1, <4>2
        <4>3. CASE q = p
          <5>1. job'[p] = [job[p] EXCEPT !.state = "ok", !.file = f] /\ job[p] \in Job
            BY <3>1, <4>1
          <5> QED BY <4>3, <5>1 DEF Job
        <4> QED BY <4>2, <4>3
      <3> QED BY <2>1, <3>2, <3>3
    <2>2. CASE job' = job
      BY <2>2
    <2> QED BY <2>1, <2>2 DEF Pool, DetachedRuns, WriteRuns, WriteFails, taskVars
  <1>3. \A q \in Tasks : UpdateKeeps(q)' /\ RenamesToPath(q)'
    <2> TAKE q \in Tasks
    <2>1. Writer(q)' = Writer(q)
      BY <1>1 DEF Writer
    <2>2. UpdateKeeps(q)'
      BY <1>1, <2>1 DEF RegisterIInv, UpdateKeeps
    <2> QED BY <1>2, <2>1, <2>2 DEF RegisterIInv, RenamesToPath
  <1>4. LateApart'
    BY <1>1 DEF RegisterIInv, LateApart, Publishing, Writer
  <1>5. SentWritten'
    BY <1>1 DEF RegisterIInv, SentWritten
  <1> QED BY <1>3, <1>4, <1>5 DEF RegisterIInv

\* Every step keeps the invariant.
LEMMA RegisterIInvStep ==
    ASSUME AsyncIInv, SentArrives, RegisterIInv, RegisterApplies, [Next]_vars
    PROVE  RegisterIInv'
  <1>1. CASE UNCHANGED vars
    <2>1. /\ pc' = pc /\ writers' = writers /\ handle' = handle /\ job' = job
          /\ sent' = sent /\ detached' = detached
      BY <1>1 DEF vars, taskVars, poolVars
    <2> QED BY <2>1 DEF RegisterIInv, SentWritten, UpdateKeeps, RenamesToPath,
                        LateApart, Publishing, Writer
  <1>2. ASSUME NEW p \in Tasks, TaskStep(p)
        PROVE  RegisterIInv'
    <2>1. CASE CallRefused(p)
      BY <1>1, <2>1 DEF CallRefused
    <2> QED
      BY <1>2, <2>1, KeptByHandles, KeptByCreates, KeptByMoves, KeptByCleanUp,
         KeptByEnds
      DEF TaskStep, RegisterApplies
  <1>3. CASE Kill
    <2>1. /\ pc' = [q \in Tasks |-> "idle"] /\ handle' = [q \in Tasks |-> None]
          /\ job' = [q \in Tasks |-> NoJob] /\ detached' = {} /\ sent' = sent
      BY <1>3 DEF Kill, Forget
    <2> QED BY <2>1 DEF RegisterIInv, SentWritten, UpdateKeeps, RenamesToPath,
                        LateApart, NoJob
  <1>4. ~PowerLoss
    BY DEF PowerLoss, RegisterApplies
  <1> QED BY <1>1, <1>2, <1>3, <1>4, WhoSteps, KeptByPool

\* No task has a writer and nothing is left to the pool.
LEMMA InitRegisterIInv == Init => RegisterIInv
  <1> SUFFICES ASSUME Init PROVE RegisterIInv
    OBVIOUS
  <1>1. <<>> \in Written
    BY AsyncObjectStoreAssumption DEF Written
  <1> QED BY <1>1 DEF Init, RegisterIInv, SentWritten, UpdateKeeps, RenamesToPath,
                     LateApart, NoJob

-----------------------------------------------------------------------------
(* What a step leaves alone.                                               *)

\* A task takes no name from a path.
LEMMA NamesByTask ==
    ASSUME AsyncIInv, ~GoOn, NEW p \in Tasks, TaskStep(p)
    PROVE  /\ names' = names
           /\ \A f \in Files : Shown(f) => file'[f] = file[f]
           /\ \A q \in Tasks : q # p =>
                 /\ pc'[q] = pc[q] /\ writers'[q] = writers[q]
                 /\ job'[q] = job[q] /\ handle'[q] = handle[q]
           /\ ~Ends(p) => detached' = detached
  <1>0. TypeOK
    BY DEF AsyncIInv
  <1>1. CASE Ends(p)
    BY <1>1, EndsEffect
  <1>2. CASE Moves(p)
    BY <1>2, MovesEffect DEF fsVars
  <1>3. CASE Creates(p)
    <2>1. PICK path, options, sync, m, t : Create(p, writers[p], path, options, sync, m, t)
      BY <1>3, CreatesCreate
    <2>2. pc[p] \in {"idle", "writing"}
      BY <1>3, CreatesCreate
    <2> QED BY <2>1, <2>2, CreateEffect DEF fsVars, poolVars
  <1>4. CASE Created(p)
    BY <1>4, CreatedEffect DEF fsVars, poolVars
  <1>5. CASE CleanUp(p)
    BY <1>5, CleanUpEffect DEF fsVars, poolVars
  <1>6. CASE Return(p)
    <2>1. /\ UNCHANGED <<fsVars, poolVars, sent>>
          /\ \A q \in Tasks : q # p =>
                pc'[q] = pc[q] /\ writers'[q] = writers[q] /\ job'[q] = job[q]
      BY <1>6, ReturnEffect
    <2>2. \A q \in Tasks : q # p => handle'[q] = handle[q]
      BY <1>0, <1>6 DEF Return, TypeOK
    <2> QED BY <2>1, <2>2 DEF fsVars, poolVars
  <1>7. CASE \/ \E path \in Paths, writable \in BOOLEAN : Open(p, path, writable)
             \/ Close(p) \/ CallRefused(p)
    BY <1>0, <1>7 DEF Open, Close, CallRefused, fsVars, poolVars, vars, taskVars, TypeOK
  <1> QED BY <1>1, <1>2, <1>3, <1>4, <1>5, <1>6, <1>7 DEF TaskStep

\* A job leaves what is shown as it is.
LEMMA ShownByPool ==
    ASSUME AsyncIInv, Pool, NEW f \in Files, Shown(f)
    PROVE  file'[f] = file[f]
  <1>0. TypeOK /\ f \in 1 .. created
    BY DEF AsyncIInv, Shown
  <1>1. ASSUME NEW p \in Tasks, JobRuns(p)
        PROVE  file'[f] = file[f]
    <2>1. /\ job[p] \in Job /\ Perform(job[p])
          /\ job[p].kind = "rename" => Shown(job[p].file)
      BY <1>0, <1>1, RenamedIsShown DEF JobRuns, TypeOK
    <2>2. ~(job[p].kind = "unlink" /\ f = job[p].file)
      BY JobsApart
    <2> QED BY <1>0, <2>1, <2>2, PerformEffect
  <1>2. ASSUME NEW j \in detached, DetachedRuns(j)
        PROVE  file'[f] = file[f]
    <2>1. j \in Job /\ (j.kind = "rename" => Shown(j.file))
      BY <1>0 DEF TypeOK, AsyncIInv, DetachedApart
    <2>2. ~(j.kind = "unlink" /\ f = j.file)
      BY DEF Shown
    <2>3. CASE Perform(j)
      BY <1>0, <2>1, <2>2, <2>3, PerformEffect
    <2>4. CASE UNCHANGED fsVars
      BY <2>4 DEF fsVars
    <2> QED BY <1>2, <2>3, <2>4 DEF DetachedRuns
  <1>3. ASSUME NEW g \in Files, WriteRuns(g)
        PROVE  file'[f] = file[f]
    <2>1. g # f
      BY <1>3 DEF WriteRuns, Shown
    <2> QED BY <1>0, <1>3, <2>1 DEF WriteRuns, WriteFile, TypeOK
  <1>4. ASSUME \/ \E p \in Tasks : JobFails(p)
               \/ \E g \in Files : WriteFails(g)
        PROVE  file'[f] = file[f]
    BY <1>4 DEF JobFails, WriteFails, fsVars
  <1> QED BY <1>1, <1>2, <1>3, <1>4 DEF Pool

\* What a path names now stays, unless a job renames over it.
LEMMA CurrentByJob ==
    ASSUME AsyncIInv, NEW j \in Job, Perform(j), NEW path \in Paths
    PROVE  /\ ~(j.kind = "rename" /\ j.path = path) => Current(path)' = Current(path)
           /\ j.kind = "rename" /\ j.path = path => Current(path)' = j.file
  <1>0. /\ names \in [Paths -> Seq(Files \cup {NoFile}) \ {<<>>}]
        /\ names[path] \in Seq(Files \cup {NoFile})
    BY DEF AsyncIInv, TypeOK
  <1>1. CASE j.kind = "rename"
    <2>1. names' = [names EXCEPT ![j.path] = Append(@, j.file)]
      BY <1>1 DEF Perform, RenameFile
    <2>2. CASE j.path = path
      <3> DEFINE s == names[path]
      <3>1. names'[path] = Append(s, j.file)
        BY <1>0, <2>1, <2>2
      <3>2. Append(s, j.file)[Len(Append(s, j.file))] = j.file
        <4>1. s \in Seq(Files \cup {NoFile})
          BY <1>0
        <4> HIDE DEF s
        <4> QED BY <4>1
      <3> QED BY <1>1, <2>2, <3>1, <3>2 DEF Current
    <2>3. CASE j.path # path
      <3>1. names'[path] = names[path]
        BY <1>0, <2>1, <2>3
      <3> QED BY <2>3, <3>1 DEF Current
    <2> QED BY <2>2, <2>3
  <1>2. CASE j.kind # "rename"
    <2>1. names' = names \/ SyncDirectory
      BY <1>2 DEF Perform, CreateFile, SyncFile, DeleteTemps, fsVars
    <2>2. CASE names' = names
      BY <1>2, <2>2 DEF Current
    <2>3. CASE SyncDirectory
      <3>1. PICK f : f = Current(path)
        OBVIOUS
      <3>2. names' = [path1 \in Paths |-> <<Current(path1)>>]
        BY <2>3 DEF SyncDirectory
      <3>3. names'[path] = <<f>>
        BY <3>1, <3>2
      <3> QED BY <1>2, <3>1, <3>3 DEF Current
    <2> QED BY <2>1, <2>2, <2>3
  <1> QED BY <1>1, <1>2

-----------------------------------------------------------------------------
(* What the mapping says of files.                                         *)

\* What the mapping yields are functions on paths and on tasks.
LEMMA MappedFunctions ==
    /\ store = [path \in Paths |-> store[path]]
    /\ store' = [path \in Paths |-> store'[path]]
    /\ view = [q \in Tasks |-> view[q]]
    /\ view' = [q \in Tasks |-> view'[q]]
    /\ call = [q \in Tasks |-> call[q]]
    /\ call' = [q \in Tasks |-> call'[q]]
  BY DEF store, view, call

\* A task without an object, or without a rename that is done, maps to none.
LEMMA NothingHeld ==
    ASSUME NEW p \in Tasks
    PROVE  /\ handle[p] = None => view[p] = None
           /\ ~HasPublished(p) => call[p] = None
           /\ handle'[p] = None => view'[p] = None
           /\ ~HasPublished(p)' => call'[p] = None
  BY DEF view, call

\* A shown file that is live reads as an object of the register, with every byte
\* its writers were told is written.
LEMMA WholeReads ==
    ASSUME AsyncIInv, SentArrives, RegisterIInv, RegisterApplies,
           NEW f \in Files, Shown(f), Live(f)
    PROVE  /\ ReadFile(f) \in Objects
           /\ ReadFile(f).content = sent[f]
           /\ ReadFile(f).compression_type = file[f].header.compression_type
  <1>1. /\ f \in 1 .. created /\ Complete(f) /\ file[f] \in ObjectFile
        /\ file[f] # Blank /\ file[f].header # None
    BY DEF AsyncIInv, TypeOK, Shown, Complete
  <1>2. /\ file[f].header \in ObjectHeader
        /\ file[f].metadata \in Metadata /\ file[f].tags \in Tags
        /\ file[f].header.content_start = file[f].content_at
        /\ file[f].header.content_length = Len(file[f].content)
    BY <1>1 DEF Complete, ObjectFile
  <1>3. file[f].content = sent[f]
    BY <1>1 DEF SentArrives, Shown, Coming
  <1> DEFINE s == file[f].content
  <1>4. SubSeq(s, 1, Len(s)) = s /\ Len(s) \in Nat
    <2>1. s \in Seq(Pieces)
      BY <1>1 DEF ObjectFile
    <2> HIDE DEF s
    <2> QED BY <2>1
  <1>5. StoredContent(f, file[f].header.content_start,
                      file[f].header.content_length) = sent[f]
    BY <1>2, <1>3, <1>4 DEF StoredContent
  <1>6. sent[f] \in Contents
    BY DEF RegisterIInv, SentWritten, RegisterApplies
  <1>7. file[f].header.compression_type \in Codecs
    BY <1>2 DEF ObjectHeader
  <1>8. ReadFile(f) = [metadata |-> file[f].metadata, tags |-> file[f].tags,
                       content |-> sent[f],
                       compression_type |-> file[f].header.compression_type]
    BY <1>1, <1>5 DEF ReadFile, Read
  <1> QED BY <1>2, <1>6, <1>7, <1>8 DEF Objects

\* What a path names.
LEMMA StoreHolds ==
    ASSUME AsyncIInv, SentArrives, RegisterIInv, RegisterApplies,
           NEW path \in Paths, Current(path) # NoFile
    PROVE  /\ Current(path) \in Files /\ Shown(Current(path))
           /\ store[path] = ReadFile(Current(path))
           /\ store[path] \in Objects /\ store[path] # None
  <1>1. /\ Len(names[path]) \in DOMAIN names[path] /\ Shown(Current(path))
        /\ Current(path) \in Files
    BY CurrentIsAName
  <1>2. Live(Current(path))
    BY <1>1 DEF Live, Current
  <1>3. ReadFile(Current(path)) \in Objects
    BY <1>1, <1>2, WholeReads
  <1>4. store[path] = ReadFile(Current(path))
    BY DEF store
  <1> QED BY <1>1, <1>3, <1>4 DEF RegisterApplies

\* The file of an open object.
LEMMA HandleFile ==
    ASSUME AsyncIInv, NEW p \in Tasks, handle[p] # None
    PROVE  /\ handle[p] \in TuxObject /\ handle[p].file \in Files
           /\ Shown(handle[p].file) /\ Live(handle[p].file)
           /\ handle[p].header = file[handle[p].file].header
           /\ handle[p].metadata = file[handle[p].file].metadata
  <1>1. handle[p] \in TuxObject
    BY DEF AsyncIInv, TypeOK
  <1>2. handle[p].file \in Files
    BY <1>1 DEF TuxObject
  <1>3. Live(handle[p].file)
    BY DEF Live
  <1> QED BY <1>1, <1>2, <1>3 DEF AsyncIInv, HandlesShown

\* What a task sees through its object is what the file of the object reads.
LEMMA ViewHolds ==
    ASSUME AsyncIInv, SentArrives, RegisterIInv, RegisterApplies,
           NEW p \in Tasks, handle[p] # None
    PROVE  /\ view[p] = [object   |-> ReadFile(handle[p].file),
                         path     |-> handle[p].path,
                         writable |-> handle[p].writable]
           /\ view[p] # None
  <1>1. PICK h : h = handle[p]
    OBVIOUS
  <1>2. /\ h \in TuxObject /\ h.file \in Files /\ Shown(h.file) /\ Live(h.file)
        /\ h.header = file[h.file].header /\ h.metadata = file[h.file].metadata
    BY <1>1, HandleFile
  <1>3. file[h.file] # Blank /\ file[h.file].header # None
    BY <1>2 DEF Shown, Complete
  <1>4. ReadTags(h) = file[h.file].tags
    BY <1>2 DEF ReadTags
  <1>5. view[p] = [object |-> Read(h.file, h.header, h.metadata, ReadTags(h)),
                   path |-> h.path, writable |-> h.writable]
    BY <1>1 DEF view
  <1>6. view[p] = [object |-> ReadFile(h.file), path |-> h.path,
                   writable |-> h.writable]
    BY <1>2, <1>3, <1>4, <1>5 DEF ReadFile
  <1>7. ReadFile(h.file) \in Objects
    BY <1>2, WholeReads
  <1>8. view[p] \in Register!Snapshot
    BY <1>2, <1>6, <1>7 DEF Register!Snapshot, TuxObject
  <1> QED BY <1>1, <1>6, <1>8 DEF RegisterApplies

\* The file a call published, or is about to.
LEMMA PublishingFile ==
    ASSUME AsyncIInv, NEW p \in Tasks, Publishing(p)
    PROVE  /\ Writer(p) \in AsyncObjectWriter /\ Writer(p).final_path \in Paths
           /\ Writer(p).file \in Files
           /\ Shown(Writer(p).file) /\ Live(Writer(p).file)
           /\ BuildHeader(Writer(p)) = file[Writer(p).file].header
           /\ Writer(p).metadata = file[Writer(p).file].metadata
  <1>0. TypeOK /\ TaskInv(p) /\ pc[p] \notin {"idle", "creating", "aborting"}
    BY DEF AsyncIInv, Publishing
  <1>1. /\ Writer(p) \in AsyncObjectWriter /\ Writer(p).file \in Files
        /\ Len(writers[p]) \in DOMAIN writers[p]
        /\ Writer(p) = writers[p][Len(writers[p])]
    BY <1>0, InnermostWriter, InnermostFileIs
  <1>2. Live(Writer(p).file)
    <2>1. pc[p] = "cleaning" => Len(writers[p]) = 2
      BY <1>0 DEF TaskInv, CallsNest
    <2>2. ~BeingRemoved(p, Len(writers[p]))
      BY <1>0, <2>1 DEF BeingRemoved
    <2>3. Writer(p).file = FileOf(p, Len(writers[p]))
      BY <1>0, InnermostFileIs DEF InnermostFile
    <2>4. Writer(p).file \in Held(p)
      BY <1>1, <2>2, <2>3 DEF Held
    <2> QED BY <2>4 DEF Live
  <1>3. Writer(p).final_path \in Paths
    BY <1>1 DEF AsyncObjectWriter
  <1> QED BY <1>1, <1>2, <1>3, PublishedIsShown

\* Between its rename and its return, a call has published what its file reads.
LEMMA CallHolds ==
    ASSUME AsyncIInv, SentArrives, RegisterIInv, RegisterApplies,
           NEW p \in Tasks, HasPublished(p)
    PROVE  /\ call[p] = [object |-> ReadFile(Writer(p).file),
                         path   |-> Writer(p).final_path]
           /\ call[p] # None
  <1>1. Publishing(p)
    BY DEF HasPublished, Publishing
  <1>2. /\ ReadFile(Writer(p).file) \in Objects
        /\ Writer(p).final_path \in Paths
    BY <1>1, PublishingFile, WholeReads
  <1>3. call[p] = [object |-> ReadFile(Writer(p).file),
                   path   |-> Writer(p).final_path]
    BY DEF call
  <1>4. call[p] \in Register!Publication
    BY <1>2, <1>3 DEF Register!Publication
  <1> QED BY <1>3, <1>4 DEF RegisterApplies

-----------------------------------------------------------------------------
(* What stays while files that are shown stay.                             *)

FilesStay == \A f \in Files : Shown(f) => file'[f] = file[f]

\* What is read from a file depends on its bytes only.
LEMMA SameFile ==
    ASSUME NEW f, file'[f] = file[f]
    PROVE  ReadFile(f)' = ReadFile(f)
  BY DEF ReadFile, Read, StoredContent

\* A path that names what it named holds what it held.
LEMMA SamePath ==
    ASSUME AsyncIInv, FilesStay, NEW path \in Paths, Current(path)' = Current(path)
    PROVE  store'[path] = store[path]
  <1>1. PICK f : f = Current(path)
    OBVIOUS
  <1>2. f = Current(path)' /\ f \in Files \cup {NoFile} /\ (f # NoFile => Shown(f))
    BY <1>1, CurrentIsAName
  <1>3. store[path] = IF f = NoFile THEN None ELSE ReadFile(f)
    BY <1>1 DEF store
  <1>4. store'[path] = IF f = NoFile THEN None ELSE ReadFile(f)'
    BY <1>2 DEF store, ReadFile, Read, StoredContent
  <1>5. f # NoFile => ReadFile(f)' = ReadFile(f)
    <2> SUFFICES ASSUME f # NoFile PROVE ReadFile(f)' = ReadFile(f)
      OBVIOUS
    <2>1. file'[f] = file[f]
      BY <1>2 DEF FilesStay
    <2> QED BY <2>1, SameFile
  <1> QED BY <1>3, <1>4, <1>5

\* An open object that stays shows what it showed.
LEMMA SameView ==
    ASSUME AsyncIInv, FilesStay, NEW q \in Tasks, handle'[q] = handle[q]
    PROVE  view'[q] = view[q]
  <1>1. CASE handle[q] = None
    BY <1>1 DEF view
  <1>2. CASE handle[q] # None
    <2>1. PICK h : h = handle[q]
      OBVIOUS
    <2>2. h = handle'[q] /\ h # None /\ file'[h.file] = file[h.file]
      BY <1>2, <2>1, HandleFile DEF FilesStay
    <2>3. PICK tags : tags = ReadTags(h)
      OBVIOUS
    <2>4. tags = ReadTags(h)'
      BY <2>2, <2>3 DEF ReadTags
    <2>5. view[q] = [object |-> Read(h.file, h.header, h.metadata, tags),
                     path |-> h.path, writable |-> h.writable]
      BY <2>1, <2>2, <2>3 DEF view
    <2>6. view'[q] = [object |-> Read(h.file, h.header, h.metadata, tags)',
                      path |-> h.path, writable |-> h.writable]
      BY <2>2, <2>4 DEF view, Read, StoredContent
    <2>7. Read(h.file, h.header, h.metadata, tags)'
             = Read(h.file, h.header, h.metadata, tags)
      BY <2>2 DEF Read, StoredContent
    <2> QED BY <2>5, <2>6, <2>7
  <1> QED BY <1>1, <1>2

\* A call that stays between its rename and its return has published the same.
LEMMA SameCall ==
    ASSUME AsyncIInv, FilesStay, NEW q \in Tasks, HasPublished(q)' <=> HasPublished(q),
           HasPublished(q) => /\ Writer(q)'.file = Writer(q).file
                              /\ Writer(q)'.final_path = Writer(q).final_path
    PROVE  call'[q] = call[q]
  <1>1. CASE ~HasPublished(q)
    BY <1>1, NothingHeld
  <1>2. CASE HasPublished(q)
    <2>1. PICK f, path : f = Writer(q).file /\ path = Writer(q).final_path
      OBVIOUS
    <2>2. f = Writer(q)'.file /\ path = Writer(q)'.final_path /\ HasPublished(q)'
      BY <1>2, <2>1
    <2>3. file'[f] = file[f]
      BY <1>2, <2>1, PublishingFile DEF HasPublished, Publishing, FilesStay
    <2>4. call[q] = [object |-> ReadFile(f), path |-> path]
      BY <1>2, <2>1 DEF call
    <2>5. call'[q] = [object |-> ReadFile(f)', path |-> path]
      BY <2>2 DEF call, ReadFile, Read, StoredContent
    <2>6. ReadFile(f)' = ReadFile(f)
      BY <2>3, SameFile
    <2> QED BY <2>4, <2>5, <2>6
  <1> QED BY <1>1, <1>2

\* The renames that are left to the pool.
LateJobs == {d \in detached : d.kind = "rename"}

Given(j) == [id |-> j.file, object |-> ReadFile(j.file), path |-> j.path]

\* The updates that may take effect are those of the renames left to the pool.
LEMMA LateIs ==
    /\ late = {Given(j) : j \in LateJobs}
    /\ late' = {Given(j)' : j \in LateJobs'}
  BY DEF late, LateJobs, Given

\* Such an update stays what it was when it was given up.
LEMMA SameGiven ==
    ASSUME AsyncIInv, FilesStay, NEW j \in Job, j.kind = "rename", Shown(j.file)
    PROVE  Given(j)' = Given(j)
  <1>1. PICK f : f = j.file
    OBVIOUS
  <1>2. f \in Files
    BY <1>1, FileNumbers DEF AsyncIInv, Shown
  <1>3. file'[f] = file[f]
    BY <1>1, <1>2 DEF FilesStay
  <1>4. ReadFile(f)' = ReadFile(f)
    BY <1>3, SameFile
  <1> QED BY <1>1, <1>4 DEF Given

\* While no rename is left to the pool and none of them runs, none comes or goes.
LEMMA SameLate ==
    ASSUME AsyncIInv, FilesStay, LateJobs' = LateJobs
    PROVE  late' = late
  <1>1. \A j \in LateJobs : Given(j)' = Given(j)
    <2> TAKE j \in LateJobs
    <2>1. j \in Job /\ j.kind = "rename" /\ Shown(j.file)
      BY DEF LateJobs, AsyncIInv, TypeOK, DetachedApart
    <2> QED BY <2>1, SameGiven
  <1> QED BY <1>1, LateIs

-----------------------------------------------------------------------------
(* The steps of a task, seen in the register.                              *)

\* A task's step shows only in what the task itself holds and has published, and
\* in an update it gives up.
LEMMA StepsShowLittle ==
    ASSUME AsyncIInv, ~GoOn, NEW p \in Tasks, TaskStep(p)
    PROVE  /\ FilesStay
           /\ store' = store
           /\ \A q \in Tasks : q # p => view'[q] = view[q] /\ call'[q] = call[q]
           /\ handle'[p] = handle[p] => view' = view
           /\ call'[p] = call[p] => call' = call
  <1>1. /\ names' = names /\ FilesStay
        /\ \A q \in Tasks : q # p =>
              /\ pc'[q] = pc[q] /\ writers'[q] = writers[q]
              /\ job'[q] = job[q] /\ handle'[q] = handle[q]
    BY NamesByTask DEF FilesStay
  <1>2. store' = store
    <2>1. \A path \in Paths : Current(path)' = Current(path)
      BY <1>1 DEF Current
    <2>2. \A path \in Paths : store'[path] = store[path]
      BY <1>1, <2>1, SamePath
    <2> QED BY <2>2, MappedFunctions
  <1>3. \A q \in Tasks : q # p => view'[q] = view[q] /\ call'[q] = call[q]
    <2> SUFFICES ASSUME NEW q \in Tasks, q # p
                 PROVE  view'[q] = view[q] /\ call'[q] = call[q]
      OBVIOUS
    <2>1. view'[q] = view[q]
      BY <1>1, SameView
    <2>2. (HasPublished(q)' <=> HasPublished(q)) /\ Writer(q)' = Writer(q)
      BY <1>1 DEF HasPublished, JobOk, Writer
    <2>3. call'[q] = call[q]
      BY <1>1, <2>2, SameCall
    <2> QED BY <2>1, <2>3
  <1>4. ASSUME handle'[p] = handle[p] PROVE view' = view
    <2>1. view'[p] = view[p]
      BY <1>1, <1>4, SameView
    <2>2. \A q \in Tasks : view'[q] = view[q]
      BY <1>3, <2>1
    <2> QED BY <2>2, MappedFunctions
  <1>5. ASSUME call'[p] = call[p] PROVE call' = call
    <2>1. \A q \in Tasks : call'[q] = call[q]
      BY <1>3, <1>5
    <2> QED BY <2>1, MappedFunctions
  <1> QED BY <1>1, <1>2, <1>3, <1>4, <1>5

\* open takes a snapshot of what the path holds.
LEMMA OpenRefines ==
    ASSUME AsyncIInv, SentArrives, RegisterIInv, RegisterApplies,
           NEW p \in Tasks, NEW path \in Paths, NEW writable \in BOOLEAN,
           Open(p, path, writable)
    PROVE  Register!Open(p, path, writable) /\ late' = late
  <1> SUFFICES ASSUME NEW f, f = Current(path)
               PROVE  Register!Open(p, path, writable) /\ late' = late
    OBVIOUS
  <1>1. /\ TaskStep(p) /\ ~HasPublished(p) /\ ~HasPublished(p)'
        /\ file' = file /\ handle[p] = None /\ detached' = detached
    BY DEF TaskStep, Open, HasPublished, fsVars, poolVars
  <1>2. call[p] = None /\ call'[p] = None /\ view[p] = None
    BY <1>1, NothingHeld
  <1>3. /\ store' = store /\ call' = call /\ late' = late
        /\ \A q \in Tasks : q # p => view'[q] = view[q]
    <2>1. /\ FilesStay /\ store' = store /\ call' = call
          /\ \A q \in Tasks : q # p => view'[q] = view[q]
      BY <1>1, <1>2, StepsShowLittle DEF RegisterApplies
    <2>2. LateJobs' = LateJobs
      BY <1>1 DEF LateJobs
    <2> QED BY <2>1, <2>2, SameLate
  <1>4. f # NoFile
    BY DEF Open, Openable
  <1>5. f \in Files /\ Shown(f) /\ store[path] = ReadFile(f) /\ store[path] # None
    BY <1>4, StoreHolds
  <1>6. /\ file[f] \in ObjectFile /\ file[f] # Blank /\ file[f].header # None
        /\ file[f].header \in ObjectHeader /\ file[f].metadata \in Metadata
    BY <1>5 DEF AsyncIInv, TypeOK, Shown, Complete, ObjectFile
  <1>7. view'[p] = [object |-> ReadFile(f), path |-> path, writable |-> writable]
    <2>1. PICK g : g = [file |-> f, path |-> path, header |-> file[f].header,
                        metadata |-> file[f].metadata, writable |-> writable]
      OBVIOUS
    <2>2. /\ g.file = f /\ g.path = path /\ g.header = file[f].header
          /\ g.metadata = file[f].metadata /\ g.writable = writable
      BY <2>1
    <2>3. handle'[p] = g /\ g # None
      <3>1. handle' = [handle EXCEPT ![p] = g]
        BY <2>1 DEF Open
      <3>2. handle'[p] = g
        BY <3>1 DEF AsyncIInv, TypeOK
      <3>3. g \in TuxObject
        BY <1>5, <1>6, <2>1 DEF TuxObject
      <3> QED BY <3>2, <3>3, MarkersAssumption
    <2>4. view'[p] = [object |-> Read(g.file, g.header, g.metadata, ReadTags(g))',
                      path |-> g.path, writable |-> g.writable]
      BY <2>3 DEF view, Read, StoredContent, ReadTags
    <2>5. Read(g.file, g.header, g.metadata, ReadTags(g))'
             = Read(g.file, g.header, g.metadata, ReadTags(g))
      BY <1>1 DEF Read, StoredContent, ReadTags
    <2>6. ReadTags(g) = file[f].tags
      BY <2>2 DEF ReadTags
    <2> QED BY <1>6, <2>2, <2>4, <2>5, <2>6 DEF ReadFile
  <1>8. view' = [view EXCEPT ![p] =
            [object |-> store[path], path |-> path, writable |-> writable]]
    BY <1>3, <1>5, <1>7, MappedFunctions
  <1> QED BY <1>2, <1>3, <1>5, <1>8 DEF Register!Open

\* Dropping an object drops its snapshot.
LEMMA CloseRefines ==
    ASSUME AsyncIInv, SentArrives, RegisterIInv, RegisterApplies,
           NEW p \in Tasks, Close(p)
    PROVE  Register!Close(p) /\ late' = late
  <1>1. /\ TaskStep(p) /\ ~HasPublished(p) /\ ~HasPublished(p)'
        /\ file' = file /\ handle[p] # None /\ detached' = detached
    BY DEF TaskStep, Close, HasPublished, fsVars, poolVars
  <1>2. call[p] = None /\ call'[p] = None
    BY <1>1, NothingHeld
  <1>3. /\ store' = store /\ call' = call /\ late' = late
        /\ \A q \in Tasks : q # p => view'[q] = view[q]
    <2>1. /\ FilesStay /\ store' = store /\ call' = call
          /\ \A q \in Tasks : q # p => view'[q] = view[q]
      BY <1>1, <1>2, StepsShowLittle DEF RegisterApplies
    <2>2. LateJobs' = LateJobs
      BY <1>1 DEF LateJobs
    <2> QED BY <2>1, <2>2, SameLate
  <1>4. view[p] # None
    BY <1>1, ViewHolds
  <1>5. handle'[p] = None
    BY DEF Close, AsyncIInv, TypeOK
  <1>6. view'[p] = None
    BY <1>5, NothingHeld
  <1>7. view' = [view EXCEPT ![p] = None]
    BY <1>3, <1>6, MappedFunctions
  <1> QED BY <1>2, <1>3, <1>4, <1>7 DEF Register!Close

\* What a call published becomes the object its task holds: finish hands over
\* what it renamed without reading it back.
LEMMA ReturnRefines ==
    ASSUME AsyncIInv, SentArrives, RegisterIInv, RegisterApplies,
           NEW p \in Tasks, Return(p)
    PROVE  Register!Return(p) /\ late' = late
  <1> SUFFICES ASSUME NEW w, w = Writer(p)
               PROVE  Register!Return(p) /\ late' = late
    OBVIOUS
  <1>1. /\ pc[p] \in {"reopen", "cleaning"} /\ pc'[p] = "idle"
        /\ UNCHANGED <<fsVars, poolVars, sent>>
        /\ handle' = [handle EXCEPT ![p] =
              [file |-> w.file, path |-> w.final_path, header |-> BuildHeader(w),
               metadata |-> w.metadata, writable |-> TRUE]]
    BY ReturnEffect
  <1>2. TaskStep(p) /\ HasPublished(p) /\ Publishing(p) /\ ~HasPublished(p)'
    BY <1>1 DEF TaskStep, HasPublished, Publishing
  <1>3. /\ store' = store
        /\ \A q \in Tasks : q # p => view'[q] = view[q] /\ call'[q] = call[q]
    BY <1>2, StepsShowLittle DEF RegisterApplies
  <1>4. late' = late
    <2>1. FilesStay /\ LateJobs' = LateJobs
      BY <1>1 DEF FilesStay, LateJobs, fsVars, poolVars
    <2> QED BY <2>1, SameLate
  <1>5. call'[p] = None
    BY <1>2, NothingHeld
  <1>6. /\ call[p] = [object |-> ReadFile(w.file), path |-> w.final_path]
        /\ call[p] # None
    BY <1>2, CallHolds
  <1>7. /\ w \in AsyncObjectWriter /\ w.final_path \in Paths /\ w.file \in Files
        /\ Shown(w.file) /\ BuildHeader(w) = file[w.file].header
        /\ w.metadata = file[w.file].metadata
    BY <1>2, PublishingFile
  <1>8. /\ file[w.file] \in ObjectFile /\ file[w.file] # Blank
        /\ file[w.file].header # None /\ file[w.file].header \in ObjectHeader
        /\ file[w.file].metadata \in Metadata
    BY <1>7 DEF AsyncIInv, TypeOK, Shown, Complete, ObjectFile
  <1>9. view'[p] = [object |-> ReadFile(w.file), path |-> w.final_path,
                    writable |-> TRUE]
    <2>1. PICK g : g = [file |-> w.file, path |-> w.final_path,
                        header |-> BuildHeader(w), metadata |-> w.metadata,
                        writable |-> TRUE]
      OBVIOUS
    <2>2. /\ g.file = w.file /\ g.path = w.final_path
          /\ g.header = file[w.file].header
          /\ g.metadata = file[w.file].metadata /\ g.writable = TRUE
      BY <1>7, <2>1
    <2>3. g \in TuxObject
      BY <1>7, <1>8, <2>1 DEF TuxObject
    <2>4. handle'[p] = g /\ g # None
      BY <1>1, <2>1, <2>3, MarkersAssumption DEF AsyncIInv, TypeOK
    <2>5. view'[p] = [object |-> Read(g.file, g.header, g.metadata, ReadTags(g))',
                      path |-> g.path, writable |-> g.writable]
      BY <2>4 DEF view, Read, StoredContent, ReadTags
    <2>6. Read(g.file, g.header, g.metadata, ReadTags(g))'
             = Read(g.file, g.header, g.metadata, ReadTags(g))
      BY <1>1 DEF fsVars, Read, StoredContent, ReadTags
    <2>7. ReadTags(g) = file[w.file].tags
      BY <2>2 DEF ReadTags
    <2> QED BY <1>8, <2>2, <2>5, <2>6, <2>7 DEF ReadFile
  <1>10. view' = [view EXCEPT ![p] =
             [object |-> call[p].object, path |-> call[p].path, writable |-> TRUE]]
    BY <1>3, <1>6, <1>9, MappedFunctions
  <1>11. call' = [call EXCEPT ![p] = None]
    BY <1>3, <1>5, MappedFunctions
  <1> QED BY <1>3, <1>4, <1>6, <1>10, <1>11 DEF Register!Return

\* What a task does besides is nothing the register knows of.
LEMMA WorkRefines ==
    ASSUME AsyncIInv, SentArrives, RegisterIInv, RegisterApplies, NEW p \in Tasks,
           Creates(p) \/ Created(p) \/ Moves(p) \/ CleanUp(p)
    PROVE  UNCHANGED <<store, view, call, late>>
  <1>1. TaskStep(p) /\ ~GoOn
    BY DEF TaskStep, RegisterApplies
  <1>2. /\ HasPublished(p)' <=> HasPublished(p)
        /\ HasPublished(p) => /\ Writer(p)'.file = Writer(p).file
                              /\ Writer(p)'.final_path = Writer(p).final_path
        /\ handle' = handle /\ detached' = detached
    <2>1. CASE Moves(p)
      BY <2>1, MovesEffect
    <2>2. CASE Creates(p)
      <3>1. PICK path, options, sync, m, t : Create(p, writers[p], path, options, sync, m, t)
        BY <2>2, CreatesCreate
      <3>2. pc[p] \in {"idle", "writing"}
        BY <2>2, CreatesCreate
      <3>3. pc'[p] = "creating" /\ handle' = handle /\ detached' = detached
        BY <3>1, <3>2, CreateEffect DEF poolVars
      <3> QED BY <3>2, <3>3 DEF HasPublished
    <2>3. CASE Created(p)
      <3>1. /\ pc[p] = "creating" /\ pc'[p] \in {"srcflush", "copying", "writing"}
            /\ handle' = handle /\ detached' = detached
        BY <2>3, CreatedEffect DEF poolVars
      <3> QED BY <3>1 DEF HasPublished
    <2>4. CASE CleanUp(p)
      <3>1. /\ pc[p] = "reopen" /\ pc'[p] = "cleaning" /\ Writer(p)' = Writer(p)
            /\ handle' = handle /\ detached' = detached
        BY <2>4, CleanUpEffect DEF poolVars
      <3> QED BY <3>1 DEF HasPublished
    <2> QED BY <2>1, <2>2, <2>3, <2>4
  <1>3. FilesStay /\ store' = store
    BY <1>1, StepsShowLittle
  <1>4. call'[p] = call[p]
    BY <1>2, <1>3, SameCall
  <1>5. view' = view /\ call' = call
    BY <1>1, <1>2, <1>4, StepsShowLittle
  <1>6. late' = late
    <2>1. LateJobs' = LateJobs
      BY <1>2 DEF LateJobs
    <2> QED BY <1>3, <2>1, SameLate
  <1> QED BY <1>3, <1>5, <1>6

\* A setter is about to publish new sections of the object its task holds, and
\* nothing else.
LEMMA UpdatesWhatIsHeld ==
    ASSUME AsyncIInv, SentArrives, RegisterIInv, RegisterApplies,
           NEW p \in Tasks, Publishing(p)
    PROVE  Register!MayPublish(p, Writer(p).final_path, ReadFile(Writer(p).file))
  <1> SUFFICES ASSUME NEW w, w = Writer(p), NEW h, h = handle[p], view[p] # None
               PROVE  /\ view[p].writable /\ w.final_path = view[p].path
                      /\ ReadFile(w.file).content = view[p].object.content
                      /\ ReadFile(w.file).compression_type
                            = view[p].object.compression_type
    BY DEF Register!MayPublish
  <1>1. h # None
    BY NothingHeld
  <1>2. /\ h.writable = TRUE /\ h.header.compression_type = Stored
        /\ w.final_path = h.path /\ sent[w.file] = sent[h.file]
    BY <1>1 DEF Publishing, RegisterIInv, UpdateKeeps
  <1>3. view[p] = [object |-> ReadFile(h.file), path |-> h.path,
                   writable |-> h.writable]
    BY <1>1, ViewHolds
  <1>4. /\ ReadFile(h.file).content = sent[h.file]
        /\ ReadFile(h.file).compression_type = h.header.compression_type
    BY <1>1, HandleFile, WholeReads
  <1>5. /\ ReadFile(w.file).content = sent[w.file]
        /\ ReadFile(w.file).compression_type = BuildHeader(w).compression_type
    BY PublishingFile, WholeReads
  <1>6. BuildHeader(w).compression_type = Stored
    BY DEF BuildHeader
  <1> QED BY <1>2, <1>3, <1>4, <1>5, <1>6

\* The rename a call waits for is of its writer, which is publishing.
LEMMA RenameOfCall ==
    ASSUME AsyncIInv, RegisterIInv, NEW p \in Tasks, job[p].kind = "rename"
    PROVE  /\ pc[p] = "renaming" /\ Publishing(p)
           /\ job[p] \in Job
           /\ job[p].file = Writer(p).file /\ job[p].file \in Files
           /\ job[p].path = Writer(p).final_path /\ job[p].path \in Paths
           /\ Shown(job[p].file)
  <1>1. pc[p] = "renaming" /\ Publishing(p)
    BY JobKinds DEF Publishing
  <1>2. job[p].file = Writer(p).file
    BY <1>1 DEF AsyncIInv, TaskInv, JobsInStep
  <1>3. job[p].path = Writer(p).final_path
    BY DEF RegisterIInv, RenamesToPath
  <1>4. job[p] \in Job
    BY DEF AsyncIInv, TypeOK
  <1> QED BY <1>1, <1>2, <1>3, <1>4, PublishingFile

\* A call that ends early leaves no trace; or it returns an error for an object
\* that is published; or its rename happens without it, some time or never.
LEMMA EndsRefine ==
    ASSUME AsyncIInv, SentArrives, RegisterIInv, RegisterApplies,
           NEW p \in Tasks, Ends(p)
    PROVE  \/ Register!ReturnError(p) /\ late' = late
           \/ Register!GiveUpSome(p)
           \/ UNCHANGED <<store, view, call, late>>
  <1> SUFFICES ASSUME NEW k, k = job[p]
               PROVE  \/ Register!ReturnError(p) /\ late' = late
                      \/ Register!GiveUpSome(p)
                      \/ UNCHANGED <<store, view, call, late>>
    OBVIOUS
  <1>1. TaskStep(p) /\ ~GoOn
    BY DEF TaskStep, RegisterApplies
  <1>2. /\ pc'[p] = "idle" /\ handle' = handle
        /\ detached' = detached \/ (Cancel(p) /\ detached' = detached \cup {k})
    BY <1>1, EndsEffect
  <1>3. /\ FilesStay /\ store' = store /\ view' = view
        /\ \A q \in Tasks : q # p => call'[q] = call[q]
    BY <1>1, <1>2, StepsShowLittle
  <1>4. call'[p] = None
    BY <1>2, NothingHeld DEF HasPublished
  <1>5. ~HasPublished(p) => call' = call
    <2> SUFFICES ASSUME ~HasPublished(p) PROVE call' = call
      OBVIOUS
    <2>1. call'[p] = call[p]
      BY <1>4, NothingHeld
    <2> QED BY <1>1, <2>1, StepsShowLittle
  <1>6. CASE detached' = detached \/ k.kind # "rename"
    <2>1. late' = late
      <3>1. LateJobs' = LateJobs
        BY <1>2, <1>6 DEF LateJobs
      <3> QED BY <1>3, <3>1, SameLate
    <2>2. CASE HasPublished(p)
      <3>1. call[p] # None
        BY <2>2, CallHolds
      <3>2. call' = [call EXCEPT ![p] = None]
        BY <1>3, <1>4, MappedFunctions
      <3> QED BY <1>3, <2>1, <3>1, <3>2 DEF Register!ReturnError
    <2>3. CASE ~HasPublished(p)
      BY <1>3, <1>5, <2>1, <2>3
    <2> QED BY <2>2, <2>3
  <1>7. CASE detached' # detached /\ k.kind = "rename"
    <2>1. Cancel(p) /\ detached' = detached \cup {k}
      BY <1>2, <1>7
    <2>2. job[p].state = "queued"
      BY <1>7, <2>1 DEF Cancel
    <2>3. /\ pc[p] = "renaming" /\ Publishing(p) /\ k \in Job
          /\ k.file = Writer(p).file /\ k.file \in Files
          /\ k.path = Writer(p).final_path /\ k.path \in Paths
          /\ Shown(k.file)
      BY <1>7, RenameOfCall
    <2>4. ~HasPublished(p)
      BY <2>2, <2>3 DEF HasPublished, JobOk
    <2>5. call' = call /\ call[p] = None
      BY <1>5, <2>4, NothingHeld
    <2>6. PICK object : object = ReadFile(k.file)
      OBVIOUS
    <2>7. object \in Objects /\ Register!MayPublish(p, k.path, object)
      <3>1. object = ReadFile(Writer(p).file)
        BY <2>3, <2>6
      <3>2. object \in Objects
        BY <2>3, <3>1, PublishingFile, WholeReads
      <3>3. Register!MayPublish(p, Writer(p).final_path, ReadFile(Writer(p).file))
        BY <2>3, UpdatesWhatIsHeld
      <3> QED BY <2>3, <3>1, <3>2, <3>3
    <2>8. \A u \in late : u.id # k.file
      <3> SUFFICES ASSUME NEW j \in LateJobs PROVE Given(j).id # k.file
        BY LateIs
      <3> QED BY <2>3 DEF LateJobs, Given, RegisterIInv, LateApart
    <2>9. late' = late \cup {[id |-> k.file, object |-> object, path |-> k.path]}
      <3>1. LateJobs' = LateJobs \cup {k}
        BY <1>7, <2>1 DEF LateJobs
      <3>2. \A j \in LateJobs : Given(j)' = Given(j)
        <4> TAKE j \in LateJobs
        <4>1. j \in Job /\ j.kind = "rename" /\ Shown(j.file)
          BY DEF LateJobs, AsyncIInv, TypeOK, DetachedApart
        <4> QED BY <1>3, <4>1, SameGiven
      <3>3. \A j : j = k => Given(j)' = Given(j)
        <4> SUFFICES ASSUME NEW j, j = k PROVE Given(j)' = Given(j)
          OBVIOUS
        <4>1. j \in Job /\ j.kind = "rename" /\ Shown(j.file)
          BY <1>7, <2>3
        <4> QED BY <1>3, <4>1, SameGiven
      <3>4. late' = {Given(j) : j \in LateJobs \cup {k}}
        <4>1. \A j \in LateJobs \cup {k} : Given(j)' = Given(j)
          BY <3>2, <3>3
        <4> QED BY <3>1, <4>1, LateIs
      <3>5. Given(k) = [id |-> k.file, object |-> object, path |-> k.path]
        BY <2>6 DEF Given
      <3> HIDE DEF LateJobs
      <3> QED BY <3>4, <3>5, LateIs
    <2>10. late' # late
      <3>1. [id |-> k.file, object |-> object, path |-> k.path] \notin late
        BY <2>8
      <3> QED BY <2>9, <3>1
    <2>11. Register!GiveUp(p, k.file, k.path, object)
      BY <1>3, <2>5, <2>7, <2>8, <2>9 DEF Register!GiveUp, Register!vars
    <2> QED BY <2>3, <2>5, <2>7, <2>10, <2>11 DEF Register!GiveUpSome
  <1> QED BY <1>6, <1>7

-----------------------------------------------------------------------------
(* The steps of the pool, seen in the register.                            *)

\* The pool changes no snapshot, and no call but the one whose rename it ran.
LEMMA PoolShowsLittle ==
    ASSUME AsyncIInv, Pool
    PROVE  /\ FilesStay
           /\ view' = view
           /\ \A q \in Tasks : (HasPublished(q)' <=> HasPublished(q)) =>
                 call'[q] = call[q]
           /\ (\A q \in Tasks : HasPublished(q)' <=> HasPublished(q)) => call' = call
           /\ detached' = detached => late' = late
  <1>1. FilesStay
    BY ShownByPool DEF FilesStay
  <1>2. pc' = pc /\ writers' = writers /\ handle' = handle
    BY DEF Pool, JobRuns, JobFails, DetachedRuns, WriteRuns, WriteFails, taskVars
  <1>3. view' = view
    <2>1. \A q \in Tasks : view'[q] = view[q]
      BY <1>1, <1>2, SameView
    <2> QED BY <2>1, MappedFunctions
  <1>4. ASSUME NEW q \in Tasks, HasPublished(q)' <=> HasPublished(q)
        PROVE  call'[q] = call[q]
    <2>1. Writer(q)' = Writer(q)
      BY <1>2 DEF Writer
    <2> QED BY <1>1, <1>4, <2>1, SameCall
  <1>5. ASSUME \A q \in Tasks : HasPublished(q)' <=> HasPublished(q)
        PROVE  call' = call
    <2>1. \A q \in Tasks : call'[q] = call[q]
      BY <1>4, <1>5
    <2> QED BY <2>1, MappedFunctions
  <1>6. ASSUME detached' = detached PROVE late' = late
    <2>1. LateJobs' = LateJobs
      BY <1>6 DEF LateJobs
    <2> QED BY <1>1, <2>1, SameLate
  <1> QED BY <1>1, <1>3, <1>4, <1>5, <1>6

\* Of all jobs only a rename changes what a path holds, and only of one path.
LEMMA StoreByJob ==
    ASSUME AsyncIInv, FilesStay, NEW j \in Job, Perform(j)
    PROVE  /\ j.kind # "rename" => store' = store
           /\ j.kind = "rename" /\ Shown(j.file) /\ j.path \in Paths =>
                 store' = [store EXCEPT ![j.path] = ReadFile(j.file)]
  <1>1. CASE j.kind # "rename"
    <2>1. \A path \in Paths : Current(path)' = Current(path)
      BY <1>1, CurrentByJob
    <2>2. \A path \in Paths : store'[path] = store[path]
      BY <2>1, SamePath
    <2> QED BY <1>1, <2>2, MappedFunctions
  <1>2. ASSUME j.kind = "rename", Shown(j.file), j.path \in Paths
        PROVE  store' = [store EXCEPT ![j.path] = ReadFile(j.file)]
    <2>1. PICK path, f : path = j.path /\ f = j.file
      OBVIOUS
    <2>2. path \in Paths /\ Current(path)' = f
      BY <1>2, <2>1, CurrentByJob
    <2>3. f \in Files /\ f # NoFile /\ file'[f] = file[f]
      BY <1>2, <2>1, FileNumbers DEF AsyncIInv, Shown, FilesStay
    <2>4. store'[path] = ReadFile(f)
      <3>1. store'[path] = ReadFile(f)'
        BY <2>2, <2>3 DEF store, ReadFile, Read, StoredContent
      <3> QED BY <2>3, <3>1, SameFile
    <2>5. \A path1 \in Paths : path1 # path => store'[path1] = store[path1]
      <3> SUFFICES ASSUME NEW path1 \in Paths, path1 # path
                   PROVE  store'[path1] = store[path1]
        OBVIOUS
      <3>1. Current(path1)' = Current(path1)
        BY <2>1, CurrentByJob
      <3> QED BY <3>1, SamePath
    <2>6. store' = [store EXCEPT ![path] = ReadFile(f)]
      BY <2>2, <2>4, <2>5, MappedFunctions
    <2> QED BY <2>1, <2>6
  <1> QED BY <1>1, <1>2

\* The rename is the step that publishes: a writer's whole object, or a setter's
\* update of the object its task holds.
LEMMA RenameRefines ==
    ASSUME AsyncIInv, SentArrives, RegisterIInv, RegisterApplies,
           NEW p \in Tasks, JobRuns(p), job[p].kind = "rename"
    PROVE  Register!PublishSome(p) /\ late' = late
  <1> SUFFICES ASSUME NEW w, w = Writer(p)
               PROVE  Register!PublishSome(p) /\ late' = late
    OBVIOUS
  <1>1. /\ pc[p] = "renaming" /\ Publishing(p) /\ job[p] \in Job
        /\ job[p].file = w.file /\ w.file \in Files
        /\ job[p].path = w.final_path /\ w.final_path \in Paths
        /\ Shown(w.file)
    BY RenameOfCall
  <1>2. /\ Pool /\ Perform(job[p]) /\ job[p].state = "queued"
        /\ pc' = pc /\ writers' = writers /\ detached' = detached
    BY DEF Pool, JobRuns, poolVars
  <1>3. /\ job'[p].state = "ok"
        /\ \A q \in Tasks : q # p => job'[q] = job[q]
    <2>1. job \in [Tasks -> Job]
      BY DEF AsyncIInv, TypeOK
    <2>2. job' = [job EXCEPT ![p].state = "ok", ![p].file = job[p].file]
      <3>1. job' = [job EXCEPT ![p].state = "ok",
                               ![p].file = IF job[p].kind = "create" THEN Fresh ELSE @]
        BY DEF JobRuns
      <3> QED BY <2>1, <3>1 DEF Job
    <2>3. job'[p] = [job[p] EXCEPT !.state = "ok", !.file = job[p].file]
      BY <2>1, <2>2
    <2>4. \A q \in Tasks : q # p => job'[q] = job[q]
      BY <2>1, <2>2
    <2> QED BY <1>1, <2>3, <2>4 DEF Job
  <1>4. /\ FilesStay /\ view' = view /\ late' = late
        /\ \A q \in Tasks : (HasPublished(q)' <=> HasPublished(q)) =>
              call'[q] = call[q]
    BY <1>2, PoolShowsLittle
  <1>5. \A q \in Tasks : q # p => call'[q] = call[q]
    BY <1>2, <1>3, <1>4 DEF HasPublished, JobOk
  <1>6. call[p] = None /\ HasPublished(p)'
    BY <1>1, <1>2, <1>3, NothingHeld DEF HasPublished, JobOk
  <1>7. PICK path, object : path = w.final_path /\ object = ReadFile(w.file)
    OBVIOUS
  <1>8. object \in Objects /\ path \in Paths
    BY <1>1, <1>7, PublishingFile, WholeReads
  <1>9. store' = [store EXCEPT ![path] = object]
    BY <1>1, <1>2, <1>4, <1>7, StoreByJob
  <1>10. call'[p] = [object |-> object, path |-> path]
    <2>1. Writer(p)' = w
      BY <1>2 DEF Writer
    <2>2. file'[w.file] = file[w.file]
      BY <1>1, <1>4 DEF FilesStay
    <2>3. call'[p] = [object |-> ReadFile(w.file)', path |-> w.final_path]
      BY <1>6, <2>1 DEF call, ReadFile, Read, StoredContent
    <2>4. ReadFile(w.file)' = ReadFile(w.file)
      BY <2>2, SameFile
    <2> QED BY <1>7, <2>3, <2>4
  <1>11. call' = [call EXCEPT ![p] = [object |-> object, path |-> path]]
    BY <1>5, <1>10, MappedFunctions
  <1>12. call'[p] # None
    <2>1. [object |-> object, path |-> path] \in Register!Publication
      BY <1>8 DEF Register!Publication
    <2> QED BY <1>10, <2>1 DEF RegisterApplies
  <1>13. Register!Publish(p, path, object)
    BY <1>4, <1>6, <1>9, <1>11 DEF Register!Publish
  <1>14. CASE view[p] = None
    <2>1. Register!Put(p, path, object)
      BY <1>13, <1>14 DEF Register!Put
    <2> QED BY <1>4, <1>6, <1>8, <1>12, <2>1 DEF Register!PublishSome
  <1>15. CASE view[p] # None
    <2>1. Register!MayPublish(p, path, object)
      BY <1>1, <1>7, UpdatesWhatIsHeld
    <2>2. Register!Update(p, object)
      BY <1>13, <1>15, <2>1 DEF Register!Update, Register!MayPublish
    <2> QED BY <1>4, <1>6, <1>8, <1>12, <2>2 DEF Register!PublishSome
  <1> QED BY <1>14, <1>15

\* Another job of a call, or one that fails.
LEMMA JobRefines ==
    ASSUME AsyncIInv, NEW p \in Tasks,
           (JobRuns(p) /\ job[p].kind # "rename") \/ JobFails(p)
    PROVE  UNCHANGED <<store, view, call, late>>
  <1>0. job \in [Tasks -> Job] /\ job[p] \in Job
    BY DEF AsyncIInv, TypeOK
  <1>1. Pool /\ pc' = pc /\ detached' = detached /\ job[p].state = "queued"
    BY DEF Pool, JobRuns, JobFails, poolVars
  <1>2. \A q \in Tasks : q # p => job'[q] = job[q]
    BY <1>0 DEF JobRuns, JobFails
  <1>3. pc[p] # "renaming" \/ job'[p].state = "failed"
    <2>1. CASE JobFails(p)
      <3>1. job' = [job EXCEPT ![p].state = "failed"]
        BY <2>1 DEF JobFails
      <3>2. job'[p] = [job[p] EXCEPT !.state = "failed"]
        BY <1>0, <3>1
      <3> QED BY <1>0, <3>2 DEF Job
    <2>2. CASE job[p].kind # "rename"
      BY <2>2 DEF AsyncIInv, TaskInv, JobsInStep
    <2> QED BY <2>1, <2>2
  <1>4. \A q \in Tasks : HasPublished(q)' <=> HasPublished(q)
    <2> TAKE q \in Tasks
    <2>1. CASE q # p
      BY <1>1, <1>2, <2>1 DEF HasPublished, JobOk
    <2>2. CASE q = p
      BY <1>1, <1>3, <2>2 DEF HasPublished, JobOk
    <2> QED BY <2>1, <2>2
  <1>5. FilesStay /\ view' = view /\ call' = call /\ late' = late
    BY <1>1, <1>4, PoolShowsLittle
  <1>6. store' = store
    <2>1. CASE JobRuns(p) /\ job[p].kind # "rename"
      BY <1>0, <1>5, <2>1, StoreByJob DEF JobRuns
    <2>2. CASE JobFails(p)
      <3>1. \A path \in Paths : Current(path)' = Current(path)
        BY <2>2 DEF JobFails, fsVars, Current
      <3>2. \A path \in Paths : store'[path] = store[path]
        BY <1>5, <3>1, SamePath
      <3> QED BY <3>2, MappedFunctions
    <2> QED BY <2>1, <2>2
  <1> QED BY <1>5, <1>6

\* A background write is of a file nobody is shown.
LEMMA WriteRefines ==
    ASSUME AsyncIInv, NEW f \in Files, WriteRuns(f) \/ WriteFails(f)
    PROVE  UNCHANGED <<store, view, call, late>>
  <1>1. Pool /\ UNCHANGED taskVars /\ detached' = detached /\ names' = names
    BY DEF Pool, WriteRuns, WriteFails, WriteFile, fsVars
  <1>2. \A q \in Tasks : HasPublished(q)' <=> HasPublished(q)
    BY <1>1 DEF taskVars, HasPublished, JobOk
  <1>3. FilesStay /\ view' = view /\ call' = call /\ late' = late
    BY <1>1, <1>2, PoolShowsLittle
  <1>4. \A path \in Paths : store'[path] = store[path]
    BY <1>1, <1>3, SamePath DEF Current
  <1> QED BY <1>3, <1>4, MappedFunctions

\* A rename nobody waits for takes effect, or comes to nothing.
LEMMA DetachedRefines ==
    ASSUME AsyncIInv, RegisterIInv, NEW j \in detached, DetachedRuns(j)
    PROVE  \/ \E u \in late : Register!TakeEffect(u) \/ Register!ComeToNothing(u)
           \/ UNCHANGED <<store, view, call, late>>
  <1>0. j \in Job /\ detached \subseteq Job
    BY DEF AsyncIInv, TypeOK
  <1>1. Pool /\ UNCHANGED taskVars /\ detached' = detached \ {j}
    BY DEF Pool, DetachedRuns
  <1>2. \A q \in Tasks : HasPublished(q)' <=> HasPublished(q)
    BY <1>1 DEF taskVars, HasPublished, JobOk
  <1>3. FilesStay /\ view' = view /\ call' = call
    BY <1>1, <1>2, PoolShowsLittle
  <1>4. UNCHANGED fsVars => store' = store
    <2> SUFFICES ASSUME UNCHANGED fsVars PROVE store' = store
      OBVIOUS
    <2>1. \A path \in Paths : store'[path] = store[path]
      BY <1>3, SamePath DEF Current, fsVars
    <2> QED BY <2>1, MappedFunctions
  <1>5. Perform(j) \/ UNCHANGED fsVars
    BY DEF DetachedRuns
  <1>6. CASE j.kind # "rename"
    <2>1. store' = store
      BY <1>0, <1>3, <1>4, <1>5, <1>6, StoreByJob
    <2>2. LateJobs' = LateJobs
      BY <1>1, <1>6 DEF LateJobs
    <2> QED BY <1>3, <2>1, <2>2, SameLate
  <1>7. CASE j.kind = "rename"
    <2>1. PICK u : u = Given(j)
      OBVIOUS
    <2>2. u.path = j.path /\ u.object = ReadFile(j.file) /\ u \in late
      BY <1>7, <2>1, LateIs DEF Given, LateJobs
    <2>3. Shown(j.file) /\ j.path \in Paths
      BY <1>7 DEF AsyncIInv, DetachedApart, RegisterIInv, LateApart
    <2>4. late' = late \ {u}
      <3>1. LateJobs' = LateJobs \ {j}
        BY <1>1 DEF LateJobs
      <3>2. \A d \in LateJobs : Given(d)' = Given(d)
        <4> TAKE d \in LateJobs
        <4>1. d \in Job /\ d.kind = "rename" /\ Shown(d.file)
          BY DEF LateJobs, AsyncIInv, TypeOK, DetachedApart
        <4> QED BY <1>3, <4>1, SameGiven
      <3>3. \A d \in LateJobs : Given(d) = Given(j) => d = j
        <4> TAKE d \in LateJobs
        <4>1. Given(d) = Given(j) => d.file = j.file
          BY DEF Given
        <4> QED BY <1>7, <4>1 DEF LateJobs, RegisterIInv, LateApart
      <3>4. late' = {Given(d) : d \in LateJobs \ {j}}
        BY <3>1, <3>2, LateIs
      <3> HIDE DEF LateJobs
      <3> QED BY <2>1, <3>3, <3>4, LateIs
    <2>5. CASE Perform(j)
      <3>1. store' = [store EXCEPT ![j.path] = ReadFile(j.file)]
        BY <1>0, <1>3, <1>7, <2>3, <2>5, StoreByJob
      <3>2. Register!TakeEffect(u)
        BY <1>3, <2>2, <2>4, <3>1 DEF Register!TakeEffect
      <3> QED BY <2>2, <3>2
    <2>6. CASE UNCHANGED fsVars
      <3>1. Register!ComeToNothing(u)
        BY <1>3, <1>4, <2>2, <2>4, <2>6 DEF Register!ComeToNothing, Register!vars
      <3> QED BY <2>2, <3>1
    <2> QED BY <1>5, <2>5, <2>6
  <1> QED BY <1>6, <1>7

\* The end of the process.
LEMMA KillRefines ==
    ASSUME AsyncIInv, Kill
    PROVE  Register!Crash
  <1>1. /\ UNCHANGED fsVars
        /\ pc' = [q \in Tasks |-> "idle"] /\ handle' = [q \in Tasks |-> None]
        /\ detached' = {}
    BY DEF Kill, Forget
  <1>2. store' = store
    <2>1. FilesStay
      BY <1>1 DEF FilesStay, fsVars
    <2>2. \A path \in Paths : store'[path] = store[path]
      BY <1>1, <2>1, SamePath DEF Current, fsVars
    <2> QED BY <2>2, MappedFunctions
  <1>3. \A q \in Tasks : view'[q] = None /\ call'[q] = None
    BY <1>1, NothingHeld DEF HasPublished
  <1>4. late' = {}
    BY <1>1, LateIs DEF LateJobs
  <1> QED BY <1>2, <1>3, <1>4, MappedFunctions DEF Register!Crash

-----------------------------------------------------------------------------
(* The refinement.                                                         *)

\* What the register shows is a function of the state.
LEMMA StutterRefines ==
    ASSUME UNCHANGED vars
    PROVE  UNCHANGED <<store, view, call, late>>
  BY DEF vars, fsVars, taskVars, poolVars, store, view, call, late, Current, ReadFile,
         Read, ReadTags, StoredContent, HasPublished, JobOk, Writer

\* Every step of the store is a step of the register, or none.
LEMMA RegisterStep ==
    ASSUME AsyncIInv, SentArrives, RegisterIInv, RegisterApplies, [Next]_vars
    PROVE  [Register!AsyncNext]_(Register!asyncVars)
  <1> DEFINE Still == UNCHANGED <<store, view, call, late>>
  <1>1. CASE UNCHANGED vars
    <2>1. Still
      BY <1>1, StutterRefines
    <2> QED BY <2>1 DEF Register!asyncVars, Register!vars
  <1>2. ASSUME NEW p \in Tasks, TaskStep(p)
        PROVE  Register!AsyncNext \/ Still
    <2>1. CASE \E path \in Paths, writable \in BOOLEAN : Open(p, path, writable)
      BY <2>1, OpenRefines DEF Register!AsyncNext, Register!Next
    <2>2. CASE Close(p)
      BY <2>2, CloseRefines DEF Register!AsyncNext, Register!Next
    <2>3. CASE Return(p)
      BY <2>3, ReturnRefines DEF Register!AsyncNext, Register!Next
    <2>4. CASE Ends(p)
      BY <2>4, EndsRefine DEF Register!AsyncNext, Register!Next
    <2>5. CASE Creates(p) \/ Created(p) \/ Moves(p) \/ CleanUp(p)
      BY <2>5, WorkRefines
    <2>6. CASE CallRefused(p)
      <3>1. UNCHANGED vars
        BY <2>6 DEF CallRefused
      <3> QED BY <3>1, StutterRefines
    <2> QED BY <1>2, <2>1, <2>2, <2>3, <2>4, <2>5, <2>6 DEF TaskStep
  <1>3. ASSUME Pool
        PROVE  Register!AsyncNext \/ Still
    <2>1. ASSUME NEW p \in Tasks, JobRuns(p) \/ JobFails(p)
          PROVE  Register!AsyncNext \/ Still
      <3>1. CASE JobRuns(p) /\ job[p].kind = "rename"
        BY <3>1, RenameRefines DEF Register!AsyncNext, Register!Next
      <3>2. CASE ~(JobRuns(p) /\ job[p].kind = "rename")
        BY <2>1, <3>2, JobRefines
      <3> QED BY <3>1, <3>2
    <2>2. ASSUME NEW j \in detached, DetachedRuns(j)
          PROVE  Register!AsyncNext \/ Still
      BY <2>2, DetachedRefines DEF Register!AsyncNext
    <2>3. ASSUME NEW f \in Files, WriteRuns(f) \/ WriteFails(f)
          PROVE  Still
      BY <2>3, WriteRefines
    <2> HIDE DEF Still
    <2> QED BY <1>3, <2>1, <2>2, <2>3 DEF Pool
  <1>4. Kill => Register!AsyncNext
    BY KillRefines DEF Register!AsyncNext
  <1>5. ~PowerLoss
    BY DEF PowerLoss, RegisterApplies
  <1>6. Next => Register!AsyncNext \/ Still
    <2> HIDE DEF Still
    <2> QED BY <1>2, <1>3, <1>4, <1>5, WhoSteps
  <1>7. Still => UNCHANGED Register!asyncVars
    BY DEF Register!asyncVars, Register!vars
  <1> HIDE DEF Still
  <1> QED BY <1>1, <1>6, <1>7

\* In the beginning nothing is published, held or under way.
LEMMA RegisterInit == Init => Register!AsyncInit
  <1> SUFFICES ASSUME Init PROVE Register!AsyncInit
    OBVIOUS
  <1>1. \A path \in Paths : Current(path) = NoFile
    BY DEF Init, FsInit, Current
  <1>2. store = [path \in Paths |-> None]
    BY <1>1 DEF store
  <1>3. view = [p \in Tasks |-> None] /\ call = [p \in Tasks |-> None]
    BY DEF Init, view, call, HasPublished
  <1>4. late = {}
    BY DEF Init, late
  <1> QED BY <1>2, <1>3, <1>4 DEF Register!AsyncInit, Register!Init

\* Publishing by a rename on the blocking pool is atomic and happens at most once,
\* for any number of tasks, paths and files, any content and any set of awaits at
\* which futures are dropped: whatever interleaves with a call and wherever it is
\* cut short, a path goes in one step from one whole object to the next, and an
\* update that was given up takes effect whole, once, and maybe late, or not at
\* all (async_io.rs:611-625, 658-672).
THEOREM AsyncStoreImplementsRegister ==
    ASSUME RegisterApplies PROVE Spec => ImplementsAsyncRegister
  <1>1. PowerSafe /\ ~GoOn
    BY DEF PowerSafe, RegisterApplies
  <1>2. AsyncIInv /\ [Next]_vars => AsyncIInv'
    BY <1>1, NextAsyncIInv
  <1>3. AsyncIInv /\ AsyncIInv' /\ SentArrives /\ [Next]_vars => SentArrives'
    BY <1>1, NextSent
  <1>4. AsyncIInv /\ SentArrives /\ RegisterIInv /\ [Next]_vars => RegisterIInv'
    BY RegisterIInvStep
  <1>5. AsyncIInv /\ SentArrives /\ RegisterIInv /\ [Next]_vars
           => [Register!AsyncNext]_(Register!asyncVars)
    BY RegisterStep
  <1> QED
    BY <1>2, <1>3, <1>4, <1>5, InitAsyncIInv, InitSent, InitRegisterIInv,
       RegisterInit, PTL
    DEF Spec, ImplementsAsyncRegister, Register!AsyncSpec

=============================================================================
