-------------------------- MODULE ObjectStoreProofs --------------------------
(***************************************************************************)
(* What ObjectStore promises, for any number of processes, paths and files. *)
(* In this order: the invariant StoreIInv and what follows from it; what a *)
(* finish may need, leaves behind and what of it survives (RewritesOnce,   *)
(* NoTempLeaks and SyncedSurvivesPowerLoss, each from an invariant of its  *)
(* own on top); and that ObjectStore implements ObjectRegister.            *)
(***************************************************************************)
EXTENDS ObjectStoreRefinement, ObjectStoreInvariant, LayoutLemmas

-----------------------------------------------------------------------------
(* Writers.                                                                *)

\* A process inside a call, or streaming, has an innermost writer.
LEMMA InnermostWriter ==
    ASSUME TypeOK, NEW p \in Procs, pc[p] # "idle"
    PROVE  /\ writers[p] \in Seq(ObjectWriter)
           /\ Len(writers[p]) \in DOMAIN writers[p]
           /\ Len(writers[p]) \in Nat \ {0}
           /\ Writer(p) \in ObjectWriter
  <1>1. writers[p] \in Seq(ObjectWriter) /\ writers[p] # <<>>
    BY DEF TypeOK
  <1> QED BY <1>1 DEF Writer

\* Assigning to the innermost writer leaves all others alone.
LEMMA SetWriterEffect ==
    ASSUME TypeOK, NEW p \in Procs, pc[p] # "idle",
           NEW w \in ObjectWriter, SetWriter(p, w)
    PROVE  /\ writers' \in [Procs -> Seq(ObjectWriter)]
           /\ Len(writers'[p]) = Len(writers[p])
           /\ DOMAIN writers'[p] = DOMAIN writers[p]
           /\ writers'[p] # <<>>
           /\ writers'[p][Len(writers[p])] = w
           /\ \A k \in DOMAIN writers[p] :
                 k # Len(writers[p]) => writers'[p][k] = writers[p][k]
           /\ \A q \in Procs : q # p => writers'[q] = writers[q]
  <1>1. /\ writers[p] \in Seq(ObjectWriter)
        /\ Len(writers[p]) \in DOMAIN writers[p]
    BY InnermostWriter
  <1>2. writers \in [Procs -> Seq(ObjectWriter)]
    BY DEF TypeOK
  <1>3. writers'[p] = [writers[p] EXCEPT ![Len(writers[p])] = w]
    BY <1>2 DEF SetWriter
  <1>4. writers'[p] \in Seq(ObjectWriter)
    BY <1>1, <1>3
  <1>5. \A q \in Procs : q # p => writers'[q] = writers[q]
    BY <1>2 DEF SetWriter
  <1>6. writers' \in [Procs -> Seq(ObjectWriter)]
    BY <1>2, <1>4, <1>5 DEF SetWriter
  <1> QED BY <1>1, <1>3, <1>4, <1>5, <1>6

\* What SetWriter does, and what leaving the writers alone does as well.
InnermostBecomes(p, w) ==
    /\ writers' \in [Procs -> Seq(ObjectWriter)]
    /\ Len(writers'[p]) = Len(writers[p])
    /\ DOMAIN writers'[p] = DOMAIN writers[p]
    /\ writers'[p] # <<>>
    /\ writers'[p][Len(writers[p])] = w
    /\ \A k \in DOMAIN writers[p] :
          k # Len(writers[p]) => writers'[p][k] = writers[p][k]
    /\ \A q \in Procs : q # p => writers'[q] = writers[q]

-----------------------------------------------------------------------------
(* The steps of a call, by what they do to files and writers.              *)

\* A process writes to the file of its innermost writer, flushes it, or changes
\* the writer, and nobody else notices: Write, Encode, Mutate, Finish, Copy,
\* WritePrefix and SyncAll.
LEMMA WriterStep ==
    ASSUME StoreIInv,
           NEW p \in Procs, NEW w2 \in ObjectWriter, NEW bytes \in ObjectFile,
           NEW loc \in Locations \ {"idle", "copying", "fsyncdir", "reopen"},
           pc[p] \notin {"idle", "fsyncdir", "reopen"},
           pc' = [pc EXCEPT ![p] = loc],
           InnermostBecomes(p, w2),
           w2.file = Writer(p).file,
           w2.temp_path = TRUE,
           w2.sync = Writer(p).sync,
           w2.layout.content_start = Writer(p).layout.content_start,
           w2.content_length = Len(bytes.content),
           bytes.content_at = file[w2.file].content_at,
           file' = [file EXCEPT ![w2.file] = bytes],
           unsynced' \subseteq unsynced \cup {w2.file},
           loc \in {"prefix", "fsync", "rename"} =>
              /\ HeaderSize + Size[w2.metadata] <= w2.layout.tags_start
              /\ w2.layout.tags_start + Size[w2.tags] <= w2.layout.content_start,
           loc \in {"fsync", "rename"} =>
              /\ bytes.header = BuildHeader(w2)
              /\ bytes.metadata = w2.metadata
              /\ bytes.tags = w2.tags,
           loc = "rename" /\ w2.sync => w2.file \notin unsynced',
           UNCHANGED <<created, temps, names, handle, historyVars>>
    PROVE  StoreIInv'
  <1> DEFINE n == Len(writers[p])
             w == Writer(p)
  <1> USE DEF StoreIInv
  <1>0. 1 .. created \subseteq Files
    BY FileSystemAssumption DEF TypeOK, Files
  <1>1. /\ writers[p] \in Seq(ObjectWriter) /\ n \in DOMAIN writers[p]
        /\ w \in ObjectWriter /\ w = writers[p][n]
    BY InnermostWriter DEF Writer
  <1>2. w2.file \in Files /\ w2.file \in 1 .. created /\ w.file = w2.file
    BY <1>1 DEF WritersOwnFiles, ObjectWriter
  <1>3. w.temp_path
    BY <1>1 DEF WritersOwnFiles, Publishing
  <1>4. /\ file \in [Files -> ObjectFile \cup {Blank}]
        /\ file'[w2.file] = bytes
        /\ \A f \in Files : f # w2.file => file'[f] = file[f]
    BY <1>2 DEF TypeOK
  <1>5. /\ pc \in [Procs -> Locations] /\ pc'[p] = loc
        /\ \A q \in Procs : q # p => pc'[q] = pc[q]
    BY DEF TypeOK
  <1>6. /\ Writer(p)' = w2
        /\ \A q \in Procs : q # p => Writer(q)' = Writer(q)
    BY DEF InnermostBecomes, Writer
  <1>7. ASSUME NEW q \in Procs, NEW k \in DOMAIN writers'[q]
        PROVE  /\ k \in DOMAIN writers[q]
               /\ writers'[q][k].file = writers[q][k].file
               /\ (q = p /\ k = n) \/ writers'[q][k] = writers[q][k]
               /\ (q = p /\ k = n) => writers'[q][k] = w2
               /\ ~(q = p /\ k = n) => writers[q][k].file # w2.file
    BY <1>1, <1>2 DEF InnermostBecomes, WritersApart
  <1>8. TypeOK'
    <2>1. file' \in [Files -> ObjectFile \cup {Blank}]
      BY <1>2, <1>4
    <2>2. unsynced' \subseteq Files
      BY <1>2 DEF TypeOK
    <2>3. pc' \in [Procs -> Locations]
      BY <1>5
    <2>4. \A q \in Procs : pc'[q] = "idle" <=> writers'[q] = <<>>
      BY <1>5 DEF TypeOK, InnermostBecomes
    <2> QED
      BY <2>1, <2>2, <2>3, <2>4 DEF TypeOK, InnermostBecomes, historyVars
  <1>9. WritersOwnFiles'
    <2> SUFFICES ASSUME NEW q \in Procs, NEW k \in DOMAIN writers'[q]
                 PROVE  LET v == writers'[q][k]
                        IN  /\ v.file \in 1 .. created'
                            /\ file'[v.file] \in ObjectFile
                            /\ file'[v.file].content_at = v.layout.content_start
                            /\ Len(file'[v.file].content) = v.content_length
                            /\ v.temp_path <=>
                                 ~(Publishing(q)' /\ k = Len(writers'[q]))
      BY DEF WritersOwnFiles
    <2>1. CASE q = p /\ k = n
      <3>1. writers'[q][k] = w2 /\ ~Publishing(q)'
        BY <2>1, <1>5, <1>7 DEF Publishing
      <3>2. file[w.file].content_at = w.layout.content_start
        BY <1>1 DEF WritersOwnFiles
      <3> QED BY <3>1, <3>2, <1>2, <1>4
    <2>2. CASE ~(q = p /\ k = n)
      <3> DEFINE v == writers[q][k]
      <3>1. writers'[q][k] = v /\ k \in DOMAIN writers[q] /\ v.file # w2.file
        BY <2>2, <1>7
      <3>2. /\ v.file \in 1 .. created /\ file[v.file] \in ObjectFile
            /\ file[v.file].content_at = v.layout.content_start
            /\ Len(file[v.file].content) = v.content_length
            /\ v.temp_path <=> ~(Publishing(q) /\ k = Len(writers[q]))
        BY <3>1 DEF WritersOwnFiles
      <3>3. v.file \in Files
        BY <3>2, <1>0
      <3>4. file'[v.file] = file[v.file]
        BY <3>1, <3>3, <1>4
      <3>5. (Publishing(q)' /\ k = Len(writers'[q]))
               <=> (Publishing(q) /\ k = Len(writers[q]))
        BY <1>5 DEF Publishing, InnermostBecomes
      <3> HIDE DEF v
      <3> QED BY <3>1, <3>2, <3>4, <3>5
    <2> QED BY <2>1, <2>2
  <1>10. WritersApart'
    BY <1>7 DEF WritersApart
  <1>11. TempsUnpublished'
    <2> SUFFICES ASSUME NEW q \in Procs, NEW k \in DOMAIN writers'[q],
                        writers'[q][k].temp_path
                 PROVE  /\ \A path \in Paths : \A i \in DOMAIN names[path] :
                              names[path][i] # writers'[q][k].file
                        /\ \A r \in Procs : handle[r] # None =>
                              handle[r].file # writers'[q][k].file
      BY DEF TempsUnpublished
    <2>1. k \in DOMAIN writers[q] /\ writers[q][k].temp_path
      BY <1>1, <1>3, <1>7
    <2> QED BY <2>1, <1>7 DEF TempsUnpublished
  <1>12. FinishInOrder'
    <2> SUFFICES ASSUME NEW q \in Procs
                 PROVE  /\ Fitted(q)' =>
                            /\ HeaderSize + Size[Writer(q)'.metadata]
                                  <= Writer(q)'.layout.tags_start
                            /\ Writer(q)'.layout.tags_start
                                  + Size[Writer(q)'.tags]
                                  <= Writer(q)'.layout.content_start
                        /\ PrefixWritten(q)' =>
                            /\ file'[Writer(q)'.file].header
                                  = BuildHeader(Writer(q)')
                            /\ file'[Writer(q)'.file].metadata
                                  = Writer(q)'.metadata
                            /\ file'[Writer(q)'.file].tags = Writer(q)'.tags
                        /\ (/\ pc'[q] \in {"rename", "fsyncdir", "reopen"}
                            /\ Writer(q)'.sync)
                           => Writer(q)'.file \notin unsynced'
      BY DEF FinishInOrder, BuildHeader
    <2>1. CASE q = p
      BY <2>1, <1>4, <1>5, <1>6 DEF Fitted, PrefixWritten
    <2>2. CASE q # p
      <3>1. Writer(q)' = Writer(q) /\ pc'[q] = pc[q]
        BY <2>2, <1>5, <1>6
      <3>2. CASE pc[q] = "idle"
        BY <3>1, <3>2 DEF Fitted, PrefixWritten
      <3>3. CASE pc[q] # "idle"
        <4>1. /\ Len(writers[q]) \in DOMAIN writers[q]
              /\ Writer(q) = writers[q][Len(writers[q])]
              /\ Writer(q) \in ObjectWriter
          BY <3>3, InnermostWriter DEF Writer
        <4>2. Writer(q).file # w2.file /\ Writer(q).file \in Files
          BY <4>1, <2>2, <1>1, <1>2 DEF WritersApart, ObjectWriter
        <4>3. file'[Writer(q).file] = file[Writer(q).file]
          BY <4>2, <1>4
        <4>4. Writer(q).file \in unsynced' => Writer(q).file \in unsynced
          BY <4>2
        <4> QED
          BY <3>1, <4>3, <4>4 DEF FinishInOrder, Fitted, PrefixWritten
      <3> QED BY <3>2, <3>3
    <2> QED BY <2>1, <2>2
  <1>13. CopiesHaveSource'
    BY <1>5 DEF CopiesHaveSource, InnermostBecomes
  <1>14. WritersSync'
    BY <1>1, <1>7 DEF WritersSync
  <1>15. NamesComplete'
    <2> SUFFICES ASSUME NEW path \in Paths, NEW i \in DOMAIN names[path],
                        names[path][i] # NoFile
                 PROVE  /\ names[path][i] \in 1 .. created
                        /\ Complete(names[path][i])'
                        /\ AllSynced => names[path][i] \notin unsynced'
      BY DEF NamesComplete, Complete
    <2> DEFINE f == names[path][i]
    <2>1. /\ f \in 1 .. created /\ Complete(f)
          /\ AllSynced => f \notin unsynced
      BY DEF NamesComplete
    <2>2. f # w2.file /\ f \in Files
      <3>1. writers[p][n].temp_path /\ writers[p][n].file = w2.file
        BY <1>1, <1>2, <1>3
      <3> QED BY <3>1, <2>1, <1>0, <1>1 DEF TempsUnpublished
    <2>3. file'[f] = file[f]
      BY <2>2, <1>4
    <2> HIDE DEF f
    <2> QED BY <2>1, <2>2, <2>3 DEF Complete, f
  <1>16. HandlesComplete'
    <2> SUFFICES ASSUME NEW q \in Procs, handle[q] # None
                 PROVE  /\ handle[q].file \in 1 .. created
                        /\ Complete(handle[q].file)'
                        /\ handle[q].header = file'[handle[q].file].header
                        /\ handle[q].metadata = file'[handle[q].file].metadata
      BY DEF HandlesComplete, Complete
    <2> DEFINE f == handle[q].file
    <2>1. /\ f \in 1 .. created /\ Complete(f)
          /\ handle[q].header = file[f].header
          /\ handle[q].metadata = file[f].metadata
      BY DEF HandlesComplete
    <2>2. f # w2.file /\ f \in Files
      <3>1. writers[p][n].temp_path /\ writers[p][n].file = w2.file
        BY <1>1, <1>2, <1>3
      <3> QED BY <3>1, <2>1, <1>0, <1>1 DEF TempsUnpublished
    <2>3. file'[f] = file[f]
      BY <2>2, <1>4
    <2> HIDE DEF f
    <2> QED BY <2>1, <2>2, <2>3 DEF Complete, f
  <1> QED
    BY <1>8, <1>9, <1>10, <1>11, <1>12, <1>13, <1>14, <1>15, <1>16

\* The writers of a process go away, their temporary files D with them, and its
\* object may change: what a call ends with, however it ends.
LEMMA EndCall ==
    ASSUME StoreIInv,
           NEW p \in Procs, NEW D \in SUBSET OwnedTemps(p),
           NEW h2 \in TuxObject \cup {None},
           DeleteTemps(D),
           writers' = [writers EXCEPT ![p] = <<>>],
           pc' = [pc EXCEPT ![p] = "idle"],
           handle' = [handle EXCEPT ![p] = h2],
           published' \in [Paths -> Seq(Files)],
           acked' \in [Paths -> Nat],
           h2 # None =>
              /\ h2.file \in 1 .. created
              /\ h2.file \notin D
              /\ Complete(h2.file)
              /\ h2.header = file[h2.file].header
              /\ h2.metadata = file[h2.file].metadata
              /\ \A q \in Procs : q # p =>
                    \A k \in DOMAIN writers[q] :
                       writers[q][k].temp_path => writers[q][k].file # h2.file
    PROVE  StoreIInv'
  <1> USE DEF StoreIInv
  <1>0. 1 .. created \subseteq Files
    BY FileSystemAssumption DEF TypeOK, Files
  <1>1. ASSUME NEW f \in D
        PROVE  \E k \in DOMAIN writers[p] :
                  writers[p][k].temp_path /\ writers[p][k].file = f
    BY DEF OwnedTemps
  <1>2. /\ writers' \in [Procs -> Seq(ObjectWriter)] /\ writers'[p] = <<>>
        /\ \A q \in Procs : q # p => writers'[q] = writers[q]
    BY DEF TypeOK
  <1>3. /\ pc' \in [Procs -> Locations] /\ pc'[p] = "idle"
        /\ \A q \in Procs : q # p => pc'[q] = pc[q]
    BY DEF TypeOK, Locations
  <1>4. /\ handle' \in [Procs -> TuxObject \cup {None}] /\ handle'[p] = h2
        /\ \A q \in Procs : q # p => handle'[q] = handle[q]
    BY DEF TypeOK
  <1>5. \A f \in Files : f \notin D => file'[f] = file[f]
    BY DEF DeleteTemps
  <1>6. unsynced' \subseteq unsynced /\ created' = created /\ names' = names
    BY DEF DeleteTemps
  <1>7. ASSUME NEW q \in Procs, NEW k \in DOMAIN writers'[q]
        PROVE  q # p /\ k \in DOMAIN writers[q] /\ writers'[q] = writers[q]
    BY <1>2
  <1>8. ASSUME NEW q \in Procs, q # p, NEW k \in DOMAIN writers[q]
        PROVE  writers[q][k].file \notin D /\ writers[q][k].file \in Files
    <2>1. writers[q][k].file \in 1 .. created
      BY DEF WritersOwnFiles
    <2>2. ASSUME writers[q][k].file \in D PROVE FALSE
      <3>1. PICK j \in DOMAIN writers[p] :
                writers[p][j].file = writers[q][k].file
        BY <1>1, <2>2
      <3> QED BY <3>1, <1>8 DEF WritersApart
    <2> QED BY <2>1, <2>2, <1>0
  <1>9. ASSUME NEW path \in Paths, NEW i \in DOMAIN names[path]
        PROVE  names[path][i] \notin D
    <2> SUFFICES ASSUME names[path][i] \in D PROVE FALSE
      OBVIOUS
    <2>1. PICK j \in DOMAIN writers[p] :
              writers[p][j].temp_path /\ writers[p][j].file = names[path][i]
      BY <1>1
    <2> QED BY <2>1 DEF TempsUnpublished
  <1>10. ASSUME NEW q \in Procs, handle[q] # None
         PROVE  handle[q].file \notin D
    <2> SUFFICES ASSUME handle[q].file \in D PROVE FALSE
      OBVIOUS
    <2>1. PICK j \in DOMAIN writers[p] :
              writers[p][j].temp_path /\ writers[p][j].file = handle[q].file
      BY <1>1
    <2> QED BY <2>1, <1>10 DEF TempsUnpublished
  <1>11. TypeOK'
    <2>1. file' \in [Files -> ObjectFile \cup {Blank}]
      BY DEF TypeOK, DeleteTemps
    <2>2. temps' \subseteq Files /\ unsynced' \subseteq Files
      BY DEF TypeOK, DeleteTemps
    <2>3. \A q \in Procs : pc'[q] = "idle" <=> writers'[q] = <<>>
      BY <1>2, <1>3 DEF TypeOK
    <2> QED BY <1>2, <1>3, <1>4, <1>6, <2>1, <2>2, <2>3 DEF TypeOK
  <1>12. WritersOwnFiles'
    <2> SUFFICES ASSUME NEW q \in Procs, NEW k \in DOMAIN writers'[q]
                 PROVE  LET v == writers'[q][k]
                        IN  /\ v.file \in 1 .. created'
                            /\ file'[v.file] \in ObjectFile
                            /\ file'[v.file].content_at = v.layout.content_start
                            /\ Len(file'[v.file].content) = v.content_length
                            /\ v.temp_path <=>
                                 ~(Publishing(q)' /\ k = Len(writers'[q]))
      BY DEF WritersOwnFiles
    <2> DEFINE v == writers[q][k]
    <2>1. q # p /\ k \in DOMAIN writers[q] /\ writers'[q] = writers[q]
      BY <1>7
    <2>2. /\ v.file \in 1 .. created /\ file[v.file] \in ObjectFile
          /\ file[v.file].content_at = v.layout.content_start
          /\ Len(file[v.file].content) = v.content_length
          /\ v.temp_path <=> ~(Publishing(q) /\ k = Len(writers[q]))
      BY <2>1 DEF WritersOwnFiles
    <2>3. file'[v.file] = file[v.file]
      BY <2>1, <1>5, <1>8
    <2>4. Publishing(q)' <=> Publishing(q)
      BY <2>1, <1>3 DEF Publishing
    <2> QED BY <2>1, <2>2, <2>3, <2>4, <1>6
  <1>13. WritersApart'
    BY <1>7 DEF WritersApart
  <1>14. TempsUnpublished'
    BY <1>4, <1>6, <1>7 DEF TempsUnpublished
  <1>15. FinishInOrder'
    <2> SUFFICES ASSUME NEW q \in Procs
                 PROVE  /\ Fitted(q)' =>
                            /\ HeaderSize + Size[Writer(q)'.metadata]
                                  <= Writer(q)'.layout.tags_start
                            /\ Writer(q)'.layout.tags_start
                                  + Size[Writer(q)'.tags]
                                  <= Writer(q)'.layout.content_start
                        /\ PrefixWritten(q)' =>
                            /\ file'[Writer(q)'.file].header
                                  = BuildHeader(Writer(q)')
                            /\ file'[Writer(q)'.file].metadata
                                  = Writer(q)'.metadata
                            /\ file'[Writer(q)'.file].tags = Writer(q)'.tags
                        /\ (/\ pc'[q] \in {"rename", "fsyncdir", "reopen"}
                            /\ Writer(q)'.sync)
                           => Writer(q)'.file \notin unsynced'
      BY DEF FinishInOrder, BuildHeader
    <2>1. CASE pc'[q] = "idle"
      BY <2>1 DEF Fitted, PrefixWritten
    <2>2. CASE pc'[q] # "idle"
      <3>1. q # p /\ pc'[q] = pc[q] /\ Writer(q)' = Writer(q)
        BY <2>2, <1>2, <1>3 DEF Writer
      <3>2. Len(writers[q]) \in DOMAIN writers[q]
        BY <2>2, <3>1, InnermostWriter
      <3>3. file'[Writer(q).file] = file[Writer(q).file]
        BY <3>1, <3>2, <1>5, <1>8 DEF Writer
      <3> QED
        BY <3>1, <3>3, <1>6 DEF FinishInOrder, Fitted, PrefixWritten
    <2> QED BY <2>1, <2>2
  <1>16. CopiesHaveSource'
    BY <1>2, <1>3, <1>4 DEF CopiesHaveSource
  <1>17. WritersSync'
    BY <1>7 DEF WritersSync
  <1>18. NamesComplete'
    <2> SUFFICES ASSUME NEW path \in Paths, NEW i \in DOMAIN names[path],
                        names[path][i] # NoFile
                 PROVE  /\ names[path][i] \in 1 .. created
                        /\ Complete(names[path][i])'
                        /\ AllSynced => names[path][i] \notin unsynced'
      BY <1>6 DEF NamesComplete, Complete
    <2> DEFINE f == names[path][i]
    <2>1. /\ f \in 1 .. created /\ Complete(f) /\ f \notin D
          /\ AllSynced => f \notin unsynced
      BY <1>9 DEF NamesComplete
    <2>2. file'[f] = file[f]
      BY <2>1, <1>0, <1>5
    <2> HIDE DEF f
    <2> QED BY <2>1, <2>2, <1>6 DEF Complete, f
  <1>19. HandlesComplete'
    <2> SUFFICES ASSUME NEW q \in Procs, handle'[q] # None
                 PROVE  /\ handle'[q].file \in 1 .. created'
                        /\ Complete(handle[q].file)'
                        /\ handle'[q].header = file'[handle'[q].file].header
                        /\ handle'[q].metadata = file'[handle'[q].file].metadata
      BY DEF HandlesComplete, Complete
    <2> DEFINE h == handle'[q]
    <2>1. /\ h.file \in 1 .. created /\ h.file \notin D /\ Complete(h.file)
          /\ h.header = file[h.file].header
          /\ h.metadata = file[h.file].metadata
      <3>1. CASE q = p
        BY <3>1, <1>4
      <3>2. CASE q # p
        BY <3>2, <1>4, <1>10 DEF HandlesComplete
      <3> QED BY <3>1, <3>2
    <2>2. file'[h.file] = file[h.file]
      BY <2>1, <1>0, <1>5
    <2> HIDE DEF h
    <2> QED BY <2>1, <2>2, <1>6 DEF Complete, h
  <1> QED
    BY <1>11, <1>12, <1>13, <1>14, <1>15, <1>16, <1>17, <1>18, <1>19

\* A process gets one more writer, with a fresh file.
LEMMA CreateStep ==
    ASSUME StoreIInv,
           NEW p \in Procs, NEW w2 \in ObjectWriter,
           NEW loc \in {"writing", "copying"},
           pc[p] \in {"idle", "writing", "finishing"},
           w2.file = Fresh,
           w2.temp_path = TRUE,
           w2.content_length = 0,
           AllSynced => w2.sync,
           CreateFile(NewFile(w2.layout.content_start)),
           writers' = [writers EXCEPT ![p] = Append(writers[p], w2)],
           pc' = [pc EXCEPT ![p] = loc],
           loc = "copying" => writers[p] # <<>> \/ handle[p] # None,
           UNCHANGED <<handle, historyVars>>
    PROVE  StoreIInv'
  <1> DEFINE n == Len(writers[p]) + 1
  <1> USE DEF StoreIInv
  <1>1. /\ 1 .. created \subseteq Files /\ Fresh \in Files
        /\ Fresh \notin 1 .. created /\ created' = Fresh
        /\ created \in Nat /\ 1 .. created \subseteq 1 .. created'
        /\ Fresh \in 1 .. created' /\ created' \in 0 .. MaxFiles
    BY FileSystemAssumption DEF TypeOK, Files, CreateFile, CanCreate, Fresh
  <1>2. writers[p] \in Seq(ObjectWriter) /\ n \in Nat \ {0}
    BY DEF TypeOK
  <1>3. /\ writers' \in [Procs -> Seq(ObjectWriter)]
        /\ writers'[p] = Append(writers[p], w2)
        /\ \A q \in Procs : q # p => writers'[q] = writers[q]
    BY <1>2 DEF TypeOK
  <1>4. /\ Len(writers'[p]) = n /\ writers'[p][n] = w2 /\ writers'[p] # <<>>
        /\ DOMAIN writers'[p] = DOMAIN writers[p] \cup {n}
        /\ \A k \in DOMAIN writers[p] : k # n /\ writers'[p][k] = writers[p][k]
    BY <1>2, <1>3
  <1>5. /\ pc' \in [Procs -> Locations] /\ pc'[p] = loc
        /\ \A q \in Procs : q # p => pc'[q] = pc[q]
    BY DEF TypeOK, Locations, CallStates
  <1>6. NewFile(w2.layout.content_start) \in ObjectFile
    BY LayoutAssumption
    DEF NewFile, ObjectFile, ObjectWriter, SectionLayout
  <1>7. /\ file' \in [Files -> ObjectFile \cup {Blank}]
        /\ file'[Fresh] = NewFile(w2.layout.content_start)
        /\ \A f \in 1 .. created : file'[f] = file[f]
        /\ names' = names /\ handle' = handle
        /\ unsynced' = unsynced \cup {Fresh} /\ temps' = temps \cup {Fresh}
    BY <1>1, <1>6 DEF TypeOK, CreateFile
  <1>8. ASSUME NEW q \in Procs, NEW k \in DOMAIN writers'[q]
        PROVE  \/ q = p /\ k = n /\ writers'[q][k] = w2
               \/ /\ ~(q = p /\ k = n)
                  /\ k \in DOMAIN writers[q]
                  /\ writers'[q][k] = writers[q][k]
                  /\ writers[q][k].file \in 1 .. created
    BY <1>3, <1>4 DEF WritersOwnFiles
  <1>9. TypeOK'
    <2>1. unsynced' \subseteq Files /\ temps' \subseteq Files
      BY <1>1, <1>7 DEF TypeOK
    <2>2. \A q \in Procs : pc'[q] = "idle" <=> writers'[q] = <<>>
      BY <1>3, <1>4, <1>5 DEF TypeOK
    <2> QED
      BY <1>1, <1>3, <1>5, <1>7, <2>1, <2>2 DEF TypeOK, historyVars
  <1>10. WritersOwnFiles'
    <2> SUFFICES ASSUME NEW q \in Procs, NEW k \in DOMAIN writers'[q]
                 PROVE  LET v == writers'[q][k]
                        IN  /\ v.file \in 1 .. created'
                            /\ file'[v.file] \in ObjectFile
                            /\ file'[v.file].content_at = v.layout.content_start
                            /\ Len(file'[v.file].content) = v.content_length
                            /\ v.temp_path <=>
                                 ~(Publishing(q)' /\ k = Len(writers'[q]))
      BY DEF WritersOwnFiles
    <2>1. CASE q = p /\ k = n
      BY <2>1, <1>1, <1>3, <1>4, <1>5, <1>6, <1>7 DEF NewFile, Publishing
    <2>2. CASE ~(q = p /\ k = n)
      <3> DEFINE v == writers[q][k]
      <3>1. k \in DOMAIN writers[q] /\ writers'[q][k] = v
            /\ v.file \in 1 .. created
        BY <2>2, <1>8
      <3>2. /\ file[v.file] \in ObjectFile
            /\ file[v.file].content_at = v.layout.content_start
            /\ Len(file[v.file].content) = v.content_length
            /\ v.temp_path <=> ~(Publishing(q) /\ k = Len(writers[q]))
        BY <3>1 DEF WritersOwnFiles
      <3>3. v.file \in 1 .. created' /\ file'[v.file] = file[v.file]
        BY <3>1, <1>1, <1>7
      <3>4. (Publishing(q)' /\ k = Len(writers'[q]))
               <=> (Publishing(q) /\ k = Len(writers[q]))
        BY <1>3, <1>5 DEF Publishing
      <3> HIDE DEF v
      <3> QED BY <3>1, <3>2, <3>3, <3>4
    <2> QED BY <2>1, <2>2
  <1>11. WritersApart'
    BY <1>1, <1>8 DEF WritersApart
  <1>12. TempsUnpublished'
    <2> SUFFICES ASSUME NEW q \in Procs, NEW k \in DOMAIN writers'[q],
                        writers'[q][k].temp_path
                 PROVE  /\ \A path \in Paths : \A i \in DOMAIN names[path] :
                              names[path][i] # writers'[q][k].file
                        /\ \A r \in Procs : handle[r] # None =>
                              handle[r].file # writers'[q][k].file
      BY <1>7 DEF TempsUnpublished
    <2>1. CASE q = p /\ k = n
      <3>1. writers'[q][k].file \in Files /\ writers'[q][k].file = Fresh
        BY <2>1, <1>1, <1>3, <1>4
      <3>2. Fresh # NoFile
        BY <1>1, FileSystemAssumption DEF Files
      <3> QED
        BY <3>1, <3>2, <1>1 DEF NamesComplete, HandlesComplete
    <2>2. CASE ~(q = p /\ k = n)
      BY <2>2, <1>8 DEF TempsUnpublished
    <2> QED BY <2>1, <2>2
  <1>13. FinishInOrder'
    <2> SUFFICES ASSUME NEW q \in Procs
                 PROVE  /\ Fitted(q)' =>
                            /\ HeaderSize + Size[Writer(q)'.metadata]
                                  <= Writer(q)'.layout.tags_start
                            /\ Writer(q)'.layout.tags_start
                                  + Size[Writer(q)'.tags]
                                  <= Writer(q)'.layout.content_start
                        /\ PrefixWritten(q)' =>
                            /\ file'[Writer(q)'.file].header
                                  = BuildHeader(Writer(q)')
                            /\ file'[Writer(q)'.file].metadata
                                  = Writer(q)'.metadata
                            /\ file'[Writer(q)'.file].tags = Writer(q)'.tags
                        /\ (/\ pc'[q] \in {"rename", "fsyncdir", "reopen"}
                            /\ Writer(q)'.sync)
                           => Writer(q)'.file \notin unsynced'
      BY DEF FinishInOrder, BuildHeader
    <2>1. CASE q = p \/ pc[q] = "idle"
      BY <2>1, <1>5 DEF Fitted, PrefixWritten
    <2>2. CASE q # p /\ pc[q] # "idle"
      <3>1. Writer(q)' = Writer(q) /\ pc'[q] = pc[q]
        BY <2>2, <1>3, <1>5 DEF Writer
      <3>2. Writer(q).file \in 1 .. created
        BY <2>2, InnermostWriter DEF WritersOwnFiles, Writer
      <3>3. file'[Writer(q).file] = file[Writer(q).file]
            /\ Writer(q).file # Fresh
        BY <3>2, <1>1, <1>7
      <3> QED
        BY <3>1, <3>3, <1>7 DEF FinishInOrder, Fitted, PrefixWritten
    <2> QED BY <2>1, <2>2
  <1>14. CopiesHaveSource'
    <2>1. ASSUME writers[p] # <<>> PROVE n > 1
      BY <2>1, <1>2
    <2> QED BY <2>1, <1>3, <1>4, <1>5, <1>7 DEF CopiesHaveSource
  <1>15. WritersSync'
    BY <1>8 DEF WritersSync
  <1>16. NamesComplete'
    BY <1>1, <1>7 DEF NamesComplete, Complete
  <1>17. HandlesComplete'
    BY <1>1, <1>7 DEF HandlesComplete, Complete
  <1> QED
    BY <1>9, <1>10, <1>11, <1>12, <1>13, <1>14, <1>15, <1>16, <1>17

\* Once its prefix is written, the file of a writer is a whole object.
LEMMA FinishedIsComplete ==
    ASSUME StoreIInv, NEW p \in Procs,
           pc[p] \in {"rename", "fsyncdir", "reopen"}
    PROVE  /\ Writer(p).file \in 1 .. created
           /\ Complete(Writer(p).file)
           /\ file[Writer(p).file].header = BuildHeader(Writer(p))
           /\ file[Writer(p).file].metadata = Writer(p).metadata
           /\ BuildHeader(Writer(p)) \in ObjectHeader
  <1> DEFINE w == Writer(p)
  <1> USE DEF StoreIInv
  <1>1. w \in ObjectWriter /\ Len(writers[p]) \in DOMAIN writers[p]
    BY InnermostWriter
  <1>2. /\ w.file \in 1 .. created
        /\ file[w.file] \in ObjectFile
        /\ file[w.file].content_at = w.layout.content_start
        /\ Len(file[w.file].content) = w.content_length
    BY <1>1 DEF WritersOwnFiles, Writer
  <1>3. /\ HeaderSize + Size[w.metadata] <= w.layout.tags_start
        /\ w.layout.tags_start + Size[w.tags] <= w.layout.content_start
        /\ file[w.file].header = BuildHeader(w)
        /\ file[w.file].metadata = w.metadata
        /\ file[w.file].tags = w.tags
    BY DEF FinishInOrder, Fitted, PrefixWritten
  <1>4. BuildHeader(w) \in ObjectHeader
    BY <1>1, LayoutAssumption
    DEF BuildHeader, ObjectHeader, ObjectWriter, SectionLayout
  <1>5. /\ BuildHeader(w).content_start = w.layout.content_start
        /\ BuildHeader(w).tags_start = w.layout.tags_start
        /\ BuildHeader(w).content_length = w.content_length
    BY DEF BuildHeader
  <1>6. w.metadata \in Metadata /\ w.tags \in Tags
    BY <1>1 DEF ObjectWriter
  <1> HIDE DEF w
  <1>7. Complete(w.file)
    BY <1>2, <1>3, <1>4, <1>5, <1>6, MarkersAssumption DEF Complete
  <1> QED BY <1>2, <1>3, <1>4, <1>7 DEF w

\* The whole file of a writer is renamed over its path.
LEMMA RenameStep ==
    ASSUME StoreIInv, NEW p \in Procs, Rename(p)
    PROVE  StoreIInv'
  <1> DEFINE n == Len(writers[p])
             w == Writer(p)
             w2 == [w EXCEPT !.temp_path = FALSE]
  <1> USE DEF StoreIInv
  <1>0. 1 .. created \subseteq Files
    BY FileSystemAssumption DEF TypeOK, Files
  <1>1. /\ writers[p] \in Seq(ObjectWriter) /\ n \in DOMAIN writers[p]
        /\ w \in ObjectWriter /\ w = writers[p][n] /\ pc[p] = "rename"
    BY InnermostWriter DEF Writer, Rename
  <1>2. w2 \in ObjectWriter /\ SetWriter(p, w2)
    BY <1>1 DEF ObjectWriter, Rename
  <1>3. /\ writers' \in [Procs -> Seq(ObjectWriter)]
        /\ Len(writers'[p]) = n /\ DOMAIN writers'[p] = DOMAIN writers[p]
        /\ writers'[p] # <<>> /\ writers'[p][n] = w2
        /\ \A k \in DOMAIN writers[p] :
              k # n => writers'[p][k] = writers[p][k]
        /\ \A q \in Procs : q # p => writers'[q] = writers[q]
    BY <1>1, <1>2, SetWriterEffect
  <1>4. /\ pc' \in [Procs -> Locations] /\ pc'[p] \in {"fsyncdir", "reopen"}
        /\ \A q \in Procs : q # p => pc'[q] = pc[q]
    BY DEF Rename, Goto, TypeOK, AfterRename, Locations, CallStates
  <1>5. /\ w.file \in 1 .. created /\ w.file \in Files /\ w.final_path \in Paths
        /\ Complete(w.file)
    BY <1>0, <1>1, FinishedIsComplete DEF ObjectWriter
  <1>6. AllSynced => w.file \notin unsynced
    BY <1>1 DEF FinishInOrder, WritersSync
  <1>7. /\ created' = created /\ file' = file /\ unsynced' = unsynced
        /\ handle' = handle /\ acked' = acked
        /\ names' = [names EXCEPT ![w.final_path] = Append(@, w.file)]
        /\ temps' = temps \ {w.file}
        /\ published' = [published EXCEPT ![w.final_path] = Append(@, w.file)]
    BY DEF Rename, RenameFile
  <1>8. ASSUME NEW path \in Paths
        PROVE  /\ names'[path] \in Seq(Files \cup {NoFile}) \ {<<>>}
               /\ \A i \in DOMAIN names'[path] :
                     \/ names'[path][i] = w.file
                     \/ i \in DOMAIN names[path]
                        /\ names'[path][i] = names[path][i]
    <2>1. names[path] \in Seq(Files \cup {NoFile}) /\ names[path] # <<>>
      BY DEF TypeOK
    <2>2. CASE path = w.final_path
      <3>1. names'[path] = Append(names[path], w.file)
        BY <2>2, <1>7 DEF TypeOK
      <3> HIDE DEF w
      <3> QED BY <2>1, <3>1, <1>5
    <2>3. CASE path # w.final_path
      BY <2>1, <2>3, <1>7 DEF TypeOK
    <2> QED BY <2>2, <2>3
  <1>9. ASSUME NEW q \in Procs, NEW k \in DOMAIN writers'[q]
        PROVE  \/ q = p /\ k = n /\ writers'[q][k] = w2
               \/ /\ ~(q = p /\ k = n)
                  /\ k \in DOMAIN writers[q]
                  /\ writers'[q][k] = writers[q][k]
                  /\ writers[q][k].file # w.file
    BY <1>1, <1>3 DEF WritersApart
  <1>10. Writer(p)' = w2 /\ \A q \in Procs : q # p => Writer(q)' = Writer(q)
    BY <1>3 DEF Writer
  <1>11. /\ w2.file = w.file /\ w2.layout = w.layout /\ w2.tags = w.tags
         /\ w2.metadata = w.metadata /\ w2.sync = w.sync
         /\ w2.content_length = w.content_length /\ w2.temp_path = FALSE
         /\ BuildHeader(w2) = BuildHeader(w)
    BY <1>1 DEF ObjectWriter, BuildHeader
  <1> HIDE DEF w, w2, n
  <1>12. TypeOK'
    <2>1. published' \in [Paths -> Seq(Files)]
      BY <1>5, <1>7 DEF TypeOK
    <2>2. names' \in [Paths -> Seq(Files \cup {NoFile}) \ {<<>>}]
      BY <1>7, <1>8 DEF TypeOK
    <2>3. \A q \in Procs : pc'[q] = "idle" <=> writers'[q] = <<>>
      BY <1>3, <1>4 DEF TypeOK
    <2> QED BY <1>3, <1>4, <1>7, <2>1, <2>2, <2>3 DEF TypeOK
  <1>13. WritersOwnFiles'
    <2> SUFFICES ASSUME NEW q \in Procs, NEW k \in DOMAIN writers'[q]
                 PROVE  LET v == writers'[q][k]
                        IN  /\ v.file \in 1 .. created'
                            /\ file'[v.file] \in ObjectFile
                            /\ file'[v.file].content_at = v.layout.content_start
                            /\ Len(file'[v.file].content) = v.content_length
                            /\ v.temp_path <=>
                                 ~(Publishing(q)' /\ k = Len(writers'[q]))
      BY DEF WritersOwnFiles
    <2>1. CASE q = p /\ k = n
      <3>1. writers'[q][k] = w2 /\ Publishing(q)' /\ k = Len(writers'[q])
        BY <2>1, <1>3, <1>4 DEF Publishing
      <3>2. /\ file[w.file] \in ObjectFile
            /\ file[w.file].content_at = w.layout.content_start
            /\ Len(file[w.file].content) = w.content_length
        BY <1>1 DEF WritersOwnFiles
      <3> QED BY <3>1, <3>2, <1>5, <1>7, <1>11
    <2>2. CASE ~(q = p /\ k = n)
      <3>1. k \in DOMAIN writers[q] /\ writers'[q][k] = writers[q][k]
        BY <2>2, <1>9
      <3>2. (Publishing(q)' /\ k = Len(writers'[q]))
               <=> (Publishing(q) /\ k = Len(writers[q]))
        BY <2>2, <1>1, <1>3, <1>4 DEF Publishing, n
      <3> QED BY <3>1, <3>2, <1>7 DEF WritersOwnFiles
    <2> QED BY <2>1, <2>2
  <1>14. WritersApart'
    BY <1>1, <1>9, <1>11 DEF WritersApart
  <1>15. TempsUnpublished'
    <2> SUFFICES ASSUME NEW q \in Procs, NEW k \in DOMAIN writers'[q],
                        writers'[q][k].temp_path
                 PROVE  /\ \A path \in Paths : \A i \in DOMAIN names'[path] :
                              names'[path][i] # writers'[q][k].file
                        /\ \A r \in Procs : handle[r] # None =>
                              handle[r].file # writers'[q][k].file
      BY <1>7 DEF TempsUnpublished
    <2>1. /\ k \in DOMAIN writers[q] /\ writers'[q][k] = writers[q][k]
          /\ writers[q][k].file # w.file
      BY <1>9, <1>11
    <2> QED BY <2>1, <1>8 DEF TempsUnpublished
  <1>16. FinishInOrder'
    <2> SUFFICES ASSUME NEW q \in Procs
                 PROVE  /\ Fitted(q)' =>
                            /\ HeaderSize + Size[Writer(q)'.metadata]
                                  <= Writer(q)'.layout.tags_start
                            /\ Writer(q)'.layout.tags_start
                                  + Size[Writer(q)'.tags]
                                  <= Writer(q)'.layout.content_start
                        /\ PrefixWritten(q)' =>
                            /\ file'[Writer(q)'.file].header
                                  = BuildHeader(Writer(q)')
                            /\ file'[Writer(q)'.file].metadata
                                  = Writer(q)'.metadata
                            /\ file'[Writer(q)'.file].tags = Writer(q)'.tags
                        /\ (/\ pc'[q] \in {"rename", "fsyncdir", "reopen"}
                            /\ Writer(q)'.sync)
                           => Writer(q)'.file \notin unsynced'
      BY DEF FinishInOrder, BuildHeader
    <2>1. CASE q = p
      BY <2>1, <1>1, <1>4, <1>7, <1>10, <1>11
      DEF FinishInOrder, Fitted, PrefixWritten, w
    <2>2. CASE q # p
      BY <2>2, <1>4, <1>7, <1>10 DEF FinishInOrder, Fitted, PrefixWritten
    <2> QED BY <2>1, <2>2
  <1>17. CopiesHaveSource'
    BY <1>3, <1>4, <1>7 DEF CopiesHaveSource
  <1>18. WritersSync'
    BY <1>1, <1>9, <1>11 DEF WritersSync
  <1>19. NamesComplete'
    <2>1. created' = created /\ file' = file /\ unsynced' = unsynced
      BY <1>7
    <2> HIDE DEF StoreIInv
    <2> SUFFICES ASSUME NEW path \in Paths, NEW i \in DOMAIN names'[path],
                        names'[path][i] # NoFile
                 PROVE  /\ names'[path][i] \in 1 .. created
                        /\ Complete(names'[path][i])
                        /\ AllSynced => names'[path][i] \notin unsynced
      BY <2>1 DEF NamesComplete, Complete
    <2> USE DEF StoreIInv
    <2> QED BY <1>5, <1>6, <1>8 DEF NamesComplete
  <1>20. HandlesComplete'
    BY <1>7 DEF HandlesComplete, Complete
  <1> QED
    BY <1>12, <1>13, <1>14, <1>15, <1>16, <1>17, <1>18, <1>19, <1>20

\* The last name is one of the names.
LEMMA CurrentIsAName ==
    ASSUME TypeOK, NEW path \in Paths
    PROVE  /\ Current(path) \in Files \cup {NoFile}
           /\ \E i \in DOMAIN names[path] : Current(path) = names[path][i]
  <1>1. names[path] \in Seq(Files \cup {NoFile}) /\ names[path] # <<>>
    BY DEF TypeOK
  <1> QED BY <1>1 DEF Current

\* The directory is flushed, or was not: names only go.
LEMMA SyncParentStep ==
    ASSUME StoreIInv, NEW p \in Procs, SyncParent(p)
    PROVE  StoreIInv'
  <1> USE DEF StoreIInv
  <1>1. /\ pc[p] = "fsyncdir" /\ pc' \in [Procs -> Locations]
        /\ pc'[p] = "reopen" /\ \A q \in Procs : q # p => pc'[q] = pc[q]
    BY DEF SyncParent, Goto, TypeOK, Locations, CallStates
  <1>2. /\ created' = created /\ file' = file /\ unsynced' = unsynced
        /\ temps' = temps /\ handle' = handle /\ writers' = writers
        /\ published' = published /\ acked' = acked
    BY DEF SyncParent, SyncDirectory, fsVars, historyVars
  <1>3. ASSUME NEW path \in Paths
        PROVE  /\ names'[path] \in Seq(Files \cup {NoFile}) \ {<<>>}
               /\ \A i \in DOMAIN names'[path] :
                     \E j \in DOMAIN names[path] :
                        names'[path][i] = names[path][j]
    <2>1. CASE ParentOpens
      <3>1. names'[path] = <<Current(path)>>
        BY <2>1 DEF SyncParent, SyncDirectory
      <3> QED BY <3>1, CurrentIsAName
    <2>2. CASE ~ParentOpens
      BY <2>2 DEF SyncParent, fsVars, TypeOK
    <2> QED BY <2>1, <2>2
  <1>4. TypeOK'
    <2>1. names' = [path \in Paths |-> names'[path]]
      BY DEF SyncParent, SyncDirectory, fsVars, TypeOK
    <2>2. names' \in [Paths -> Seq(Files \cup {NoFile}) \ {<<>>}]
      BY <2>1, <1>3
    <2>3. \A q \in Procs : pc'[q] = "idle" <=> writers'[q] = <<>>
      BY <1>1, <1>2 DEF TypeOK
    <2> QED BY <1>1, <1>2, <2>2, <2>3 DEF TypeOK
  <1>5. \A q \in Procs : Publishing(q)' <=> Publishing(q)
    BY <1>1 DEF Publishing
  <1>6. WritersOwnFiles' /\ WritersApart' /\ WritersSync'
    BY <1>2, <1>5 DEF WritersOwnFiles, WritersApart, WritersSync
  <1>7. TempsUnpublished'
    BY <1>2, <1>3 DEF TempsUnpublished
  <1>8. FinishInOrder'
    <2> SUFFICES ASSUME NEW q \in Procs
                 PROVE  /\ Fitted(q)' <=> Fitted(q)
                        /\ PrefixWritten(q)' <=> PrefixWritten(q)
                        /\ pc'[q] \in {"rename", "fsyncdir", "reopen"}
                             <=> pc[q] \in {"rename", "fsyncdir", "reopen"}
      BY <1>2 DEF FinishInOrder, BuildHeader, Writer
    <2> QED BY <1>1 DEF Fitted, PrefixWritten
  <1>9. CopiesHaveSource'
    BY <1>1, <1>2 DEF CopiesHaveSource
  <1>10. NamesComplete'
    <2>0. created' = created /\ file' = file /\ unsynced' = unsynced
      BY <1>2
    <2> HIDE DEF StoreIInv
    <2> SUFFICES ASSUME NEW path \in Paths, NEW i \in DOMAIN names'[path],
                        names'[path][i] # NoFile
                 PROVE  /\ names'[path][i] \in 1 .. created
                        /\ Complete(names'[path][i])
                        /\ AllSynced => names'[path][i] \notin unsynced
      BY <2>0 DEF NamesComplete, Complete
    <2> USE DEF StoreIInv
    <2>1. PICK j \in DOMAIN names[path] : names'[path][i] = names[path][j]
      BY <1>3
    <2> QED BY <2>1 DEF NamesComplete
  <1>11. HandlesComplete'
    BY <1>2 DEF HandlesComplete, Complete
  <1> QED BY <1>4, <1>6, <1>7, <1>8, <1>9, <1>10, <1>11

\* Power is lost and everybody had synced: what is left is whole.
LEMMA PowerStep ==
    ASSUME StoreIInv, AllSynced, PowerLoss
    PROVE  StoreIInv'
  <1> USE DEF StoreIInv
  <1>0. 1 .. created \subseteq Files
    BY FileSystemAssumption DEF TypeOK, Files
  <1>1. PICK kept \in [Paths -> Files \cup {NoFile}], lost \in SUBSET unsynced :
            /\ \A path \in Paths :
                   \E k \in DOMAIN names[path] : kept[path] = names[path][k]
            /\ names' = [path \in Paths |-> <<kept[path]>>]
            /\ file' = [f \in Files |-> IF f \in lost THEN Blank ELSE file[f]]
            /\ unsynced' = {} /\ temps' = {} /\ created' = created
    BY DEF PowerLoss, PowerIsLost
  <1>2. /\ pc' = [p \in Procs |-> "idle"] /\ writers' = [p \in Procs |-> <<>>]
        /\ handle' = [p \in Procs |-> None]
        /\ published' = published /\ acked' = acked
    BY DEF PowerLoss, historyVars
  <1>3. TypeOK'
    <2>1. names' \in [Paths -> Seq(Files \cup {NoFile}) \ {<<>>}]
      <3>1. ASSUME NEW path \in Paths
            PROVE  <<kept[path]>> \in Seq(Files \cup {NoFile}) \ {<<>>}
        OBVIOUS
      <3> QED BY <1>1, <3>1
    <2>2. file' \in [Files -> ObjectFile \cup {Blank}]
      BY <1>1 DEF TypeOK
    <2>3. /\ pc' \in [Procs -> Locations]
          /\ writers' \in [Procs -> Seq(ObjectWriter)]
          /\ handle' \in [Procs -> TuxObject \cup {None}]
          /\ \A q \in Procs : pc'[q] = "idle" <=> writers'[q] = <<>>
      BY <1>2 DEF Locations
    <2> QED BY <1>1, <1>2, <2>1, <2>2, <2>3 DEF TypeOK
  <1>4. \A p \in Procs : DOMAIN writers'[p] = {}
    BY <1>2
  <1>5. WritersOwnFiles' /\ WritersApart' /\ TempsUnpublished' /\ WritersSync'
    BY <1>4 DEF WritersOwnFiles, WritersApart, TempsUnpublished, WritersSync
  <1>6. FinishInOrder' /\ CopiesHaveSource'
    BY <1>2 DEF FinishInOrder, CopiesHaveSource, Fitted, PrefixWritten
  <1>7. NamesComplete'
    <2> SUFFICES ASSUME NEW path \in Paths, NEW i \in DOMAIN names'[path],
                        names'[path][i] # NoFile
                 PROVE  /\ names'[path][i] \in 1 .. created'
                        /\ Complete(names[path][i])'
                        /\ AllSynced => names'[path][i] \notin unsynced'
      BY DEF NamesComplete, Complete
    <2>1. PICK k \in DOMAIN names[path] : names'[path][i] = names[path][k]
      <3>1. names'[path] = <<kept[path]>>
        BY <1>1
      <3>2. names'[path][i] = kept[path]
        BY <3>1
      <3> QED BY <3>2, <1>1
    <2> DEFINE f == names[path][k]
    <2>2. f \in 1 .. created /\ Complete(f) /\ f \notin unsynced
      BY <2>1 DEF NamesComplete
    <2>3. file'[f] = file[f]
      BY <2>2, <1>0, <1>1
    <2> HIDE DEF f
    <2> QED BY <2>1, <2>2, <2>3, <1>1 DEF Complete, f
  <1>8. HandlesComplete'
    BY <1>2 DEF HandlesComplete
  <1> QED BY <1>3, <1>5, <1>6, <1>7, <1>8

-----------------------------------------------------------------------------
(* The actions.                                                            *)

\* A section has a size.
LEMMA SizesAreNaturals ==
    ASSUME NEW s \in Metadata \cup Tags
    PROVE  Size[s] \in Nat
  BY ObjectFilesAssumption

\* Bytes that are written to the innermost writer and counted.
LEMMA ReceiveStep ==
    ASSUME StoreIInv, NEW p \in Procs, NEW pieces \in Seq(Pieces),
           pc[p] \in {"writing", "copying"},
           NEW loc \in {"writing", "finishing"},
           pc' = [pc EXCEPT ![p] = loc],
           NEW w1 \in ObjectWriter,
           w1.file = Writer(p).file,
           w1.temp_path = Writer(p).temp_path,
           w1.sync = Writer(p).sync,
           w1.layout = Writer(p).layout,
           w1.content_length = Writer(p).content_length,
           Receive(p, pieces, w1),
           UNCHANGED <<handle, historyVars>>
    PROVE  StoreIInv'
  <1> DEFINE w == Writer(p)
             w2 == [w1 EXCEPT !.content_length = @ + Len(pieces)]
             old == file[w.file]
             bytes == [old EXCEPT !.content = @ \o pieces]
  <1>1. TypeOK
    BY DEF StoreIInv
  <1>2. w \in ObjectWriter /\ Len(writers[p]) \in DOMAIN writers[p]
    BY <1>1, InnermostWriter
  <1>3. /\ w.file \in 1 .. created /\ old \in ObjectFile
        /\ Len(old.content) = w.content_length
        /\ w.temp_path
    BY <1>2 DEF StoreIInv, WritersOwnFiles, Writer, Publishing
  <1>4. /\ bytes \in ObjectFile /\ bytes.content_at = old.content_at
        /\ Len(bytes.content) = w.content_length + Len(pieces)
    <2>1. old.content \in Seq(Pieces) /\ old.content \o pieces \in Seq(Pieces)
          /\ Len(old.content \o pieces) = Len(old.content) + Len(pieces)
      BY <1>3 DEF ObjectFile
    <2> HIDE DEF old
    <2> QED BY <2>1, <1>3 DEF ObjectFile
  <1>5. /\ w2 \in ObjectWriter /\ w2.file = w.file /\ w2.temp_path = TRUE
        /\ w2.sync = w.sync /\ w2.layout = w.layout
        /\ w2.content_length = w.content_length + Len(pieces)
    <2>1. w1.content_length + Len(pieces) \in Nat /\ w1.temp_path = TRUE
      BY <1>2, <1>3 DEF ObjectWriter
    <2> QED BY <2>1 DEF ObjectWriter
  <1>6. /\ file' = [file EXCEPT ![w.file] = bytes]
        /\ unsynced' = unsynced \cup {w.file}
        /\ UNCHANGED <<created, temps, names>>
        /\ SetWriter(p, w2)
    BY DEF Receive, WriteFile
  <1>7. InnermostBecomes(p, w2)
    BY <1>1, <1>5, <1>6, SetWriterEffect DEF InnermostBecomes
  <1>8. loc \in Locations \ {"idle", "copying", "fsyncdir", "reopen"}
    BY DEF Locations, CallStates
  <1> HIDE DEF w2, bytes
  <1> QED
    BY <1>4, <1>5, <1>6, <1>7, <1>8, WriterStep

LEMMA WriteStep ==
    ASSUME StoreIInv, NEW p \in Procs, NEW chunk \in Chunks, Write(p, chunk)
    PROVE  StoreIInv'
  <1>1. Writer(p) \in ObjectWriter /\ pc[p] = "writing"
    BY InnermostWriter DEF StoreIInv, Write
  <1>2. pc' = [pc EXCEPT ![p] = "writing"]
    BY <1>1 DEF Write, StoreIInv, TypeOK
  <1>3. <<chunk>> \in Seq(Pieces)
    BY DEF Pieces
  <1> QED BY <1>1, <1>2, <1>3, ReceiveStep DEF Write

LEMMA EncodeStep ==
    ASSUME StoreIInv, NEW p \in Procs, NEW chunk \in Chunks, Encode(p, chunk)
    PROVE  StoreIInv'
  <1> DEFINE w == Writer(p)
  <1>1. w \in ObjectWriter /\ pc[p] = "writing"
    BY InnermostWriter DEF StoreIInv, Encode
  <1>2. PICK m \in {w.metadata, WithLength[w.metadata]} :
            Receive(p, <<Frame(chunk)>>,
                    [w EXCEPT !.allow_raw_writes = TRUE, !.metadata = m])
    BY DEF Encode
  <1>3. m \in Metadata
    BY <1>1, ObjectStoreAssumption DEF ObjectWriter
  <1> DEFINE w1 == [w EXCEPT !.allow_raw_writes = TRUE, !.metadata = m]
  <1>4. /\ w1 \in ObjectWriter /\ w1.file = w.file
        /\ w1.temp_path = w.temp_path /\ w1.sync = w.sync
        /\ w1.layout = w.layout /\ w1.content_length = w.content_length
    BY <1>1, <1>3 DEF ObjectWriter
  <1>5. pc' = [pc EXCEPT ![p] = "writing"]
    BY <1>1 DEF Encode, StoreIInv, TypeOK
  <1>6. <<Frame(chunk)>> \in Seq(Pieces)
    BY DEF Pieces
  <1>7. Receive(p, <<Frame(chunk)>>, w1) /\ UNCHANGED <<handle, historyVars>>
    BY <1>2 DEF Encode
  <1> HIDE DEF w1
  <1> QED
    BY <1>1, <1>4, <1>5, <1>6, <1>7, ReceiveStep

\* What a copy reads is pieces of content.
LEMMA SourceIsPieces ==
    ASSUME StoreIInv, NEW p \in Procs, pc[p] = "copying"
    PROVE  CopySource(p) \in Seq(Pieces)
  <1>1. ASSUME NEW f \in Files, file[f] \in ObjectFile,
               NEW start \in Nat, NEW len \in Nat
        PROVE  StoredContent(f, start, len) \in Seq(Pieces)
    <2>1. file[f].content \in Seq(Pieces)
      BY <1>1 DEF ObjectFile
    <2>2. [k \in 1 .. len |-> Garbage] \in Seq(Pieces)
      BY DEF Pieces
    <2>3. ASSUME NEW l \in Nat, l <= Len(file[f].content)
          PROVE  SubSeq(file[f].content, 1, l) \in Seq(Pieces)
      BY <2>1, <2>3
    <2>4. Len(file[f].content) \in Nat
      BY <2>1
    <2> QED BY <2>2, <2>3, <2>4 DEF StoredContent
  <1>2. 1 .. created \subseteq Files
    BY FileSystemAssumption DEF StoreIInv, TypeOK, Files
  <1>3. CASE Len(writers[p]) > 1
    <2> DEFINE k == Len(writers[p]) - 1
               w == writers[p][k]
    <2>1. k \in DOMAIN writers[p] /\ w \in ObjectWriter
      BY <1>3, InnermostWriter DEF StoreIInv
    <2>2. w.file \in Files /\ file[w.file] \in ObjectFile
      BY <2>1, <1>2 DEF StoreIInv, WritersOwnFiles
    <2>3. w.layout.content_start \in Nat /\ w.content_length \in Nat
      BY <2>1, LayoutAssumption DEF ObjectWriter, SectionLayout
    <2>4. CopySource(p)
            = StoredContent(w.file, w.layout.content_start, w.content_length)
      BY <1>3 DEF CopySource
    <2> HIDE DEF w
    <2> QED BY <2>2, <2>3, <2>4, <1>1
  <1>4. CASE ~(Len(writers[p]) > 1)
    <2> DEFINE h == handle[p]
    <2>1. h # None /\ h \in TuxObject
      BY <1>4 DEF StoreIInv, CopiesHaveSource, TypeOK
    <2>2. h.file \in Files /\ file[h.file] \in ObjectFile
      BY <2>1, <1>2 DEF StoreIInv, HandlesComplete, Complete, TypeOK
    <2>3. h.header.content_start \in Nat /\ h.header.content_length \in Nat
      BY <2>1, LayoutAssumption DEF TuxObject, ObjectHeader
    <2>4. CopySource(p) = StoredContent(h.file, h.header.content_start,
                                        h.header.content_length)
      BY <1>4 DEF CopySource
    <2> HIDE DEF h
    <2> QED BY <2>2, <2>3, <2>4, <1>1
  <1> QED BY <1>3, <1>4

LEMMA CopyStep ==
    ASSUME StoreIInv, NEW p \in Procs, Copy(p)
    PROVE  StoreIInv'
  <1>1. Writer(p) \in ObjectWriter /\ pc[p] = "copying"
    BY InnermostWriter DEF StoreIInv, Copy
  <1>2. CopySource(p) \in Seq(Pieces)
    BY <1>1, SourceIsPieces
  <1> QED BY <1>1, <1>2, ReceiveStep DEF Copy, Goto

LEMMA MutateStep ==
    ASSUME StoreIInv, NEW p \in Procs, NEW m \in Metadata, NEW t \in Tags,
           Mutate(p, m, t)
    PROVE  StoreIInv'
  <1> DEFINE w == Writer(p)
             w2 == [w EXCEPT !.metadata = m, !.tags = t]
  <1>1. /\ w \in ObjectWriter /\ pc[p] = "writing"
        /\ Len(writers[p]) \in DOMAIN writers[p]
    BY InnermostWriter DEF StoreIInv, Mutate
  <1>2. /\ w.file \in 1 .. created /\ file[w.file] \in ObjectFile
        /\ Len(file[w.file].content) = w.content_length
        /\ w.temp_path
    BY <1>1 DEF StoreIInv, WritersOwnFiles, Writer, Publishing
  <1>3. /\ w2 \in ObjectWriter /\ w2.file = w.file /\ w2.temp_path = TRUE
        /\ w2.sync = w.sync /\ w2.layout = w.layout
        /\ w2.content_length = w.content_length
    BY <1>1, <1>2 DEF ObjectWriter
  <1>4. InnermostBecomes(p, w2)
    BY <1>1, <1>3, SetWriterEffect DEF InnermostBecomes, Mutate, StoreIInv
  <1>5. pc' = [pc EXCEPT ![p] = "writing"]
    BY <1>1 DEF Mutate, StoreIInv, TypeOK
  <1>6. file' = [file EXCEPT ![w.file] = file[w.file]] /\ unsynced' = unsynced
        /\ UNCHANGED <<created, temps, names, handle, historyVars>>
    BY <1>1 DEF Mutate, StoreIInv, TypeOK, fsVars
  <1>7. "writing" \in Locations \ {"idle", "copying", "fsyncdir", "reopen"}
    BY DEF Locations, CallStates
  <1> HIDE DEF w2
  <1> QED
    BY <1>1, <1>2, <1>3, <1>4, <1>5, <1>6, <1>7, WriterStep

LEMMA FinishStep ==
    ASSUME StoreIInv, NEW p \in Procs, Finish(p)
    PROVE  StoreIInv'
  <1> DEFINE w == Writer(p)
             w2 == [w EXCEPT !.layout = Refit(p)]
  <1>1. /\ w \in ObjectWriter /\ pc[p] \in {"writing", "finishing"}
        /\ Len(writers[p]) \in DOMAIN writers[p]
    BY InnermostWriter DEF StoreIInv, Finish, AtFinish
  <1>2. /\ w.file \in 1 .. created /\ file[w.file] \in ObjectFile
        /\ Len(file[w.file].content) = w.content_length
        /\ w.temp_path
    BY <1>1 DEF StoreIInv, WritersOwnFiles, Writer, Publishing
  <1>3. /\ Refit(p) \in SectionLayout
        /\ Refit(p).content_start = w.layout.content_start
        /\ HeaderSize + Size[w.metadata] <= Refit(p).tags_start
        /\ Refit(p).tags_start + Size[w.tags] <= Refit(p).content_start
    <2>1. /\ w.layout.content_start \in 0 .. U32Max
          /\ w.layout_options.alignment \in Nat
          /\ Size[w.metadata] \in Nat /\ Size[w.tags] \in Nat
      BY <1>1, SizesAreNaturals
      DEF ObjectWriter, SectionLayout, LayoutOptions
    <2>2. Refit(p) # None
      BY DEF Finish
    <2> QED BY <2>1, <2>2, RepartitionSound DEF Refit
  <1>4. /\ w2 \in ObjectWriter /\ w2.file = w.file /\ w2.temp_path = TRUE
        /\ w2.sync = w.sync /\ w2.layout = Refit(p)
        /\ w2.content_length = w.content_length
        /\ w2.metadata = w.metadata /\ w2.tags = w.tags
    BY <1>1, <1>2, <1>3 DEF ObjectWriter
  <1>5. InnermostBecomes(p, w2)
    BY <1>1, <1>4, SetWriterEffect DEF InnermostBecomes, Finish, StoreIInv
  <1>6. pc' = [pc EXCEPT ![p] = "prefix"]
    BY DEF Finish, Goto
  <1>7. file' = [file EXCEPT ![w.file] = file[w.file]] /\ unsynced' = unsynced
        /\ UNCHANGED <<created, temps, names, handle, historyVars>>
    BY <1>1 DEF Finish, StoreIInv, TypeOK, fsVars
  <1>8. "prefix" \in Locations \ {"idle", "copying", "fsyncdir", "reopen"}
    BY DEF Locations, CallStates
  <1> HIDE DEF w2
  <1> QED
    BY <1>1, <1>2, <1>3, <1>4, <1>5, <1>6, <1>7, <1>8, WriterStep

LEMMA WritePrefixStep ==
    ASSUME StoreIInv, NEW p \in Procs, WritePrefix(p)
    PROVE  StoreIInv'
  <1> DEFINE w == Writer(p)
             old == file[w.file]
             bytes == [old EXCEPT !.header = BuildHeader(w),
                                  !.metadata = w.metadata, !.tags = w.tags]
  <1>1. /\ w \in ObjectWriter /\ pc[p] = "prefix"
        /\ Len(writers[p]) \in DOMAIN writers[p]
    BY InnermostWriter DEF StoreIInv, WritePrefix
  <1>2. /\ w.file \in 1 .. created /\ old \in ObjectFile
        /\ Len(old.content) = w.content_length
        /\ w.temp_path = TRUE
    BY <1>1 DEF StoreIInv, WritersOwnFiles, Writer, Publishing, ObjectWriter
  <1>3. BuildHeader(w) \in ObjectHeader
    BY <1>1, LayoutAssumption
    DEF BuildHeader, ObjectHeader, ObjectWriter, SectionLayout
  <1>4. /\ bytes \in ObjectFile /\ bytes.content_at = old.content_at
        /\ bytes.content = old.content /\ bytes.header = BuildHeader(w)
        /\ bytes.metadata = w.metadata /\ bytes.tags = w.tags
    <2> HIDE DEF old
    <2>1. w.metadata \in Metadata /\ w.tags \in Tags
      BY <1>1 DEF ObjectWriter
    <2> QED BY <2>1, <1>2, <1>3 DEF ObjectFile
  <1>5. /\ HeaderSize + Size[w.metadata] <= w.layout.tags_start
        /\ w.layout.tags_start + Size[w.tags] <= w.layout.content_start
    BY <1>1 DEF StoreIInv, FinishInOrder, Fitted
  <1>6. InnermostBecomes(p, w)
    BY <1>1 DEF InnermostBecomes, WritePrefix, StoreIInv, TypeOK, Writer
  <1>7. pc' = [pc EXCEPT ![p] = AfterPrefix(w)]
    BY DEF WritePrefix, Goto
  <1>8. /\ AfterPrefix(w) \in {"fsync", "rename"}
        /\ AfterPrefix(w) = "rename" => ~w.sync
        /\ AfterPrefix(w) \in Locations \ {"idle", "copying", "fsyncdir", "reopen"}
    BY DEF AfterPrefix, Locations, CallStates
  <1>9. /\ file' = [file EXCEPT ![w.file] = bytes]
        /\ unsynced' = unsynced \cup {w.file}
        /\ UNCHANGED <<created, temps, names, handle, historyVars>>
    BY DEF WritePrefix, WriteFile
  <1> HIDE DEF bytes
  <1> QED
    BY <1>1, <1>2, <1>4, <1>5, <1>6, <1>7, <1>8, <1>9, WriterStep

LEMMA SyncAllStep ==
    ASSUME StoreIInv, NEW p \in Procs, SyncAll(p)
    PROVE  StoreIInv'
  <1> DEFINE w == Writer(p)
  <1>1. /\ w \in ObjectWriter /\ pc[p] = "fsync"
        /\ Len(writers[p]) \in DOMAIN writers[p]
    BY InnermostWriter DEF StoreIInv, SyncAll
  <1>2. /\ w.file \in 1 .. created /\ file[w.file] \in ObjectFile
        /\ Len(file[w.file].content) = w.content_length
        /\ w.temp_path = TRUE
    BY <1>1 DEF StoreIInv, WritersOwnFiles, Writer, Publishing, ObjectWriter
  <1>3. /\ HeaderSize + Size[w.metadata] <= w.layout.tags_start
        /\ w.layout.tags_start + Size[w.tags] <= w.layout.content_start
        /\ file[w.file].header = BuildHeader(w)
        /\ file[w.file].metadata = w.metadata
        /\ file[w.file].tags = w.tags
    BY <1>1 DEF StoreIInv, FinishInOrder, Fitted, PrefixWritten
  <1>4. InnermostBecomes(p, w)
    BY <1>1 DEF InnermostBecomes, SyncAll, StoreIInv, TypeOK, Writer
  <1>5. pc' = [pc EXCEPT ![p] = "rename"]
    BY DEF SyncAll, Goto
  <1>6. "rename" \in Locations \ {"idle", "copying", "fsyncdir", "reopen"}
    BY DEF Locations, CallStates
  <1>7. /\ file' = [file EXCEPT ![w.file] = file[w.file]]
        /\ unsynced' = unsynced \ {w.file}
        /\ UNCHANGED <<created, temps, names, handle, historyVars>>
    BY <1>1 DEF SyncAll, SyncFile, StoreIInv, TypeOK
  <1> HIDE DEF w
  <1> QED
    BY <1>1, <1>2, <1>3, <1>4, <1>5, <1>6, <1>7, WriterStep DEF w

\* Whoever calls it, ObjectWriter::create adds a writer.
LEMMA CreateActs ==
    ASSUME StoreIInv, NEW p \in Procs, NEW path \in Paths,
           NEW options \in LayoutOptions, NEW compression \in Codecs,
           NEW sync \in BOOLEAN, AllSynced => sync,
           NEW m \in Metadata, NEW t \in Tags,
           NEW next \in {"writing", "copying"},
           pc[p] \in {"idle", "writing", "finishing"},
           next = "copying" => writers[p] # <<>> \/ handle[p] # None,
           Create(p, writers[p], path, options, compression, sync, m, t, next)
    PROVE  StoreIInv'
  <1> DEFINE layout == compute(options, Size[m], Size[t])
             w2 == NewWriter(Fresh, path, layout, options, compression, sync,
                             m, t)
  <1>1. layout \in SectionLayout
    BY SizesAreNaturals, ComputeSound DEF Create
  <1>2. Fresh \in Files
    BY FileSystemAssumption
    DEF Create, CreateFile, CanCreate, Fresh, Files, StoreIInv, TypeOK
  <1>3. /\ CreateFile(NewFile(layout.content_start))
        /\ writers' = [writers EXCEPT ![p] = Append(writers[p], w2)]
        /\ pc' = [pc EXCEPT ![p] = next]
        /\ UNCHANGED <<handle, historyVars>>
    BY DEF Create, Goto
  <1> HIDE DEF layout
  <1>4. /\ w2 \in ObjectWriter /\ w2.file = Fresh /\ w2.temp_path = TRUE
        /\ w2.content_length = 0 /\ w2.sync = sync /\ w2.layout = layout
    BY <1>1, <1>2 DEF NewWriter, ObjectWriter
  <1> HIDE DEF w2
  <1> QED BY <1>3, <1>4, CreateStep

LEMMA CallerCreatesStep ==
    ASSUME StoreIInv, NEW p \in Procs, NEW path \in Paths,
           NEW options \in LayoutChoices, NEW codec \in Codecs,
           NEW sync \in Syncs, NEW m \in Metadata, NEW t \in Tags,
           CallerCreates(p, path, options, codec, sync, m, t)
    PROVE  StoreIInv'
  <1>1. writers[p] = <<>> /\ pc[p] = "idle"
    BY DEF CallerCreates, StoreIInv, TypeOK
  <1>2. options \in LayoutOptions /\ sync \in BOOLEAN /\ (AllSynced => sync)
    BY ObjectStoreAssumption DEF AllSynced
  <1>3. Create(p, writers[p], path, options, codec, sync, m, t, "writing")
    BY <1>1 DEF CallerCreates
  <1> QED BY <1>1, <1>2, <1>3, CreateActs

LEMMA FinishByRewritingStep ==
    ASSUME StoreIInv, NEW p \in Procs, FinishByRewriting(p)
    PROVE  StoreIInv'
  <1> DEFINE w == Writer(p)
             options == RaiseReserves(w.layout_options, RewriteReserve)
  <1>1. /\ w \in ObjectWriter /\ pc[p] \in {"writing", "finishing"}
        /\ Len(writers[p]) \in DOMAIN writers[p] /\ writers[p] # <<>>
    BY InnermostWriter
    DEF StoreIInv, FinishByRewriting, AtFinish, TypeOK
  <1>2. options \in LayoutOptions
    BY <1>1, ObjectStoreAssumption
    DEF RaiseReserves, AtLeast, ObjectWriter, LayoutOptions
  <1>3. AllSynced => w.sync
    BY <1>1 DEF StoreIInv, WritersSync, Writer
  <1>4. /\ w.final_path \in Paths /\ w.compression \in Codecs
        /\ w.sync \in BOOLEAN /\ w.metadata \in Metadata /\ w.tags \in Tags
    BY <1>1 DEF ObjectWriter
  <1>5. Create(p, writers[p], w.final_path, options, w.compression, w.sync,
               w.metadata, w.tags, "copying")
    BY DEF FinishByRewriting
  <1> HIDE DEF w, options
  <1> QED BY <1>1, <1>2, <1>3, <1>4, <1>5, CreateActs

LEMMA RewriteStep ==
    ASSUME StoreIInv, NEW p \in Procs, NEW m \in Metadata, NEW t \in Tags,
           Rewrite(p, m, t)
    PROVE  StoreIInv'
  <1> DEFINE h == handle[p]
             options == [DefaultOptions EXCEPT
                            !.min_content_start = h.header.content_start]
  <1>1. /\ pc[p] = "idle" /\ h # None /\ h \in TuxObject /\ writers[p] = <<>>
    BY DEF Rewrite, StoreIInv, TypeOK
  <1>2. /\ h.path \in Paths /\ h.header.compression_type \in Codecs
        /\ options \in LayoutOptions
    BY <1>1, ObjectStoreAssumption
    DEF TuxObject, ObjectHeader, LayoutOptions
  <1>3. Create(p, writers[p], h.path, options, h.header.compression_type, TRUE,
               m, t, "copying")
    BY <1>1 DEF Rewrite
  <1> HIDE DEF options
  <1> QED BY <1>1, <1>2, <1>3, CreateActs

LEMMA SettersStep ==
    ASSUME StoreIInv, NEW p \in Procs,
           \/ \E m \in Metadata : SetMetadata(p, m)
           \/ \E t \in Tags : SetTags(p, t)
           \/ \E m \in Metadata, t \in Tags : SetSections(p, m, t)
    PROVE  StoreIInv'
  <1>1. ASSUME NEW m \in Metadata, SetMetadata(p, m) PROVE StoreIInv'
    <2> DEFINE h == handle[p]
    <2>1. h # None /\ ReadTags(h) # None /\ Rewrite(p, m, ReadTags(h))
      BY <1>1 DEF SetMetadata
    <2>2. /\ h.file \in Files /\ file[h.file] \in ObjectFile
      BY <2>1, FileSystemAssumption
      DEF StoreIInv, HandlesComplete, Complete, TypeOK, Files
    <2>3. ReadTags(h) \in Tags
      BY <2>1, <2>2 DEF ReadTags, ObjectFile
    <2> QED BY <2>1, <2>3, RewriteStep
  <1>2. ASSUME NEW t \in Tags, SetTags(p, t) PROVE StoreIInv'
    <2>1. handle[p].metadata \in Metadata
      BY <1>2 DEF SetTags, StoreIInv, TypeOK, TuxObject
    <2> QED BY <1>2, <2>1, RewriteStep DEF SetTags
  <1>3. ASSUME NEW m \in Metadata, NEW t \in Tags, SetSections(p, m, t)
        PROVE  StoreIInv'
    BY <1>3, RewriteStep DEF SetSections
  <1> QED BY <1>1, <1>2, <1>3

\* What a handle that stays needs to stay good.
LEMMA KeptHandle ==
    ASSUME StoreIInv, NEW p \in Procs, handle[p] # None
    PROVE  /\ handle[p] \in TuxObject
           /\ handle[p].file \in 1 .. created
           /\ handle[p].file \notin OwnedTemps(p)
           /\ Complete(handle[p].file)
           /\ handle[p].header = file[handle[p].file].header
           /\ handle[p].metadata = file[handle[p].file].metadata
           /\ \A q \in Procs : \A k \in DOMAIN writers[q] :
                 writers[q][k].temp_path =>
                    writers[q][k].file # handle[p].file
  <1>1. \A q \in Procs : \A k \in DOMAIN writers[q] :
           writers[q][k].temp_path => writers[q][k].file # handle[p].file
    BY DEF StoreIInv, TempsUnpublished
  <1>2. handle[p].file \notin OwnedTemps(p)
    BY <1>1 DEF OwnedTemps
  <1> QED BY <1>1, <1>2 DEF StoreIInv, HandlesComplete, TypeOK

\* A call ends and the object of the process stays what it was.
LEMMA EndKeepingHandle ==
    ASSUME StoreIInv, NEW p \in Procs, NEW D \in SUBSET OwnedTemps(p),
           DeleteTemps(D),
           writers' = [writers EXCEPT ![p] = <<>>],
           pc' = [pc EXCEPT ![p] = "idle"],
           UNCHANGED <<handle, historyVars>>
    PROVE  StoreIInv'
  <1>1. handle' = [handle EXCEPT ![p] = handle[p]]
    BY DEF StoreIInv, TypeOK
  <1>2. handle[p] \in TuxObject \cup {None}
    BY DEF StoreIInv, TypeOK
  <1>3. published' \in [Paths -> Seq(Files)] /\ acked' \in [Paths -> Nat]
    BY DEF StoreIInv, TypeOK, historyVars
  <1>4. handle[p] # None =>
           /\ handle[p].file \in 1 .. created
           /\ handle[p].file \notin D
           /\ Complete(handle[p].file)
           /\ handle[p].header = file[handle[p].file].header
           /\ handle[p].metadata = file[handle[p].file].metadata
           /\ \A q \in Procs : q # p =>
                 \A k \in DOMAIN writers[q] :
                    writers[q][k].temp_path =>
                       writers[q][k].file # handle[p].file
    BY KeptHandle
  <1> QED BY <1>1, <1>2, <1>3, <1>4, EndCall

LEMMA DropWritersStep ==
    ASSUME StoreIInv, NEW p \in Procs, DropWriters(p)
    PROVE  StoreIInv'
  <1>1. PICK D \in SUBSET OwnedTemps(p) : DeleteTemps(D)
    BY DEF DropWriters, RemoveTemps
  <1> QED BY <1>1, EndKeepingHandle DEF DropWriters, Goto

LEMMA RenameFailsStep ==
    ASSUME StoreIInv, NEW p \in Procs, RenameFails(p)
    PROVE  StoreIInv'
  <1>1. PICK D \in SUBSET OwnedTemps(p) : DeleteTemps(D)
    BY DEF RenameFails, RemoveTemps
  <1> QED BY <1>1, EndKeepingHandle DEF RenameFails, Goto

\* Leaving the file system alone is deleting nothing.
LEMMA DeleteNothing ==
    ASSUME TypeOK, UNCHANGED fsVars
    PROVE  DeleteTemps({})
  BY DEF TypeOK, fsVars, DeleteTemps

\* A process that is idle afterwards, and its object is another one or none.
LEMMA NewHandle ==
    ASSUME StoreIInv, NEW p \in Procs, NEW h2 \in TuxObject \cup {None},
           UNCHANGED <<fsVars, historyVars>>,
           writers' = [writers EXCEPT ![p] = <<>>],
           pc' = [pc EXCEPT ![p] = "idle"],
           handle' = [handle EXCEPT ![p] = h2],
           h2 # None =>
              /\ \E path \in Paths :
                    h2.file = Current(path) /\ Current(path) # NoFile
              /\ h2.header = file[h2.file].header
              /\ h2.metadata = file[h2.file].metadata
    PROVE  StoreIInv'
  <1>1. DeleteTemps({}) /\ {} \in SUBSET OwnedTemps(p)
    BY DeleteNothing DEF StoreIInv
  <1>2. published' \in [Paths -> Seq(Files)] /\ acked' \in [Paths -> Nat]
    BY DEF StoreIInv, TypeOK, historyVars
  <1>3. ASSUME h2 # None
        PROVE  /\ h2.file \in 1 .. created
               /\ h2.file \notin {}
               /\ Complete(h2.file)
               /\ \A q \in Procs : q # p =>
                     \A k \in DOMAIN writers[q] :
                        writers[q][k].temp_path =>
                           writers[q][k].file # h2.file
    <2>1. PICK path \in Paths :
              h2.file = Current(path) /\ Current(path) # NoFile
      BY <1>3
    <2>2. PICK i \in DOMAIN names[path] : h2.file = names[path][i]
      BY <2>1, CurrentIsAName DEF StoreIInv
    <2> QED
      BY <2>1, <2>2 DEF StoreIInv, NamesComplete, TempsUnpublished
  <1> HIDE DEF Complete
  <1> QED BY <1>1, <1>2, <1>3, EndCall

LEMMA OpenStep ==
    ASSUME StoreIInv, NEW p \in Procs, NEW path \in Paths,
           NEW writable \in BOOLEAN, Open(p, path, writable)
    PROVE  StoreIInv'
  <1> DEFINE f == Current(path)
             h2 == [file |-> f, path |-> path, header |-> file[f].header,
                    metadata |-> file[f].metadata, writable |-> writable]
  <1>1. f # NoFile /\ file[f] # Blank /\ file[f].header # None
    BY DEF Open, Openable
  <1>2. f \in Files
    BY <1>1, CurrentIsAName DEF StoreIInv
  <1>3. file[f] \in ObjectFile
    BY <1>1, <1>2 DEF StoreIInv, TypeOK
  <1>4. file[f].header \in ObjectHeader
    BY <1>1, <1>3 DEF ObjectFile
  <1>5. file[f].metadata \in Metadata
    BY <1>1, CurrentIsAName DEF StoreIInv, NamesComplete, Complete
  <1>6. h2 \in TuxObject
    BY <1>2, <1>4, <1>5 DEF TuxObject
  <1>7. /\ writers' = [writers EXCEPT ![p] = <<>>]
        /\ pc' = [pc EXCEPT ![p] = "idle"]
        /\ UNCHANGED <<fsVars, historyVars>>
    BY DEF Open, StoreIInv, TypeOK
  <1>8. handle' = [handle EXCEPT ![p] = h2]
    BY DEF Open
  <1>9. /\ h2.file = Current(path) /\ h2.header = file[h2.file].header
        /\ h2.metadata = file[h2.file].metadata
    OBVIOUS
  <1> HIDE DEF h2
  <1> QED BY <1>1, <1>6, <1>7, <1>8, <1>9, NewHandle

LEMMA CloseStep ==
    ASSUME StoreIInv, NEW p \in Procs, Close(p)
    PROVE  StoreIInv'
  <1>1. /\ writers' = [writers EXCEPT ![p] = <<>>]
        /\ pc' = [pc EXCEPT ![p] = "idle"]
        /\ UNCHANGED <<fsVars, historyVars>>
        /\ handle' = [handle EXCEPT ![p] = None]
    BY DEF Close, StoreIInv, TypeOK
  <1> QED BY <1>1, NewHandle

LEMMA KillStep ==
    ASSUME StoreIInv, NEW p \in Procs, Kill(p)
    PROVE  StoreIInv'
  <1>1. /\ writers' = [writers EXCEPT ![p] = <<>>]
        /\ pc' = [pc EXCEPT ![p] = "idle"]
        /\ UNCHANGED <<fsVars, historyVars>>
        /\ handle' = [handle EXCEPT ![p] = None]
    BY DEF Kill
  <1> QED BY <1>1, NewHandle

LEMMA ReopenStep ==
    ASSUME StoreIInv, NEW p \in Procs, Reopen(p)
    PROVE  StoreIInv'
  <1> DEFINE w == Writer(p)
             n == Len(writers[p])
             h2 == [file |-> w.file, path |-> w.final_path,
                    header |-> BuildHeader(w), metadata |-> w.metadata,
                    writable |-> TRUE]
  <1>1. /\ w \in ObjectWriter /\ pc[p] = "reopen"
        /\ n \in DOMAIN writers[p] /\ w = writers[p][n]
    BY InnermostWriter DEF StoreIInv, Reopen, Writer
  <1>2. /\ w.file \in 1 .. created /\ Complete(w.file)
        /\ file[w.file].header = BuildHeader(w)
        /\ file[w.file].metadata = w.metadata
        /\ BuildHeader(w) \in ObjectHeader
    BY <1>1, FinishedIsComplete
  <1>3. h2 \in TuxObject
    BY <1>1, <1>2 DEF ObjectWriter, TuxObject
  <1>4. w.file \notin OwnedTemps(p)
    <2>1. ~w.temp_path
      BY <1>1 DEF StoreIInv, WritersOwnFiles, Publishing
    <2> QED BY <2>1, <1>1 DEF OwnedTemps, StoreIInv, WritersApart
  <1>5. \A q \in Procs : q # p =>
           \A k \in DOMAIN writers[q] : writers[q][k].file # w.file
    BY <1>1 DEF StoreIInv, WritersApart
  <1>6. published' \in [Paths -> Seq(Files)]
    BY DEF Reopen, StoreIInv, TypeOK
  <1>7. acked' \in [Paths -> Nat]
    <2>1. acked \in [Paths -> Nat] /\ w.final_path \in Paths
      BY <1>1 DEF StoreIInv, TypeOK, ObjectWriter
    <2>2. CASE w.sync
      <3>1. PICK k \in DOMAIN published[w.final_path] :
                acked' = [acked EXCEPT ![w.final_path] = AtLeast(@, k)]
        BY <2>2 DEF Reopen
      <3>2. k \in Nat /\ AtLeast(acked[w.final_path], k) \in Nat
        <4>1. published[w.final_path] \in Seq(Files)
          BY <2>1 DEF StoreIInv, TypeOK
        <4> QED BY <4>1, <2>1 DEF AtLeast
      <3> HIDE DEF w
      <3> QED BY <2>1, <3>1, <3>2
    <2>3. CASE ~w.sync
      BY <2>1, <2>3 DEF Reopen
    <2> QED BY <2>2, <2>3
  <1>8. /\ writers' = [writers EXCEPT ![p] = <<>>]
        /\ pc' = [pc EXCEPT ![p] = "idle"]
        /\ handle' = [handle EXCEPT ![p] = h2]
    BY DEF Reopen, Goto
  <1>11. PICK D \in SUBSET OwnedTemps(p) : DeleteTemps(D)
    BY DEF Reopen, RemoveTemps
  <1>9. /\ h2.file = w.file /\ h2.header = BuildHeader(w)
        /\ h2.metadata = w.metadata
    OBVIOUS
  <1>10. /\ h2.file \in 1 .. created
         /\ h2.file \notin OwnedTemps(p)
         /\ Complete(h2.file)
         /\ h2.header = file[h2.file].header
         /\ h2.metadata = file[h2.file].metadata
         /\ \A q \in Procs : q # p =>
               \A k \in DOMAIN writers[q] :
                  writers[q][k].temp_path => writers[q][k].file # h2.file
    BY <1>2, <1>4, <1>5, <1>9
  <1> HIDE DEF h2
  <1> QED BY <1>3, <1>6, <1>7, <1>8, <1>10, <1>11, EndCall

\* Nothing happens.
LEMMA StutterStep ==
    ASSUME StoreIInv, UNCHANGED vars
    PROVE  StoreIInv'
  <1> USE DEF StoreIInv, vars, fsVars, procVars, historyVars
  <1>1. TypeOK'
    BY DEF TypeOK
  <1>2. WritersOwnFiles' /\ WritersApart' /\ TempsUnpublished' /\ WritersSync'
    BY DEF WritersOwnFiles, WritersApart, TempsUnpublished, WritersSync,
           Publishing
  <1>3. FinishInOrder' /\ CopiesHaveSource'
    BY DEF FinishInOrder, CopiesHaveSource, Fitted, PrefixWritten, BuildHeader,
           Writer
  <1>4. NamesComplete' /\ HandlesComplete'
    BY DEF NamesComplete, HandlesComplete, Complete
  <1> QED BY <1>1, <1>2, <1>3, <1>4

-----------------------------------------------------------------------------
(* The theorems.                                                           *)

\* Power is lost only where every writer syncs.
PowerSafe == "power" \in Faults => AllSynced

LEMMA InitStoreIInv == Init => StoreIInv
  <1> SUFFICES ASSUME Init PROVE StoreIInv
    OBVIOUS
  <1> USE DEF Init, FsInit
  <1>1. TypeOK
    <2>1. created \in 0 .. MaxFiles
      BY FileSystemAssumption
    <2>2. <<NoFile>> \in Seq(Files \cup {NoFile}) /\ <<NoFile>> # <<>>
      OBVIOUS
    <2>3. names \in [Paths -> Seq(Files \cup {NoFile}) \ {<<>>}]
      BY <2>2
    <2>4. /\ pc \in [Procs -> Locations]
          /\ writers \in [Procs -> Seq(ObjectWriter)]
          /\ handle \in [Procs -> TuxObject \cup {None}]
          /\ published \in [Paths -> Seq(Files)]
          /\ acked \in [Paths -> Nat]
      BY DEF Locations
    <2> QED BY <2>1, <2>3, <2>4 DEF TypeOK
  <1>2. WritersOwnFiles /\ WritersApart /\ TempsUnpublished /\ WritersSync
    BY DEF WritersOwnFiles, WritersApart, TempsUnpublished, WritersSync
  <1>3. FinishInOrder /\ CopiesHaveSource
    BY DEF FinishInOrder, CopiesHaveSource, Fitted, PrefixWritten
  <1>4. NamesComplete /\ HandlesComplete
    BY DEF NamesComplete, HandlesComplete
  <1> QED BY <1>1, <1>2, <1>3, <1>4 DEF StoreIInv

LEMMA NextStoreIInv ==
    ASSUME PowerSafe, StoreIInv, [Next]_vars
    PROVE  StoreIInv'
  <1>1. CASE UNCHANGED vars
    BY <1>1, StutterStep
  <1>2. CASE PowerLoss
    BY <1>2, PowerStep DEF PowerLoss, PowerSafe
  <1>3. ASSUME NEW p \in Procs,
               \/ \E path \in Paths, writable \in BOOLEAN :
                      Open(p, path, writable)
               \/ Close(p)
               \/ Kill(p)
               \/ CallRefused(p)
        PROVE  StoreIInv'
    BY <1>3, OpenStep, CloseStep, KillStep, StutterStep DEF CallRefused
  <1>4. ASSUME NEW p \in Procs,
               \/ \E path \in Paths, options \in LayoutChoices, codec \in Codecs,
                     sync \in Syncs, m \in Metadata, t \in Tags :
                      CallerCreates(p, path, options, codec, sync, m, t)
               \/ FinishByRewriting(p)
        PROVE  StoreIInv'
    BY <1>4, CallerCreatesStep, FinishByRewritingStep
  <1>5. ASSUME NEW p \in Procs,
               \/ \E m \in Metadata : SetMetadata(p, m)
               \/ \E t \in Tags : SetTags(p, t)
               \/ \E m \in Metadata, t \in Tags : SetSections(p, m, t)
        PROVE  StoreIInv'
    BY <1>5, SettersStep
  <1>6. ASSUME NEW p \in Procs,
               \/ \E chunk \in Chunks : Write(p, chunk) \/ Encode(p, chunk)
               \/ \E m \in Metadata, t \in Tags : Mutate(p, m, t)
               \/ Copy(p)
        PROVE  StoreIInv'
    BY <1>6, WriteStep, EncodeStep, MutateStep, CopyStep
  <1>7. ASSUME NEW p \in Procs,
               \/ Finish(p) \/ WritePrefix(p) \/ SyncAll(p)
               \/ Rename(p) \/ SyncParent(p) \/ Reopen(p)
        PROVE  StoreIInv'
    BY <1>7, FinishStep, WritePrefixStep, SyncAllStep, RenameStep,
       SyncParentStep, ReopenStep
  <1>8. ASSUME NEW p \in Procs,
               \/ Abandon(p) \/ RewritingFails(p) \/ CopyRefused(p)
               \/ CallFails(p)
        PROVE  StoreIInv'
    BY <1>8, DropWritersStep
    DEF Abandon, RewritingFails, CopyRefused, CallFails
  <1>9. ASSUME NEW p \in Procs, RenameFails(p) PROVE StoreIInv'
    BY <1>9, RenameFailsStep
  <1> QED
    BY <1>1, <1>2, <1>3, <1>4, <1>5, <1>6, <1>7, <1>8, <1>9 DEF Next

\* The invariant, for any number of processes, paths, files and sections, in
\* any mix of failures, crashes and power losses, if the writers sync wherever
\* power may be lost.
THEOREM StoreInvariant == ASSUME PowerSafe PROVE Spec => []StoreIInv
  <1>1. Init => StoreIInv
    BY InitStoreIInv
  <1>2. StoreIInv /\ [Next]_vars => StoreIInv'
    BY NextStoreIInv
  <1> QED BY <1>1, <1>2, PTL DEF Spec

\* Every variable keeps its type: layouts and headers within the widths of their
\* fields, and a process is idle exactly when it has no writer.
THEOREM StoreTypeCorrect == ASSUME PowerSafe PROVE Spec => []TypeOK
  <1>1. StoreIInv => TypeOK
    BY DEF StoreIInv
  <1> QED BY <1>1, StoreInvariant, PTL

\* A path names a whole object or nothing, at every moment of every call and
\* after every failure, crash and power loss ("A reader never observes a
\* half-written object", writer.rs:66-67).
THEOREM NamedObjectsAreWhole ==
    ASSUME PowerSafe PROVE Spec => []PublishedComplete
  <1>1. StoreIInv => PublishedComplete
    BY CurrentIsAName DEF StoreIInv, NamesComplete, PublishedComplete
  <1> QED BY <1>1, StoreInvariant, PTL

\* What an open object remembers is what its file holds, also after the setters
\* and finish, which hand it over without reading it back.
THEOREM OpenObjectsAreFaithful ==
    ASSUME PowerSafe PROVE Spec => []HandlesFaithful
  <1>1. StoreIInv => HandlesFaithful
    BY DEF StoreIInv, HandlesComplete, HandlesFaithful
  <1> QED BY <1>1, StoreInvariant, PTL

-----------------------------------------------------------------------------
(* Open objects keep their bytes.                                          *)

\* The file of a writer that did not rename it yet is one of its process's
\* temporary files.
LEMMA InnermostOwned ==
    ASSUME StoreIInv, NEW p \in Procs,
           pc[p] \in {"writing", "copying", "prefix"}
    PROVE  Writer(p).file \in OwnedTemps(p)
  <1>1. Len(writers[p]) \in DOMAIN writers[p]
    BY InnermostWriter DEF StoreIInv
  <1>2. Writer(p).temp_path
    BY <1>1 DEF StoreIInv, WritersOwnFiles, Writer, Publishing
  <1> QED BY <1>1, <1>2 DEF OwnedTemps, Writer

\* What a process does.
StepOf(p) ==
    \/ \E path \in Paths, writable \in BOOLEAN : Open(p, path, writable)
    \/ Close(p)
    \/ \E path \in Paths, options \in LayoutChoices, codec \in Codecs,
          sync \in Syncs, m \in Metadata, t \in Tags :
           CallerCreates(p, path, options, codec, sync, m, t)
    \/ \E chunk \in Chunks : Write(p, chunk) \/ Encode(p, chunk)
    \/ \E m \in Metadata, t \in Tags : Mutate(p, m, t)
    \/ Abandon(p)
    \/ Finish(p) \/ FinishByRewriting(p) \/ RewritingFails(p)
    \/ Copy(p) \/ CopyRefused(p)
    \/ WritePrefix(p) \/ SyncAll(p) \/ Rename(p) \/ RenameFails(p)
    \/ SyncParent(p) \/ Reopen(p)
    \/ \E m \in Metadata : SetMetadata(p, m)
    \/ \E t \in Tags : SetTags(p, t)
    \/ \E m \in Metadata, t \in Tags : SetSections(p, m, t)
    \/ CallRefused(p)
    \/ CallFails(p)
    \/ Kill(p)

LEMMA WhoSteps ==
    ASSUME [Next]_vars, ~PowerLoss
    PROVE  UNCHANGED vars \/ \E p \in Procs : StepOf(p)
  BY DEF Next, StepOf

\* A step of a process changes the bytes of a fresh file and of the files it
\* still owns under a temporary name, and of no other.
LEMMA BytesOfStep ==
    ASSUME StoreIInv, NEW p \in Procs, StepOf(p),
           NEW f \in 1 .. created, f \notin OwnedTemps(p)
    PROVE  file'[f] = file[f]
  <1>1. f \in Files /\ f # Fresh /\ file \in [Files -> ObjectFile \cup {Blank}]
    BY FileSystemAssumption DEF StoreIInv, TypeOK, Files, Fresh
  <1>2. ASSUME NEW bytes, CreateFile(bytes) PROVE file'[f] = file[f]
    BY <1>1, <1>2 DEF CreateFile
  <1>3. ASSUME NEW D \in SUBSET OwnedTemps(p), DeleteTemps(D)
        PROVE  file'[f] = file[f]
    BY <1>1, <1>3 DEF DeleteTemps
  <1>4. ASSUME NEW g, NEW bytes, WriteFile(g, bytes), g # f
        PROVE  file'[f] = file[f]
    BY <1>1, <1>4 DEF WriteFile
  <1>5. ASSUME UNCHANGED file PROVE file'[f] = file[f]
    BY <1>5
  <1>6. CASE \/ \E path \in Paths, writable \in BOOLEAN :
                    Open(p, path, writable)
             \/ Close(p) \/ Kill(p) \/ CallRefused(p)
             \/ \E m \in Metadata, t \in Tags : Mutate(p, m, t)
             \/ Finish(p) \/ SyncAll(p) \/ Rename(p) \/ SyncParent(p)
    BY <1>6, <1>5
    DEF Open, Close, Kill, CallRefused, Mutate, Finish, SyncAll, Rename,
        SyncParent, SyncFile, RenameFile, SyncDirectory, vars, fsVars
  <1>7. CASE \/ \E path \in Paths, options \in LayoutChoices, codec \in Codecs,
                   sync \in Syncs, m \in Metadata, t \in Tags :
                    CallerCreates(p, path, options, codec, sync, m, t)
             \/ FinishByRewriting(p)
             \/ \E m \in Metadata : SetMetadata(p, m)
             \/ \E t \in Tags : SetTags(p, t)
             \/ \E m \in Metadata, t \in Tags : SetSections(p, m, t)
    BY <1>7, <1>2
    DEF CallerCreates, FinishByRewriting, SetMetadata, SetTags, SetSections,
        Rewrite, Create
  <1>8. CASE \/ \E chunk \in Chunks : Write(p, chunk) \/ Encode(p, chunk)
             \/ Copy(p)
             \/ WritePrefix(p)
    <2> DEFINE w == Writer(p)
    <2>1. w.file # f
      <3>1. pc[p] \in {"writing", "copying", "prefix"}
        BY <1>8 DEF Write, Encode, Copy, WritePrefix
      <3> QED BY <3>1, InnermostOwned
    <2>2. CASE \E chunk \in Chunks : Write(p, chunk)
      BY <2>1, <2>2, <1>4 DEF Write, Receive
    <2>3. CASE \E chunk \in Chunks : Encode(p, chunk)
      <3>1. PICK chunk \in Chunks, m \in {w.metadata, WithLength[w.metadata]} :
                Receive(p, <<Frame(chunk)>>,
                        [w EXCEPT !.allow_raw_writes = TRUE, !.metadata = m])
        BY <2>3 DEF Encode
      <3> DEFINE w1 == [w EXCEPT !.allow_raw_writes = TRUE, !.metadata = m]
      <3>2. w \in ObjectWriter
        BY <2>3, InnermostWriter DEF Encode, StoreIInv
      <3>3. w1.file = w.file
        BY <3>2 DEF ObjectWriter
      <3>4. Receive(p, <<Frame(chunk)>>, w1)
        BY <3>1
      <3> HIDE DEF w1
      <3> QED BY <3>3, <3>4, <2>1, <1>4 DEF Receive
    <2>4. CASE Copy(p)
      BY <2>1, <2>4, <1>4 DEF Copy, Receive
    <2>5. CASE WritePrefix(p)
      BY <2>1, <2>5, <1>4 DEF WritePrefix
    <2> QED BY <1>8, <2>2, <2>3, <2>4, <2>5
  <1>9. CASE \/ Abandon(p) \/ RewritingFails(p) \/ CopyRefused(p)
             \/ CallFails(p) \/ RenameFails(p) \/ Reopen(p)
    <2>1. PICK D \in SUBSET OwnedTemps(p) : DeleteTemps(D)
      BY <1>9
      DEF Abandon, RewritingFails, CopyRefused, CallFails, RenameFails, Reopen,
          DropWriters, RemoveTemps
    <2> QED BY <2>1, <1>3
  <1> QED BY <1>6, <1>7, <1>8, <1>9 DEF StepOf

\* Unless power is lost, a step changes the bytes of fresh files and of files
\* some writer still owns under a temporary name, and of no other.
LEMMA BytesChange ==
    ASSUME StoreIInv, [Next]_vars, ~PowerLoss,
           NEW f \in 1 .. created,
           \A p \in Procs : f \notin OwnedTemps(p)
    PROVE  file'[f] = file[f]
  <1>1. CASE UNCHANGED vars
    BY <1>1 DEF vars, fsVars
  <1> QED BY <1>1, WhoSteps, BytesOfStep

\* Whatever happens to the object's path meanwhile, the file behind an open
\* TuxObject does not change: replacing an object writes to other files, and a
\* failed or abandoned call deletes only its own.
THEOREM OpenObjectsKeepTheirBytes ==
    ASSUME PowerSafe PROVE Spec => ReadersKeepTheirObject
  <1>1. StoreIInv /\ [Next]_vars =>
           [\A p \in Procs :
               (handle[p] # None /\ handle'[p] = handle[p])
                   => file'[handle[p].file] = file[handle[p].file]]_vars
    <2> SUFFICES ASSUME StoreIInv, [Next]_vars, NEW p \in Procs,
                        handle[p] # None, handle'[p] = handle[p]
                 PROVE  file'[handle[p].file] = file[handle[p].file]
      OBVIOUS
    <2>1. ~PowerLoss
      BY DEF PowerLoss
    <2>2. handle[p].file \in 1 .. created
      BY KeptHandle
    <2>3. \A q \in Procs : handle[p].file \notin OwnedTemps(q)
      BY KeptHandle DEF OwnedTemps
    <2> QED BY <2>1, <2>2, <2>3, BytesChange
  <1> QED
    BY <1>1, StoreInvariant, PTL DEF Spec, ReadersKeepTheirObject

-----------------------------------------------------------------------------
(* A replacement needs no replacement.                                     *)

\* A caller streams into the only writer of a process without an object, and
\* what a copy goes into has a layout its sections fit in.
OnceAt(p) ==
    /\ Len(writers[p]) <= 2
    /\ handle[p] # None => Len(writers[p]) <= 1
    /\ pc[p] = "writing" => Len(writers[p]) = 1 /\ handle[p] = None
    /\ pc[p] \in {"copying", "finishing"} => Refit(p) # None

OnceInv == \A p \in Procs : OnceAt(p)

\* ObjectWriter::create adds a writer with a fresh temporary file and a layout
\* that finish accepts.
LEMMA CreateAdds ==
    ASSUME StoreIInv, NEW p \in Procs, NEW path \in Paths,
           NEW options \in LayoutOptions, NEW compression \in Codecs,
           NEW sync \in BOOLEAN, NEW m \in Metadata, NEW t \in Tags,
           NEW next \in {"writing", "copying"},
           Create(p, writers[p], path, options, compression, sync, m, t, next)
    PROVE  /\ Refit(p)' # None
           /\ Len(writers'[p]) = Len(writers[p]) + 1
           /\ OwnedTemps(p)' = OwnedTemps(p) \cup {Fresh}
           /\ temps' = temps \cup {Fresh}
           /\ file'[Fresh].content = <<>>
           /\ Writer(p)'.file = Fresh
           /\ Writer(p)'.final_path = path
           /\ Writer(p)'.compression = compression
           /\ pc'[p] = next
           /\ UNCHANGED <<names, handle, historyVars>>
           /\ \A q \in Procs : q # p =>
                 writers'[q] = writers[q] /\ pc'[q] = pc[q]
  <1> DEFINE layout == compute(options, Size[m], Size[t])
             w2 == NewWriter(Fresh, path, layout, options, compression, sync,
                             m, t)
  <1>1. /\ writers' = [writers EXCEPT ![p] = Append(writers[p], w2)]
        /\ pc' = [pc EXCEPT ![p] = next]
        /\ temps' = temps \cup {Fresh}
        /\ UNCHANGED <<names, handle, historyVars>>
    BY DEF Create, CreateFile, Goto
  <1>2. /\ writers[p] \in Seq(ObjectWriter)
        /\ writers \in [Procs -> Seq(ObjectWriter)]
        /\ pc \in [Procs -> Locations]
    BY DEF StoreIInv, TypeOK
  <1>3. /\ writers'[p] = Append(writers[p], w2)
        /\ Len(writers'[p]) = Len(writers[p]) + 1
        /\ writers'[p][Len(writers'[p])] = w2
        /\ DOMAIN writers'[p] = DOMAIN writers[p] \cup {Len(writers'[p])}
        /\ \A k \in DOMAIN writers[p] : /\ k # Len(writers'[p])
                                       /\ writers'[p][k] = writers[p][k]
    BY <1>1, <1>2
  <1>4. /\ w2.layout = layout /\ w2.layout_options = options
        /\ w2.metadata = m /\ w2.tags = t
        /\ w2.file = Fresh /\ w2.temp_path = TRUE
        /\ w2.final_path = path /\ w2.compression = compression
    BY DEF NewWriter
  <1>5. repartition(layout.content_start, Size[m], Size[t], options.alignment)
           # None
    BY SizesAreNaturals, ComputeSound DEF Create
  <1> HIDE DEF w2
  <1>6. file'[Fresh].content = <<>>
    <2>1. Fresh \in Files /\ file \in [Files -> ObjectFile \cup {Blank}]
      BY FileSystemAssumption
      DEF Create, CreateFile, CanCreate, Fresh, Files, StoreIInv, TypeOK
    <2>2. file' = [file EXCEPT ![Fresh] = NewFile(layout.content_start)]
      BY DEF Create, CreateFile
    <2> QED BY <2>1, <2>2 DEF NewFile
  <1> HIDE DEF layout
  <1>8. Refit(p)' # None /\ Writer(p)' = w2
    BY <1>3, <1>4, <1>5 DEF Refit, Writer
  <1>7. OwnedTemps(p)' = OwnedTemps(p) \cup {Fresh}
    BY <1>3, <1>4 DEF OwnedTemps
  <1> QED BY <1>1, <1>2, <1>3, <1>4, <1>6, <1>7, <1>8

\* Streaming, copying and refitting change the innermost writer and keep its
\* file, its name and where it goes.
LEMMA WriterKept ==
    ASSUME StoreIInv, NEW p \in Procs,
           \/ \E chunk \in Chunks : Write(p, chunk) \/ Encode(p, chunk)
           \/ \E m \in Metadata, t \in Tags : Mutate(p, m, t)
           \/ Copy(p)
           \/ Finish(p)
    PROVE  /\ \E w2 \in ObjectWriter :
                 /\ SetWriter(p, w2)
                 /\ w2.file = Writer(p).file
                 /\ w2.temp_path = Writer(p).temp_path
                 /\ w2.final_path = Writer(p).final_path
                 /\ w2.compression = Writer(p).compression
                 /\ ~Finish(p) => w2.layout = Writer(p).layout
                 /\ Copy(p) => /\ w2.layout_options = Writer(p).layout_options
                               /\ w2.metadata = Writer(p).metadata
                               /\ w2.tags = Writer(p).tags
           /\ UNCHANGED <<temps, names, handle, historyVars>>
           /\ pc[p] # "idle"
  <1> DEFINE w == Writer(p)
             Kept(w2) == /\ w2.file = w.file /\ w2.temp_path = w.temp_path
                         /\ w2.final_path = w.final_path
                         /\ w2.compression = w.compression
  <1>1. /\ pc[p] # "idle" /\ UNCHANGED <<temps, names, handle, historyVars>>
        /\ ~Finish(p) => (Copy(p) <=> pc[p] = "copying")
    BY DEF Write, Encode, Mutate, Copy, Finish, Receive, WriteFile, AtFinish,
           fsVars
  <1>2. w \in ObjectWriter
    BY <1>1, InnermostWriter DEF StoreIInv
  <1>3. ASSUME NEW pieces \in Seq(Pieces), NEW w1 \in ObjectWriter,
               Receive(p, pieces, w1)
        PROVE  \E w2 \in ObjectWriter :
                  /\ SetWriter(p, w2) /\ w2.file = w1.file
                  /\ w2.temp_path = w1.temp_path /\ w2.layout = w1.layout
                  /\ w2.final_path = w1.final_path
                  /\ w2.compression = w1.compression
                  /\ w2.layout_options = w1.layout_options
                  /\ w2.metadata = w1.metadata /\ w2.tags = w1.tags
    <2> DEFINE w2 == [w1 EXCEPT !.content_length = @ + Len(pieces)]
    <2>1. /\ w2 \in ObjectWriter /\ w2.file = w1.file
          /\ w2.temp_path = w1.temp_path /\ w2.layout = w1.layout
          /\ w2.final_path = w1.final_path /\ w2.compression = w1.compression
          /\ w2.layout_options = w1.layout_options
          /\ w2.metadata = w1.metadata /\ w2.tags = w1.tags
      BY DEF ObjectWriter
    <2>2. SetWriter(p, w2)
      BY <1>3 DEF Receive
    <2> QED BY <2>1, <2>2
  <1>4. CASE \E chunk \in Chunks : Write(p, chunk)
    <2>1. PICK chunk \in Chunks : Receive(p, <<chunk>>, w) /\ pc[p] = "writing"
      BY <1>4 DEF Write
    <2>2. <<chunk>> \in Seq(Pieces)
      BY DEF Pieces
    <2>3. ~Copy(p)
      BY <2>1 DEF Copy
    <2> QED BY <2>1, <2>2, <2>3, <1>1, <1>2, <1>3
  <1>5. CASE \E chunk \in Chunks : Encode(p, chunk)
    <2>1. PICK chunk \in Chunks, m \in {w.metadata, WithLength[w.metadata]} :
             /\ Receive(p, <<Frame(chunk)>>,
                        [w EXCEPT !.allow_raw_writes = TRUE, !.metadata = m])
             /\ pc[p] = "writing"
      BY <1>5 DEF Encode
    <2> DEFINE w1 == [w EXCEPT !.allow_raw_writes = TRUE, !.metadata = m]
    <2>2. m \in Metadata
      BY <1>2, ObjectStoreAssumption DEF ObjectWriter
    <2>3. w1 \in ObjectWriter /\ Kept(w1) /\ w1.layout = w.layout
      BY <1>2, <2>2 DEF ObjectWriter
    <2>4. <<Frame(chunk)>> \in Seq(Pieces) /\ ~Copy(p)
      BY <2>1 DEF Pieces, Copy
    <2>5. Receive(p, <<Frame(chunk)>>, w1)
      BY <2>1
    <2> HIDE DEF w1
    <2> DEFINE pieces == <<Frame(chunk)>>
    <2> HIDE DEF pieces
    <2>6. \E w2 \in ObjectWriter :
             /\ SetWriter(p, w2) /\ w2.file = w1.file
             /\ w2.temp_path = w1.temp_path /\ w2.layout = w1.layout
             /\ w2.final_path = w1.final_path /\ w2.compression = w1.compression
      <3>1. pieces \in Seq(Pieces) /\ Receive(p, pieces, w1)
        BY <2>4, <2>5 DEF pieces
      <3> QED BY <3>1, <2>3, <1>3
    <2> QED BY <2>3, <2>4, <2>6, <1>1
  <1>6. CASE \E m \in Metadata, t \in Tags : Mutate(p, m, t)
    <2>1. PICK m \in Metadata, t \in Tags :
             /\ SetWriter(p, [w EXCEPT !.metadata = m, !.tags = t])
             /\ pc[p] = "writing"
      BY <1>6 DEF Mutate
    <2> DEFINE w2 == [w EXCEPT !.metadata = m, !.tags = t]
    <2>2. w2 \in ObjectWriter /\ Kept(w2) /\ w2.layout = w.layout /\ ~Copy(p)
      BY <1>2, <2>1 DEF ObjectWriter, Copy
    <2>3. SetWriter(p, w2)
      BY <2>1
    <2> HIDE DEF w2
    <2> QED BY <2>2, <2>3, <1>1
  <1>7. CASE Copy(p)
    <2>1. CopySource(p) \in Seq(Pieces) /\ Receive(p, CopySource(p), w)
      BY <1>7, SourceIsPieces DEF Copy
    <2> QED BY <2>1, <1>1, <1>2, <1>3
  <1>8. CASE Finish(p)
    <2> DEFINE w2 == [w EXCEPT !.layout = Refit(p)]
    <2>1. Refit(p) \in SectionLayout
      BY <1>8, <1>2, SizesAreNaturals, RepartitionSound
      DEF Finish, Refit, ObjectWriter, SectionLayout, LayoutOptions
    <2>2. w2 \in ObjectWriter /\ Kept(w2) /\ SetWriter(p, w2)
      BY <2>1, <1>2, <1>8 DEF ObjectWriter, Finish
    <2>3. ~Copy(p)
      BY <1>8 DEF Finish, AtFinish, Copy
    <2> HIDE DEF w2
    <2> QED BY <2>2, <2>3, <1>1, <1>8
  <1> QED BY <1>4, <1>5, <1>6, <1>7, <1>8

\* A setter is a rewrite to sections there are.
LEMMA SetterRewrites ==
    ASSUME StoreIInv, NEW p \in Procs,
           \/ \E m \in Metadata : SetMetadata(p, m)
           \/ \E t \in Tags : SetTags(p, t)
           \/ \E m \in Metadata, t \in Tags : SetSections(p, m, t)
    PROVE  \E m \in Metadata, t \in Tags : Rewrite(p, m, t)
  <1>1. ASSUME NEW m \in Metadata, SetMetadata(p, m)
        PROVE  ReadTags(handle[p]) \in Tags /\ Rewrite(p, m, ReadTags(handle[p]))
    <2> DEFINE h == handle[p]
    <2>1. h # None /\ ReadTags(h) # None /\ Rewrite(p, m, ReadTags(h))
      BY <1>1 DEF SetMetadata
    <2>2. file[h.file].tags \in Tags
      BY <2>1 DEF StoreIInv, HandlesComplete, Complete
    <2>3. ReadTags(h) \in Tags
      BY <2>1, <2>2 DEF ReadTags
    <2> QED BY <2>1, <2>3
  <1>2. ASSUME NEW t \in Tags, SetTags(p, t)
        PROVE  handle[p].metadata \in Metadata /\ Rewrite(p, handle[p].metadata, t)
    BY <1>2 DEF SetTags, StoreIInv, TypeOK, TuxObject
  <1> QED BY <1>1, <1>2 DEF SetSections

\* Whoever creates a writer: a caller, a finish that outgrew its layout, or a
\* setter.
LEMMA WhoCreates ==
    ASSUME StoreIInv, NEW p \in Procs,
           \/ \E path \in Paths, options \in LayoutChoices, codec \in Codecs,
                 sync \in Syncs, m \in Metadata, t \in Tags :
                  CallerCreates(p, path, options, codec, sync, m, t)
           \/ FinishByRewriting(p)
           \/ \E m \in Metadata : SetMetadata(p, m)
           \/ \E t \in Tags : SetTags(p, t)
           \/ \E m \in Metadata, t \in Tags : SetSections(p, m, t)
    PROVE  /\ Refit(p)' # None
           /\ Len(writers'[p]) = Len(writers[p]) + 1
           /\ OwnedTemps(p)' = OwnedTemps(p) \cup {Fresh}
           /\ temps' = temps \cup {Fresh}
           /\ UNCHANGED <<names, handle, historyVars>>
           /\ \A q \in Procs : q # p =>
                 writers'[q] = writers[q] /\ pc'[q] = pc[q]
           /\ file'[Fresh].content = <<>>
           /\ Writer(p)'.file = Fresh
           /\ \/ writers[p] = <<>> /\ handle[p] = None /\ pc'[p] = "writing"
              \/ FinishByRewriting(p) /\ pc'[p] = "copying"
              \/ /\ writers[p] = <<>> /\ handle[p] # None /\ pc'[p] = "copying"
                 /\ handle[p].writable
                 /\ Writer(p)'.final_path = handle[p].path
                 /\ Writer(p)'.compression = handle[p].header.compression_type
  <1>1. ASSUME NEW path \in Paths, NEW options \in LayoutChoices,
               NEW codec \in Codecs, NEW sync \in Syncs, NEW m \in Metadata,
               NEW t \in Tags, CallerCreates(p, path, options, codec, sync, m, t)
        PROVE  /\ writers[p] = <<>> /\ handle[p] = None
               /\ options \in LayoutOptions /\ sync \in BOOLEAN
               /\ Create(p, writers[p], path, options, codec, sync, m, t,
                         "writing")
    BY <1>1, ObjectStoreAssumption DEF CallerCreates, StoreIInv, TypeOK
  <1>2. ASSUME FinishByRewriting(p)
        PROVE  LET w == Writer(p)
                   options == RaiseReserves(w.layout_options, RewriteReserve)
               IN  /\ options \in LayoutOptions /\ w.final_path \in Paths
                   /\ w.compression \in Codecs /\ w.sync \in BOOLEAN
                   /\ w.metadata \in Metadata /\ w.tags \in Tags
                   /\ Create(p, writers[p], w.final_path, options,
                             w.compression, w.sync, w.metadata, w.tags,
                             "copying")
    <2>1. Writer(p) \in ObjectWriter
      BY <1>2, InnermostWriter DEF FinishByRewriting, AtFinish, StoreIInv
    <2>2. RaiseReserves(Writer(p).layout_options, RewriteReserve)
             \in LayoutOptions
      BY <2>1, ObjectStoreAssumption
      DEF RaiseReserves, AtLeast, ObjectWriter, LayoutOptions
    <2> QED BY <1>2, <2>1, <2>2 DEF FinishByRewriting, ObjectWriter
  <1>3. ASSUME NEW m \in Metadata, NEW t \in Tags, Rewrite(p, m, t)
        PROVE  LET h == handle[p]
                   options == [DefaultOptions EXCEPT
                                  !.min_content_start = h.header.content_start]
               IN  /\ options \in LayoutOptions /\ h.path \in Paths
                   /\ h.header.compression_type \in Codecs
                   /\ writers[p] = <<>> /\ h # None /\ h.writable
                   /\ Create(p, writers[p], h.path, options,
                             h.header.compression_type, TRUE, m, t, "copying")
    <2>1. /\ handle[p] # None /\ handle[p] \in TuxObject /\ writers[p] = <<>>
      BY <1>3 DEF Rewrite, StoreIInv, TypeOK
    <2>2. [DefaultOptions EXCEPT
              !.min_content_start = handle[p].header.content_start]
             \in LayoutOptions
      BY <2>1, ObjectStoreAssumption DEF TuxObject, ObjectHeader, LayoutOptions
    <2> QED BY <1>3, <2>1, <2>2 DEF Rewrite, TuxObject, ObjectHeader
  <1>4. CASE \E path \in Paths, options \in LayoutChoices, codec \in Codecs,
                sync \in Syncs, m \in Metadata, t \in Tags :
                 CallerCreates(p, path, options, codec, sync, m, t)
    <2>1. PICK path \in Paths, options \in LayoutChoices, codec \in Codecs,
               sync \in Syncs, m \in Metadata, t \in Tags :
                 CallerCreates(p, path, options, codec, sync, m, t)
      BY <1>4
    <2> QED BY <1>1, <2>1, CreateAdds
  <1>5. CASE FinishByRewriting(p)
    <2> DEFINE w == Writer(p)
               options == RaiseReserves(w.layout_options, RewriteReserve)
    <2>1. /\ options \in LayoutOptions /\ w.final_path \in Paths
          /\ w.compression \in Codecs /\ w.sync \in BOOLEAN
          /\ w.metadata \in Metadata /\ w.tags \in Tags
          /\ Create(p, writers[p], w.final_path, options, w.compression, w.sync,
                    w.metadata, w.tags, "copying")
      BY <1>2, <1>5
    <2> HIDE DEF w, options
    <2> QED BY <1>5, <2>1, CreateAdds
  <1>6. ASSUME NEW m \in Metadata, NEW t \in Tags, Rewrite(p, m, t)
        PROVE  /\ Refit(p)' # None
               /\ Len(writers'[p]) = Len(writers[p]) + 1
               /\ OwnedTemps(p)' = OwnedTemps(p) \cup {Fresh}
               /\ temps' = temps \cup {Fresh}
               /\ UNCHANGED <<names, handle, historyVars>>
               /\ \A q \in Procs : q # p =>
                     writers'[q] = writers[q] /\ pc'[q] = pc[q]
               /\ writers[p] = <<>> /\ handle[p] # None /\ pc'[p] = "copying"
               /\ file'[Fresh].content = <<>>
               /\ Writer(p)'.file = Fresh
               /\ handle[p].writable
               /\ Writer(p)'.final_path = handle[p].path
               /\ Writer(p)'.compression = handle[p].header.compression_type
    <2> DEFINE h == handle[p]
               options == [DefaultOptions EXCEPT
                              !.min_content_start = h.header.content_start]
    <2>1. /\ options \in LayoutOptions /\ h.path \in Paths
          /\ h.header.compression_type \in Codecs
          /\ writers[p] = <<>> /\ h # None /\ h.writable
          /\ Create(p, writers[p], h.path, options, h.header.compression_type,
                    TRUE, m, t, "copying")
      BY <1>3, <1>6
    <2> DEFINE path == h.path
               codec == h.header.compression_type
    <2>2. /\ path \in Paths /\ codec \in Codecs
          /\ Create(p, writers[p], path, options, codec, TRUE, m, t, "copying")
      BY <2>1
    <2>3. /\ path = handle[p].path /\ codec = handle[p].header.compression_type
          /\ handle[p].writable
      BY <2>1
    <2> HIDE DEF options, path, codec
    <2>4. /\ Refit(p)' # None
          /\ Len(writers'[p]) = Len(writers[p]) + 1
          /\ OwnedTemps(p)' = OwnedTemps(p) \cup {Fresh}
          /\ temps' = temps \cup {Fresh}
          /\ file'[Fresh].content = <<>>
          /\ Writer(p)'.file = Fresh
          /\ Writer(p)'.final_path = path
          /\ Writer(p)'.compression = codec
          /\ pc'[p] = "copying"
          /\ UNCHANGED <<names, handle, historyVars>>
          /\ \A q \in Procs : q # p =>
                writers'[q] = writers[q] /\ pc'[q] = pc[q]
      BY <2>1, <2>2, CreateAdds
    <2> QED BY <2>1, <2>3, <2>4
  <1>7. CASE \/ \E m \in Metadata : SetMetadata(p, m)
             \/ \E t \in Tags : SetTags(p, t)
             \/ \E m \in Metadata, t \in Tags : SetSections(p, m, t)
    BY <1>6, <1>7, SetterRewrites
  <1> QED BY <1>4, <1>5, <1>7

LEMMA OnceInit == Init => OnceInv
  BY DEF Init, OnceInv, OnceAt

LEMMA OnceStep ==
    ASSUME StoreIInv, OnceInv, [Next]_vars
    PROVE  OnceInv'
  <1> USE DEF StoreIInv
  <1>1. /\ writers \in [Procs -> Seq(ObjectWriter)]
        /\ pc \in [Procs -> Locations]
        /\ \A p \in Procs : Len(writers[p]) \in Nat
    BY DEF TypeOK
  <1>2. ASSUME NEW p \in Procs, OnceAt(p)',
               \A q \in Procs : q # p =>
                  writers'[q] = writers[q] /\ pc'[q] = pc[q]
                  /\ handle'[q] = handle[q]
        PROVE  OnceInv'
    BY <1>2 DEF OnceInv, OnceAt, Refit, Writer
  <1>3. ASSUME UNCHANGED procVars PROVE OnceInv'
    BY <1>3 DEF procVars, OnceInv, OnceAt, Refit, Writer
  <1>4. ASSUME NEW p \in Procs,
               writers' = [writers EXCEPT ![p] = <<>>],
               pc' = [pc EXCEPT ![p] = "idle"],
               \A q \in Procs : q # p => handle'[q] = handle[q]
        PROVE  OnceInv'
    BY <1>1, <1>2, <1>4 DEF OnceAt
  <1>5. ASSUME NEW p \in Procs,
               \/ Abandon(p) \/ RewritingFails(p) \/ CopyRefused(p)
               \/ CallFails(p) \/ RenameFails(p) \/ Kill(p) \/ Reopen(p)
        PROVE  OnceInv'
    <2>1. /\ writers' = [writers EXCEPT ![p] = <<>>]
          /\ pc' = [pc EXCEPT ![p] = "idle"]
          /\ \A q \in Procs : q # p => handle'[q] = handle[q]
      BY <1>5
      DEF TypeOK, Abandon, RewritingFails, CopyRefused, CallFails, RenameFails,
          Kill, Reopen, DropWriters, Goto
    <2> QED BY <2>1, <1>4
  <1>6. ASSUME NEW p \in Procs,
               \/ \E path \in Paths, writable \in BOOLEAN :
                      Open(p, path, writable)
               \/ Close(p)
        PROVE  OnceInv'
    <2>1. /\ writers' = writers /\ pc' = pc /\ pc[p] = "idle"
          /\ \A q \in Procs : q # p => handle'[q] = handle[q]
      BY <1>6 DEF TypeOK, Open, Close
    <2>2. writers[p] = <<>>
      BY <2>1 DEF TypeOK
    <2>3. OnceAt(p)'
      BY <2>1, <2>2 DEF OnceAt
    <2> QED BY <2>1, <2>3, <1>2
  \* The innermost writer changes, or nothing but the location.
  <1>7. ASSUME NEW p \in Procs, pc[p] # "idle",
               \/ UNCHANGED writers
               \/ \E w2 \in ObjectWriter : SetWriter(p, w2),
               handle' = handle,
               NEW loc \in {"writing", "prefix", "fsync", "rename", "fsyncdir",
                            "reopen"},
               loc = "writing" => pc[p] = "writing",
               pc' = [pc EXCEPT ![p] = loc]
        PROVE  OnceInv'
    <2>1. /\ Len(writers'[p]) = Len(writers[p])
          /\ \A q \in Procs : q # p => writers'[q] = writers[q]
      BY <1>7, SetWriterEffect
    <2>2. pc'[p] = loc /\ \A q \in Procs : q # p => pc'[q] = pc[q]
      BY <1>1, <1>7
    <2>3. OnceAt(p)'
      BY <1>7, <2>1, <2>2 DEF OnceInv, OnceAt
    <2> QED BY <1>2, <1>7, <2>1, <2>2, <2>3
  <1>8. ASSUME NEW p \in Procs,
               \/ \E chunk \in Chunks : Write(p, chunk) \/ Encode(p, chunk)
               \/ \E m \in Metadata, t \in Tags : Mutate(p, m, t)
        PROVE  OnceInv'
    <2>1. pc[p] = "writing" /\ pc' = pc /\ handle' = handle
      BY <1>8 DEF Write, Encode, Mutate
    <2>2. \E w2 \in ObjectWriter : SetWriter(p, w2)
      BY <1>8, WriterKept
    <2>3. pc' = [pc EXCEPT ![p] = "writing"]
      BY <2>1, <1>1
    <2> QED BY <2>1, <2>2, <2>3, <1>7
  <1>9. ASSUME NEW p \in Procs, Copy(p) PROVE OnceInv'
    <2> DEFINE w == Writer(p)
    <2>1. /\ pc[p] = "copying" /\ pc' = [pc EXCEPT ![p] = "finishing"]
          /\ handle' = handle
      BY <1>9 DEF Copy, Goto
    <2>2. ~Finish(p)
      BY <2>1 DEF Finish, AtFinish
    <2>3. PICK w2 \in ObjectWriter :
             /\ SetWriter(p, w2) /\ w2.layout = w.layout
             /\ w2.metadata = w.metadata /\ w2.tags = w.tags
             /\ w2.layout_options = w.layout_options
      BY <1>9, <2>2, WriterKept
    <2>4. /\ Len(writers'[p]) = Len(writers[p])
          /\ writers'[p][Len(writers[p])] = w2
          /\ \A q \in Procs : q # p => writers'[q] = writers[q]
      BY <2>1, <2>3, SetWriterEffect
    <2>5. Refit(p)' = Refit(p)
      <3>1. Writer(p)' = w2
        BY <2>4 DEF Writer
      <3> QED BY <3>1, <2>3 DEF Refit
    <2>6. pc'[p] = "finishing" /\ \A q \in Procs : q # p => pc'[q] = pc[q]
      BY <1>1, <2>1
    <2>7. OnceAt(p)'
      BY <2>1, <2>4, <2>5, <2>6 DEF OnceInv, OnceAt
    <2> QED BY <2>1, <2>4, <2>6, <2>7, <1>2
  <1>10. ASSUME NEW p \in Procs,
                \/ Finish(p) \/ WritePrefix(p) \/ SyncAll(p)
                \/ Rename(p) \/ SyncParent(p)
         PROVE  OnceInv'
    <2>1. PICK loc \in {"prefix", "fsync", "rename", "fsyncdir", "reopen"} :
              pc' = [pc EXCEPT ![p] = loc]
      BY <1>10
      DEF Finish, WritePrefix, SyncAll, Rename, SyncParent, Goto, AfterPrefix,
          AfterRename
    <2>2. handle' = handle /\ pc[p] # "idle"
      BY <1>10 DEF Finish, WritePrefix, SyncAll, Rename, SyncParent, AtFinish
    <2>3. Writer(p) \in ObjectWriter
      BY <2>2, InnermostWriter
    <2>4. \/ UNCHANGED writers
          \/ \E w2 \in ObjectWriter : SetWriter(p, w2)
      <3>1. CASE Finish(p)
        BY <3>1, WriterKept
      <3>2. CASE Rename(p)
        <4>1. [Writer(p) EXCEPT !.temp_path = FALSE] \in ObjectWriter
          BY <2>3 DEF ObjectWriter
        <4> QED BY <3>2, <4>1 DEF Rename
      <3> QED BY <1>10, <3>1, <3>2 DEF WritePrefix, SyncAll, SyncParent
    <2> QED BY <2>1, <2>2, <2>4, <1>7
  <1>11. ASSUME NEW p \in Procs,
                \/ \E path \in Paths, options \in LayoutChoices, codec \in Codecs,
                      sync \in Syncs, m \in Metadata, t \in Tags :
                       CallerCreates(p, path, options, codec, sync, m, t)
                \/ FinishByRewriting(p)
                \/ \E m \in Metadata : SetMetadata(p, m)
                \/ \E t \in Tags : SetTags(p, t)
                \/ \E m \in Metadata, t \in Tags : SetSections(p, m, t)
         PROVE  OnceInv'
    <2>1. FinishByRewriting(p) => Len(writers[p]) = 1 /\ handle[p] = None
      BY DEF FinishByRewriting, AtFinish, OnceInv, OnceAt
    <2>2. /\ Refit(p)' # None
          /\ Len(writers'[p]) = Len(writers[p]) + 1
          /\ handle' = handle
          /\ \A q \in Procs : q # p =>
                writers'[q] = writers[q] /\ pc'[q] = pc[q]
          /\ \/ writers[p] = <<>> /\ handle[p] = None /\ pc'[p] = "writing"
             \/ FinishByRewriting(p) /\ pc'[p] = "copying"
             \/ writers[p] = <<>> /\ handle[p] # None /\ pc'[p] = "copying"
      BY <1>11, WhoCreates
    <2>3. Len(writers[p]) <= 1 /\ (handle[p] # None => Len(writers[p]) = 0)
      <3>1. CASE writers[p] = <<>>
        BY <3>1
      <3>2. CASE FinishByRewriting(p)
        <4>1. Len(writers[p]) = 1 /\ handle[p] = None
          BY <3>2, <2>1
        <4>2. Len(writers[p]) <= 1
          BY <4>1
        <4> QED BY <4>1, <4>2
      <3> QED BY <2>2, <3>1, <3>2
    <2>4. pc'[p] = "writing" => writers[p] = <<>> /\ handle[p] = None
      BY <2>2
    <2>5. OnceAt(p)'
      BY <1>1, <2>2, <2>3, <2>4 DEF OnceAt
    <2> QED BY <2>2, <2>5, <1>2
  <1>12. CASE PowerLoss
    BY <1>12 DEF PowerLoss, OnceInv, OnceAt
  <1>13. CASE UNCHANGED vars \/ \E p \in Procs : CallRefused(p)
    BY <1>13, <1>3 DEF vars, CallRefused, procVars
  <1> QED
    BY <1>5, <1>6, <1>8, <1>9, <1>10, <1>11, <1>12, <1>13 DEF Next

\* Growing an object at finish costs one more copy of it and never a second: a
\* replacement fits what it replaces ("cannot itself need rewriting",
\* async_io.rs:649-650), and the writer of a setter needs no replacement.
THEOREM ReplacementsAreFinal ==
    ASSUME PowerSafe PROVE Spec => []RewritesOnce
  <1>1. StoreIInv /\ OnceInv /\ [Next]_vars => OnceInv'
    BY OnceStep
  <1>2. OnceInv => RewritesOnce
    BY DEF OnceInv, OnceAt, RewritesOnce
  <1> QED BY <1>1, <1>2, OnceInit, StoreInvariant, PTL DEF Spec

-----------------------------------------------------------------------------
(* Nothing is left behind.                                                 *)

\* Nothing keeps a process from deleting its files, and every rename works.
NothingCutShort == {"kill", "power", "rename", "unlink"} \cap Faults = {}

LEMMA LeaksInit == Init => NoTempLeaks
  BY DEF Init, FsInit, NoTempLeaks, OwnedTemps

LEMMA LeaksStep ==
    ASSUME NothingCutShort, StoreIInv, NoTempLeaks, [Next]_vars
    PROVE  NoTempLeaks'
  <1> USE DEF StoreIInv
  <1>1. ASSUME NEW p \in Procs, NEW q \in Procs, q # p
        PROVE  OwnedTemps(p) \cap OwnedTemps(q) = {}
    BY <1>1 DEF WritersApart, OwnedTemps
  <1>2. ASSUME NEW p \in Procs,
               \A q \in Procs : q # p => writers'[q] = writers[q],
               \/ temps' = temps /\ OwnedTemps(p)' = OwnedTemps(p)
               \/ /\ temps' = temps \cup {Fresh}
                  /\ OwnedTemps(p)' = OwnedTemps(p) \cup {Fresh}
               \/ \E D \in SUBSET OwnedTemps(p) :
                     /\ temps' = temps \ D
                     /\ OwnedTemps(p)' = OwnedTemps(p) \ D
        PROVE  NoTempLeaks'
    <2>1. \A q \in Procs : q # p => OwnedTemps(q)' = OwnedTemps(q)
      BY <1>2 DEF OwnedTemps
    <2> HIDE DEF StoreIInv
    <2>2. UNION {OwnedTemps(r) : r \in Procs}
             = OwnedTemps(p) \cup UNION {OwnedTemps(r) : r \in Procs \ {p}}
      OBVIOUS
    <2>3. UNION {OwnedTemps(r)' : r \in Procs}
             = OwnedTemps(p)' \cup UNION {OwnedTemps(r) : r \in Procs \ {p}}
      BY <2>1
    <2>4. OwnedTemps(p) \cap UNION {OwnedTemps(r) : r \in Procs \ {p}} = {}
      BY <1>1
    <2> QED BY <1>2, <2>2, <2>3, <2>4 DEF NoTempLeaks
  <1>3. ASSUME UNCHANGED <<temps, writers>> PROVE NoTempLeaks'
    BY <1>3 DEF NoTempLeaks, OwnedTemps
  <1>4. ASSUME NEW p \in Procs, RemoveTemps(OwnedTemps(p)),
               writers' = [writers EXCEPT ![p] = <<>>]
        PROVE  NoTempLeaks'
    <2> DeleteTemps(OwnedTemps(p))
      BY <1>4 DEF RemoveTemps, NothingCutShort
    <2>1. writers'[p] = <<>> /\ \A q \in Procs : q # p => writers'[q] = writers[q]
      BY <1>4 DEF TypeOK
    <2>2. OwnedTemps(p)' = {} /\ temps' = temps \ OwnedTemps(p)
      BY <1>4, <2>1 DEF OwnedTemps, DeleteTemps
    <2> QED BY <2>1, <2>2, <1>2
  <1>5. ASSUME NEW p \in Procs,
               \/ Abandon(p) \/ RewritingFails(p) \/ CopyRefused(p)
               \/ CallFails(p) \/ Reopen(p)
        PROVE  NoTempLeaks'
    BY <1>5, <1>4
    DEF Abandon, RewritingFails, CopyRefused, CallFails, Reopen, DropWriters
  <1>6. ASSUME NEW p \in Procs,
               \/ \E path \in Paths, writable \in BOOLEAN :
                      Open(p, path, writable)
               \/ Close(p) \/ WritePrefix(p) \/ SyncAll(p) \/ SyncParent(p)
               \/ CallRefused(p)
        PROVE  NoTempLeaks'
    BY <1>6, <1>3
    DEF Open, Close, WritePrefix, SyncAll, SyncParent, CallRefused, WriteFile,
        SyncFile, SyncDirectory, vars, fsVars, procVars
  <1>7. ASSUME NEW p \in Procs,
               \/ \E chunk \in Chunks : Write(p, chunk) \/ Encode(p, chunk)
               \/ \E m \in Metadata, t \in Tags : Mutate(p, m, t)
               \/ Copy(p)
               \/ Finish(p)
        PROVE  NoTempLeaks'
    <2>1. PICK w2 \in ObjectWriter :
             /\ SetWriter(p, w2) /\ w2.file = Writer(p).file
             /\ w2.temp_path = Writer(p).temp_path
      BY <1>7, WriterKept
    <2>2. pc[p] # "idle" /\ temps' = temps
      BY <1>7, WriterKept
    <2>3. InnermostBecomes(p, w2)
      BY <2>1, <2>2, SetWriterEffect DEF InnermostBecomes
    <2>4. OwnedTemps(p)' = OwnedTemps(p)
      BY <2>1, <2>3 DEF InnermostBecomes, OwnedTemps, Writer
    <2> QED BY <2>2, <2>3, <2>4, <1>2 DEF InnermostBecomes
  <1>8. ASSUME NEW p \in Procs, Rename(p) PROVE NoTempLeaks'
    <2> DEFINE w == Writer(p)
               w2 == [w EXCEPT !.temp_path = FALSE]
    <2>1. /\ pc[p] # "idle" /\ temps' = temps \ {w.file} /\ SetWriter(p, w2)
      BY <1>8 DEF Rename, RenameFile
    <2>2. w \in ObjectWriter /\ Len(writers[p]) \in DOMAIN writers[p]
      BY <2>1, InnermostWriter
    <2>3. w2 \in ObjectWriter /\ w2.temp_path = FALSE
      BY <2>2 DEF ObjectWriter
    <2> HIDE DEF w2
    <2>4. InnermostBecomes(p, w2)
      BY <2>1, <2>3, SetWriterEffect DEF InnermostBecomes
    <2>5. w.file \in OwnedTemps(p)
      <3>1. w.temp_path
        BY <1>8, <2>2 DEF Rename, WritersOwnFiles, Publishing, Writer
      <3> QED BY <3>1, <2>2 DEF OwnedTemps, Writer
    <2>6. \A k \in DOMAIN writers[p] :
             k # Len(writers[p]) => writers[p][k].file # w.file
      BY <2>2 DEF WritersApart, Writer
    <2>7. OwnedTemps(p)' = OwnedTemps(p) \ {w.file}
      <3>1. ASSUME NEW f
            PROVE  f \in OwnedTemps(p)' <=> f \in OwnedTemps(p) \ {w.file}
        BY <2>2, <2>3, <2>4, <2>6 DEF InnermostBecomes, OwnedTemps, Writer
      <3> QED BY <3>1
    <2> QED BY <2>1, <2>4, <2>5, <2>7, <1>2 DEF InnermostBecomes
  <1>9. ASSUME NEW p \in Procs,
               \/ \E path \in Paths, options \in LayoutChoices, codec \in Codecs,
                     sync \in Syncs, m \in Metadata, t \in Tags :
                      CallerCreates(p, path, options, codec, sync, m, t)
               \/ FinishByRewriting(p)
               \/ \E m \in Metadata : SetMetadata(p, m)
               \/ \E t \in Tags : SetTags(p, t)
               \/ \E m \in Metadata, t \in Tags : SetSections(p, m, t)
        PROVE  NoTempLeaks'
    <2>1. /\ temps' = temps \cup {Fresh}
          /\ OwnedTemps(p)' = OwnedTemps(p) \cup {Fresh}
          /\ \A q \in Procs : q # p => writers'[q] = writers[q]
      BY <1>9, WhoCreates
    <2> QED BY <2>1, <1>2
  <1>10. CASE UNCHANGED vars
    BY <1>10, <1>3 DEF vars, fsVars, procVars
  <1>11. ~PowerLoss /\ \A p \in Procs : ~Kill(p) /\ ~RenameFails(p)
    BY DEF NothingCutShort, PowerLoss, Kill, RenameFails
  <1> QED
    BY <1>5, <1>6, <1>7, <1>8, <1>9, <1>10, <1>11 DEF Next

\* However calls end, the temporary names in the directory are those of files
\* some writer still works on ("Dropping the writer without finishing removes
\* the temporary file", writer.rs:67-68), unless a process died, or a rename or
\* remove_file failed after the path was taken.
THEOREM TempsAreRemoved ==
    ASSUME NothingCutShort PROVE Spec => []NoTempLeaks
  <1>1. PowerSafe
    BY DEF NothingCutShort, PowerSafe
  <1>2. StoreIInv /\ NoTempLeaks /\ [Next]_vars => NoTempLeaks'
    BY LeaksStep
  <1> QED BY <1>1, <1>2, LeaksInit, StoreInvariant, PTL DEF Spec

-----------------------------------------------------------------------------
(* Synced objects survive.                                                 *)

\* Among the files renamed over a path, f is as new as the newest g.
AsNewAs(renamed, f, g) ==
    \E j \in DOMAIN renamed :
        /\ f = renamed[j]
        /\ \A k \in DOMAIN renamed : renamed[k] = g => k <= j

\* What a path may name after a power loss is as new as the last finish that
\* returned Ok.
NamesRecent ==
    \A path \in Paths : \A i \in DOMAIN names[path] :
        \E k \in acked[path] .. Len(published[path]) :
            names[path][i] = VersionAt(path, k)

\* A synced finish that renamed its file: what the path names is as new as that
\* and, once the directory is flushed, so is all the path may name.
ReturnsRecent(p) ==
    LET path == Writer(p).final_path
        f    == Writer(p).file
    IN  /\ pc[p] = "fsyncdir" /\ Writer(p).sync =>
              AsNewAs(published[path], Current(path), f)
        /\ pc[p] = "reopen" /\ Writer(p).sync =>
              \A i \in DOMAIN names[path] :
                  AsNewAs(published[path], names[path][i], f)

RecentInv == NamesRecent /\ \A p \in Procs : ReturnsRecent(p)

LEMMA RecentInit == Init => RecentInv
  <1> SUFFICES ASSUME Init PROVE RecentInv
    OBVIOUS
  <1>1. ASSUME NEW path \in Paths, NEW i \in DOMAIN names[path]
        PROVE  \E k \in acked[path] .. Len(published[path]) :
                  names[path][i] = VersionAt(path, k)
    <2>1. /\ names[path][i] = NoFile /\ acked[path] = 0
          /\ published[path] = <<>>
      BY DEF Init, FsInit
    <2>2. 0 \in acked[path] .. Len(published[path]) /\ VersionAt(path, 0) = NoFile
      BY <2>1 DEF VersionAt
    <2> QED BY <2>1, <2>2
  <1> QED BY <1>1 DEF Init, RecentInv, NamesRecent, ReturnsRecent

\* Another file is renamed over the path: what was as new as g stays it.
LEMMA OlderNames ==
    ASSUME NEW s \in Seq(Files), NEW f, NEW g, NEW h \in Files, g # h,
           AsNewAs(s, f, g)
    PROVE  AsNewAs(Append(s, h), f, g)
  <1> DEFINE t == Append(s, h)
  <1>1. PICK j \in DOMAIN s :
            f = s[j] /\ \A k \in DOMAIN s : s[k] = g => k <= j
    BY DEF AsNewAs
  <1>2. /\ j \in DOMAIN t /\ t[j] = f
        /\ \A k \in DOMAIN t : t[k] = h \/ (k \in DOMAIN s /\ t[k] = s[k])
    BY <1>1
  <1> HIDE DEF t
  <1>3. AsNewAs(t, f, g)
    BY <1>1, <1>2 DEF AsNewAs
  <1> QED BY <1>3 DEF t

\* The file that was renamed last is as new as any.
LEMMA NewestName ==
    ASSUME NEW s \in Seq(Files), NEW g, NEW h \in Files
    PROVE  AsNewAs(Append(s, h), h, g)
  <1> DEFINE t == Append(s, h)
             j == Len(s) + 1
  <1>1. j \in DOMAIN t /\ t[j] = h /\ \A k \in DOMAIN t : k <= j
    OBVIOUS
  <1> HIDE DEF t, j
  <1>2. AsNewAs(t, h, g)
    BY <1>1 DEF AsNewAs
  <1> QED BY <1>2 DEF t

LEMMA RecentRename ==
    ASSUME StoreIInv, RecentInv, NEW p \in Procs, Rename(p)
    PROVE  RecentInv'
  <1> DEFINE w == Writer(p)
             w2 == [w EXCEPT !.temp_path = FALSE]
  <1> USE DEF StoreIInv
  <1>1. /\ pc[p] = "rename" /\ w \in ObjectWriter
        /\ Len(writers[p]) \in DOMAIN writers[p]
    BY InnermostWriter DEF Rename
  <1> PICK at \in Paths, h \in Files : at = w.final_path /\ h = w.file
    BY <1>1 DEF ObjectWriter
  <1>2. /\ w2 \in ObjectWriter /\ SetWriter(p, w2) /\ w2.file = h
        /\ w2.final_path = at /\ w2.sync = w.sync
    BY <1>1 DEF ObjectWriter, Rename
  <1>3. InnermostBecomes(p, w2)
    BY <1>1, <1>2, SetWriterEffect DEF InnermostBecomes
  <1>4. /\ Writer(p)' = w2 /\ \A q \in Procs : q # p => Writer(q)' = Writer(q)
    BY <1>3 DEF InnermostBecomes, Writer
  <1>5. /\ names \in [Paths -> Seq(Files \cup {NoFile}) \ {<<>>}]
        /\ published \in [Paths -> Seq(Files)]
        /\ acked \in [Paths -> Nat]
        /\ pc \in [Procs -> Locations]
    BY DEF TypeOK
  <1>6. /\ names' = [names EXCEPT ![at] = Append(@, h)]
        /\ published' = [published EXCEPT ![at] = Append(@, h)]
        /\ acked' = acked
        /\ pc' = [pc EXCEPT ![p] = AfterRename(w)]
    BY DEF Rename, RenameFile, Goto
  <1>7. /\ names'[at] = Append(names[at], h)
        /\ published'[at] = Append(published[at], h)
        /\ \A path \in Paths : path # at =>
              names'[path] = names[path] /\ published'[path] = published[path]
    BY <1>5, <1>6
  <1>8. names[at] \in Seq(Files \cup {NoFile}) /\ published[at] \in Seq(Files)
    BY <1>5
  <1> HIDE DEF w2
  <1>9. NamesRecent'
    <2> SUFFICES ASSUME NEW path \in Paths, NEW i \in DOMAIN names'[path]
                 PROVE  \E k \in acked[path] .. Len(published'[path]) :
                            names'[path][i] = VersionAt(path, k)'
      BY <1>6 DEF NamesRecent
    <2>1. CASE path # at
      <3>1. PICK k \in acked[path] .. Len(published[path]) :
                names[path][i] = VersionAt(path, k)
        BY <2>1, <1>7 DEF RecentInv, NamesRecent
      <3>2. VersionAt(path, k)' = VersionAt(path, k)
        BY <2>1, <1>7 DEF VersionAt
      <3> QED BY <2>1, <3>1, <3>2, <1>7
    <2>2. CASE path = at /\ i \in DOMAIN names[at]
      <3>1. PICK k \in acked[at] .. Len(published[at]) :
                names[at][i] = VersionAt(at, k)
        BY <2>2 DEF RecentInv, NamesRecent
      <3>2. k \in Nat /\ k <= Len(published[at])
        BY <3>1, <1>5, <1>8
      <3>3. /\ k \in acked[at] .. Len(published'[at])
            /\ names'[at][i] = names[at][i]
        BY <3>1, <3>2, <2>2, <1>5, <1>7, <1>8
      <3>4. VersionAt(at, k)' = VersionAt(at, k)
        BY <3>2, <1>7, <1>8 DEF VersionAt
      <3> QED BY <2>2, <3>1, <3>3, <3>4
    <2>3. CASE path = at /\ i \notin DOMAIN names[at]
      <3>1. PICK k \in Nat : k = Len(published[at]) + 1
        BY <1>8
      <3>2. names'[at][i] = h
        BY <2>3, <1>7, <1>8
      <3>3. k # 0 /\ published'[at][k] = h /\ k = Len(published'[at])
        BY <3>1, <1>7, <1>8
      <3>4. VersionAt(at, k)' = h
        BY <3>3 DEF VersionAt
      <3>5. acked[at] <= k
        <4>1. 1 \in DOMAIN names[at]
          BY <1>5
        <4>2. PICK l \in acked[at] .. Len(published[at]) : TRUE
          BY <4>1 DEF RecentInv, NamesRecent
        <4> QED BY <3>1, <4>2, <1>5, <1>8
      <3>6. k \in acked[at] .. Len(published'[at])
        BY <3>1, <3>3, <3>5, <1>5
      <3> QED BY <2>3, <3>2, <3>4, <3>6
    <2> QED BY <2>1, <2>2, <2>3
  <1>10. ASSUME NEW q \in Procs PROVE ReturnsRecent(q)'
    <2>1. CASE q = p
      <3>1. pc'[p] = "reopen" => ~w.sync
        BY <1>5, <1>6 DEF AfterRename
      <3>2. Current(at)' = h
        BY <1>7, <1>8 DEF Current
      <3>3. AsNewAs(published'[at], h, h)
        BY <1>7, <1>8, NewestName
      <3> QED
        BY <2>1, <3>1, <3>2, <3>3, <1>2, <1>4 DEF ReturnsRecent
    <2>2. CASE q # p
      <3> DEFINE v == Writer(q)
      <3>1. Writer(q)' = v /\ pc'[q] = pc[q]
        BY <2>2, <1>4, <1>5, <1>6
      <3>2. CASE pc[q] \in {"fsyncdir", "reopen"} /\ v.sync
        <4>1. v \in ObjectWriter /\ v.file # h
          BY <2>2, <3>2, <1>1, InnermostWriter DEF WritersApart, Writer
        <4>2. CASE v.final_path # at
          <5>1. /\ names'[v.final_path] = names[v.final_path]
                /\ published'[v.final_path] = published[v.final_path]
            BY <4>1, <4>2, <1>7 DEF ObjectWriter
          <5> QED
            BY <5>1, <3>1 DEF RecentInv, ReturnsRecent, Current
        <4>3. CASE v.final_path = at
          <5>1. AsNewAs(published'[at], h, v.file)
            BY <1>7, <1>8, NewestName
          <5>2. Current(at)' = h
            BY <1>7, <1>8 DEF Current
          <5>3. ASSUME pc[q] = "reopen", NEW i \in DOMAIN names'[at]
                PROVE  AsNewAs(published'[at], names'[at][i], v.file)
            <6>1. CASE i \in DOMAIN names[at]
              <7>1. AsNewAs(published[at], names[at][i], v.file)
                BY <5>3, <6>1, <3>2, <4>3 DEF RecentInv, ReturnsRecent
              <7>2. names'[at][i] = names[at][i]
                BY <6>1, <1>7, <1>8
              <7> QED BY <7>1, <7>2, <4>1, <1>7, <1>8, OlderNames
            <6>2. CASE i \notin DOMAIN names[at]
              <7>1. names'[at][i] = h
                BY <6>2, <1>7, <1>8
              <7> QED BY <7>1, <5>1
            <6> QED BY <6>1, <6>2
          <5> QED
            BY <5>1, <5>2, <5>3, <3>1, <4>3 DEF ReturnsRecent
        <4> QED BY <4>2, <4>3
      <3> QED BY <3>1, <3>2 DEF ReturnsRecent
    <2> QED BY <2>1, <2>2
  <1> QED BY <1>9, <1>10 DEF RecentInv

\* Flushing the directory leaves every path with what it names now.
LEMMA RecentSyncParent ==
    ASSUME StoreIInv, RecentInv, ParentOpens, NEW p \in Procs, SyncParent(p)
    PROVE  RecentInv'
  <1> USE DEF StoreIInv
  <1>1. /\ names \in [Paths -> Seq(Files \cup {NoFile}) \ {<<>>}]
        /\ pc \in [Procs -> Locations]
    BY DEF TypeOK
  <1>2. /\ names' = [path \in Paths |-> <<Current(path)>>]
        /\ pc[p] = "fsyncdir" /\ pc' = [pc EXCEPT ![p] = "reopen"]
        /\ UNCHANGED <<writers, published, acked>>
    BY DEF SyncParent, SyncDirectory, Goto, historyVars
  <1>3. ASSUME NEW path \in Paths
        PROVE  /\ DOMAIN names'[path] = {1}
               /\ names'[path][1] = Current(path)
               /\ Current(path)' = Current(path)
               /\ Len(names[path]) \in DOMAIN names[path]
               /\ Current(path) = names[path][Len(names[path])]
    <2>1. names[path] \in Seq(Files \cup {NoFile}) /\ names[path] # <<>>
      BY <1>1
    <2> QED BY <1>2, <2>1 DEF Current
  <1>4. NamesRecent'
    BY <1>2, <1>3 DEF RecentInv, NamesRecent, VersionAt
  <1>5. ASSUME NEW q \in Procs PROVE ReturnsRecent(q)'
    <2>1. Writer(q)' = Writer(q) /\ (pc'[q] = pc[q] \/ pc[q] = "fsyncdir")
      <3>1. Writer(q)' = Writer(q)
        BY <1>2 DEF Writer
      <3>2. pc'[q] = pc[q] \/ pc[q] = "fsyncdir"
        BY <1>1, <1>2
      <3> QED BY <3>1, <3>2
    <2>2. CASE pc[q] \in {"fsyncdir", "reopen"} /\ Writer(q).sync
      <3> DEFINE at == Writer(q).final_path
      <3>1. at \in Paths
        BY <2>2, InnermostWriter DEF ObjectWriter
      <3>2. AsNewAs(published[at], Current(at), Writer(q).file)
        BY <2>2, <3>1, <1>3 DEF RecentInv, ReturnsRecent
      <3> QED BY <2>1, <3>1, <3>2, <1>2, <1>3 DEF ReturnsRecent
    <2> QED BY <2>1, <2>2, <1>2 DEF ReturnsRecent
  <1> QED BY <1>4, <1>5 DEF RecentInv

\* A synced finish returns Ok, and all its path may name is as new as its file.
LEMMA RecentReopen ==
    ASSUME StoreIInv, RecentInv, NEW p \in Procs, Reopen(p)
    PROVE  RecentInv'
  <1> DEFINE w == Writer(p)
             at == w.final_path
  <1> USE DEF StoreIInv
  <1>1. /\ pc[p] = "reopen" /\ names' = names /\ published' = published
        /\ pc' = [pc EXCEPT ![p] = "idle"]
        /\ writers' = [writers EXCEPT ![p] = <<>>]
    BY DEF Reopen, RemoveTemps, DeleteTemps, Goto
  <1>2. /\ pc \in [Procs -> Locations] /\ acked \in [Paths -> Nat]
        /\ published \in [Paths -> Seq(Files)]
    BY DEF TypeOK
  <1>3. w \in ObjectWriter /\ at \in Paths
    BY <1>1, InnermostWriter DEF ObjectWriter
  <1>4. ASSUME NEW q \in Procs PROVE ReturnsRecent(q)'
    <2>1. CASE q = p
      BY <2>1, <1>1, <1>2 DEF ReturnsRecent
    <2>2. CASE q # p
      <3>1. pc'[q] = pc[q]
        BY <2>2, <1>1, <1>2
      <3>2. Writer(q)' = Writer(q)
        BY <2>2, <1>1 DEF Writer, TypeOK
      <3> QED BY <3>1, <3>2, <1>1 DEF ReturnsRecent, RecentInv, Current
    <2> QED BY <2>1, <2>2
  <1>5. ASSUME NEW path \in Paths, NEW k, VersionAt(path, k)' # VersionAt(path, k)
        PROVE  FALSE
    BY <1>1, <1>5 DEF VersionAt
  <1>6. CASE ~w.sync
    <2>1. acked' = acked
      BY <1>6 DEF Reopen
    <2> QED BY <2>1, <1>1, <1>4, <1>5 DEF RecentInv, NamesRecent
  <1>7. CASE w.sync
    <2>1. PICK n \in DOMAIN published[at] :
             /\ published[at][n] = w.file
             /\ acked' = [acked EXCEPT ![at] = AtLeast(@, n)]
      BY <1>7 DEF Reopen
    <2>2. ASSUME NEW path \in Paths, NEW i \in DOMAIN names[path]
          PROVE  \E k \in acked'[path] .. Len(published[path]) :
                    names[path][i] = VersionAt(path, k)
      <3>1. PICK k \in acked[path] .. Len(published[path]) :
               names[path][i] = VersionAt(path, k)
        BY DEF RecentInv, NamesRecent
      <3>2. acked[path] \in Nat /\ published[path] \in Seq(Files)
        BY <1>2
      <3>3. CASE path # at \/ acked[at] >= n
        <4>1. acked'[path] = acked[path]
          BY <3>3, <2>1, <1>2, <1>3 DEF AtLeast
        <4> QED BY <3>1, <4>1
      <3>4. CASE path = at /\ ~(acked[at] >= n)
        <4>1. PICK j \in DOMAIN published[at] :
                 /\ names[at][i] = published[at][j]
                 /\ \A l \in DOMAIN published[at] :
                       published[at][l] = w.file => l <= j
          BY <3>4, <1>1, <1>7 DEF RecentInv, ReturnsRecent, AsNewAs
        <4>2. n <= j /\ acked'[at] = n
          BY <4>1, <2>1, <3>4, <1>2, <1>3 DEF AtLeast
        <4>3. j \in Nat \ {0} /\ n \in Nat /\ j <= Len(published[at])
              /\ Len(published[at]) \in Nat
          BY <3>4, <3>2, <2>1, <4>1
        <4>4. j \in acked'[at] .. Len(published[at])
          BY <4>2, <4>3
        <4>5. VersionAt(at, j) = names[at][i]
          BY <4>1, <4>3 DEF VersionAt
        <4> QED BY <3>4, <4>4, <4>5
      <3> QED BY <3>3, <3>4
    <2> QED BY <2>2, <1>1, <1>4, <1>5 DEF RecentInv, NamesRecent
  <1> QED BY <1>6, <1>7

\* Power is lost: a path is left with one of the files it might name, and no
\* call is running.
LEMMA RecentPowerLoss ==
    ASSUME StoreIInv, RecentInv, PowerLoss
    PROVE  RecentInv'
  <1>1. PICK kept \in [Paths -> Files \cup {NoFile}] :
            /\ \A path \in Paths :
                   \E k \in DOMAIN names[path] : kept[path] = names[path][k]
            /\ names' = [path \in Paths |-> <<kept[path]>>]
    BY DEF PowerLoss, PowerIsLost
  <1>2. /\ UNCHANGED <<published, acked>> /\ pc' = [p \in Procs |-> "idle"]
    BY DEF PowerLoss, historyVars
  <1>3. ASSUME NEW path \in Paths, NEW i \in DOMAIN names'[path]
        PROVE  \E k \in DOMAIN names[path] : names'[path][i] = names[path][k]
    <2>1. i = 1 /\ names'[path][i] = kept[path]
      BY <1>1
    <2> QED BY <1>1, <2>1
  <1>4. NamesRecent'
    BY <1>2, <1>3 DEF RecentInv, NamesRecent, VersionAt
  <1> QED BY <1>2, <1>4 DEF RecentInv, ReturnsRecent

\* Whatever renames nothing, flushes no directory and acknowledges nothing.
LEMMA RecentElsewhere ==
    ASSUME RecentInv, UNCHANGED <<names, historyVars>>,
           \A q \in Procs : pc'[q] \in {"fsyncdir", "reopen"} =>
              pc'[q] = pc[q] /\ writers'[q] = writers[q]
    PROVE  RecentInv'
  <1>1. NamesRecent'
    BY DEF RecentInv, NamesRecent, VersionAt, historyVars
  <1>2. ASSUME NEW q \in Procs PROVE ReturnsRecent(q)'
    <2>1. CASE pc'[q] \in {"fsyncdir", "reopen"}
      BY <2>1 DEF RecentInv, ReturnsRecent, Writer, Current, historyVars
    <2>2. CASE pc'[q] \notin {"fsyncdir", "reopen"}
      BY <2>2 DEF ReturnsRecent
    <2> QED BY <2>1, <2>2
  <1> QED BY <1>1, <1>2 DEF RecentInv

LEMMA RecentStep ==
    ASSUME ParentOpens, StoreIInv, RecentInv, [Next]_vars
    PROVE  RecentInv'
  <1>1. /\ pc \in [Procs -> Locations]
        /\ writers \in [Procs -> Seq(ObjectWriter)]
    BY DEF StoreIInv, TypeOK
  <1>2. CASE UNCHANGED vars
    BY <1>2, RecentElsewhere DEF vars, fsVars, procVars
  <1>3. CASE PowerLoss
    BY <1>3, RecentPowerLoss
  <1>4. ASSUME NEW p \in Procs, Rename(p) \/ SyncParent(p) \/ Reopen(p)
        PROVE  RecentInv'
    BY <1>4, RecentRename, RecentSyncParent, RecentReopen
  <1>5. ASSUME NEW p \in Procs,
               \/ \E path \in Paths, writable \in BOOLEAN :
                      Open(p, path, writable)
               \/ Close(p) \/ CallRefused(p)
        PROVE  RecentInv'
    BY <1>5, RecentElsewhere
    DEF Open, Close, CallRefused, vars, fsVars, procVars
  <1>6. ASSUME NEW p \in Procs,
               \/ Abandon(p) \/ RewritingFails(p) \/ CopyRefused(p)
               \/ CallFails(p) \/ RenameFails(p) \/ Kill(p)
        PROVE  RecentInv'
    <2>1. /\ pc' = [pc EXCEPT ![p] = "idle"]
          /\ writers' = [writers EXCEPT ![p] = <<>>]
          /\ UNCHANGED <<names, historyVars>>
      BY <1>6
      DEF Abandon, RewritingFails, CopyRefused, CallFails, RenameFails, Kill,
          DropWriters, RemoveTemps, DeleteTemps, Goto, fsVars
    <2> QED BY <1>1, <2>1, RecentElsewhere
  <1>7. ASSUME NEW p \in Procs, WritePrefix(p) \/ SyncAll(p)
        PROVE  RecentInv'
    <2>1. PICK loc \in {"fsync", "rename"} : pc' = [pc EXCEPT ![p] = loc]
      BY <1>7 DEF WritePrefix, SyncAll, Goto, AfterPrefix
    <2>2. UNCHANGED <<writers, names, historyVars>>
      BY <1>7 DEF WritePrefix, SyncAll, WriteFile, SyncFile
    <2>3. \A q \in Procs : q # p => pc'[q] = pc[q]
      BY <1>1, <2>1
    <2>4. pc'[p] = loc
      BY <1>1, <2>1
    <2> QED BY <2>2, <2>3, <2>4, RecentElsewhere
  <1>8. ASSUME NEW p \in Procs,
               \/ \E chunk \in Chunks : Write(p, chunk) \/ Encode(p, chunk)
               \/ \E m \in Metadata, t \in Tags : Mutate(p, m, t)
               \/ Copy(p)
               \/ Finish(p)
        PROVE  RecentInv'
    <2>1. PICK w2 \in ObjectWriter : SetWriter(p, w2)
      BY <1>8, WriterKept
    <2>2. UNCHANGED <<names, historyVars>>
      BY <1>8, WriterKept
    <2>3. \A q \in Procs : q # p => writers'[q] = writers[q]
      BY <1>1, <2>1 DEF SetWriter
    <2>4. PICK loc \in {"writing", "finishing", "prefix"} :
              pc' = [pc EXCEPT ![p] = loc]
      <3>1. pc[p] = "writing" => pc = [pc EXCEPT ![p] = "writing"]
        BY <1>1
      <3> QED BY <1>8, <3>1 DEF Write, Encode, Mutate, Copy, Finish, Goto
    <2>5. pc'[p] = loc /\ \A q \in Procs : q # p => pc'[q] = pc[q]
      BY <1>1, <2>4
    <2> QED BY <2>2, <2>3, <2>5, RecentElsewhere
  <1>9. ASSUME NEW p \in Procs,
               \/ \E path \in Paths, options \in LayoutChoices, codec \in Codecs,
                     sync \in Syncs, m \in Metadata, t \in Tags :
                      CallerCreates(p, path, options, codec, sync, m, t)
               \/ FinishByRewriting(p)
               \/ \E m \in Metadata : SetMetadata(p, m)
               \/ \E t \in Tags : SetTags(p, t)
               \/ \E m \in Metadata, t \in Tags : SetSections(p, m, t)
        PROVE  RecentInv'
    <2>1. /\ UNCHANGED <<names, historyVars>>
          /\ pc'[p] \in {"writing", "copying"}
          /\ \A q \in Procs : q # p =>
                writers'[q] = writers[q] /\ pc'[q] = pc[q]
      BY <1>9, WhoCreates
    <2> QED BY <2>1, RecentElsewhere
  <1> QED
    BY <1>2, <1>3, <1>4, <1>5, <1>6, <1>7, <1>8, <1>9 DEF Next

\* "A completed write survives a power loss" (writer.rs:28-30) where the parent
\* directory can be opened to be flushed: whatever is renamed, flushed and lost
\* around it, by any number of processes, the path of a synced finish that
\* returned Ok names its object or a later one.  Where the parent cannot be
\* opened publish skips the flush, and the property fails.
THEOREM SyncedWritesSurvive ==
    ASSUME PowerSafe, ParentOpens PROVE Spec => []SyncedSurvivesPowerLoss
  <1>1. StoreIInv /\ RecentInv /\ [Next]_vars => RecentInv'
    BY RecentStep
  <1>2. StoreIInv /\ RecentInv => SyncedSurvivesPowerLoss
    <2> SUFFICES ASSUME StoreIInv, RecentInv, NEW path \in Paths
                 PROVE  \E k \in acked[path] .. Len(published[path]) :
                            Current(path) = VersionAt(path, k)
      BY DEF SyncedSurvivesPowerLoss
    <2>1. Len(names[path]) \in DOMAIN names[path]
      BY DEF StoreIInv, TypeOK
    <2> QED BY <2>1 DEF RecentInv, NamesRecent, Current
  <1> QED BY <1>1, <1>2, RecentInit, StoreInvariant, PTL DEF Spec

-----------------------------------------------------------------------------
(***************************************************************************)
(* The register.  What is written, copied and read is content a caller     *)
(* wrote, a rewrite carries over content and codec of the object it        *)
(* replaces, and each step of the store is a step of the register or none. *)
(***************************************************************************)

\* What callers write, up to the bound.
Written == {s \in Seq(Chunks \cup {Frame(c) : c \in Chunks}) :
               Len(s) <= MaxContent}

\* No power is lost, every written content is one the register knows, and the
\* marker for nothing is none of its values.
RegisterApplies ==
    /\ "power" \notin Faults
    /\ Written \subseteq Contents
    /\ None \notin Objects
    /\ None \notin Register!Snapshot
    /\ None \notin Register!Publication

-----------------------------------------------------------------------------
(* Contents.                                                               *)

ContentsWritten == \A f \in Files : file[f] # Blank => file[f].content \in Written

\* A copy goes into an empty file.
CopiesIntoEmpty ==
    \A p \in Procs : pc[p] = "copying" => file[Writer(p).file].content = <<>>

\* A setter works on a writable object, and from the copy on its writer has the
\* path, the codec and the content of that object.
UpdatesKeep ==
    \A p \in Procs : handle[p] # None /\ pc[p] # "idle" =>
        LET w == Writer(p)
            h == handle[p]
        IN  /\ h.writable = TRUE
            /\ w.final_path = h.path
            /\ w.compression = h.header.compression_type
            /\ pc[p] # "copying" => file[w.file].content = file[h.file].content

ContentIInv == ContentsWritten /\ CopiesIntoEmpty /\ UpdatesKeep

\* Reading a file at the right offset for its whole length gives its content.
LEMMA WholeContent ==
    ASSUME NEW f \in Files, file[f] \in ObjectFile, NEW start, NEW len,
           start = file[f].content_at, len = Len(file[f].content)
    PROVE  StoredContent(f, start, len) = file[f].content
  <1> DEFINE s == file[f].content
  <1>1. s \in Seq(Pieces)
    BY DEF ObjectFile
  <1>2. SubSeq(s, 1, Len(s)) = s
    BY <1>1
  <1> QED BY <1>2 DEF StoredContent

\* What an open object reads is the content of its file.
LEMMA HandleContent ==
    ASSUME StoreIInv, NEW p \in Procs, handle[p] # None
    PROVE  /\ handle[p].file \in Files
           /\ file[handle[p].file] \in ObjectFile
           /\ StoredContent(handle[p].file, handle[p].header.content_start,
                            handle[p].header.content_length)
                 = file[handle[p].file].content
  <1> DEFINE h == handle[p]
  <1>1. /\ h.file \in 1 .. created /\ Complete(h.file)
        /\ h.header = file[h.file].header
    BY KeptHandle
  <1>2. h.file \in Files /\ file[h.file] \in ObjectFile
    BY <1>1, FileSystemAssumption DEF StoreIInv, TypeOK, Files, Complete
  <1>3. /\ h.header.content_start = file[h.file].content_at
        /\ h.header.content_length = Len(file[h.file].content)
    BY <1>1 DEF Complete
  <1> HIDE DEF h
  <1>4. StoredContent(h.file, h.header.content_start, h.header.content_length)
           = file[h.file].content
    BY <1>2, <1>3, WholeContent
  <1> QED BY <1>2, <1>4 DEF h

\* A copy reads the whole content of what it copies.
LEMMA SourceContent ==
    ASSUME StoreIInv, NEW p \in Procs, pc[p] = "copying"
    PROVE  /\ \E f \in Files :
                 file[f] # Blank /\ CopySource(p) = file[f].content
           /\ Len(writers[p]) <= 1 =>
                 CopySource(p) = file[handle[p].file].content
  <1>1. CASE Len(writers[p]) > 1
    <2> DEFINE k == Len(writers[p]) - 1
               w == writers[p][k]
    <2>1. k \in DOMAIN writers[p] /\ Len(writers[p]) \in Nat
      BY <1>1, InnermostWriter DEF StoreIInv
    <2>2. /\ w.file \in Files /\ file[w.file] \in ObjectFile
          /\ w.layout.content_start = file[w.file].content_at
          /\ w.content_length = Len(file[w.file].content)
      BY <2>1, FileSystemAssumption
      DEF StoreIInv, WritersOwnFiles, TypeOK, Files
    <2>3. CopySource(p)
            = StoredContent(w.file, w.layout.content_start, w.content_length)
      BY <1>1 DEF CopySource
    <2> HIDE DEF w
    <2>4. CopySource(p) = file[w.file].content /\ file[w.file] # Blank
      BY <2>2, <2>3, WholeContent, MarkersAssumption
    <2> QED BY <1>1, <2>1, <2>2, <2>4
  <1>2. CASE ~(Len(writers[p]) > 1)
    <2>1. handle[p] # None
      BY <1>2 DEF StoreIInv, CopiesHaveSource
    <2>2. CopySource(p) = StoredContent(handle[p].file,
                                        handle[p].header.content_start,
                                        handle[p].header.content_length)
      BY <1>2 DEF CopySource
    <2> QED BY <2>1, <2>2, HandleContent, MarkersAssumption
  <1> QED BY <1>1, <1>2

\* A process leaves what other processes work with alone.
LEMMA LocalStep ==
    ASSUME StoreIInv, NEW p \in Procs, StepOf(p), NEW q \in Procs, q # p
    PROVE  pc'[q] = pc[q] /\ writers'[q] = writers[q] /\ handle'[q] = handle[q]
  <1>1. /\ pc \in [Procs -> Locations]
        /\ writers \in [Procs -> Seq(ObjectWriter)]
        /\ handle \in [Procs -> TuxObject \cup {None}]
    BY DEF StoreIInv, TypeOK
  <1>2. CASE \/ \E path \in Paths, options \in LayoutChoices, codec \in Codecs,
                   sync \in Syncs, m \in Metadata, t \in Tags :
                    CallerCreates(p, path, options, codec, sync, m, t)
             \/ FinishByRewriting(p)
             \/ \E m \in Metadata : SetMetadata(p, m)
             \/ \E t \in Tags : SetTags(p, t)
             \/ \E m \in Metadata, t \in Tags : SetSections(p, m, t)
    BY <1>2, WhoCreates
  <1>3. CASE \/ \E chunk \in Chunks : Write(p, chunk) \/ Encode(p, chunk)
             \/ \E m \in Metadata, t \in Tags : Mutate(p, m, t)
             \/ Copy(p)
             \/ Finish(p)
    <2>1. PICK w2 \in ObjectWriter : SetWriter(p, w2)
      BY <1>3, WriterKept
    <2>2. handle' = handle
      BY <1>3, WriterKept
    <2>3. writers'[q] = writers[q]
      BY <1>1, <2>1 DEF SetWriter
    <2>4. pc'[q] = pc[q]
      BY <1>1, <1>3 DEF Write, Encode, Mutate, Copy, Finish, Goto
    <2> QED BY <2>2, <2>3, <2>4
  <1>4. CASE \/ \E path \in Paths, writable \in BOOLEAN :
                    Open(p, path, writable)
             \/ Close(p) \/ Kill(p) \/ CallRefused(p)
             \/ WritePrefix(p) \/ SyncAll(p) \/ Rename(p) \/ SyncParent(p)
    BY <1>1, <1>4
    DEF Open, Close, Kill, CallRefused, WritePrefix, SyncAll, Rename,
        SyncParent, SetWriter, Goto, vars, procVars
  <1>5. CASE \/ Abandon(p) \/ RewritingFails(p) \/ CopyRefused(p)
             \/ CallFails(p) \/ RenameFails(p) \/ Reopen(p)
    BY <1>1, <1>5
    DEF Abandon, RewritingFails, CopyRefused, CallFails, RenameFails, Reopen,
        DropWriters, Goto
  <1> QED BY <1>2, <1>3, <1>4, <1>5 DEF StepOf

\* A step of p keeps the bytes of others' writers, of open objects, and of what
\* p has published.
LEMMA FilesKept ==
    ASSUME StoreIInv, NEW p \in Procs, StepOf(p)
    PROVE  /\ \A q \in Procs : q # p =>
                 \A k \in DOMAIN writers[q] :
                    file'[writers[q][k].file] = file[writers[q][k].file]
           /\ \A q \in Procs : handle[q] # None =>
                 file'[handle[q].file] = file[handle[q].file]
           /\ Publishing(p) => file'[Writer(p).file] = file[Writer(p).file]
  <1>1. ASSUME NEW q \in Procs, q # p, NEW k \in DOMAIN writers[q]
        PROVE  file'[writers[q][k].file] = file[writers[q][k].file]
    <2>1. /\ writers[q][k].file \in 1 .. created
          /\ writers[q][k].file \notin OwnedTemps(p)
      BY <1>1 DEF StoreIInv, WritersOwnFiles, WritersApart, OwnedTemps
    <2> QED BY <2>1, BytesOfStep
  <1>2. ASSUME NEW q \in Procs, handle[q] # None
        PROVE  file'[handle[q].file] = file[handle[q].file]
    <2>1. handle[q].file \in 1 .. created /\ handle[q].file \notin OwnedTemps(p)
      BY <1>2, KeptHandle DEF OwnedTemps
    <2> QED BY <2>1, BytesOfStep
  <1>3. ASSUME Publishing(p)
        PROVE  file'[Writer(p).file] = file[Writer(p).file]
    <2>1. pc[p] # "idle"
      BY <1>3 DEF Publishing
    <2>2. /\ Len(writers[p]) \in DOMAIN writers[p]
          /\ Writer(p) = writers[p][Len(writers[p])]
      BY <2>1, InnermostWriter DEF StoreIInv, Writer
    <2>3. /\ Writer(p).file \in 1 .. created
          /\ Writer(p).file \notin OwnedTemps(p)
      BY <1>3, <2>2 DEF StoreIInv, WritersOwnFiles, WritersApart, OwnedTemps
    <2> QED BY <2>3, BytesOfStep
  <1> QED BY <1>1, <1>2, <1>3

\* The content of every file is made of what callers wrote.
LEMMA WrittenStep ==
    ASSUME StoreIInv, ContentIInv, NEW p \in Procs, StepOf(p)
    PROVE  ContentsWritten'
  <1> DEFINE w == Writer(p)
  <1> USE DEF StoreIInv
  <1>1. file \in [Files -> ObjectFile \cup {Blank}] /\ created \in 0 .. MaxFiles
    BY DEF TypeOK
  <1>2. ASSUME UNCHANGED file PROVE ContentsWritten'
    BY <1>2 DEF ContentIInv, ContentsWritten
  <1>3. ASSUME NEW g \in Files, NEW bytes,
               file' = [file EXCEPT ![g] = bytes],
               bytes.content \in Written
        PROVE  ContentsWritten'
    BY <1>1, <1>3 DEF ContentIInv, ContentsWritten
  <1>4. ASSUME NEW D, DeleteTemps(D) PROVE ContentsWritten'
    <2> SUFFICES ASSUME NEW f \in Files, file'[f] # Blank
                 PROVE  file'[f].content \in Written
      BY DEF ContentsWritten
    <2>1. file'[f] = file[f]
      BY <1>4 DEF DeleteTemps
    <2> QED BY <2>1 DEF ContentIInv, ContentsWritten
  <1>5. ASSUME NEW x, CreateFile(NewFile(x)) PROVE ContentsWritten'
    <2>1. Fresh \in Files /\ file' = [file EXCEPT ![Fresh] = NewFile(x)]
      BY <1>1, <1>5, FileSystemAssumption DEF CreateFile, CanCreate, Fresh, Files
    <2>2. NewFile(x).content = <<>> /\ <<>> \in Written
      BY ObjectStoreAssumption DEF NewFile, Written
    <2> QED BY <2>1, <2>2, <1>3
  \* Bytes that are appended, at most as many as the bound leaves.
  <1>6. ASSUME pc[p] # "idle",
               NEW pieces \in Seq(Chunks \cup {Frame(c) : c \in Chunks}),
               w.content_length + Len(pieces) <= MaxContent,
               NEW w1, w1.file = w.file, Receive(p, pieces, w1)
        PROVE  ContentsWritten'
    <2> DEFINE old == file[w.file]
               bytes == [old EXCEPT !.content = @ \o pieces]
    <2>1. /\ w.file \in Files /\ old \in ObjectFile
          /\ Len(old.content) = w.content_length
      <3>1. Len(writers[p]) \in DOMAIN writers[p]
        BY <1>6, InnermostWriter
      <3> QED BY <3>1, FileSystemAssumption
              DEF WritersOwnFiles, Writer, TypeOK, Files
    <2>2. old.content \in Written
      BY <2>1, MarkersAssumption DEF ContentIInv, ContentsWritten
    <2>3. old.content \o pieces \in Written
      BY <2>1, <2>2, <1>6, ObjectStoreAssumption DEF Written
    <2>4. bytes.content = old.content \o pieces
      BY <2>1 DEF ObjectFile
    <2>5. file' = [file EXCEPT ![w.file] = bytes]
      BY <1>6 DEF Receive, WriteFile
    <2> HIDE DEF bytes, old, w
    <2> QED BY <2>1, <2>3, <2>4, <2>5, <1>3
  <1>7. CASE \/ \E path \in Paths, writable \in BOOLEAN :
                    Open(p, path, writable)
             \/ Close(p) \/ Kill(p) \/ CallRefused(p)
             \/ \E m \in Metadata, t \in Tags : Mutate(p, m, t)
             \/ Finish(p) \/ SyncAll(p) \/ Rename(p) \/ SyncParent(p)
    BY <1>7, <1>2
    DEF Open, Close, Kill, CallRefused, Mutate, Finish, SyncAll, Rename,
        SyncParent, SyncFile, RenameFile, SyncDirectory, vars, fsVars
  <1>8. CASE \/ \E path \in Paths, options \in LayoutChoices, codec \in Codecs,
                   sync \in Syncs, m \in Metadata, t \in Tags :
                    CallerCreates(p, path, options, codec, sync, m, t)
             \/ FinishByRewriting(p)
             \/ \E m \in Metadata : SetMetadata(p, m)
             \/ \E t \in Tags : SetTags(p, t)
             \/ \E m \in Metadata, t \in Tags : SetSections(p, m, t)
    BY <1>8, <1>5
    DEF CallerCreates, FinishByRewriting, SetMetadata, SetTags, SetSections,
        Rewrite, Create
  <1>9. CASE \/ Abandon(p) \/ RewritingFails(p) \/ CopyRefused(p)
             \/ CallFails(p) \/ RenameFails(p) \/ Reopen(p)
    BY <1>9, <1>4
    DEF Abandon, RewritingFails, CopyRefused, CallFails, RenameFails, Reopen,
        DropWriters, RemoveTemps
  <1>10. CASE \E chunk \in Chunks : Write(p, chunk) \/ Encode(p, chunk)
    <2>1. PICK chunk \in Chunks : Write(p, chunk) \/ Encode(p, chunk)
      BY <1>10
    <2>2. pc[p] = "writing" /\ w.content_length < MaxContent
      BY <2>1 DEF Write, Encode
    <2>3. w \in ObjectWriter
      BY <2>2, InnermostWriter
    <2>4. w.content_length \in Nat /\ w.content_length + 1 <= MaxContent
      BY <2>2, <2>3, ObjectStoreAssumption DEF ObjectWriter
    <2>5. PICK piece \in Chunks \cup {Frame(c) : c \in Chunks}, w1 \in ObjectWriter :
             w1.file = w.file /\ Receive(p, <<piece>>, w1)
      <3>1. CASE Write(p, chunk)
        BY <3>1, <2>3 DEF Write
      <3>2. CASE Encode(p, chunk)
        <4>1. PICK m \in {w.metadata, WithLength[w.metadata]} :
                 Receive(p, <<Frame(chunk)>>,
                         [w EXCEPT !.allow_raw_writes = TRUE, !.metadata = m])
          BY <3>2 DEF Encode
        <4> DEFINE w1 == [w EXCEPT !.allow_raw_writes = TRUE, !.metadata = m]
        <4>2. m \in Metadata
          BY <2>3, ObjectStoreAssumption DEF ObjectWriter
        <4>3. w1 \in ObjectWriter /\ w1.file = w.file
          BY <2>3, <4>2 DEF ObjectWriter
        <4>4. Receive(p, <<Frame(chunk)>>, w1)
          BY <4>1
        <4> HIDE DEF w1
        <4> QED BY <4>3, <4>4
      <3> QED BY <2>1, <3>1, <3>2
    <2> DEFINE pieces == <<piece>>
    <2>6. /\ pieces \in Seq(Chunks \cup {Frame(c) : c \in Chunks})
          /\ Len(pieces) = 1
      OBVIOUS
    <2>7. Receive(p, pieces, w1)
      BY <2>5
    <2> HIDE DEF pieces, w
    <2> QED BY <2>2, <2>4, <2>5, <2>6, <2>7, <1>6
  <1>11. CASE Copy(p)
    <2>1. pc[p] = "copying" /\ Receive(p, CopySource(p), w)
      BY <1>11 DEF Copy
    <2>2. CopySource(p) \in Written
      BY <2>1, SourceContent DEF ContentIInv, ContentsWritten
    <2>3. w.content_length = 0
      <3>1. Len(writers[p]) \in DOMAIN writers[p]
        BY <2>1, InnermostWriter
      <3>2. Len(file[w.file].content) = w.content_length
        BY <3>1 DEF WritersOwnFiles, Writer
      <3> QED BY <3>2, <2>1 DEF ContentIInv, CopiesIntoEmpty
    <2>4. /\ CopySource(p) \in Seq(Chunks \cup {Frame(c) : c \in Chunks})
          /\ w.content_length + Len(CopySource(p)) <= MaxContent
      BY <2>2, <2>3 DEF Written
    <2> QED BY <2>1, <2>4, <1>6
  <1>12. CASE WritePrefix(p)
    <2> DEFINE old == file[w.file]
               bytes == [old EXCEPT !.header = BuildHeader(w),
                                    !.metadata = w.metadata, !.tags = w.tags]
    <2>1. w.file \in Files /\ old \in ObjectFile
      <3>1. Len(writers[p]) \in DOMAIN writers[p]
        BY <1>12, InnermostWriter DEF WritePrefix
      <3> QED BY <3>1, FileSystemAssumption
              DEF WritersOwnFiles, Writer, TypeOK, Files
    <2>2. bytes.content \in Written
      BY <2>1, MarkersAssumption DEF ContentIInv, ContentsWritten, ObjectFile
    <2>3. file' = [file EXCEPT ![w.file] = bytes]
      BY <1>12 DEF WritePrefix, WriteFile
    <2> HIDE DEF bytes, old, w
    <2> QED BY <2>1, <2>2, <2>3, <1>3
  <1> QED
    BY <1>7, <1>8, <1>9, <1>10, <1>11, <1>12 DEF StepOf

\* What p's own step does to the writer it works with: the file, the path and
\* the codec stay, and its content, unless it is what is being copied.
LEMMA KeepsByEffect ==
    ASSUME StoreIInv, UpdatesKeep, NEW p \in Procs,
           pc[p] \notin {"idle", "copying"}, pc'[p] # "copying",
           Writer(p)'.file = Writer(p).file,
           Writer(p)'.final_path = Writer(p).final_path,
           Writer(p)'.compression = Writer(p).compression,
           handle' = handle,
           file'[Writer(p).file].content = file[Writer(p).file].content,
           handle[p] # None =>
              file'[handle[p].file].content = file[handle[p].file].content
    PROVE  /\ pc'[p] = "copying" => file'[Writer(p)'.file].content = <<>>
           /\ handle'[p] # None /\ pc'[p] # "idle" =>
                 /\ handle'[p].writable = TRUE
                 /\ Writer(p)'.final_path = handle'[p].path
                 /\ Writer(p)'.compression = handle'[p].header.compression_type
                 /\ pc'[p] # "copying" =>
                       file'[Writer(p)'.file].content
                          = file'[handle'[p].file].content
  BY DEF UpdatesKeep

\* The step of a process keeps what is said of its own writer.
LEMMA KeepsOwn ==
    ASSUME StoreIInv, OnceInv, ContentIInv, NEW p \in Procs, StepOf(p)
    PROVE  /\ pc'[p] = "copying" => file'[Writer(p)'.file].content = <<>>
           /\ handle'[p] # None /\ pc'[p] # "idle" =>
                 /\ handle'[p].writable = TRUE
                 /\ Writer(p)'.final_path = handle'[p].path
                 /\ Writer(p)'.compression = handle'[p].header.compression_type
                 /\ pc'[p] # "copying" =>
                       file'[Writer(p)'.file].content
                          = file'[handle'[p].file].content
  <1> DEFINE w == Writer(p)
             Keeps ==
               /\ pc'[p] = "copying" => file'[Writer(p)'.file].content = <<>>
               /\ handle'[p] # None /\ pc'[p] # "idle" =>
                     /\ handle'[p].writable = TRUE
                     /\ Writer(p)'.final_path = handle'[p].path
                     /\ Writer(p)'.compression
                           = handle'[p].header.compression_type
                     /\ pc'[p] # "copying" =>
                           file'[Writer(p)'.file].content
                              = file'[handle'[p].file].content
  <1>1. /\ pc \in [Procs -> Locations]
        /\ writers \in [Procs -> Seq(ObjectWriter)]
        /\ handle \in [Procs -> TuxObject \cup {None}]
        /\ file \in [Files -> ObjectFile \cup {Blank}]
    BY DEF StoreIInv, TypeOK
  <1>2. handle[p] # None => file'[handle[p].file] = file[handle[p].file]
    BY FilesKept
  <1>3. CASE \/ \E path \in Paths, writable \in BOOLEAN :
                    Open(p, path, writable)
             \/ Close(p) \/ Kill(p) \/ CallRefused(p)
             \/ Abandon(p) \/ RewritingFails(p) \/ CopyRefused(p)
             \/ CallFails(p) \/ RenameFails(p) \/ Reopen(p)
    <2>1. pc'[p] = "idle"
      BY <1>1, <1>3
      DEF Open, Close, Kill, CallRefused, vars, procVars, Abandon,
          RewritingFails, CopyRefused, CallFails, RenameFails, Reopen,
          DropWriters, Goto
    <2> QED BY <2>1
  <1>4. CASE \/ \E path \in Paths, options \in LayoutChoices, codec \in Codecs,
                   sync \in Syncs, m \in Metadata, t \in Tags :
                    CallerCreates(p, path, options, codec, sync, m, t)
             \/ FinishByRewriting(p)
             \/ \E m \in Metadata : SetMetadata(p, m)
             \/ \E t \in Tags : SetTags(p, t)
             \/ \E m \in Metadata, t \in Tags : SetSections(p, m, t)
    <2>1. /\ handle' = handle
          /\ file'[Fresh].content = <<>> /\ Writer(p)'.file = Fresh
          /\ \/ handle[p] = None
             \/ FinishByRewriting(p)
             \/ /\ handle[p] # None /\ pc'[p] = "copying"
                /\ handle[p].writable
                /\ Writer(p)'.final_path = handle[p].path
                /\ Writer(p)'.compression = handle[p].header.compression_type
      BY <1>4, WhoCreates
    <2>2. FinishByRewriting(p) => handle[p] = None
      BY DEF FinishByRewriting, AtFinish, OnceInv, OnceAt
    <2>3. handle[p] # None => handle[p].writable \in BOOLEAN
      BY <1>1 DEF TuxObject
    <2>4. handle[p] # None /\ handle[p].writable => handle[p].writable = TRUE
      BY <2>3
    <2> QED BY <2>1, <2>2, <2>4
  <1>5. CASE \/ \E chunk \in Chunks : Write(p, chunk) \/ Encode(p, chunk)
             \/ \E m \in Metadata, t \in Tags : Mutate(p, m, t)
    <2>1. pc[p] = "writing" /\ pc' = pc /\ handle' = handle
      BY <1>5 DEF Write, Encode, Mutate
    <2>2. handle[p] = None
      BY <2>1 DEF OnceInv, OnceAt
    <2> QED BY <2>1, <2>2
  <1>6. CASE Finish(p) \/ Copy(p)
    <2>1. PICK w2 \in ObjectWriter :
             /\ SetWriter(p, w2)
             /\ w2.file = w.file /\ w2.final_path = w.final_path
             /\ w2.compression = w.compression
      BY <1>6, WriterKept
    <2>2. pc[p] # "idle" /\ handle' = handle
      BY <1>6, WriterKept
    <2>3. Writer(p)' = w2
      BY <2>1, <2>2, SetWriterEffect DEF StoreIInv, Writer
    <2>4. CASE Finish(p)
      <3>1. /\ pc[p] \notin {"idle", "copying"} /\ pc'[p] # "copying"
            /\ file' = file
        BY <1>1, <2>4 DEF Finish, AtFinish, Goto, fsVars
      <3> QED BY <2>1, <2>2, <2>3, <3>1, KeepsByEffect DEF ContentIInv
    <2>5. CASE Copy(p)
      <3>1. /\ pc[p] = "copying" /\ pc'[p] = "finishing"
            /\ Receive(p, CopySource(p), w)
        BY <1>1, <2>5 DEF Copy, Goto
      <3>2. Len(writers[p]) \in DOMAIN writers[p]
        BY <2>2, InnermostWriter DEF StoreIInv
      <3>3. w.file \in Files /\ file[w.file] \in ObjectFile
        BY <3>2, FileSystemAssumption
        DEF StoreIInv, WritersOwnFiles, TypeOK, Files, Writer
      <3>4. file[w.file].content = <<>>
        BY <3>1 DEF ContentIInv, CopiesIntoEmpty
      <3>5. CopySource(p) \in Seq(Pieces)
        BY <3>1, SourceIsPieces
      <3>6. file'[w.file].content = <<>> \o CopySource(p)
        BY <1>1, <3>1, <3>3, <3>4 DEF Receive, WriteFile, ObjectFile
      <3>7. file'[w.file].content = CopySource(p)
        BY <3>5, <3>6
      <3>8. ASSUME handle[p] # None
            PROVE  /\ handle[p].writable = TRUE
                   /\ w.final_path = handle[p].path
                   /\ w.compression = handle[p].header.compression_type
                   /\ CopySource(p) = file[handle[p].file].content
        <4>1. Len(writers[p]) <= 1
          BY <3>8 DEF OnceInv, OnceAt
        <4> QED BY <3>1, <3>8, <4>1, SourceContent DEF ContentIInv, UpdatesKeep
      <3>9. handle[p] # None =>
               file'[w.file].content = file'[handle[p].file].content
        BY <1>2, <3>7, <3>8
      <3> QED BY <2>1, <2>2, <2>3, <3>1, <3>8, <3>9
    <2> QED BY <1>6, <2>4, <2>5
  <1>7. CASE WritePrefix(p) \/ SyncAll(p) \/ Rename(p) \/ SyncParent(p)
    <2>1. /\ pc[p] \notin {"idle", "copying"} /\ pc'[p] # "copying"
          /\ handle' = handle
      BY <1>1, <1>7
      DEF WritePrefix, SyncAll, Rename, SyncParent, Goto, AfterPrefix,
          AfterRename
    <2>2. /\ Len(writers[p]) \in DOMAIN writers[p] /\ w \in ObjectWriter
      BY <2>1, InnermostWriter DEF StoreIInv
    <2>3. /\ w.file \in Files /\ file[w.file] \in ObjectFile
      BY <2>2, FileSystemAssumption
      DEF StoreIInv, WritersOwnFiles, TypeOK, Files, Writer
    <2>4. file'[w.file].content = file[w.file].content
      <3>1. CASE WritePrefix(p)
        <4> DEFINE bytes == [file[w.file] EXCEPT !.header = BuildHeader(w),
                                                 !.metadata = w.metadata,
                                                 !.tags = w.tags]
        <4>1. file' = [file EXCEPT ![w.file] = bytes]
          BY <3>1 DEF WritePrefix, WriteFile
        <4>2. bytes.content = file[w.file].content
          BY <2>3 DEF ObjectFile
        <4> HIDE DEF bytes, w
        <4> QED BY <1>1, <2>3, <4>1, <4>2
      <3>2. CASE ~WritePrefix(p)
        <4>1. file' = file
          BY <1>7, <3>2
          DEF SyncAll, Rename, SyncParent, SyncFile, RenameFile, SyncDirectory,
              fsVars
        <4> QED BY <4>1
      <3> QED BY <3>1, <3>2
    <2>5. /\ Writer(p)'.file = w.file /\ Writer(p)'.final_path = w.final_path
          /\ Writer(p)'.compression = w.compression
      <3>1. CASE ~Rename(p)
        <4>1. writers' = writers
          BY <1>7, <3>1 DEF WritePrefix, SyncAll, SyncParent
        <4> QED BY <4>1 DEF Writer
      <3>2. CASE Rename(p)
        <4> DEFINE w2 == [w EXCEPT !.temp_path = FALSE]
        <4>1. /\ w2 \in ObjectWriter /\ w2.file = w.file
              /\ w2.final_path = w.final_path /\ w2.compression = w.compression
          BY <2>2 DEF ObjectWriter
        <4>2. SetWriter(p, w2)
          BY <3>2 DEF Rename
        <4> HIDE DEF w2
        <4>3. Writer(p)' = w2
          BY <2>1, <4>1, <4>2, SetWriterEffect DEF StoreIInv, Writer
        <4> QED BY <4>1, <4>3
      <3> QED BY <3>1, <3>2
    <2> QED BY <1>2, <2>1, <2>4, <2>5, KeepsByEffect DEF ContentIInv
  <1> QED BY <1>3, <1>4, <1>5, <1>6, <1>7 DEF StepOf

LEMMA ContentInit == Init => ContentIInv
  BY DEF Init, FsInit, ContentIInv, ContentsWritten, CopiesIntoEmpty, UpdatesKeep

LEMMA ContentStep ==
    ASSUME StoreIInv, OnceInv, ContentIInv, [Next]_vars, ~PowerLoss
    PROVE  ContentIInv'
  <1>1. CASE UNCHANGED vars
    BY <1>1
    DEF vars, fsVars, procVars, ContentIInv, ContentsWritten, CopiesIntoEmpty,
        UpdatesKeep, Writer
  <1>2. ASSUME NEW p \in Procs, StepOf(p)
        PROVE  ContentIInv'
    <2>1. ContentsWritten'
      BY <1>2, WrittenStep
    <2>2. ASSUME NEW q \in Procs
          PROVE  /\ pc'[q] = "copying" => file'[Writer(q)'.file].content = <<>>
                 /\ handle'[q] # None /\ pc'[q] # "idle" =>
                       /\ handle'[q].writable = TRUE
                       /\ Writer(q)'.final_path = handle'[q].path
                       /\ Writer(q)'.compression
                             = handle'[q].header.compression_type
                       /\ pc'[q] # "copying" =>
                             file'[Writer(q)'.file].content
                                = file'[handle'[q].file].content
      <3>1. CASE q = p
        BY <1>2, <3>1, KeepsOwn
      <3>2. CASE q # p
        <4>1. pc'[q] = pc[q] /\ writers'[q] = writers[q] /\ handle'[q] = handle[q]
          BY <1>2, <3>2, LocalStep
        <4>2. Writer(q)' = Writer(q)
          BY <4>1 DEF Writer
        <4>3. pc[q] # "idle" =>
                 file'[Writer(q).file] = file[Writer(q).file]
          <5>1. pc[q] # "idle" => Len(writers[q]) \in DOMAIN writers[q]
            BY InnermostWriter DEF StoreIInv
          <5> QED BY <5>1, <1>2, <3>2, FilesKept DEF Writer
        <4>4. handle[q] # None => file'[handle[q].file] = file[handle[q].file]
          BY <1>2, FilesKept
        <4> QED BY <4>1, <4>2, <4>3, <4>4 DEF ContentIInv, CopiesIntoEmpty,
                                             UpdatesKeep
      <3> QED BY <3>1, <3>2
    <2> QED BY <2>1, <2>2 DEF ContentIInv, CopiesIntoEmpty, UpdatesKeep
  <1> QED BY <1>1, <1>2, WhoSteps


-----------------------------------------------------------------------------
(* The mapped state.                                                       *)

\* store, view and call are functions, in every state.
LEMMA MappedFunctions ==
    /\ \A path \in Paths : store[path] = IF Openable(path)
                                         THEN ReadFile(Current(path)) ELSE None
    /\ store = [path \in Paths |-> store[path]]
    /\ store' = [path \in Paths |-> store'[path]]
    /\ view = [q \in Procs |-> view[q]]
    /\ view' = [q \in Procs |-> view'[q]]
    /\ call = [q \in Procs |-> call[q]]
    /\ call' = [q \in Procs |-> call'[q]]
  BY DEF store, view, call

\* What is read from a file depends on its bytes only.
LEMMA SameReads ==
    ASSUME NEW f, file'[f] = file[f], NEW header, NEW metadata, NEW tags
    PROVE  /\ ReadFile(f)' = ReadFile(f)
           /\ Read(f, header, metadata, tags)' = Read(f, header, metadata, tags)
           /\ StoredContent(f, header.content_start, header.content_length)'
                 = StoredContent(f, header.content_start, header.content_length)
  BY DEF ReadFile, Read, StoredContent

\* A whole file reads as an object of the register, with its own content.
LEMMA WholeReads ==
    ASSUME StoreIInv, ContentsWritten, RegisterApplies,
           NEW f \in 1 .. created, Complete(f)
    PROVE  /\ ReadFile(f) \in Objects
           /\ ReadFile(f).content = file[f].content
           /\ ReadFile(f).compression_type = file[f].header.compression_type
  <1>1. f \in Files /\ file[f] \in ObjectFile /\ file[f] # Blank
    BY FileSystemAssumption DEF StoreIInv, TypeOK, Files, Complete
  <1>2. /\ file[f].header \in ObjectHeader
        /\ file[f].header.content_start = file[f].content_at
        /\ file[f].header.content_length = Len(file[f].content)
    BY <1>1 DEF Complete, ObjectFile
  <1>3. StoredContent(f, file[f].header.content_start,
                      file[f].header.content_length) = file[f].content
    BY <1>1, <1>2, WholeContent
  <1>4. file[f].content \in Contents
    BY <1>1 DEF ContentsWritten, RegisterApplies
  <1>5. file[f].header.compression_type \in Codecs
    BY <1>2 DEF ObjectHeader
  <1>6. ReadFile(f) = [metadata |-> file[f].metadata, tags |-> file[f].tags,
                       content |-> file[f].content,
                       compression_type |-> file[f].header.compression_type]
    BY <1>3 DEF ReadFile, Read
  <1> QED BY <1>4, <1>5, <1>6 DEF Complete, Objects

\* What a path holds, if it holds something, is an object of the register.
LEMMA StoreHolds ==
    ASSUME StoreIInv, ContentsWritten, RegisterApplies,
           NEW path \in Paths, Openable(path)
    PROVE  /\ Current(path) \in 1 .. created /\ Complete(Current(path))
           /\ store[path] = ReadFile(Current(path))
           /\ store[path] \in Objects /\ store[path] # None
  <1>1. Current(path) # NoFile
    BY DEF Openable
  <1>2. PICK i \in DOMAIN names[path] : Current(path) = names[path][i]
    BY CurrentIsAName DEF StoreIInv
  <1>3. Current(path) \in 1 .. created /\ Complete(Current(path))
    BY <1>1, <1>2 DEF StoreIInv, NamesComplete
  <1>4. ReadFile(Current(path)) \in Objects
    BY <1>3, WholeReads
  <1>5. store[path] = ReadFile(Current(path))
    BY MappedFunctions
  <1> QED BY <1>3, <1>4, <1>5 DEF RegisterApplies

\* What a process sees through an open object is what its file reads.
LEMMA ViewHolds ==
    ASSUME StoreIInv, ContentsWritten, RegisterApplies,
           NEW p \in Procs, handle[p] # None
    PROVE  /\ view[p] = [object   |-> ReadFile(handle[p].file),
                         path     |-> handle[p].path,
                         writable |-> handle[p].writable]
           /\ view[p] # None
  <1> DEFINE h == handle[p]
  <1>1. /\ h \in TuxObject /\ h.file \in 1 .. created /\ Complete(h.file)
        /\ h.header = file[h.file].header /\ h.metadata = file[h.file].metadata
    BY KeptHandle
  <1>2. ReadTags(h) = file[h.file].tags
    BY <1>1 DEF ReadTags
  <1>3. view[p] = [object |-> Read(h.file, h.header, h.metadata, ReadTags(h)),
                   path |-> h.path, writable |-> h.writable]
    BY DEF view
  <1>4. ReadFile(h.file) \in Objects
    BY <1>1, WholeReads
  <1> HIDE DEF h
  <1>5. view[p] = [object |-> ReadFile(h.file), path |-> h.path,
                   writable |-> h.writable]
    BY <1>1, <1>2, <1>3 DEF ReadFile
  <1>6. view[p] \in Register!Snapshot
    BY <1>1, <1>4, <1>5 DEF Register!Snapshot, TuxObject
  <1> QED BY <1>5, <1>6 DEF RegisterApplies, h

\* Between its rename and its return, a call has published what its file reads.
LEMMA CallHolds ==
    ASSUME StoreIInv, ContentsWritten, RegisterApplies,
           NEW p \in Procs, Publishing(p)
    PROVE  /\ call[p] = [object |-> ReadFile(Writer(p).file),
                         path   |-> Writer(p).final_path]
           /\ call[p] # None
  <1>1. pc[p] \in {"rename", "fsyncdir", "reopen"} /\ pc[p] # "idle"
    BY DEF Publishing
  <1>2. ReadFile(Writer(p).file) \in Objects
    BY <1>1, FinishedIsComplete, WholeReads
  <1>3. Writer(p).final_path \in Paths
    BY <1>1, InnermostWriter DEF StoreIInv, ObjectWriter
  <1>4. call[p] = [object |-> ReadFile(Writer(p).file),
                   path   |-> Writer(p).final_path]
    BY DEF call, Publishing
  <1>5. call[p] \in Register!Publication
    BY <1>2, <1>3, <1>4 DEF Register!Publication
  <1> QED BY <1>4, <1>5 DEF RegisterApplies

LEMMA NothingHeld ==
    ASSUME NEW p \in Procs
    PROVE  /\ handle[p] = None => view[p] = None
           /\ ~Publishing(p) => call[p] = None
           /\ handle'[p] = None => view'[p] = None
           /\ ~Publishing(p)' => call'[p] = None
  BY DEF view, call, Publishing

-----------------------------------------------------------------------------
(* What a step leaves alone.                                               *)

\* A path goes on naming what it named until a process renames over it.
LEMMA NamesKept ==
    ASSUME StoreIInv, NEW p \in Procs, StepOf(p), ~Rename(p),
           NEW path \in Paths
    PROVE  Current(path)' = Current(path)
  <1>1. CASE SyncParent(p)
    <2>1. SyncDirectory \/ UNCHANGED fsVars
      BY <1>1 DEF SyncParent
    <2>2. CASE UNCHANGED fsVars
      BY <2>2 DEF fsVars, Current
    <2>3. CASE SyncDirectory
      <3>1. PICK f : f = Current(path)
        OBVIOUS
      <3>2. names' = [path1 \in Paths |-> <<Current(path1)>>]
        BY <2>3 DEF SyncDirectory
      <3>3. names'[path] = <<f>>
        BY <3>1, <3>2
      <3> QED BY <3>1, <3>3 DEF Current
    <2> QED BY <2>1, <2>2, <2>3
  <1>2. CASE ~SyncParent(p)
    <2>1. CASE \/ \E path1 \in Paths, writable \in BOOLEAN :
                      Open(p, path1, writable)
               \/ Close(p) \/ Kill(p) \/ CallRefused(p)
               \/ WritePrefix(p) \/ SyncAll(p)
               \/ Abandon(p) \/ RewritingFails(p) \/ CopyRefused(p)
               \/ CallFails(p) \/ RenameFails(p) \/ Reopen(p)
      <3>1. names' = names
        BY <2>1
        DEF Open, Close, Kill, CallRefused, WritePrefix, SyncAll, WriteFile,
            SyncFile, Abandon, RewritingFails, CopyRefused, CallFails,
            RenameFails, Reopen, DropWriters, RemoveTemps, DeleteTemps, vars,
            fsVars
      <3> QED BY <3>1 DEF Current
    <2>2. CASE \/ \E path1 \in Paths, options \in LayoutChoices,
                     codec \in Codecs, sync \in Syncs, m \in Metadata,
                     t \in Tags :
                      CallerCreates(p, path1, options, codec, sync, m, t)
               \/ FinishByRewriting(p)
               \/ \E m \in Metadata : SetMetadata(p, m)
               \/ \E t \in Tags : SetTags(p, t)
               \/ \E m \in Metadata, t \in Tags : SetSections(p, m, t)
      <3>1. names' = names
        BY <2>2, WhoCreates
      <3> QED BY <3>1 DEF Current
    <2>3. CASE \/ \E chunk \in Chunks : Write(p, chunk) \/ Encode(p, chunk)
               \/ \E m \in Metadata, t \in Tags : Mutate(p, m, t)
               \/ Copy(p)
               \/ Finish(p)
      <3>1. names' = names
        BY <2>3, WriterKept
      <3> QED BY <3>1 DEF Current
    <2> QED BY <1>2, <2>1, <2>2, <2>3 DEF StepOf
  <1> QED BY <1>1, <1>2

\* A file a path names keeps its bytes.
LEMMA NamedFilesKept ==
    ASSUME StoreIInv, NEW p \in Procs, StepOf(p), NEW path \in Paths,
           Current(path) # NoFile
    PROVE  file'[Current(path)] = file[Current(path)]
  <1>1. PICK i \in DOMAIN names[path] : Current(path) = names[path][i]
    BY CurrentIsAName DEF StoreIInv
  <1>2. Current(path) \in 1 .. created /\ Current(path) \notin OwnedTemps(p)
    BY <1>1 DEF StoreIInv, NamesComplete, TempsUnpublished, OwnedTemps
  <1> QED BY <1>2, BytesOfStep

\* A path whose name stays holds what it held.
LEMMA SamePath ==
    ASSUME StoreIInv, NEW p \in Procs, StepOf(p), NEW path \in Paths,
           Current(path)' = Current(path)
    PROVE  store'[path] = store[path]
  <1>1. PICK f : f = Current(path)
    OBVIOUS
  <1>2. f = Current(path)'
    BY <1>1
  <1>3. f # NoFile => file'[f] = file[f]
    BY <1>1, NamedFilesKept
  <1>4. /\ store[path] = IF f = NoFile \/ file[f] = Blank THEN None
                         ELSE IF file[f].header # None THEN ReadFile(f) ELSE None
        /\ store'[path] = IF f = NoFile \/ file'[f] = Blank THEN None
                          ELSE IF file'[f].header # None THEN ReadFile(f)'
                          ELSE None
    <2>1. store[path] = IF f = NoFile \/ file[f] = Blank THEN None
                        ELSE IF file[f].header # None THEN ReadFile(f) ELSE None
      BY <1>1 DEF store, Openable
    <2>2. store'[path] = IF f = NoFile \/ file'[f] = Blank THEN None
                         ELSE IF file'[f].header # None THEN ReadFile(f)'
                         ELSE None
      <3>1. store'[path] = IF Openable(path)' THEN ReadFile(Current(path))'
                           ELSE None
        BY DEF store
      <3>2. Openable(path)' <=>
              (IF f = NoFile \/ file'[f] = Blank THEN FALSE
               ELSE file'[f].header # None)
        BY <1>2 DEF Openable
      <3>3. ReadFile(Current(path))' = ReadFile(f)'
        BY <1>2 DEF ReadFile, Read, StoredContent
      <3> QED BY <3>1, <3>2, <3>3
    <2> QED BY <2>1, <2>2
  <1>5. CASE f = NoFile
    BY <1>4, <1>5
  <1>6. CASE f # NoFile
    <2>1. ReadFile(f)' = ReadFile(f)
      BY <1>3, <1>6, SameReads
    <2> QED BY <1>3, <1>4, <1>6, <2>1
  <1> QED BY <1>5, <1>6

LEMMA StoreKept ==
    ASSUME StoreIInv, NEW p \in Procs, StepOf(p), ~Rename(p)
    PROVE  store' = store
  <1>1. \A path \in Paths : store'[path] = store[path]
    BY NamesKept, SamePath
  <1> QED BY <1>1, MappedFunctions

\* An open object that stays shows what it showed.
LEMMA SameView ==
    ASSUME NEW q \in Procs, handle'[q] = handle[q],
           handle[q] # None => file'[handle[q].file] = file[handle[q].file]
    PROVE  view'[q] = view[q]
  <1>1. CASE handle[q] = None
    BY <1>1 DEF view
  <1>2. CASE handle[q] # None
    <2>1. PICK h : h = handle[q]
      OBVIOUS
    <2>2. h = handle'[q] /\ h # None /\ file'[h.file] = file[h.file]
      BY <1>2, <2>1
    <2>3. PICK tags : tags = ReadTags(h)
      OBVIOUS
    <2>4. tags = ReadTags(h)'
      BY <2>2, <2>3 DEF ReadTags
    <2>5. view[q] = [object |-> Read(h.file, h.header, h.metadata, tags),
                     path |-> h.path, writable |-> h.writable]
      BY <2>1, <2>2, <2>3 DEF view
    <2>6. view'[q] = [object |-> Read(h.file, h.header, h.metadata, tags)',
                      path |-> h.path, writable |-> h.writable]
      BY <2>2, <2>4 DEF view, Read, StoredContent
    <2>7. Read(h.file, h.header, h.metadata, tags)'
             = Read(h.file, h.header, h.metadata, tags)
      BY <2>2 DEF Read, StoredContent
    <2> QED BY <2>5, <2>6, <2>7
  <1> QED BY <1>1, <1>2

\* A call that stays between its rename and its return has published the same.
LEMMA SameCall ==
    ASSUME NEW q \in Procs, Publishing(q), Publishing(q)',
           Writer(q)' = Writer(q),
           file'[Writer(q).file] = file[Writer(q).file]
    PROVE  call'[q] = call[q]
  <1>1. PICK w : w = Writer(q)
    OBVIOUS
  <1>2. w = Writer(q)' /\ file'[w.file] = file[w.file]
    BY <1>1
  <1>3. call[q] = [object |-> ReadFile(w.file), path |-> w.final_path]
    BY <1>1 DEF call, Publishing
  <1>4. call'[q] = [object |-> ReadFile(w.file)', path |-> w.final_path]
    BY <1>2 DEF call, Publishing, ReadFile, Read, StoredContent
  <1>5. ReadFile(w.file)' = ReadFile(w.file)
    BY <1>2 DEF ReadFile, Read, StoredContent
  <1> QED BY <1>3, <1>4, <1>5

\* Other processes notice nothing.
LEMMA OthersKept ==
    ASSUME StoreIInv, NEW p \in Procs, StepOf(p), NEW q \in Procs, q # p
    PROVE  view'[q] = view[q] /\ call'[q] = call[q]
  <1>1. pc'[q] = pc[q] /\ writers'[q] = writers[q] /\ handle'[q] = handle[q]
    BY LocalStep
  <1>2. view'[q] = view[q]
    BY <1>1, FilesKept, SameView
  <1>3. CASE Publishing(q)
    <2>1. Len(writers[q]) \in DOMAIN writers[q]
      BY <1>3, InnermostWriter DEF Publishing, StoreIInv
    <2>2. file'[Writer(q).file] = file[Writer(q).file]
      BY <2>1, FilesKept DEF Writer
    <2>3. Publishing(q)' /\ Writer(q)' = Writer(q)
      BY <1>1, <1>3 DEF Publishing, Writer
    <2> QED BY <1>2, <1>3, <2>2, <2>3, SameCall
  <1>4. CASE ~Publishing(q)
    <2>1. ~Publishing(q)'
      BY <1>1, <1>4 DEF Publishing
    <2> QED BY <1>2, <1>4, <2>1, NothingHeld
  <1> QED BY <1>3, <1>4


-----------------------------------------------------------------------------
(* Each step of the store is a step of the register, or none.              *)

\* The step of a process that neither publishes nor ends a publication shows in
\* the register only by what it does to the view of the process.
LEMMA QuietStep ==
    ASSUME StoreIInv, NEW p \in Procs, StepOf(p), ~Rename(p),
           ~Publishing(p), ~Publishing(p)'
    PROVE  /\ store' = store /\ call' = call
           /\ call[p] = None
           /\ \A q \in Procs : q # p => view'[q] = view[q]
           /\ handle'[p] = handle[p] => view' = view
  <1>1. store' = store
    BY StoreKept
  <1>2. \A q \in Procs : q # p => view'[q] = view[q] /\ call'[q] = call[q]
    BY OthersKept
  <1>3. call[p] = None /\ call'[p] = None
    BY NothingHeld
  <1>4. \A q \in Procs : call'[q] = call[q]
    BY <1>2, <1>3
  <1>5. call' = call
    BY <1>4, MappedFunctions
  <1>6. ASSUME handle'[p] = handle[p] PROVE view' = view
    <2>1. view'[p] = view[p]
      BY <1>6, FilesKept, SameView
    <2>2. \A q \in Procs : view'[q] = view[q]
      BY <1>2, <2>1
    <2> QED BY <2>2, MappedFunctions
  <1> QED BY <1>1, <1>2, <1>3, <1>5, <1>6

LEMMA OpenRefines ==
    ASSUME StoreIInv, ContentIInv, RegisterApplies,
           NEW p \in Procs, NEW path \in Paths, NEW writable \in BOOLEAN,
           Open(p, path, writable)
    PROVE  Register!Open(p, path, writable)
  <1> DEFINE f == Current(path)
  <1>1. StepOf(p)
    BY DEF StepOf
  <1>2. /\ ~Rename(p) /\ ~Publishing(p) /\ ~Publishing(p)'
        /\ file' = file
    BY DEF Open, Rename, Publishing, fsVars
  <1>3. /\ store' = store /\ call' = call /\ call[p] = None
        /\ \A q \in Procs : q # p => view'[q] = view[q]
    BY <1>1, <1>2, QuietStep
  <1>4. store[path] = ReadFile(f) /\ store[path] # None
    BY StoreHolds DEF Open, ContentIInv
  <1>5. f \in 1 .. created /\ Complete(f)
    BY StoreHolds DEF Open, ContentIInv
  <1>6. view[p] = None
    BY NothingHeld DEF Open
  <1>7. view'[p] = [object |-> ReadFile(f), path |-> path, writable |-> writable]
    <2> DEFINE h == [file |-> f, path |-> path, header |-> file[f].header,
                     metadata |-> file[f].metadata, writable |-> writable]
    <2>1. PICK g : g = h
      OBVIOUS
    <2>2. /\ g.file = f /\ g.path = path /\ g.header = file[f].header
          /\ g.metadata = file[f].metadata /\ g.writable = writable
      BY <2>1
    <2>3. handle'[p] = g /\ g # None
      <3>1. handle' = [handle EXCEPT ![p] = g]
        BY <2>1 DEF Open
      <3>2. handle'[p] = g
        BY <3>1 DEF StoreIInv, TypeOK
      <3>3. g \in TuxObject
        <4>1. f \in Files /\ file[f] \in ObjectFile
          BY <1>5, FileSystemAssumption
          DEF StoreIInv, TypeOK, Files, Complete
        <4>2. file[f].header \in ObjectHeader /\ file[f].metadata \in Metadata
          BY <1>5, <4>1 DEF Complete, ObjectFile
        <4> QED BY <2>1, <4>1, <4>2 DEF TuxObject
      <3> QED BY <3>2, <3>3, MarkersAssumption
    <2>4. view'[p] = [object |-> Read(g.file, g.header, g.metadata, ReadTags(g))',
                      path |-> g.path, writable |-> g.writable]
      BY <2>3 DEF view, Read, StoredContent, ReadTags
    <2>5. Read(g.file, g.header, g.metadata, ReadTags(g))'
             = Read(g.file, g.header, g.metadata, ReadTags(g))
      BY <1>2 DEF Read, StoredContent, ReadTags
    <2>6. ReadTags(g) = file[f].tags
      BY <2>2 DEF ReadTags
    <2> HIDE DEF f
    <2> QED BY <2>2, <2>4, <2>5, <2>6 DEF ReadFile
  <1>8. view' = [view EXCEPT ![p] =
            [object |-> store[path], path |-> path, writable |-> writable]]
    BY <1>3, <1>4, <1>7, MappedFunctions
  <1> QED BY <1>3, <1>4, <1>6, <1>8 DEF Register!Open

\* Close, and the end of a process: its view goes, and what it published last.
LEMMA CloseRefines ==
    ASSUME StoreIInv, ContentIInv, RegisterApplies,
           NEW p \in Procs, Close(p)
    PROVE  Register!Close(p)
  <1>1. StepOf(p)
    BY DEF StepOf
  <1>2. /\ ~Rename(p) /\ ~Publishing(p) /\ ~Publishing(p)'
        /\ handle[p] # None
    BY DEF Close, Rename, Publishing
  <1>3. /\ store' = store /\ call' = call /\ call[p] = None
        /\ \A q \in Procs : q # p => view'[q] = view[q]
    BY <1>1, <1>2, QuietStep
  <1>4. view[p] # None
    BY <1>2, ViewHolds DEF ContentIInv
  <1>5. handle'[p] = None
    BY DEF Close, StoreIInv, TypeOK
  <1>6. view'[p] = None
    BY <1>5, NothingHeld
  <1>7. view' = [view EXCEPT ![p] = None]
    BY <1>3, <1>6, MappedFunctions
  <1> QED BY <1>3, <1>4, <1>7 DEF Register!Close

LEMMA KillRefines ==
    ASSUME StoreIInv, NEW p \in Procs, Kill(p)
    PROVE  Register!Exit(p)
  <1>1. StepOf(p) /\ ~Rename(p)
    <2>1. StepOf(p)
      BY DEF StepOf
    <2>2. ~Rename(p)
      BY DEF Kill, Rename, StoreIInv, TypeOK, Goto, AfterRename
    <2> QED BY <2>1, <2>2
  <1>2. handle'[p] = None /\ ~Publishing(p)'
    BY DEF Kill, StoreIInv, TypeOK, Publishing
  <1>3. view'[p] = None /\ call'[p] = None
    BY <1>2, NothingHeld
  <1>4. \A q \in Procs : q # p => view'[q] = view[q] /\ call'[q] = call[q]
    BY <1>1, OthersKept
  <1>5. store' = store
    BY <1>1, StoreKept
  <1>6. /\ view' = [view EXCEPT ![p] = None]
        /\ call' = [call EXCEPT ![p] = None]
    BY <1>3, <1>4, MappedFunctions
  <1> QED BY <1>5, <1>6 DEF Register!Exit


\* What a call published becomes the view of its process: finish hands over what
\* it renamed without reading it back.
LEMMA ReopenRefines ==
    ASSUME StoreIInv, ContentIInv, RegisterApplies,
           NEW p \in Procs, Reopen(p)
    PROVE  Register!Return(p)
  <1>1. StepOf(p) /\ pc[p] = "reopen" /\ Publishing(p)
    BY DEF StepOf, Reopen, Publishing
  <1>2. ~Rename(p)
    BY <1>1 DEF Rename
  <1>3. store' = store
    BY <1>1, <1>2, StoreKept
  <1>4. \A q \in Procs : q # p => view'[q] = view[q] /\ call'[q] = call[q]
    BY <1>1, OthersKept
  <1>5. call'[p] = None
    <2>1. pc'[p] = "idle"
      BY DEF Reopen, Goto, StoreIInv, TypeOK
    <2> QED BY <2>1, NothingHeld DEF Publishing
  <1>6. PICK w : w = Writer(p)
    OBVIOUS
  <1>7. /\ call[p] = [object |-> ReadFile(w.file), path |-> w.final_path]
        /\ call[p] # None
    BY <1>1, <1>6, CallHolds DEF ContentIInv
  <1>8. view'[p] = [object |-> ReadFile(w.file), path |-> w.final_path,
                    writable |-> TRUE]
    <2>1. PICK g : g = [file |-> w.file, path |-> w.final_path,
                        header |-> BuildHeader(w), metadata |-> w.metadata,
                        writable |-> TRUE]
      OBVIOUS
    <2>2. /\ g.file = w.file /\ g.path = w.final_path
          /\ g.header = BuildHeader(w) /\ g.metadata = w.metadata
          /\ g.writable = TRUE
      BY <2>1
    <2>3. /\ w \in ObjectWriter /\ w.file \in Files
          /\ BuildHeader(w) \in ObjectHeader
          /\ file[w.file].header = BuildHeader(w)
          /\ file[w.file].metadata = w.metadata
      BY <1>1, <1>6, InnermostWriter, FinishedIsComplete
      DEF StoreIInv, ObjectWriter
    <2>4. g # None
      <3>1. g \in TuxObject
        BY <2>1, <2>3 DEF TuxObject, ObjectWriter
      <3> QED BY <3>1, MarkersAssumption
    <2>5. handle'[p] = g
      BY <1>6, <2>1 DEF Reopen, StoreIInv, TypeOK
    <2>6. file'[g.file] = file[g.file]
      BY <1>1, <1>6, <2>2, FilesKept
    <2>7. view'[p] = [object |-> Read(g.file, g.header, g.metadata, ReadTags(g))',
                      path |-> g.path, writable |-> g.writable]
      BY <2>4, <2>5 DEF view, Read, StoredContent, ReadTags
    <2>8. Read(g.file, g.header, g.metadata, ReadTags(g))'
             = Read(g.file, g.header, g.metadata, ReadTags(g))
      BY <2>6 DEF Read, StoredContent, ReadTags
    <2>9. ReadTags(g) = file[g.file].tags
      BY <2>2, <2>3 DEF ReadTags
    <2> QED BY <2>2, <2>3, <2>7, <2>8, <2>9 DEF ReadFile
  <1>9. view' = [view EXCEPT ![p] =
            [object |-> call[p].object, path |-> call[p].path,
             writable |-> TRUE]]
    BY <1>4, <1>7, <1>8, MappedFunctions
  <1>10. call' = [call EXCEPT ![p] = None]
    BY <1>4, <1>5, MappedFunctions
  <1> QED BY <1>3, <1>7, <1>9, <1>10 DEF Register!Return

\* Reopening the published file fails: the caller gets an error for an update
\* that took effect.  Earlier failures leave no trace.
LEMMA CallFailsRefines ==
    ASSUME StoreIInv, ContentIInv, RegisterApplies,
           NEW p \in Procs, CallFails(p)
    PROVE  Register!ReturnError(p) \/ UNCHANGED <<store, view, call>>
  <1>1. StepOf(p) /\ ~Rename(p)
    BY DEF StepOf, CallFails, Rename
  <1>2. handle' = handle /\ pc'[p] = "idle"
    BY DEF CallFails, DropWriters, Goto, StoreIInv, TypeOK
  <1>3. ~Publishing(p)' /\ call'[p] = None
    BY <1>2, NothingHeld DEF Publishing
  <1>4. CASE ~Publishing(p)
    BY <1>1, <1>2, <1>3, <1>4, QuietStep
  <1>5. CASE Publishing(p)
    <2>1. store' = store
      BY <1>1, StoreKept
    <2>2. \A q \in Procs : q # p => view'[q] = view[q] /\ call'[q] = call[q]
      BY <1>1, OthersKept
    <2>3. view'[p] = view[p]
      BY <1>1, <1>2, FilesKept, SameView
    <2>4. call[p] # None
      BY <1>5, CallHolds DEF ContentIInv
    <2>5. \A q \in Procs : view'[q] = view[q]
      BY <2>2, <2>3
    <2>6. view' = view
      BY <2>5, MappedFunctions
    <2>7. call' = [call EXCEPT ![p] = None]
      BY <1>3, <2>2, MappedFunctions
    <2> QED BY <2>1, <2>4, <2>6, <2>7 DEF Register!ReturnError
  <1> QED BY <1>4, <1>5

\* The directory is flushed, or was not: nothing changes in the register.
LEMMA SyncParentRefines ==
    ASSUME StoreIInv, NEW p \in Procs, SyncParent(p)
    PROVE  UNCHANGED <<store, view, call>>
  <1>1. StepOf(p) /\ ~Rename(p)
    BY DEF StepOf, SyncParent, Rename
  <1>2. handle' = handle /\ writers' = writers /\ pc'[p] = "reopen"
    BY DEF SyncParent, Goto, StoreIInv, TypeOK
  <1>3. Publishing(p) /\ Publishing(p)' /\ Writer(p)' = Writer(p)
    BY <1>2 DEF SyncParent, Publishing, Writer
  <1>4. call'[p] = call[p]
    BY <1>1, <1>3, FilesKept, SameCall
  <1>5. view'[p] = view[p]
    BY <1>1, <1>2, FilesKept, SameView
  <1>6. \A q \in Procs : view'[q] = view[q] /\ call'[q] = call[q]
    BY <1>1, <1>4, <1>5, OthersKept
  <1> QED BY <1>1, <1>6, StoreKept, MappedFunctions

\* The rename is the step that publishes: a writer's whole object, or a setter's
\* update of the object its process holds.
LEMMA RenameRefines ==
    ASSUME StoreIInv, ContentIInv, RegisterApplies,
           NEW p \in Procs, Rename(p)
    PROVE  Register!PublishSome(p)
  <1>1. /\ StepOf(p) /\ pc[p] = "rename" /\ pc[p] # "idle" /\ ~Publishing(p)
        /\ file' = file /\ handle' = handle
    BY DEF StepOf, Rename, Publishing, RenameFile
  <1>2. PICK w : w = Writer(p)
    OBVIOUS
  <1>3. /\ w \in ObjectWriter /\ w.file \in 1 .. created /\ w.file \in Files
        /\ w.final_path \in Paths
        /\ Complete(w.file) /\ file[w.file].header = BuildHeader(w)
    BY <1>1, <1>2, InnermostWriter, FinishedIsComplete
    DEF StoreIInv, ObjectWriter
  <1>4. PICK object : object = ReadFile(w.file)
    OBVIOUS
  <1>5. /\ object \in Objects /\ object.content = file[w.file].content
        /\ object.compression_type = w.compression
    BY <1>3, <1>4, WholeReads DEF ContentIInv, BuildHeader
  <1>6. ReadFile(w.file)' = object
    BY <1>1, <1>4 DEF ReadFile, Read, StoredContent
  <1>7. /\ Current(w.final_path)' = w.file
        /\ \A path \in Paths : path # w.final_path =>
              Current(path)' = Current(path)
    <2>1. /\ names \in [Paths -> Seq(Files \cup {NoFile})]
          /\ names' = [names EXCEPT ![w.final_path]
                                      = Append(names[w.final_path], w.file)]
      BY <1>2, <1>3 DEF Rename, RenameFile, StoreIInv, TypeOK
    <2>2. names'[w.final_path] = Append(names[w.final_path], w.file)
      BY <1>3, <2>1
    <2>3. names[w.final_path] \in Seq(Files \cup {NoFile})
      BY <1>3, <2>1
    <2>4. names'[w.final_path][Len(names'[w.final_path])] = w.file
      BY <1>3, <2>2, <2>3
    <2>5. \A path \in Paths : path # w.final_path => names'[path] = names[path]
      BY <1>3, <2>1
    <2> QED BY <2>4, <2>5 DEF Current
  <1>8. store'[w.final_path] = object
    <2>1. PICK path : path = w.final_path
      OBVIOUS
    <2>2. path \in Paths /\ Current(path)' = w.file
      BY <1>3, <1>7, <2>1
    <2>3. /\ w.file # NoFile /\ file'[w.file] # Blank
          /\ file'[w.file].header # None
      BY <1>1, <1>3, FileSystemAssumption DEF Files, Complete
    <2>4. Openable(path)'
      BY <2>2, <2>3 DEF Openable
    <2>5. store'[path] = ReadFile(Current(path))'
      BY <2>2, <2>4 DEF store
    <2>6. ReadFile(Current(path))' = ReadFile(w.file)'
      BY <2>2 DEF ReadFile, Read, StoredContent
    <2> QED BY <1>6, <2>1, <2>5, <2>6
  <1>9. store' = [store EXCEPT ![w.final_path] = object]
    <2>1. \A path \in Paths : path # w.final_path => store'[path] = store[path]
      BY <1>1, <1>7, SamePath
    <2> QED BY <1>3, <1>8, <2>1, MappedFunctions
  <1>10. \A q \in Procs : q # p => view'[q] = view[q] /\ call'[q] = call[q]
    BY <1>1, OthersKept
  <1>11. view' = view
    <2>1. view'[p] = view[p]
      BY <1>1, FilesKept, SameView
    <2>2. \A q \in Procs : view'[q] = view[q]
      BY <1>10, <2>1
    <2> QED BY <2>2, MappedFunctions
  <1>12. call[p] = None
    BY <1>1, NothingHeld
  <1>13. call'[p] = [object |-> object, path |-> w.final_path]
    <2>1. PICK w2 : w2 = [w EXCEPT !.temp_path = FALSE]
      OBVIOUS
    <2>2. /\ w2 \in ObjectWriter /\ w2.file = w.file
          /\ w2.final_path = w.final_path
      BY <1>3, <2>1 DEF ObjectWriter
    <2>3. SetWriter(p, w2)
      BY <1>2, <2>1 DEF Rename
    <2>4. Writer(p)' = w2
      BY <1>1, <2>2, <2>3, SetWriterEffect DEF StoreIInv, Writer
    <2>5. pc'[p] \in {"fsyncdir", "reopen"}
      BY DEF Rename, Goto, AfterRename, StoreIInv, TypeOK
    <2>6. call'[p] = [object |-> ReadFile(w2.file)', path |-> w2.final_path]
      BY <2>4, <2>5 DEF call, ReadFile, Read, StoredContent
    <2> QED BY <1>6, <2>2, <2>6
  <1>14. call' = [call EXCEPT ![p] =
             [object |-> object, path |-> w.final_path]]
    BY <1>10, <1>13, MappedFunctions
  <1>15. call'[p] # None
    <2>1. [object |-> object, path |-> w.final_path] \in Register!Publication
      BY <1>3, <1>5 DEF Register!Publication
    <2> QED BY <1>13, <2>1 DEF RegisterApplies
  <1>16. Register!Publish(p, w.final_path, object)
    BY <1>9, <1>11, <1>12, <1>14 DEF Register!Publish
  <1>17. CASE handle[p] = None
    <2>1. view[p] = None
      BY <1>17, NothingHeld
    <2>2. Register!Put(p, w.final_path, object)
      BY <1>16, <2>1 DEF Register!Put
    <2> QED BY <1>3, <1>5, <1>12, <1>15, <2>2 DEF Register!PublishSome
  <1>18. CASE handle[p] # None
    <2>1. PICK h : h = handle[p]
      OBVIOUS
    <2>2. /\ h.writable = TRUE /\ w.final_path = h.path
          /\ w.compression = h.header.compression_type
          /\ file[w.file].content = file[h.file].content
      BY <1>1, <1>2, <1>18, <2>1 DEF ContentIInv, UpdatesKeep
    <2>3. /\ view[p] = [object |-> ReadFile(h.file), path |-> h.path,
                        writable |-> h.writable]
          /\ view[p] # None
      BY <1>18, <2>1, ViewHolds DEF ContentIInv
    <2>4. /\ ReadFile(h.file).content = file[h.file].content
          /\ ReadFile(h.file).compression_type = h.header.compression_type
      BY <1>18, <2>1, KeptHandle, WholeReads DEF ContentIInv
    <2>5. /\ view[p].writable = TRUE /\ view[p].path = w.final_path
          /\ object.content = view[p].object.content
          /\ object.compression_type = view[p].object.compression_type
      BY <1>5, <2>2, <2>3, <2>4
    <2>6. Register!Publish(p, view[p].path, object)
      BY <1>16, <2>5
    <2>7. Register!Update(p, object)
      BY <2>3, <2>5, <2>6 DEF Register!Update
    <2> QED BY <1>5, <1>12, <1>15, <2>7 DEF Register!PublishSome
  <1> QED BY <1>17, <1>18


\* Whatever else a process does leaves the register alone.
LEMMA StutterRefines ==
    ASSUME StoreIInv, NEW p \in Procs, StepOf(p),
           \/ \E path \in Paths, options \in LayoutChoices, codec \in Codecs,
                 sync \in Syncs, m \in Metadata, t \in Tags :
                  CallerCreates(p, path, options, codec, sync, m, t)
           \/ \E chunk \in Chunks : Write(p, chunk) \/ Encode(p, chunk)
           \/ \E m \in Metadata, t \in Tags : Mutate(p, m, t)
           \/ Abandon(p)
           \/ Finish(p) \/ FinishByRewriting(p) \/ RewritingFails(p)
           \/ Copy(p) \/ CopyRefused(p)
           \/ WritePrefix(p) \/ SyncAll(p) \/ RenameFails(p)
           \/ \E m \in Metadata : SetMetadata(p, m)
           \/ \E t \in Tags : SetTags(p, t)
           \/ \E m \in Metadata, t \in Tags : SetSections(p, m, t)
           \/ CallRefused(p)
    PROVE  UNCHANGED <<store, view, call>>
  <1> DEFINE Quiet == /\ ~Rename(p) /\ handle' = handle
                      /\ ~Publishing(p) /\ ~Publishing(p)'
  <1>1. pc \in [Procs -> Locations]
    BY DEF StoreIInv, TypeOK
  <1>2. CASE \/ \E path \in Paths, options \in LayoutChoices, codec \in Codecs,
                   sync \in Syncs, m \in Metadata, t \in Tags :
                    CallerCreates(p, path, options, codec, sync, m, t)
             \/ FinishByRewriting(p)
             \/ \E m \in Metadata : SetMetadata(p, m)
             \/ \E t \in Tags : SetTags(p, t)
             \/ \E m \in Metadata, t \in Tags : SetSections(p, m, t)
    <2>1. handle' = handle /\ pc'[p] \in {"writing", "copying"}
      BY <1>2, WhoCreates
    <2>2. pc[p] \in {"idle", "writing", "finishing"}
      BY <1>2 DEF CallerCreates, FinishByRewriting, AtFinish, SetMetadata,
                  SetTags, SetSections, Rewrite
    <2>3. Quiet
      BY <2>1, <2>2 DEF Rename, Publishing
    <2> QED BY <2>3, QuietStep
  <1>3. CASE \/ \E chunk \in Chunks : Write(p, chunk) \/ Encode(p, chunk)
             \/ \E m \in Metadata, t \in Tags : Mutate(p, m, t)
             \/ Finish(p) \/ Copy(p) \/ WritePrefix(p) \/ SyncAll(p)
    <2>1. /\ handle' = handle
          /\ pc[p] \in {"writing", "finishing", "copying", "prefix", "fsync"}
      BY <1>3 DEF Write, Encode, Mutate, Finish, AtFinish, Copy, WritePrefix,
                  SyncAll
    <2>2. pc'[p] \in {"writing", "finishing", "prefix", "fsync", "rename"}
      BY <1>1, <1>3
      DEF Write, Encode, Mutate, Finish, Copy, WritePrefix, SyncAll, Goto,
          AfterPrefix
    <2>3. Quiet
      BY <2>1, <2>2 DEF Rename, Publishing
    <2> QED BY <2>3, QuietStep
  <1>4. CASE \/ Abandon(p) \/ RewritingFails(p) \/ CopyRefused(p)
             \/ RenameFails(p) \/ CallRefused(p)
    <2>1. /\ handle' = handle /\ pc'[p] = "idle"
          /\ pc[p] \in {"idle", "writing", "finishing", "copying", "rename"}
      BY <1>1, <1>4
      DEF Abandon, RewritingFails, CopyRefused, RenameFails, CallRefused,
          AtFinish, DropWriters, Goto, vars, procVars
    <2>2. ~Rename(p)
      BY <2>1, <1>1 DEF Rename, Goto, AfterRename
    <2>3. Quiet
      BY <2>1, <2>2 DEF Publishing
    <2> QED BY <2>3, QuietStep
  <1> QED BY <1>2, <1>3, <1>4

LEMMA RegisterStep ==
    ASSUME StoreIInv, OnceInv, ContentIInv, RegisterApplies, [Next]_vars
    PROVE  [Register!Next]_(Register!vars)
  <1>1. CASE UNCHANGED vars
    <2>1. UNCHANGED <<store, view, call>>
      BY <1>1
      DEF vars, fsVars, procVars, store, view, call, Openable, Current, ReadFile,
          Read, ReadTags, StoredContent, Writer
    <2> QED BY <2>1 DEF Register!vars
  <1>2. ASSUME NEW p \in Procs, StepOf(p)
        PROVE  Register!Next \/ UNCHANGED <<store, view, call>>
    <2>1. CASE \E path \in Paths, writable \in BOOLEAN : Open(p, path, writable)
      BY <2>1, OpenRefines DEF Register!Next
    <2>2. CASE Close(p)
      BY <2>2, CloseRefines DEF Register!Next
    <2>3. CASE Kill(p)
      BY <2>3, KillRefines DEF Register!Next
    <2>4. CASE Rename(p)
      BY <2>4, RenameRefines DEF Register!Next
    <2>5. CASE Reopen(p)
      BY <2>5, ReopenRefines DEF Register!Next
    <2>6. CASE CallFails(p)
      BY <2>6, CallFailsRefines DEF Register!Next
    <2>7. CASE SyncParent(p)
      BY <2>7, SyncParentRefines
    <2> QED
      BY <1>2, <2>1, <2>2, <2>3, <2>4, <2>5, <2>6, <2>7, StutterRefines
      DEF StepOf
  <1>3. ~PowerLoss
    BY DEF PowerLoss, RegisterApplies
  <1> QED BY <1>1, <1>2, <1>3, WhoSteps DEF Register!vars

LEMMA RegisterInit == Init => Register!Init
  BY DEF Init, FsInit, Register!Init, store, view, call, Openable, Current

\* Creating, replacing and updating an object by a temporary file and a rename
\* is atomic, for any number of processes, paths and files and any content:
\* whatever interleaves with a call and wherever it fails or its process is
\* killed, others see the path change once, from one whole object to the next.
THEOREM StoreImplementsRegister ==
    ASSUME RegisterApplies PROVE Spec => ImplementsRegister
  <1>1. PowerSafe
    BY DEF PowerSafe, RegisterApplies
  <1>2. StoreIInv /\ OnceInv /\ [Next]_vars => OnceInv'
    BY OnceStep
  <1>3. StoreIInv /\ OnceInv /\ ContentIInv /\ [Next]_vars => ContentIInv'
    <2>1. ~PowerLoss
      BY DEF PowerLoss, RegisterApplies
    <2> QED BY <2>1, ContentStep
  <1>4. StoreIInv /\ OnceInv /\ ContentIInv /\ [Next]_vars
           => [Register!Next]_(Register!vars)
    BY RegisterStep
  <1>5. Spec => []StoreIInv
    BY <1>1, StoreInvariant
  <1> QED
    BY <1>2, <1>3, <1>4, <1>5, OnceInit, ContentInit, RegisterInit, PTL
    DEF Spec, ImplementsRegister, Register!Spec

=============================================================================
