------------------------ MODULE ObjectStoreInvariant ------------------------
(***************************************************************************)
(* The inductive invariant of ObjectStore, in named parts.  It says who    *)
(* may still write to which file, which is why a file that has a name or a *)
(* reader never changes again.                                             *)
(***************************************************************************)
EXTENDS ObjectStore

\* Renamed over its path, and the call did not return yet.
Publishing(p) == pc[p] \in {"fsyncdir", "reopen"}

\* The innermost writer has its final layout.
Fitted(p) == pc[p] \in {"prefix", "fsync", "rename", "fsyncdir", "reopen"}

\* Its prefix is in the file.
PrefixWritten(p) == pc[p] \in {"fsync", "rename", "fsyncdir", "reopen"}

\* Every writer has a file of its own, holding what it counted where it put it;
\* all but a publishing one still have to clean it up.
WritersOwnFiles ==
    \A p \in Procs : \A k \in DOMAIN writers[p] :
        LET w == writers[p][k]
        IN  /\ w.file \in 1 .. created
            /\ file[w.file] \in ObjectFile
            /\ file[w.file].content_at = w.layout.content_start
            /\ Len(file[w.file].content) = w.content_length
            /\ w.temp_path <=> ~(Publishing(p) /\ k = Len(writers[p]))

WritersApart ==
    \A p, q \in Procs : \A k \in DOMAIN writers[p], j \in DOMAIN writers[q] :
        writers[p][k].file = writers[q][j].file => p = q /\ k = j

\* A file with its temporary name has no other name and no reader.
TempsUnpublished ==
    \A p \in Procs : \A k \in DOMAIN writers[p] :
        LET w == writers[p][k]
        IN  w.temp_path =>
                /\ \A path \in Paths :
                       \A i \in DOMAIN names[path] : names[path][i] # w.file
                /\ \A q \in Procs :
                       handle[q] # None => handle[q].file # w.file

\* Between finish and its return: the sections fit the layout, then the prefix
\* is in the file, then it is flushed if it is to be.
FinishInOrder ==
    \A p \in Procs :
        /\ Fitted(p) =>
            /\ HeaderSize + Size[Writer(p).metadata] <= Writer(p).layout.tags_start
            /\ Writer(p).layout.tags_start + Size[Writer(p).tags]
                  <= Writer(p).layout.content_start
        /\ PrefixWritten(p) =>
            /\ file[Writer(p).file].header = BuildHeader(Writer(p))
            /\ file[Writer(p).file].metadata = Writer(p).metadata
            /\ file[Writer(p).file].tags = Writer(p).tags
        /\ pc[p] \in {"rename", "fsyncdir", "reopen"} /\ Writer(p).sync =>
            Writer(p).file \notin unsynced

\* A copy has a source: the writer it replaces, or the object of a setter.
CopiesHaveSource ==
    \A p \in Procs :
        pc[p] = "copying" => Len(writers[p]) > 1 \/ handle[p] # None

\* Every writer syncs when every caller asks for it: setters always do.
AllSynced == Syncs \subseteq {TRUE}

WritersSync ==
    AllSynced => \A p \in Procs : \A k \in DOMAIN writers[p] : writers[p][k].sync

\* What a path names, or may name after a power loss, is whole and, when all
\* writers sync, flushed.
NamesComplete ==
    \A path \in Paths : \A i \in DOMAIN names[path] :
        names[path][i] # NoFile =>
            /\ names[path][i] \in 1 .. created
            /\ Complete(names[path][i])
            /\ AllSynced => names[path][i] \notin unsynced

HandlesComplete ==
    \A p \in Procs : handle[p] # None =>
        /\ handle[p].file \in 1 .. created
        /\ Complete(handle[p].file)
        /\ handle[p].header = file[handle[p].file].header
        /\ handle[p].metadata = file[handle[p].file].metadata

StoreIInv ==
    /\ TypeOK
    /\ WritersOwnFiles
    /\ WritersApart
    /\ TempsUnpublished
    /\ FinishInOrder
    /\ CopiesHaveSource
    /\ WritersSync
    /\ NamesComplete
    /\ HandlesComplete
=============================================================================
