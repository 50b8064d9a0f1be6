----------------------------- MODULE FileSystem -----------------------------
(***************************************************************************)
(* The directory an object lives in, as the code relies on it: files that  *)
(* are created under a fresh temporary name, renamed over a path, flushed, *)
(* and what a power loss may take back of all that.  None of this is code  *)
(* of the repository; it is what std::fs and tokio::fs offer to it.         *)
(*                                                                         *)
(* A file keeps its identity when it is renamed and stays readable through *)
(* an open descriptor when its name goes to another file.                  *)
(***************************************************************************)
EXTENDS Integers, Sequences

CONSTANTS
    Paths,    \* the destination paths, all in one directory
    MaxFiles, \* bound: files ever created; the next creation fails
    NoFile,   \* what an unused path names
    Blank     \* the bytes of a file that lost or never got any

ASSUME FileSystemAssumption ==
    /\ MaxFiles \in Nat
    /\ NoFile \notin 1 .. MaxFiles

Files == 1 .. MaxFiles

VARIABLES
    created,  \* how many files were created so far: they are 1 .. created
    file,     \* the bytes of each file
    unsynced, \* files with bytes that were not flushed since they were written
    temps,    \* files still reachable under their temporary name
    names     \* for each path, the files a power loss may leave it naming: what
              \* it named at the last flush of the directory, and every file
              \* renamed over it since; the last one is what it names now

fsVars == <<created, file, unsynced, temps, names>>

Current(path) == names[path][Len(names[path])]

FsInit ==
    /\ created = 0
    /\ file = [f \in Files |-> Blank]
    /\ unsynced = {}
    /\ temps = {}
    /\ names = [path \in Paths |-> <<NoFile>>]

\* open(create_new) of a fresh name; its bytes are what the caller puts there.
CanCreate == created < MaxFiles
Fresh     == created + 1

CreateFile(bytes) ==
    /\ CanCreate
    /\ created' = Fresh
    /\ file' = [file EXCEPT ![Fresh] = bytes]
    /\ unsynced' = unsynced \cup {Fresh}
    /\ temps' = temps \cup {Fresh}
    /\ UNCHANGED names

\* write(2) through a descriptor of f.
WriteFile(f, bytes) ==
    /\ file' = [file EXCEPT ![f] = bytes]
    /\ unsynced' = unsynced \cup {f}
    /\ UNCHANGED <<created, temps, names>>

\* fsync(2) of f.
SyncFile(f) ==
    /\ unsynced' = unsynced \ {f}
    /\ UNCHANGED <<created, file, temps, names>>

\* rename(2) of the temporary name of f over path.
RenameFile(f, path) ==
    /\ names' = [names EXCEPT ![path] = Append(@, f)]
    /\ temps' = temps \ {f}
    /\ UNCHANGED <<created, file, unsynced>>

\* fsync(2) of the directory.
SyncDirectory ==
    /\ names' = [path \in Paths |-> <<Current(path)>>]
    /\ UNCHANGED <<created, file, unsynced, temps>>

\* unlink(2) of the temporary names of fs, none of which is open any longer:
\* their bytes are gone.
DeleteTemps(fs) ==
    /\ temps' = temps \ fs
    /\ file' = [f \in Files |-> IF f \in fs THEN Blank ELSE file[f]]
    /\ unsynced' = unsynced \ fs
    /\ UNCHANGED <<created, names>>

\* Power is lost: every path is left with one of the files it may name, and a
\* file that was not flushed keeps its bytes or loses them (all of them stand
\* for some of them).  What becomes of temporary names is not followed: nobody
\* looks them up again.
PowerIsLost ==
    \E kept \in [Paths -> Files \cup {NoFile}], lost \in SUBSET unsynced :
        /\ \A path \in Paths :
               \E k \in DOMAIN names[path] : kept[path] = names[path][k]
        /\ names' = [path \in Paths |-> <<kept[path]>>]
        /\ file' = [f \in Files |-> IF f \in lost THEN Blank ELSE file[f]]
        /\ unsynced' = {}
        /\ temps' = {}
        /\ UNCHANGED created
=============================================================================
