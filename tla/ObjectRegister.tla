--------------------------- MODULE ObjectRegister ---------------------------
(***************************************************************************)
(* What ObjectWriter and the atomic setters of TuxObject promise: a path   *)
(* is a register that holds a whole object or nothing, that is replaced in *)
(* one step, and of which every open TuxObject keeps a snapshot.           *)
(*                                                                         *)
(* An update is made from the snapshot of the process that makes it, not   *)
(* from what the register holds: the last of two updates wins whole.       *)
(***************************************************************************)
CONSTANTS
    Paths,
    Procs,
    Objects, \* records with fields metadata, tags, content and compression_type
    Absent   \* no object, no snapshot, no call

VARIABLES
    store, \* the object at each path
    view,  \* the snapshot each process holds
    call   \* what a process has published in a call that did not return yet

vars == <<store, view, call>>

Snapshot == [object : Objects, path : Paths, writable : BOOLEAN]
Publication == [object : Objects, path : Paths]

TypeOK ==
    /\ store \in [Paths -> Objects \cup {Absent}]
    /\ view \in [Procs -> Snapshot \cup {Absent}]
    /\ call \in [Procs -> Publication \cup {Absent}]

Init ==
    /\ store = [path \in Paths |-> Absent]
    /\ view = [p \in Procs |-> Absent]
    /\ call = [p \in Procs |-> Absent]

Open(p, path, writable) ==
    /\ call[p] = Absent /\ view[p] = Absent
    /\ store[path] # Absent
    /\ view' = [view EXCEPT ![p] =
           [object |-> store[path], path |-> path, writable |-> writable]]
    /\ UNCHANGED <<store, call>>

Close(p) ==
    /\ call[p] = Absent /\ view[p] # Absent
    /\ view' = [view EXCEPT ![p] = Absent]
    /\ UNCHANGED <<store, call>>

Publish(p, path, object) ==
    /\ call[p] = Absent
    /\ call' = [call EXCEPT ![p] = [object |-> object, path |-> path]]
    /\ UNCHANGED view
    /\ store' = [store EXCEPT ![path] = object]

\* A new object, of any contents.
Put(p, path, object) ==
    /\ view[p] = Absent
    /\ Publish(p, path, object)

\* New sections for the object a process holds; content and codec are kept.
Update(p, object) ==
    /\ view[p] # Absent
    /\ view[p].writable
    /\ object.content = view[p].object.content
    /\ object.compression_type = view[p].object.compression_type
    /\ Publish(p, view[p].path, object)

\* An update of p.  What it changes first comes before the choice of the object,
\* for the model checker's sake.
PublishSome(p) ==
    /\ call[p] = Absent /\ call'[p] # Absent
    /\ \E object \in Objects :
           \/ \E path \in Paths : Put(p, path, object)
           \/ Update(p, object)

\* The call returns Ok: the process now holds what it published.
Return(p) ==
    /\ call[p] # Absent
    /\ view' = [view EXCEPT ![p] =
           [object |-> call[p].object, path |-> call[p].path, writable |-> TRUE]]
    /\ call' = [call EXCEPT ![p] = Absent]
    /\ UNCHANGED store

\* The call returns Err although the object is published.
ReturnError(p) ==
    /\ call[p] # Absent
    /\ call' = [call EXCEPT ![p] = Absent]
    /\ UNCHANGED <<store, view>>

\* The process is gone.
Exit(p) ==
    /\ view' = [view EXCEPT ![p] = Absent]
    /\ call' = [call EXCEPT ![p] = Absent]
    /\ UNCHANGED store

Next ==
    \E p \in Procs :
        \/ \E path \in Paths, writable \in BOOLEAN : Open(p, path, writable)
        \/ Close(p)
        \/ PublishSome(p)
        \/ Return(p)
        \/ ReturnError(p)
        \/ Exit(p)

Spec == Init /\ [][Next]_vars
=============================================================================
