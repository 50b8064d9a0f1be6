---------------------------- MODULE AsyncRegister ----------------------------
(***************************************************************************)
(* What the async writer and setters promise when their futures may be     *)
(* dropped: the register of ObjectRegister, and updates that were given up *)
(* with their rename on its way.  Such an update takes effect whole and    *)
(* once, or not at all, and as late as it likes: also over an object that  *)
(* was published after it, by whomever.  The caller that gave it up holds  *)
(* the snapshot it held before.                                            *)
(***************************************************************************)
EXTENDS ObjectRegister

CONSTANT Updates \* identities of updates that were given up

VARIABLE late \* the updates that may still take effect

asyncVars == <<vars, late>>

Late == [id : Updates, object : Objects, path : Paths]

AsyncTypeOK == TypeOK /\ late \subseteq Late

AsyncInit == Init /\ late = {}

\* What p may publish at a path: anything, or new sections of what it holds.
MayPublish(p, path, object) ==
    view[p] # Absent =>
        /\ view[p].writable /\ path = view[p].path
        /\ object.content = view[p].object.content
        /\ object.compression_type = view[p].object.compression_type

\* The future is dropped when the object is complete and not yet published.
GiveUp(p, id, path, object) ==
    /\ call[p] = Absent
    /\ MayPublish(p, path, object)
    /\ \A u \in late : u.id # id
    /\ late' = late \cup {[id |-> id, object |-> object, path |-> path]}
    /\ UNCHANGED vars

GiveUpSome(p) ==
    /\ call[p] = Absent /\ late' # late
    /\ \E id \in Updates, path \in Paths, object \in Objects :
           GiveUp(p, id, path, object)

\* The rename happens.
TakeEffect(u) ==
    /\ u \in late
    /\ late' = late \ {u}
    /\ store' = [store EXCEPT ![u.path] = u.object]
    /\ UNCHANGED <<view, call>>

\* It fails.
ComeToNothing(u) ==
    /\ u \in late
    /\ late' = late \ {u}
    /\ UNCHANGED vars

\* The process of all tasks is gone, and what it had still to do.
Crash ==
    /\ view' = [p \in Procs |-> Absent]
    /\ call' = [p \in Procs |-> Absent]
    /\ late' = {}
    /\ UNCHANGED store

AsyncNext ==
    \/ Next /\ UNCHANGED late
    \/ \E p \in Procs : GiveUpSome(p)
    \/ \E u \in late : TakeEffect(u) \/ ComeToNothing(u)
    \/ Crash

AsyncSpec == AsyncInit /\ [][AsyncNext]_asyncVars
=============================================================================
