--------------------- MODULE AsyncObjectStoreRefinement ---------------------
(***************************************************************************)
(* AsyncObjectStore implements AsyncRegister as long as no power is lost.  *)
(* The rename is the step that publishes, whoever waits for it: as the job *)
(* of a call, or as one that was left to the blocking pool.                *)
(***************************************************************************)
EXTENDS AsyncObjectStore

CONSTANT Contents \* the contents an object may have: never Garbage

Objects ==
    [metadata : Metadata, tags : Tags, content : Contents,
     compression_type : Codecs]

\* What is read through a descriptor of f by the header of the object.
Read(f, header, metadata, tags) ==
    [metadata |-> metadata, tags |-> tags,
     content |-> StoredContent(f, header.content_start, header.content_length),
     compression_type |-> header.compression_type]

\* What is in a file: no object while it lacks a prefix, or is gone.
ReadFile(f) ==
    IF file[f] = Blank THEN None
    ELSE IF file[f].header = None THEN None
    ELSE Read(f, file[f].header, file[f].metadata, file[f].tags)

store == [path \in Paths |->
    IF Current(path) = NoFile THEN None ELSE ReadFile(Current(path))]

view == [p \in Tasks |->
    LET h == handle[p]
    IN  IF h = None
        THEN None
        ELSE [object   |-> Read(h.file, h.header, h.metadata, ReadTags(h)),
              path     |-> h.path,
              writable |-> h.writable]]

\* The rename of its call is done.
HasPublished(p) ==
    \/ pc[p] = "renaming" /\ JobOk(p)
    \/ pc[p] \in {"syncdir", "reopen", "cleaning"}

call == [p \in Tasks |->
    IF HasPublished(p)
    THEN [object |-> ReadFile(Writer(p).file), path |-> Writer(p).final_path]
    ELSE None]

late ==
    {[id |-> j.file, object |-> ReadFile(j.file), path |-> j.path] :
        j \in {d \in detached : d.kind = "rename"}}

Register == INSTANCE AsyncRegister
                WITH Absent <- None, Procs <- Tasks, Updates <- Files

\* Whatever await a future is dropped at, an object is published whole and in
\* one step, and one that was given up no more than once (async_io.rs:611-625,
\* 658-672): every step of the store is one step of the register, or none.
ImplementsAsyncRegister == Register!AsyncSpec
=============================================================================
