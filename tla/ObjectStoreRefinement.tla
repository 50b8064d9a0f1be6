----------------------- MODULE ObjectStoreRefinement -----------------------
(***************************************************************************)
(* ObjectStore implements ObjectRegister as long as no power is lost: what *)
(* a path holds is what a reader that opens it now would read, what a      *)
(* process holds is what it would read through its TuxObject, and a        *)
(* rename is the step that publishes.                                      *)
(***************************************************************************)
EXTENDS ObjectStore

CONSTANT Contents \* the contents an object may have: never Garbage

Objects ==
    [metadata : Metadata, tags : Tags, content : Contents,
     compression_type : Codecs]

\* What is read through a descriptor of f by the header of the object.
Read(f, header, metadata, tags) ==
    [metadata |-> metadata, tags |-> tags,
     content |-> StoredContent(f, header.content_start, header.content_length),
     compression_type |-> header.compression_type]

ReadFile(f) == Read(f, file[f].header, file[f].metadata, file[f].tags)

store == [path \in Paths |->
    IF Openable(path) THEN ReadFile(Current(path)) ELSE None]

view == [p \in Procs |->
    LET h == handle[p]
    IN  IF h = None
        THEN None
        ELSE [object   |-> Read(h.file, h.header, h.metadata, ReadTags(h)),
              path     |-> h.path,
              writable |-> h.writable]]

call == [p \in Procs |->
    IF pc[p] \in {"fsyncdir", "reopen"}
    THEN [object |-> ReadFile(Writer(p).file), path |-> Writer(p).final_path]
    ELSE None]

Register == INSTANCE ObjectRegister WITH Absent <- None

\* Creating, replacing and updating objects by temporary files and renames is
\* atomic: every step of the store is one step of the register, or none.
ImplementsRegister == Register!Spec
=============================================================================
