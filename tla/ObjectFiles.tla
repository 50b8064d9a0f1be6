----------------------------- MODULE ObjectFiles -----------------------------
(***************************************************************************)
(* Object files: what is in one, when it is whole, and what is read from   *)
(* it.  The blocking and the async objects and writers share this format.  *)
(***************************************************************************)
EXTENDS FileSystem, Layout

CONSTANTS
    Metadata, \* metadata sections
    Tags,     \* tag sections
    Size,     \* the encoded size of a section
    Chunks,   \* pieces of content
    Codecs,   \* compression types in use; Stored is CompressionTypes::None
    Stored,
    Garbage   \* what is read where no content was written

ASSUME ObjectFilesAssumption ==
    /\ \A s \in Metadata \cup Tags : Size[s] \in Nat
    /\ Stored \in Codecs

\* One piece of content as a codec stores it.
Frame(chunk) == <<chunk>>
Pieces == Chunks \cup {Frame(c) : c \in Chunks} \cup {Garbage}

ObjectHeader ==
    [compression_type : Codecs, tags_start : 0 .. U16Max,
     content_start : 0 .. U32Max, content_length : Nat]

\* The bytes of an object file: a prefix, absent until finish writes it, and
\* the content with the offset it was written at.
ObjectFile ==
    [header : ObjectHeader \cup {None}, metadata : Metadata \cup {None},
     tags : Tags \cup {None}, content_at : Nat, content : Seq(Pieces)]

\* A TuxObject, or an AsyncTuxObject.
TuxObject ==
    [file : Files, path : Paths, header : ObjectHeader, metadata : Metadata,
     writable : BOOLEAN]

\* The markers are no objects.
ASSUME MarkersAssumption ==
    /\ None \notin ObjectHeader
    /\ None \notin TuxObject
    /\ Blank \notin ObjectFile

NewFile(content_start) ==
    [header |-> None, metadata |-> None, tags |-> None,
     content_at |-> content_start, content |-> <<>>]

\* What a descriptor positioned at content_start reads through a ContentReader.
StoredContent(f, content_start, content_length) ==
    IF file[f].content_at = content_start
    THEN SubSeq(file[f].content, 1,
                IF content_length <= Len(file[f].content)
                THEN content_length ELSE Len(file[f].content))
    ELSE [k \in 1 .. content_length |-> Garbage]

\* A missing file is NotFound, and one without a whole prefix is refused by
\* from_file.
Openable(path) ==
    IF Current(path) = NoFile \/ file[Current(path)] = Blank
    THEN FALSE
    ELSE file[Current(path)].header # None

-----------------------------------------------------------------------------
\* A whole object: header and sections are there, the header says where the
\* content is and how long it is, and the sections lie in front of the content
\* without overlapping.
Complete(f) ==
    /\ file[f] # Blank
    /\ file[f].header # None
    /\ file[f].metadata \in Metadata
    /\ file[f].tags \in Tags
    /\ LET h == file[f].header
       IN  /\ h.content_start = file[f].content_at
           /\ h.content_length = Len(file[f].content)
           /\ HeaderSize + Size[file[f].metadata] <= h.tags_start
           /\ h.tags_start + Size[file[f].tags] <= h.content_start

\* "A reader never observes a half-written object" (writer.rs:66-67): whatever
\* the writers of other processes are in the middle of, wherever a call failed
\* or a process was killed, a path names a whole object or nothing.
PublishedComplete ==
    \A path \in Paths : Current(path) # NoFile => Complete(Current(path))
=============================================================================
