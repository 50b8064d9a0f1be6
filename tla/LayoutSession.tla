---------------------------- MODULE LayoutSession ----------------------------
(***************************************************************************)
(* The life of one object's layout: created by a writer, outgrown while    *)
(* its content is streamed, moved by finish_by_rewriting, re-partitioned   *)
(* by the atomic setters and by set_sections_in_place.  Section contents   *)
(* are abstracted to their sizes and the content to the offset it was      *)
(* written at; ObjectStore adds files, failures and concurrency.           *)
(***************************************************************************)
EXTENDS Layout

CONSTANTS
    OptionChoices,   \* the LayoutOptions a caller may create an object with
    DefaultOptions,  \* LayoutOptions::default()
    RewriteReserve,  \* DEFAULT_REWRITE_RESERVE
    MetadataSizes,   \* sizes a metadata section may have
    TagsSizes        \* sizes a tag section may have

ASSUME LayoutSessionAssumption ==
    /\ OptionChoices \subseteq LayoutOptions
    /\ DefaultOptions \in LayoutOptions
    /\ RewriteReserve \in Nat
    /\ MetadataSizes \subseteq Nat
    /\ TagsSizes \subseteq Nat

VARIABLES
    phase,         \* "none", "writing", "copied" (content in place), "published"
    opts,          \* layout_options of the writer
    layout,        \* layout of the writer, or of the published object
    metadata_size, \* current sizes of the two sections
    tags_size,
    content_at     \* file offset the content bytes were written at

vars == <<phase, opts, layout, metadata_size, tags_size, content_at>>

Sizes == <<metadata_size, tags_size>>

\* The alignment set_sections_in_place and the setters use (DEFAULT_ALIGNMENT).
DefaultAlignment == DefaultOptions.alignment

Init ==
    /\ phase = "none"
    /\ opts = DefaultOptions
    /\ layout = None
    /\ metadata_size = 0
    /\ tags_size = 0
    /\ content_at = 0

\* ObjectWriter::create: the file is positioned at the content's offset, and
\* what is streamed lands there.
Create(o, m, t) ==
    /\ phase = "none"
    /\ compute(o, m, t) # None
    /\ phase' = "writing"
    /\ opts' = o
    /\ layout' = compute(o, m, t)
    /\ metadata_size' = m
    /\ tags_size' = t
    /\ content_at' = layout'.content_start

\* metadata_mut and tags_mut, while the content is streamed.
Mutate(m, t) ==
    /\ phase = "writing"
    /\ Sizes # <<m, t>>
    /\ metadata_size' = m
    /\ tags_size' = t
    /\ UNCHANGED <<phase, opts, layout, content_at>>

\* Wrong: lays the object out again at finish, under content already streamed.
Refit_Anew == compute(opts, metadata_size, tags_size)

Refit == repartition(layout.content_start, metadata_size, tags_size,
                     opts.alignment)

\* ObjectWriter::finish when the sections fit in front of the content.
Finish ==
    /\ phase \in {"writing", "copied"}
    /\ Refit # None
    /\ phase' = "published"
    /\ layout' = Refit
    /\ UNCHANGED <<opts, metadata_size, tags_size, content_at>>

Raised == RaiseReserves(opts, RewriteReserve)

\* ObjectWriter::finish_by_rewriting, up to the finish of the replacement.
FinishByRewriting ==
    /\ phase \in {"writing", "copied"}
    /\ Refit = None
    /\ compute(Raised, metadata_size, tags_size) # None
    /\ phase' = "copied"
    /\ opts' = Raised
    /\ layout' = compute(Raised, metadata_size, tags_size)
    /\ content_at' = layout'.content_start
    /\ UNCHANGED Sizes

\* finish_by_rewriting when no layout holds the sections: the write fails and
\* the temporary file is dropped.
FinishFails ==
    /\ phase \in {"writing", "copied"}
    /\ Refit = None
    /\ compute(Raised, metadata_size, tags_size) = None
    /\ phase' = "none"
    /\ opts' = DefaultOptions
    /\ layout' = None
    /\ metadata_size' = 0
    /\ tags_size' = 0
    /\ content_at' = 0

\* Wrong: a rewrite starts from the defaults, without the floor.
RewriteOptions_NoFloor == DefaultOptions

\* The options TuxObject::rewrite creates the replacement with.
RewriteOptions ==
    [DefaultOptions EXCEPT !.min_content_start = layout.content_start]

\* TuxObject::rewrite, which is set_metadata, set_tags and set_sections: the
\* replacement is laid out, the content copied, and finish comes next.
Rewrite(m, t) ==
    /\ phase = "published"
    /\ compute(RewriteOptions, m, t) # None
    /\ phase' = "copied"
    /\ opts' = RewriteOptions
    /\ layout' = compute(RewriteOptions, m, t)
    /\ metadata_size' = m
    /\ tags_size' = t
    /\ content_at' = layout'.content_start

\* TuxObject::set_sections_in_place.
SetSectionsInPlace(m, t) ==
    LET l == repartition(layout.content_start, m, t, DefaultAlignment)
    IN  /\ phase = "published"
        /\ l # None
        /\ layout' = l
        /\ metadata_size' = m
        /\ tags_size' = t
        /\ UNCHANGED <<phase, opts, content_at>>

Next ==
    \/ \E o \in OptionChoices, m \in MetadataSizes, t \in TagsSizes :
           Create(o, m, t)
    \/ \E m \in MetadataSizes, t \in TagsSizes : Mutate(m, t)
    \/ Finish
    \/ FinishByRewriting
    \/ FinishFails
    \/ \E m \in MetadataSizes, t \in TagsSizes : Rewrite(m, t)
    \/ \E m \in MetadataSizes, t \in TagsSizes : SetSectionsInPlace(m, t)

Spec == Init /\ [][Next]_vars

-----------------------------------------------------------------------------
TypeOK ==
    /\ phase \in {"none", "writing", "copied", "published"}
    /\ opts \in LayoutOptions
    /\ layout \in SectionLayout \cup {None}
    /\ layout = None <=> phase = "none"
    /\ metadata_size \in Nat
    /\ tags_size \in Nat
    /\ content_at \in Nat

\* The header, the metadata, the tags and the content of a published object do
\* not overlap, so the space checks of encode_prefix (writer.rs) never refuse
\* what finish, rewrite and set_sections_in_place hand them, however often the
\* sections were re-partitioned between the two of them.
SectionsDisjoint ==
    phase = "published" =>
        /\ HeaderSize + metadata_size <= layout.tags_start
        /\ layout.tags_start + tags_size <= layout.content_start

\* The content_start a header is written with is where the content really is:
\* finish re-partitions the prefix after the content was streamed, and only a
\* rewrite, which copies the content, may move the offset.
ContentWhereWritten ==
    phase \in {"writing", "copied", "published"} =>
        layout.content_start = content_at

\* finish -> finish_by_rewriting -> finish never recurses a second time, also
\* when the caller configured no reserve at all, and the finish of a setter's
\* rewrite never recurses: what compute lays out for the final sections,
\* repartition accepts when finish checks it again after the copy.
CopiedFits == phase = "copied" => Refit # None

\* Setters and in-place updates keep the content where it is as long as the
\* two sections fit in front of it with the tag section aligned, which is what
\* stops a repeatedly updated object from creeping forward, and never move the
\* content towards the header.
NeverCreeps ==
    [][phase = "published" =>
          /\ layout'.content_start >= layout.content_start
          /\ (/\ HeaderSize + metadata_size' + tags_size' <= layout.content_start
              /\ align_up(HeaderSize + metadata_size', DefaultAlignment) <= U16Max)
             => layout'.content_start = layout.content_start]_vars
=============================================================================
