------------------------------- MODULE Layout -------------------------------
(***************************************************************************)
(* Where the sections of an object file go (src/fs/layout.rs).            *)
(*                                                                         *)
(*   0          HeaderSize        tags_start        content_start          *)
(*   | header   | metadata, slack | tags, slack     | content ...          *)
(*                                                                         *)
(* The widths of the two offsets and the size of the header are constants: *)
(* the code has HeaderSize = 32, U16Max = 2^16 - 1 and U32Max = 2^32 - 1.   *)
(* Sums are those of unbounded integers: sizes and reserves are `usize`    *)
(* and are assumed to stay far from its limit.                             *)
(*                                                                         *)
(* Here and in the other modules a definition whose comment starts with    *)
(* "Wrong:" is a variant of the one that follows it with a bug put in.     *)
(* Nothing uses it; exchanging the two shows that a property notices.      *)
(***************************************************************************)
EXTENDS Integers

CONSTANTS
    HeaderSize, \* HEADER_SIZE, where the metadata section starts
    U16Max,     \* the largest tags_start the header can hold
    U32Max,     \* the largest content_start the header can hold
    None        \* no layout: Option::None, or Err(SectionOffsetTooLarge)

SectionLayout == [tags_start : 0 .. U16Max, content_start : 0 .. U32Max]

LayoutOptions == [metadata_reserve  : Nat,
                  tag_reserve       : Nat,
                  alignment         : Nat,
                  min_content_start : 0 .. U32Max]

ASSUME LayoutAssumption ==
    /\ HeaderSize \in Nat \ {0}
    /\ U16Max \in Nat
    /\ U32Max \in Nat
    /\ U16Max <= U32Max
    /\ None \notin SectionLayout

\* usize::max, under a name of its own.
AtLeast(a, b) == IF a >= b THEN a ELSE b

\* Rounds value up to the next multiple of alignment; alignment 0 means 1.
align_up(value, alignment) ==
    LET a == AtLeast(alignment, 1)
    IN  ((value + a - 1) \div a) * a

\* Wrong: looks whether the aligned tag section starts in front of the content,
\* not whether it ends there.
repartition_StartOnly(content_start, metadata_size, tags_size, alignment) ==
    LET packed     == HeaderSize + metadata_size
        aligned    == align_up(packed, alignment)
        tags_start == IF aligned <= content_start THEN aligned ELSE packed
    IN  IF packed + tags_size > content_start \/ tags_start > U16Max
        THEN None
        ELSE [tags_start |-> tags_start, content_start |-> content_start]

\* Wrong: does not compare tags_start with the width of its field.
repartition_AnyWidth(content_start, metadata_size, tags_size, alignment) ==
    LET packed     == HeaderSize + metadata_size
        aligned    == align_up(packed, alignment)
        tags_start == IF aligned + tags_size <= content_start
                      THEN aligned
                      ELSE packed
    IN  IF packed + tags_size > content_start
        THEN None
        ELSE [tags_start |-> tags_start, content_start |-> content_start]

\* Fits both sections in front of content that stays where it is: the tag
\* section is aligned when there is room for that and packed when there is not.
repartition(content_start, metadata_size, tags_size, alignment) ==
    LET packed     == HeaderSize + metadata_size
        aligned    == align_up(packed, alignment)
        tags_start == IF aligned + tags_size <= content_start
                      THEN aligned
                      ELSE packed
    IN  IF packed + tags_size > content_start \/ tags_start > U16Max
        THEN None
        ELSE [tags_start |-> tags_start, content_start |-> content_start]

\* Wrong: the reserve replaces the metadata instead of following it.
ReservedTagsStart_ReserveOnly(opts, metadata_size) ==
    align_up(HeaderSize + opts.metadata_reserve, opts.alignment)

\* The offsets a layout with the reserves of opts asks for.
ReservedTagsStart(opts, metadata_size) ==
    align_up(HeaderSize + metadata_size + opts.metadata_reserve, opts.alignment)

\* Wrong: the reserve replaces the tags instead of following them.
ReservedContentStart_ReserveOnly(opts, metadata_size, tags_size) ==
    AtLeast(align_up(ReservedTagsStart(opts, metadata_size) + opts.tag_reserve,
                     opts.alignment),
            align_up(opts.min_content_start, opts.alignment))

ReservedContentStart(opts, metadata_size, tags_size) ==
    AtLeast(align_up(ReservedTagsStart(opts, metadata_size)
                        + tags_size + opts.tag_reserve,
                     opts.alignment),
            align_up(opts.min_content_start, opts.alignment))

\* The prefix named by min_content_start is kept when the sections still fit in
\* it; otherwise the reserves are applied to the new sizes.
compute(opts, metadata_size, tags_size) ==
    LET kept == repartition(opts.min_content_start, metadata_size, tags_size,
                            opts.alignment)
        tags_start    == ReservedTagsStart(opts, metadata_size)
        content_start == ReservedContentStart(opts, metadata_size, tags_size)
    IN  IF opts.min_content_start > 0 /\ kept # None
        THEN kept
        ELSE IF tags_start > U16Max \/ content_start > U32Max
             THEN None
             ELSE [tags_start |-> tags_start, content_start |-> content_start]

\* SectionLayout::metadata_space and SectionLayout::tags_space.
metadata_space(layout) == layout.tags_start - HeaderSize
tags_space(layout)     == layout.content_start - layout.tags_start

\* finish_by_rewriting: the reserves of the first layout, raised to the slack
\* of a rewrite (DEFAULT_REWRITE_RESERVE).
RaiseReserves(opts, reserve) ==
    [opts EXCEPT !.metadata_reserve = AtLeast(@, reserve),
                 !.tag_reserve      = AtLeast(@, reserve)]
=============================================================================
