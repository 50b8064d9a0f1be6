--------------------------- MODULE MCLayoutSession ---------------------------
(***************************************************************************)
(* LayoutSession on a small scale: a header of 4 bytes, a 4-bit            *)
(* tags_start, an alignment of 4 in place of 32 and a content_start of at  *)
(* most 47, so that a few bytes reach every limit.                         *)
(***************************************************************************)
EXTENDS LayoutSession

MCOption(metadata_reserve, tag_reserve, alignment, min_content_start) ==
    [metadata_reserve  |-> metadata_reserve,
     tag_reserve       |-> tag_reserve,
     alignment         |-> alignment,
     min_content_start |-> min_content_start]

\* LayoutOptions::packed, the defaults, a floor, and reserves that differ.
MCOptionChoices == {MCOption(0, 0, 1, 0), MCOption(2, 2, 4, 0),
                    MCOption(0, 3, 0, 9), MCOption(3, 0, 2, 22)}

MCDefaultOptions == MCOption(2, 2, 4, 0)

MCMetadataSizes == {2, 3, 5, 7, 8, 9, 11, 12}
MCTagsSizes == {2, 3, 6, 9, 14}
=============================================================================
