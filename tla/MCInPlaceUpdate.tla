--------------------------- MODULE MCInPlaceUpdate ---------------------------
(***************************************************************************)
(* InPlaceUpdate on a header of 4 cells and sections of 1 or 2 cells.      *)
(***************************************************************************)
EXTENDS InPlaceUpdate, TLC

MCOption(reserve, alignment) ==
    [metadata_reserve |-> reserve, tag_reserve |-> reserve,
     alignment |-> alignment, min_content_start |-> 0]

MCDefaultOptions == MCOption(1, 1)

MCMetadata == {Empty, "m2"}
MCTags     == {Empty, "t1"}
MCSize == [s \in MCMetadata \cup MCTags \cup {Garbage} |->
              IF s = "m2" THEN 2 ELSE 1]
\* With two metadata sizes, tags_start is 5 or 6: both of its bytes differ, and
\* half of each is an offset inside the header.
MCPacked(compressed, m) ==
    [compressed |-> compressed, layout |-> MCOption(0, 1),
     metadata |-> m, tags |-> "t1"]
MCCreated == {MCPacked(FALSE, Empty), MCPacked(TRUE, "m2")}

MCSymmetry == Permutations(Handles)

\* A file no handle and no call is on any more decides nothing.
MCOn(h, f) ==
    \/ IF handle[h] = None THEN FALSE ELSE handle[h].file = f
    \/ IF call[h].kind \in {"opening", "writing", "reading"}
       THEN call[h].file = f ELSE FALSE

MCReached(f) == f >= current \/ \E h \in Handles : MCOn(h, f)

\* Of a reader, where it is in the content, how much it has left, and whether
\* RangesExact holds of what it has given: that decides whether it goes on to.
AllContent == [k \in 1 .. Content |-> ContentCell(k - 1)]

MCCall(h) ==
    LET c     == call[h]
        given == c.from + Len(c.got)
    IN  IF c.kind = "reading" /\ c.to <= Content /\ given + c.remaining = c.to
        THEN <<c.file, c.at, c.remaining, given,
               c.got = SubSeq(AllContent, c.from + 1, given)>>
        ELSE c

MCView ==
    <<[f \in Files |-> IF MCReached(f) THEN <<file[f], settled[f]>> ELSE None],
      current, handle, [h \in Handles |-> MCCall(h)], updates, fresh>>
=============================================================================
