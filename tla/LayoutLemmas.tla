---------------------------- MODULE LayoutLemmas ----------------------------
(***************************************************************************)
(* What the layout operators promise for every size, alignment and limit.  *)
(***************************************************************************)
EXTENDS Layout, TLAPS

-----------------------------------------------------------------------------
(* Arithmetic: rounding up by a division with a variable divisor.          *)

\* The quotient of the div_ceil in align_up (layout.rs:165) is exact.
LEMMA DivBounds ==
    ASSUME NEW n \in Nat, NEW a \in Nat, a >= 1
    PROVE  /\ n \div a \in Nat
           /\ (n \div a) * a \in Nat
           /\ (n \div a) * a <= n
           /\ n < (n \div a) * a + a
  BY SMTT(30)

\* Multiples of a that are less than one multiple apart are ordered.
LEMMA MultiplesOrdered ==
    ASSUME NEW k \in Nat, NEW l \in Nat, NEW a \in Nat, a >= 1,
           k * a < l * a + a
    PROVE  k * a <= l * a
  BY SMTT(30)

\* align_up (layout.rs:163-166) rounds up, by less than one alignment, and
\* treats an alignment of 0 as 1.
LEMMA AlignUpBounds ==
    ASSUME NEW v \in Nat, NEW al \in Nat
    PROVE  /\ align_up(v, al) \in Nat
           /\ v <= align_up(v, al)
           /\ align_up(v, al) < v + AtLeast(al, 1)
  <1> DEFINE a == AtLeast(al, 1)
             n == v + a - 1
  <1>1. a \in Nat /\ a >= 1
    BY DEF AtLeast
  <1>2. n \in Nat
    BY <1>1
  <1>3. (n \div a) * a \in Nat /\ (n \div a) * a <= n /\ n < (n \div a) * a + a
    <2> HIDE DEF a, n
    <2> QED BY <1>1, <1>2, DivBounds
  <1>4. align_up(v, al) = (n \div a) * a
    BY DEF align_up
  <1> DEFINE q == (n \div a) * a
  <1>5. q \in Nat /\ q <= n /\ n < q + a
    BY <1>3
  <1>6. n = v + a - 1
    OBVIOUS
  <1>7. v <= q /\ q < v + a
    <2> HIDE DEF q, n, a
    <2> QED BY <1>1, <1>5, <1>6
  <1> QED BY <1>4, <1>5, <1>7

\* align_up is monotone, so larger sections never end earlier.
LEMMA AlignUpMonotone ==
    ASSUME NEW v \in Nat, NEW w \in Nat, NEW al \in Nat, v <= w
    PROVE  align_up(v, al) <= align_up(w, al)
  <1> DEFINE a == AtLeast(al, 1)
             k == (v + a - 1) \div a
             l == (w + a - 1) \div a
  <1>1. a \in Nat /\ a >= 1 /\ v + a - 1 \in Nat /\ w + a - 1 \in Nat
    BY DEF AtLeast
  <1>2. k \in Nat /\ l \in Nat
    <2> HIDE DEF a
    <2> QED BY <1>1, DivBounds
  <1>3. align_up(v, al) = k * a /\ align_up(w, al) = l * a
    BY DEF align_up
  <1>4. /\ align_up(v, al) \in Nat /\ align_up(v, al) < v + a
        /\ align_up(w, al) \in Nat /\ w <= align_up(w, al)
    BY AlignUpBounds
  <1>5. k * a < l * a + a
    <2> DEFINE x == align_up(v, al)
               y == align_up(w, al)
    <2>1. x < y + a
      <3> HIDE DEF x, y, a
      <3> QED BY <1>1, <1>4 DEF x, y
    <2> HIDE DEF x, y, a, k, l
    <2> QED BY <2>1, <1>3 DEF x, y
  <1>6. k * a <= l * a
    <2> HIDE DEF a, k, l
    <2> QED BY <1>1, <1>2, <1>5, MultiplesOrdered
  <1> QED BY <1>3, <1>6

-----------------------------------------------------------------------------
(* The two ways a layout is found.                                         *)

\* A layout returned by repartition (layout.rs:131-159) leaves the content
\* where it is and gives both sections room of their own in front of it.
LEMMA RepartitionSound ==
    ASSUME NEW cs \in 0 .. U32Max, NEW m \in Nat, NEW t \in Nat, NEW al \in Nat,
           repartition(cs, m, t, al) # None
    PROVE  /\ repartition(cs, m, t, al) \in SectionLayout
           /\ repartition(cs, m, t, al).content_start = cs
           /\ HeaderSize + m <= repartition(cs, m, t, al).tags_start
           /\ repartition(cs, m, t, al).tags_start + t <= cs
  <1> DEFINE packed == HeaderSize + m
             aligned == align_up(packed, al)
             ts == IF aligned + t <= cs THEN aligned ELSE packed
  <1>1. packed \in Nat /\ aligned \in Nat /\ packed <= aligned
    <2>1. packed \in Nat
      BY LayoutAssumption
    <2> HIDE DEF packed
    <2> QED BY <2>1, AlignUpBounds
  <1>2. /\ repartition(cs, m, t, al) = [tags_start |-> ts, content_start |-> cs]
        /\ packed + t <= cs
        /\ ts <= U16Max
    <2>1. ts \in Int
      BY <1>1
    <2>2. ~(packed + t > cs \/ ts > U16Max)
      BY DEF repartition
    <2>3. repartition(cs, m, t, al) = [tags_start |-> ts, content_start |-> cs]
      BY <2>2 DEF repartition
    <2> HIDE DEF aligned, ts
    <2> QED BY <1>1, <2>1, <2>2, <2>3, LayoutAssumption
  <1>3. ts \in Nat /\ packed <= ts /\ ts + t <= cs
    <2> HIDE DEF aligned, packed
    <2> QED BY <1>1, <1>2
  <1> HIDE DEF ts, aligned
  <1> QED BY <1>2, <1>3, LayoutAssumption DEF SectionLayout

\* repartition succeeds whenever the sections fit and the aligned tag section
\* starts at an offset the header can hold.
LEMMA RepartitionTotal ==
    ASSUME NEW cs \in 0 .. U32Max, NEW m \in Nat, NEW t \in Nat, NEW al \in Nat,
           HeaderSize + m + t <= cs,
           align_up(HeaderSize + m, al) <= U16Max
    PROVE  repartition(cs, m, t, al) # None
  <1> DEFINE packed == HeaderSize + m
             aligned == align_up(packed, al)
             ts == IF aligned + t <= cs THEN aligned ELSE packed
  <1>1. packed \in Nat /\ aligned \in Nat /\ packed <= aligned
    <2>1. packed \in Nat
      BY LayoutAssumption
    <2> HIDE DEF packed
    <2> QED BY <2>1, AlignUpBounds
  <1>2. ts \in Nat /\ ts <= U16Max
    <2> HIDE DEF packed, aligned
    <2>1. aligned <= U16Max
      BY DEF aligned, packed
    <2> QED BY <1>1, <2>1, LayoutAssumption
  <1>3. ~(packed + t > cs \/ ts > U16Max)
    <2> HIDE DEF aligned, ts
    <2> QED BY <1>1, <1>2, LayoutAssumption
  <1>4. repartition(cs, m, t, al) = [tags_start |-> ts, content_start |-> cs]
    BY <1>3 DEF repartition
  <1>5. [tags_start |-> ts, content_start |-> cs] \in SectionLayout
    <2> HIDE DEF ts
    <2> QED BY <1>2, LayoutAssumption DEF SectionLayout
  <1> QED BY <1>4, <1>5, LayoutAssumption

\* A layout returned by compute (layout.rs:84-124) holds the sections, never
\* puts the content in front of min_content_start, and is one that the
\* repartition of finish (writer.rs:176-184) accepts for the same sections.
LEMMA ComputeSound ==
    ASSUME NEW o \in LayoutOptions, NEW m \in Nat, NEW t \in Nat,
           compute(o, m, t) # None
    PROVE  /\ compute(o, m, t) \in SectionLayout
           /\ compute(o, m, t).content_start >= o.min_content_start
           /\ repartition(compute(o, m, t).content_start, m, t, o.alignment)
                # None
  <1> DEFINE l == compute(o, m, t)
             kept == repartition(o.min_content_start, m, t, o.alignment)
             ts == ReservedTagsStart(o, m)
             cs == ReservedContentStart(o, m, t)
  <1>1. /\ o.min_content_start \in 0 .. U32Max /\ o.alignment \in Nat
        /\ o.metadata_reserve \in Nat /\ o.tag_reserve \in Nat
        /\ o.min_content_start \in Nat
    BY LayoutAssumption DEF LayoutOptions
  <1>2. CASE o.min_content_start > 0 /\ kept # None
    <2>1. l = kept
      BY <1>2 DEF compute
    <2>2. kept \in SectionLayout /\ kept.content_start = o.min_content_start
      BY <1>1, <1>2, RepartitionSound
    <2> HIDE DEF l, kept
    <2> QED BY <1>1, <1>2, <2>1, <2>2 DEF kept, l
  <1>3. CASE ~(o.min_content_start > 0 /\ kept # None)
    <2>1. /\ l = [tags_start |-> ts, content_start |-> cs]
          /\ ~(ts > U16Max \/ cs > U32Max)
      BY <1>3 DEF compute
    <2> DEFINE mEnd == HeaderSize + m + o.metadata_reserve
               tEnd == ts + t + o.tag_reserve
    <2>2. mEnd \in Nat /\ HeaderSize + m \in Nat /\ HeaderSize + m <= mEnd
      BY <1>1, LayoutAssumption
    <2>3. ts \in Nat /\ mEnd <= ts
      BY <2>2, <1>1, AlignUpBounds DEF ReservedTagsStart
    <2>4. tEnd \in Nat /\ ts + t <= tEnd
      <3> HIDE DEF ts
      <3> QED BY <1>1, <2>3
    <2>5. /\ align_up(tEnd, o.alignment) \in Nat
          /\ tEnd <= align_up(tEnd, o.alignment)
          /\ align_up(o.min_content_start, o.alignment) \in Nat
          /\ o.min_content_start <= align_up(o.min_content_start, o.alignment)
      <3> HIDE DEF tEnd
      <3> QED BY <1>1, <2>4, AlignUpBounds
    <2>6. cs = AtLeast(align_up(tEnd, o.alignment),
                       align_up(o.min_content_start, o.alignment))
      BY DEF ReservedContentStart
    <2>7. cs \in Nat /\ tEnd <= cs /\ o.min_content_start <= cs
      <3> HIDE DEF cs, tEnd
      <3> QED BY <1>1, <2>4, <2>5, <2>6 DEF AtLeast
    <2>8. ts <= U16Max /\ cs <= U32Max
      <3> HIDE DEF ts, cs
      <3> QED BY <2>1, <2>3, <2>7, LayoutAssumption
    <2>9. align_up(HeaderSize + m, o.alignment) <= U16Max
      <3>1. align_up(HeaderSize + m, o.alignment) <= ts
        <4> HIDE DEF mEnd
        <4> QED BY <1>1, <2>2, AlignUpMonotone DEF ReservedTagsStart, mEnd
      <3>2. align_up(HeaderSize + m, o.alignment) \in Nat
        BY <1>1, <2>2, AlignUpBounds
      <3> HIDE DEF ts
      <3> QED BY <3>1, <3>2, <2>3, <2>8, LayoutAssumption
    <2>10. HeaderSize + m + t <= cs /\ cs \in 0 .. U32Max /\ ts \in 0 .. U16Max
      <3>1. HeaderSize \in Nat /\ U16Max \in Nat /\ U32Max \in Nat
        BY LayoutAssumption
      <3> HIDE DEF cs, ts
      <3> QED BY <1>1, <3>1, <2>2, <2>3, <2>4, <2>7, <2>8
    <2>11. repartition(cs, m, t, o.alignment) # None
      <3> HIDE DEF cs
      <3> QED BY <1>1, <2>9, <2>10, RepartitionTotal
    <2> HIDE DEF l, ts, cs
    <2>12. l \in SectionLayout /\ l.content_start = cs
      BY <2>1, <2>10 DEF SectionLayout
    <2>13. l.content_start >= o.min_content_start
      BY <1>1, <2>7, <2>12
    <2> QED BY <2>11, <2>12, <2>13 DEF l
  <1> QED BY <1>2, <1>3

\* compute keeps the prefix named by min_content_start (layout.rs:91-98)
\* whenever repartition accepts it.
LEMMA ComputeKeepsFloor ==
    ASSUME NEW o \in LayoutOptions, NEW m \in Nat, NEW t \in Nat,
           o.min_content_start > 0,
           repartition(o.min_content_start, m, t, o.alignment) # None
    PROVE  compute(o, m, t).content_start = o.min_content_start
  <1>1. o.min_content_start \in 0 .. U32Max /\ o.alignment \in Nat
    BY DEF LayoutOptions
  <1>2. compute(o, m, t)
          = repartition(o.min_content_start, m, t, o.alignment)
    BY DEF compute
  <1> QED BY <1>1, <1>2, RepartitionSound
=============================================================================
