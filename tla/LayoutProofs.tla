---------------------------- MODULE LayoutProofs ----------------------------
(***************************************************************************)
(* Theorems about LayoutSession: an inductive invariant, and the safety    *)
(* properties that follow from it for every choice of the constants.       *)
(***************************************************************************)
EXTENDS LayoutSession, LayoutLemmas

-----------------------------------------------------------------------------
(* The inductive invariant of LayoutSession.                               *)

\* What holds of the layout in every phase: between create and publication the
\* content lies at the offset the layout names, a copied object is accepted by
\* finish, and a published one has room for both sections.
LayoutIInv ==
    /\ TypeOK
    /\ ContentWhereWritten
    /\ CopiedFits
    /\ SectionsDisjoint

\* The constants supply legal options and sizes, also after the two ways the
\* code adjusts them.
LEMMA OptionsAdjusted ==
    /\ \A o \in LayoutOptions : RaiseReserves(o, RewriteReserve) \in LayoutOptions
    /\ \A cs \in 0 .. U32Max :
          [DefaultOptions EXCEPT !.min_content_start = cs] \in LayoutOptions
  BY LayoutSessionAssumption DEF LayoutOptions, RaiseReserves, AtLeast

\* The layout of an object that exists is a proper one.
LEMMA LayoutTyped ==
    ASSUME TypeOK, phase # "none"
    PROVE  /\ layout \in SectionLayout
           /\ layout.content_start \in 0 .. U32Max
           /\ layout.content_start \in Nat
           /\ opts.alignment \in Nat
  BY LayoutAssumption DEF TypeOK, SectionLayout, LayoutOptions

\* The initial state satisfies the invariant.
LEMMA LayoutInit == Init => LayoutIInv
  BY LayoutSessionAssumption, LayoutAssumption
     DEF Init, LayoutIInv, TypeOK, ContentWhereWritten, CopiedFits,
         SectionsDisjoint, SectionLayout

\* Every operation preserves the invariant.
LEMMA LayoutStep == LayoutIInv /\ [Next]_vars => LayoutIInv'
  <1> SUFFICES ASSUME LayoutIInv, [Next]_vars PROVE LayoutIInv'
    OBVIOUS
  <1> USE DEF LayoutIInv
  <1>1. ASSUME NEW o \in OptionChoices, NEW m \in MetadataSizes,
               NEW t \in TagsSizes, Create(o, m, t)
        PROVE  LayoutIInv'
    <2>1. o \in LayoutOptions /\ m \in Nat /\ t \in Nat
      BY LayoutSessionAssumption
    <2>2. /\ layout' = compute(o, m, t) /\ layout' \in SectionLayout
          /\ layout' # None
      BY <1>1, <2>1, ComputeSound DEF Create
    <2>3. layout'.content_start \in Nat
      BY <2>2, LayoutAssumption DEF SectionLayout
    <2> QED
      BY <1>1, <2>1, <2>2, <2>3
         DEF Create, TypeOK, ContentWhereWritten, CopiedFits, SectionsDisjoint
  <1>2. ASSUME NEW m \in MetadataSizes, NEW t \in TagsSizes, Mutate(m, t)
        PROVE  LayoutIInv'
    BY <1>2, LayoutSessionAssumption
       DEF Mutate, TypeOK, ContentWhereWritten, CopiedFits, SectionsDisjoint
  <1>3. CASE Finish
    <2>1. phase # "none" /\ metadata_size \in Nat /\ tags_size \in Nat
      BY <1>3 DEF Finish, TypeOK
    <2>2. /\ Refit \in SectionLayout
          /\ Refit.content_start = layout.content_start
          /\ HeaderSize + metadata_size <= Refit.tags_start
          /\ Refit.tags_start + tags_size <= layout.content_start
      BY <1>3, <2>1, LayoutTyped, RepartitionSound DEF Finish, Refit
    <2> QED
      BY <1>3, <2>1, <2>2, LayoutAssumption
         DEF Finish, TypeOK, ContentWhereWritten, CopiedFits, SectionsDisjoint
  <1>4. CASE FinishByRewriting
    <2>1. /\ Raised \in LayoutOptions
          /\ metadata_size \in Nat /\ tags_size \in Nat
      BY OptionsAdjusted DEF TypeOK, Raised
    <2>2. /\ layout' = compute(Raised, metadata_size, tags_size)
          /\ layout' \in SectionLayout
          /\ repartition(layout'.content_start, metadata_size, tags_size,
                         Raised.alignment) # None
      BY <1>4, <2>1, ComputeSound DEF FinishByRewriting
    <2>3. layout' # None /\ layout'.content_start \in Nat
      BY <2>2, LayoutAssumption DEF SectionLayout
    <2>4. opts' = Raised /\ Refit' # None
      BY <1>4, <2>2 DEF FinishByRewriting, Refit, Sizes
    <2> QED
      BY <1>4, <2>1, <2>2, <2>3, <2>4
         DEF FinishByRewriting, Sizes, TypeOK, ContentWhereWritten, CopiedFits,
             SectionsDisjoint
  <1>5. CASE FinishFails
    BY <1>5, LayoutSessionAssumption
       DEF FinishFails, TypeOK, ContentWhereWritten, CopiedFits,
           SectionsDisjoint
  <1>6. ASSUME NEW m \in MetadataSizes, NEW t \in TagsSizes, Rewrite(m, t)
        PROVE  LayoutIInv'
    <2>1. /\ RewriteOptions \in LayoutOptions /\ m \in Nat /\ t \in Nat
      BY <1>6, LayoutTyped, OptionsAdjusted, LayoutSessionAssumption
         DEF Rewrite, RewriteOptions
    <2>2. /\ layout' = compute(RewriteOptions, m, t)
          /\ layout' \in SectionLayout
          /\ repartition(layout'.content_start, m, t, RewriteOptions.alignment)
                # None
      BY <1>6, <2>1, ComputeSound DEF Rewrite
    <2>3. layout' # None /\ layout'.content_start \in Nat
      BY <2>2, LayoutAssumption DEF SectionLayout
    <2>4. opts' = RewriteOptions /\ Refit' # None
      BY <1>6, <2>2 DEF Rewrite, Refit
    <2> QED
      BY <1>6, <2>1, <2>2, <2>3, <2>4
         DEF Rewrite, TypeOK, ContentWhereWritten, CopiedFits, SectionsDisjoint
  <1>7. ASSUME NEW m \in MetadataSizes, NEW t \in TagsSizes,
               SetSectionsInPlace(m, t)
        PROVE  LayoutIInv'
    <2> DEFINE l == repartition(layout.content_start, m, t, DefaultAlignment)
    <2>1. /\ m \in Nat /\ t \in Nat /\ DefaultAlignment \in Nat
          /\ phase # "none"
      BY <1>7, LayoutSessionAssumption
         DEF SetSectionsInPlace, DefaultAlignment, LayoutOptions
    <2>2. /\ l \in SectionLayout /\ l.content_start = layout.content_start
          /\ HeaderSize + m <= l.tags_start
          /\ l.tags_start + t <= layout.content_start
      BY <1>7, <2>1, LayoutTyped, RepartitionSound DEF SetSectionsInPlace
    <2>3. /\ layout' = l /\ metadata_size' = m /\ tags_size' = t
          /\ UNCHANGED <<phase, opts, content_at>> /\ phase = "published"
      BY <1>7 DEF SetSectionsInPlace
    <2> HIDE DEF l
    <2> QED
      BY <2>1, <2>2, <2>3, LayoutAssumption
         DEF TypeOK, ContentWhereWritten, CopiedFits, SectionsDisjoint
  <1>8. CASE UNCHANGED vars
    BY <1>8 DEF vars, TypeOK, ContentWhereWritten, CopiedFits, Refit,
                SectionsDisjoint
  <1> QED
    BY <1>1, <1>2, <1>3, <1>4, <1>5, <1>6, <1>7, <1>8 DEF Next

\* Every reachable state of every layout session satisfies the invariant.
THEOREM LayoutInvariant == Spec => []LayoutIInv
  BY LayoutInit, LayoutStep, PTL DEF Spec

-----------------------------------------------------------------------------
(* What the invariant gives.                                               *)

\* Offsets stay within the widths of the header's fields (layout.rs:104-118,
\* 151-153): the casts to u16 and u32 never truncate.
THEOREM LayoutTypeCorrect == Spec => []TypeOK
  BY LayoutInvariant, PTL DEF LayoutIInv

\* The sections of a published object never overlap, so the space checks of
\* encode_prefix (writer.rs:316-327) never refuse what finish, rewrite and
\* set_sections_in_place ask for.
THEOREM SectionsNeverOverlap == Spec => []SectionsDisjoint
  BY LayoutInvariant, PTL DEF LayoutIInv

\* A header never names an offset other than the one the content was streamed
\* or copied to (writer.rs:174-185, object.rs:239-241).
THEOREM ContentStaysPut == Spec => []ContentWhereWritten
  BY LayoutInvariant, PTL DEF LayoutIInv

\* finish_by_rewriting (writer.rs:250-274) recurses into finish once only.
THEOREM RewritingHappensOnce == Spec => []CopiedFits
  BY LayoutInvariant, PTL DEF LayoutIInv

\* Repeated updates of a published object do not creep its content forward
\* (object.rs:261-265): as long as the sections fit, the content stays.
THEOREM UpdatesNeverCreep == Spec => NeverCreeps
  <1> DEFINE Stays ==
        phase = "published" =>
          /\ layout'.content_start >= layout.content_start
          /\ (/\ HeaderSize + metadata_size' + tags_size' <= layout.content_start
              /\ align_up(HeaderSize + metadata_size', DefaultAlignment)
                    <= U16Max)
             => layout'.content_start = layout.content_start
  <1>1. LayoutIInv /\ [Next]_vars => [Stays]_vars
    <2> SUFFICES ASSUME LayoutIInv, [Next]_vars, phase = "published"
                 PROVE  Stays
      OBVIOUS
    <2>1. /\ layout \in SectionLayout /\ layout.content_start \in 0 .. U32Max
          /\ layout.content_start \in Nat /\ layout.content_start > 0
      <3>1. /\ layout \in SectionLayout /\ layout.content_start \in 0 .. U32Max
            /\ layout.content_start \in Nat
        BY LayoutTyped DEF LayoutIInv
      <3>2. layout.tags_start \in Nat /\ HeaderSize > 0 /\ HeaderSize \in Nat
        BY <3>1, LayoutAssumption DEF SectionLayout
      <3>3. /\ HeaderSize + metadata_size <= layout.tags_start
            /\ layout.tags_start + tags_size <= layout.content_start
            /\ metadata_size \in Nat /\ tags_size \in Nat
        BY DEF LayoutIInv, SectionsDisjoint, TypeOK
      <3> QED BY <3>1, <3>2, <3>3
    <2>2. ASSUME NEW m \in MetadataSizes, NEW t \in TagsSizes, Rewrite(m, t)
          PROVE  Stays
      <3>1. /\ RewriteOptions \in LayoutOptions /\ m \in Nat /\ t \in Nat
            /\ RewriteOptions.min_content_start = layout.content_start
            /\ RewriteOptions.alignment = DefaultAlignment
        BY <2>1, OptionsAdjusted, LayoutSessionAssumption
           DEF RewriteOptions, DefaultAlignment, LayoutOptions
      <3>2. /\ layout' = compute(RewriteOptions, m, t)
            /\ layout'.content_start >= layout.content_start
            /\ metadata_size' = m /\ tags_size' = t
        BY <2>2, <3>1, ComputeSound DEF Rewrite
      <3>3. ASSUME HeaderSize + m + t <= layout.content_start,
                   align_up(HeaderSize + m, DefaultAlignment) <= U16Max
            PROVE  layout'.content_start = layout.content_start
        <4>1. DefaultAlignment \in Nat
          BY LayoutSessionAssumption DEF DefaultAlignment, LayoutOptions
        <4>2. repartition(layout.content_start, m, t, DefaultAlignment) # None
          BY <2>1, <3>1, <3>3, <4>1, RepartitionTotal
        <4> QED BY <2>1, <3>1, <3>2, <4>2, ComputeKeepsFloor
      <3> QED BY <3>2, <3>3
    <2>3. ASSUME NEW m \in MetadataSizes, NEW t \in TagsSizes,
                 SetSectionsInPlace(m, t)
          PROVE  Stays
      <3>1. m \in Nat /\ t \in Nat /\ DefaultAlignment \in Nat
        BY LayoutSessionAssumption DEF DefaultAlignment, LayoutOptions
      <3>2. layout'.content_start = layout.content_start
        BY <2>1, <2>3, <3>1, RepartitionSound DEF SetSectionsInPlace
      <3> QED BY <2>1, <3>2
    <2>4. CASE UNCHANGED vars
      BY <2>1, <2>4 DEF vars
    <2> QED
      BY <2>2, <2>3, <2>4
         DEF Next, Create, Mutate, Finish, FinishByRewriting, FinishFails
  <1> QED BY <1>1, LayoutInvariant, PTL DEF Spec, NeverCreeps
=============================================================================
