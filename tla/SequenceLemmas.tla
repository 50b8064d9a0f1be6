---------------------------- MODULE SequenceLemmas ----------------------------
(***************************************************************************)
(* Induction, stated for sets and so within reach of first-order provers,  *)
(* and what Total and FlattenSeq give for a sequence with one element more. *)
(***************************************************************************)
EXTENDS Totals, SequencesExt, SequenceTheorems, WellFoundedInduction, TLAPS

\* Every set of numbers has a least one.
LEMMA LeastNat ==
    ASSUME NEW T, T \subseteq Nat, T # {}
    PROVE  \E n \in T : \A m \in T : n <= m
  <1> DEFINE R == {ss \in Nat \X Nat : ss[1] < ss[2]}
  <1>1. IsWellFoundedOn(R, Nat)
    BY NatLessThanWellFounded DEF OpToRel
  <1> HIDE DEF R
  <1>2. PICK n \in T : \A m \in T : <<m, n>> \notin R
    BY <1>1, WFMin
  <1>3. ASSUME NEW m \in T PROVE n <= m
    <2>1. m \in Nat /\ n \in Nat
      OBVIOUS
    <2>2. m < n => <<m, n>> \in R
      BY <2>1 DEF R
    <2> QED BY <1>2, <2>1, <2>2
  <1> QED BY <1>3

\* A set that has 0, and with each number the next, has all numbers.
LEMMA Induct ==
    ASSUME NEW P, 0 \in P, \A n \in Nat : n \in P => n + 1 \in P
    PROVE  Nat \subseteq P
  <1> SUFFICES ASSUME Nat \ P # {} PROVE FALSE
    OBVIOUS
  <1>1. PICK n \in Nat \ P : \A m \in Nat \ P : n <= m
    <2> DEFINE T == Nat \ P
    <2>1. T \subseteq Nat /\ T # {}
      OBVIOUS
    <2> HIDE DEF T
    <2>2. PICK n \in T : \A m \in T : n <= m
      BY <2>1, LeastNat
    <2> QED BY <2>2 DEF T
  <1>2. n - 1 \in Nat /\ n - 1 \in P
    BY <1>1
  <1> QED BY <1>1, <1>2

\* A sequence is empty, or a shorter one with an element appended.
LEMMA LastElement ==
    ASSUME NEW S, NEW s \in Seq(S), s # <<>>
    PROVE  /\ Len(s) \in Nat \ {0} /\ s[Len(s)] \in S
           /\ SubSeq(s, 1, Len(s) - 1) \in Seq(S)
           /\ Len(SubSeq(s, 1, Len(s) - 1)) = Len(s) - 1
           /\ s = Append(SubSeq(s, 1, Len(s) - 1), s[Len(s)])
  <1>1. Len(s) \in Nat \ {0} /\ \A k \in 1 .. Len(s) : s[k] \in S
    OBVIOUS
  <1>2. PICK n \in Nat : Len(s) = n + 1
    BY <1>1
  <1> DEFINE front == SubSeq(s, 1, n)
  <1>3. /\ front \in Seq(S)
        /\ Len(front) = IF 1 <= n THEN n - 1 + 1 ELSE 0
        /\ \A k \in 1 .. n - 1 + 1 : front[k] = s[1 + k - 1]
    <2>1. \A k \in 1 .. n : s[k] \in S
      BY <1>1, <1>2
    <2> QED BY <2>1, SubSeqProperties
  <1> HIDE DEF front
  <1>4. Len(front) = n
    BY <1>3
  <1>5. \A k \in 1 .. n : front[k] = s[k]
    BY <1>3
  <1>6. s[n + 1] \in S
    BY <1>1, <1>2
  <1>7. s = Append(front, s[n + 1])
    BY <1>1, <1>2, <1>3, <1>4, <1>5, <1>6
  <1>8. n = Len(s) - 1
    BY <1>2
  <1> QED BY <1>1, <1>2, <1>3, <1>4, <1>6, <1>7, <1>8 DEF front

\* A set that has the empty sequence, and with each sequence those that are one
\* element longer, has all sequences.
LEMMA SequenceInduct ==
    ASSUME NEW S, NEW P, <<>> \in P,
           \A s \in Seq(S), x \in S : s \in P => Append(s, x) \in P
    PROVE  Seq(S) \subseteq P
  <1> DEFINE Q == {n \in Nat : \A s \in Seq(S) : Len(s) = n => s \in P}
  <1>1. 0 \in Q
    OBVIOUS
  <1>2. ASSUME NEW n \in Nat, n \in Q PROVE n + 1 \in Q
    <2>1. ASSUME NEW s \in Seq(S), Len(s) = n + 1 PROVE s \in P
      <3>1. s # <<>>
        BY <1>2, <2>1
      <3>2. PICK front \in Seq(S), x \in S : Len(front) = n /\ s = Append(front, x)
        <4>1. Len(s) - 1 = n
          BY <1>2, <2>1
        <4>2. PICK front, x : front = SubSeq(s, 1, Len(s) - 1) /\ x = s[Len(s)]
          OBVIOUS
        <4> QED BY <3>1, <4>1, <4>2, LastElement
      <3> QED BY <1>2, <3>2
    <2> QED BY <2>1
  <1> HIDE DEF Q
  <1>3. Nat \subseteq Q
    BY <1>1, <1>2, Induct
  <1>4. \A s \in Seq(S) : Len(s) \in Q
    BY <1>3
  <1> QED BY <1>4 DEF Q
-----------------------------------------------------------------------------
(* Sums.                                                                   *)

\* The numbers that are summed: naturals or integers.
Summed(N) == N \subseteq Int /\ 0 \in N /\ \A a, b \in N : a + b \in N

LEMMA SummedNumbers == Summed(Nat) /\ Summed(Int)
  BY DEF Summed

\* u has the sums up to each place.
SumsOf(u, ns, N) ==
    /\ u \in [0 .. Len(ns) -> N]
    /\ u[0] = 0
    /\ \A k \in 1 .. Len(ns) : u[k] = u[k - 1] + ns[k]

\* There are such sums, and Total is the last of them.
LEMMA PartialTotals ==
    ASSUME NEW N, Summed(N), NEW ns \in Seq(N)
    PROVE  \E u : SumsOf(u, ns, N) /\ Total(ns) = u[Len(ns)]
  <1> DEFINE Sums(u, n) == u = [k \in 0 .. n |-> IF k = 0 THEN 0 ELSE u[k - 1] + ns[k]]
             Found(n) == \E u : Sums(u, n) /\ u \in [0 .. n -> N]
             P == {n \in Nat : n <= Len(ns) => Found(n)}
  <1>1. 0 \in P
    <2>1. PICK u : u = [k \in 0 .. 0 |-> 0]
      OBVIOUS
    <2>2. Sums(u, 0) /\ u \in [0 .. 0 -> N]
      BY <2>1 DEF Summed
    <2> QED BY <2>2
  <1>2. ASSUME NEW n \in Nat, n \in P PROVE n + 1 \in P
    <2>1. ASSUME n + 1 <= Len(ns) PROVE Found(n + 1)
      <3>1. PICK u : Sums(u, n) /\ u \in [0 .. n -> N]
        BY <1>2, <2>1
      <3>2. PICK v : v = [k \in 0 .. n + 1 |-> IF k = n + 1 THEN u[n] + ns[n + 1] ELSE u[k]]
        OBVIOUS
      <3>3. v \in [0 .. n + 1 -> N]
        <4>1. u[n] \in N /\ ns[n + 1] \in N
          BY <2>1, <3>1
        <4>2. u[n] + ns[n + 1] \in N
          BY <4>1 DEF Summed
        <4> QED BY <3>1, <3>2, <4>2
      <3>4. ASSUME NEW k \in 0 .. n + 1
            PROVE  v[k] = IF k = 0 THEN 0 ELSE v[k - 1] + ns[k]
        BY <2>1, <3>1, <3>2
      <3>5. Sums(v, n + 1)
        BY <3>2, <3>4
      <3> QED BY <3>3, <3>5
    <2> HIDE DEF Found
    <2> QED BY <2>1
  <1> HIDE DEF P
  <1>3. Nat \subseteq P
    BY <1>1, <1>2, Induct
  <1>4. Found(Len(ns))
    <2> HIDE DEF Found
    <2> QED BY <1>3 DEF P
  <1>5. PICK u : Sums(u, Len(ns)) /\ u \in [0 .. Len(ns) -> N]
    BY <1>4
  <1> DEFINE t == CHOOSE t : Sums(t, Len(ns))
  <1>6. Sums(t, Len(ns)) /\ Total(ns) = t[Len(ns)]
    BY <1>5 DEF Total
  <1> HIDE DEF t
  <1>7. t = u
    <2> DEFINE Q == {n \in Nat : n <= Len(ns) => t[n] = u[n]}
    <2>1. \A n \in 0 .. Len(ns) : /\ t[n] = IF n = 0 THEN 0 ELSE t[n - 1] + ns[n]
                                  /\ u[n] = IF n = 0 THEN 0 ELSE u[n - 1] + ns[n]
      BY <1>5, <1>6
    <2>2. 0 \in Q
      BY <2>1
    <2>3. ASSUME NEW n \in Nat, n \in Q PROVE n + 1 \in Q
      BY <2>1, <2>3
    <2> HIDE DEF Q
    <2>4. Nat \subseteq Q
      BY <2>2, <2>3, Induct
    <2>5. \A n \in 0 .. Len(ns) : t[n] = u[n]
      BY <2>4 DEF Q
    <2> QED BY <1>5, <1>6, <2>5
  <1>8. SumsOf(u, ns, N)
    <2>1. \A k \in 0 .. Len(ns) : u[k] = IF k = 0 THEN 0 ELSE u[k - 1] + ns[k]
      BY <1>5
    <2>2. u \in [0 .. Len(ns) -> N]
      BY <1>5
    <2> HIDE DEF Sums
    <2>3. Len(ns) \in Nat
      OBVIOUS
    <2>4. u[0] = 0
      BY <2>1, <2>3
    <2>5. \A k \in 1 .. Len(ns) : u[k] = u[k - 1] + ns[k]
      BY <2>1, <2>3
    <2> QED BY <2>2, <2>4, <2>5 DEF SumsOf
  <1> QED BY <1>6, <1>7, <1>8

\* Two sequences that begin alike have the same sums as far as they do.
LEMMA TotalsAgree ==
    ASSUME NEW N, Summed(N), NEW ns \in Seq(N), NEW ms \in Seq(N), NEW n \in Nat,
           n <= Len(ns), n <= Len(ms), \A k \in 1 .. n : ns[k] = ms[k],
           NEW u, SumsOf(u, ns, N), NEW v, SumsOf(v, ms, N)
    PROVE  u[n] = v[n]
  <1> DEFINE Q == {k \in Nat : k <= n => u[k] = v[k]}
  <1>1. 0 \in Q
    BY DEF SumsOf
  <1>2. ASSUME NEW k \in Nat, k \in Q PROVE k + 1 \in Q
    <2>1. ASSUME k + 1 <= n PROVE u[k + 1] = v[k + 1]
      <3>1. /\ k + 1 \in 1 .. Len(ns) /\ k + 1 \in 1 .. Len(ms) /\ k + 1 \in 1 .. n
            /\ (k + 1) - 1 = k
        BY <2>1
      <3>2. u[k + 1] = u[k] + ns[k + 1] /\ v[k + 1] = v[k] + ms[k + 1]
        BY <3>1 DEF SumsOf
      <3> QED BY <1>2, <2>1, <3>1, <3>2
    <2> QED BY <2>1
  <1> HIDE DEF Q
  <1>3. Nat \subseteq Q
    BY <1>1, <1>2, Induct
  <1>4. n \in Q
    BY <1>3
  <1> QED BY <1>4 DEF Q

\* The sum of nothing, and that it is a number.
LEMMA TotalEmpty == Total(<<>>) = 0
  <1>1. <<>> \in Seq(Nat) /\ Len(<<>>) = 0
    OBVIOUS
  <1> QED BY <1>1, SummedNumbers, PartialTotals DEF SumsOf

LEMMA TotalIsNat ==
    ASSUME NEW ns \in Seq(Nat) PROVE Total(ns) \in Nat
  <1>1. PICK u : SumsOf(u, ns, Nat) /\ Total(ns) = u[Len(ns)]
    BY SummedNumbers, PartialTotals
  <1>2. Len(ns) \in 0 .. Len(ns)
    OBVIOUS
  <1> QED BY <1>1, <1>2 DEF SumsOf

\* One more summand.
LEMMA TotalGrows ==
    ASSUME NEW N, Summed(N), NEW ns \in Seq(N), NEW n \in N
    PROVE  Total(Append(ns, n)) = Total(ns) + n
  <1>1. PICK ms : ms = Append(ns, n)
    OBVIOUS
  <1>2. PICK last \in Nat : last = Len(ns)
    OBVIOUS
  <1>3. /\ ms \in Seq(N) /\ Len(ms) = last + 1 /\ ms[last + 1] = n
        /\ \A k \in 1 .. last : ns[k] = ms[k]
    BY <1>1, <1>2
  <1>4. PICK u : SumsOf(u, ns, N) /\ Total(ns) = u[last]
    BY <1>2, PartialTotals
  <1>5. PICK v : SumsOf(v, ms, N) /\ Total(ms) = v[last + 1]
    BY <1>3, PartialTotals
  <1>6. last <= Len(ns) /\ last <= Len(ms)
    BY <1>2, <1>3
  <1>7. u[last] = v[last]
    BY <1>3, <1>4, <1>5, <1>6, TotalsAgree
  <1>8. v[last + 1] = v[last] + n
    <2>1. last + 1 \in 1 .. Len(ms) /\ (last + 1) - 1 = last
      BY <1>3
    <2> QED BY <1>3, <1>5, <2>1 DEF SumsOf
  <1> QED BY <1>1, <1>4, <1>5, <1>7, <1>8

LEMMA TotalAppend ==
    ASSUME NEW ns \in Seq(Nat), NEW n \in Nat
    PROVE  Total(Append(ns, n)) = Total(ns) + n
  BY SummedNumbers, TotalGrows

\* What a part from the left of a sequence is.
LEMMA FrontOf ==
    ASSUME NEW S, NEW s \in Seq(S), NEW n \in 0 .. Len(s)
    PROVE  /\ SubSeq(s, 1, n) \in Seq(S) /\ Len(SubSeq(s, 1, n)) = n
           /\ \A k \in 1 .. n : SubSeq(s, 1, n)[k] = s[k]
  <1>1. n \in Nat /\ \A k \in 1 .. n : s[k] \in S
    <2>1. Len(s) \in Nat /\ \A k \in 1 .. Len(s) : s[k] \in S
      OBVIOUS
    <2> QED BY <2>1
  <1>2. PICK front : front = SubSeq(s, 1, n)
    OBVIOUS
  <1>3. /\ front \in Seq(S) /\ Len(front) = IF 1 <= n THEN n - 1 + 1 ELSE 0
        /\ \A k \in 1 .. n - 1 + 1 : front[k] = s[1 + k - 1]
    BY <1>1, <1>2, SubSeqProperties
  <1>4. Len(front) = n
    BY <1>1, <1>3
  <1>5. \A k \in 1 .. n : front[k] = s[k]
    BY <1>1, <1>3
  <1> QED BY <1>2, <1>3, <1>4, <1>5

\* The sum of a part from the left is no more than the sum.
LEMMA TotalOfFront ==
    ASSUME NEW ns \in Seq(Nat), NEW n \in 0 .. Len(ns)
    PROVE  Total(SubSeq(ns, 1, n)) <= Total(ns)
  <1>1. PICK last \in Nat : last = Len(ns)
    OBVIOUS
  <1>2. n \in Nat /\ n <= last
    BY <1>1
  <1>3. PICK ms \in Seq(Nat) : /\ ms = SubSeq(ns, 1, n) /\ Len(ms) = n
                              /\ \A k \in 1 .. n : ns[k] = ms[k]
    BY FrontOf
  <1>4. PICK u : SumsOf(u, ns, Nat) /\ Total(ns) = u[last]
    BY <1>1, SummedNumbers, PartialTotals
  <1>5. PICK v : SumsOf(v, ms, Nat) /\ Total(ms) = v[n]
    BY <1>3, SummedNumbers, PartialTotals
  <1>6. u[n] = v[n]
    <2>1. n <= Len(ns) /\ n <= Len(ms) /\ n \in Nat
      BY <1>1, <1>2, <1>3
    <2>2. \A k \in 1 .. n : ns[k] = ms[k]
      BY <1>3
    <2>3. SumsOf(u, ns, Nat) /\ SumsOf(v, ms, Nat)
      BY <1>4, <1>5
    <2> QED BY ONLY <2>1, <2>2, <2>3, ns \in Seq(Nat), ms \in Seq(Nat), SummedNumbers, TotalsAgree
  <1>7. u[n] <= u[last]
    <2> DEFINE Q == {k \in Nat : n + k <= last => u[n] <= u[n + k]}
    <2>1. \A k \in 0 .. last : u[k] \in Nat
      BY <1>1, <1>4 DEF SumsOf
    <2>2. 0 \in Q
      BY <1>2, <2>1
    <2>3. ASSUME NEW k \in Nat, k \in Q PROVE k + 1 \in Q
      <3>1. ASSUME n + (k + 1) <= last PROVE u[n] <= u[n + (k + 1)]
        <4>1. n + (k + 1) \in 1 .. last /\ n + (k + 1) - 1 = n + k
          BY <1>2, <3>1
        <4>2. u[n + (k + 1)] = u[n + k] + ns[n + (k + 1)] /\ ns[n + (k + 1)] \in Nat
          BY <1>1, <1>4, <4>1 DEF SumsOf
        <4>3. u[n] \in Nat /\ u[n + k] \in Nat /\ u[n] <= u[n + k]
          BY <1>2, <2>1, <2>3, <3>1
        <4> QED BY <4>2, <4>3
      <3> QED BY <3>1
    <2> HIDE DEF Q
    <2>4. Nat \subseteq Q
      BY <2>2, <2>3, Induct
    <2>5. last - n \in Q /\ n + (last - n) = last
      BY <1>2, <2>4
    <2> QED BY <2>5 DEF Q
  <1> QED BY <1>3, <1>4, <1>5, <1>6, <1>7
-----------------------------------------------------------------------------
(* FlattenSeq.                                                             *)

\* u has what the sequences up to each place join to.
JoinsOf(u, ss, S) ==
    /\ u \in [1 .. Len(ss) -> Seq(S)]
    /\ \A k \in 1 .. Len(ss) : u[k] = IF k = 1 THEN ss[k] ELSE u[k - 1] \o ss[k]

\* There is such a u, and FlattenSeq is the last of it.
LEMMA PartialJoins ==
    ASSUME NEW S, NEW ss \in Seq(Seq(S)), ss # <<>>
    PROVE  \E u : JoinsOf(u, ss, S) /\ FlattenSeq(ss) = u[Len(ss)]
  <1> DEFINE Joins(u, n) == u = [k \in 1 .. n |-> IF k = 1 THEN ss[k] ELSE u[k - 1] \o ss[k]]
             Found(n) == \E u : Joins(u, n) /\ u \in [1 .. n -> Seq(S)]
             P == {n \in Nat : n <= Len(ss) => Found(n)}
  <1>1. 0 \in P
    <2>1. PICK u : u = [k \in 1 .. 0 |-> <<>>]
      OBVIOUS
    <2>2. Joins(u, 0) /\ u \in [1 .. 0 -> Seq(S)]
      BY <2>1
    <2> QED BY <2>2
  <1>2. ASSUME NEW n \in Nat, n \in P PROVE n + 1 \in P
    <2>1. ASSUME n + 1 <= Len(ss) PROVE Found(n + 1)
      <3>1. PICK u : Joins(u, n) /\ u \in [1 .. n -> Seq(S)]
        <4>1. n <= Len(ss)
          BY <2>1
        <4>2. Found(n)
          <5> HIDE DEF Found
          <5> QED BY <1>2, <4>1
        <4> QED BY <4>2
      <3>2. PICK last : last = IF n = 0 THEN ss[n + 1] ELSE u[n] \o ss[n + 1]
        OBVIOUS
      <3>3. last \in Seq(S)
        <4>1. ss[n + 1] \in Seq(S)
          BY <2>1
        <4>2. CASE n = 0
          BY <3>2, <4>1, <4>2
        <4>3. CASE n # 0
          <5>1. u[n] \in Seq(S)
            BY <3>1, <4>3
          <5> QED BY <3>2, <4>1, <4>3, <5>1
        <4> QED BY <4>2, <4>3
      <3>4. PICK v : v = [k \in 1 .. n + 1 |-> IF k = n + 1 THEN last ELSE u[k]]
        OBVIOUS
      <3>5. v \in [1 .. n + 1 -> Seq(S)]
        <4>1. ASSUME NEW k \in 1 .. n + 1 PROVE (IF k = n + 1 THEN last ELSE u[k]) \in Seq(S)
          <5>1. CASE k = n + 1
            BY <3>3, <5>1
          <5>2. CASE k # n + 1
            <6>1. k \in 1 .. n
              BY <5>2
            <6> QED BY <3>1, <5>2, <6>1
          <5> QED BY <5>1, <5>2
        <4> QED BY <3>4, <4>1
      <3>6. ASSUME NEW k \in 1 .. n + 1
            PROVE  v[k] = IF k = 1 THEN ss[k] ELSE v[k - 1] \o ss[k]
        <4>1. CASE k = n + 1
          <5>1. v[k] = last /\ k - 1 = n
            BY <3>4, <4>1
          <5>2. n # 0 => v[n] = u[n]
            BY <3>4
          <5> QED BY <3>2, <4>1, <5>1, <5>2
        <4>2. CASE k # n + 1
          <5>1. k \in 1 .. n
            BY <4>2
          <5>2. v[k] = u[k] /\ (k # 1 => v[k - 1] = u[k - 1])
            BY <3>4, <4>2, <5>1
          <5>3. u[k] = IF k = 1 THEN ss[k] ELSE u[k - 1] \o ss[k]
            BY <3>1, <5>1
          <5> QED BY <5>2, <5>3
        <4> QED BY <4>1, <4>2
      <3>7. Joins(v, n + 1)
        BY <3>4, <3>6
      <3> QED BY <3>5, <3>7
    <2> HIDE DEF Found
    <2> QED BY <2>1
  <1> HIDE DEF P
  <1>3. Nat \subseteq P
    BY <1>1, <1>2, Induct
  <1>4. Found(Len(ss))
    <2> HIDE DEF Found
    <2> QED BY <1>3 DEF P
  <1>5. PICK u : Joins(u, Len(ss)) /\ u \in [1 .. Len(ss) -> Seq(S)]
    BY <1>4
  <1> DEFINE t == CHOOSE t : Joins(t, Len(ss))
  <1>6. Joins(t, Len(ss))
    BY <1>5
  <1>7. FlattenSeq(ss) = t[Len(ss)]
    <2>1. Len(ss) # 0
      OBVIOUS
    <2> QED BY <2>1 DEF FlattenSeq
  <1> HIDE DEF t
  <1>8. t = u
    <2> DEFINE Q == {n \in Nat : n <= Len(ss) /\ n # 0 => t[n] = u[n]}
    <2>1. \A n \in 1 .. Len(ss) : /\ t[n] = IF n = 1 THEN ss[n] ELSE t[n - 1] \o ss[n]
                                  /\ u[n] = IF n = 1 THEN ss[n] ELSE u[n - 1] \o ss[n]
      BY <1>5, <1>6
    <2>2. 0 \in Q
      OBVIOUS
    <2>3. ASSUME NEW n \in Nat, n \in Q PROVE n + 1 \in Q
      <3>1. ASSUME n + 1 <= Len(ss) PROVE t[n + 1] = u[n + 1]
        <4>1. n + 1 \in 1 .. Len(ss) /\ (n + 1) - 1 = n /\ (n = 0 <=> n + 1 = 1)
          BY <3>1
        <4> QED BY <2>1, <2>3, <3>1, <4>1
      <3> QED BY <3>1
    <2> HIDE DEF Q
    <2>4. Nat \subseteq Q
      BY <2>2, <2>3, Induct
    <2>5. \A n \in 1 .. Len(ss) : t[n] = u[n]
      BY <2>4 DEF Q
    <2>6. t = [k \in 1 .. Len(ss) |-> t[k]]
      BY <1>6
    <2>7. u = [k \in 1 .. Len(ss) |-> u[k]]
      BY <1>5
    <2> HIDE DEF Joins
    <2> QED BY <2>5, <2>6, <2>7
  <1>9. JoinsOf(u, ss, S)
    <2>1. \A k \in 1 .. Len(ss) : u[k] = IF k = 1 THEN ss[k] ELSE u[k - 1] \o ss[k]
      BY <1>5
    <2> QED BY <1>5, <2>1 DEF JoinsOf
  <1> QED BY <1>7, <1>8, <1>9

LEMMA FlattenEmpty == FlattenSeq(<<>>) = <<>>
  BY DEF FlattenSeq

\* Sequences of sequences of one kind join to one of that kind.
LEMMA FlattenIsSeq ==
    ASSUME NEW S, NEW ss \in Seq(Seq(S)) PROVE FlattenSeq(ss) \in Seq(S)
  <1>1. CASE ss = <<>>
    <2>1. <<>> \in Seq(S)
      OBVIOUS
    <2> QED BY <1>1, <2>1, FlattenEmpty
  <1>2. CASE ss # <<>>
    <2>1. PICK u : JoinsOf(u, ss, S) /\ FlattenSeq(ss) = u[Len(ss)]
      BY <1>2, PartialJoins
    <2>2. Len(ss) \in 1 .. Len(ss)
      BY <1>2
    <2> QED BY <2>1, <2>2 DEF JoinsOf
  <1> QED BY <1>1, <1>2

\* One more sequence.
LEMMA FlattenAppend ==
    ASSUME NEW S, NEW ss \in Seq(Seq(S)), NEW s \in Seq(S)
    PROVE  FlattenSeq(Append(ss, s)) = FlattenSeq(ss) \o s
  <1>1. PICK last \in Nat : last = Len(ss)
    OBVIOUS
  <1>2. PICK tt \in Seq(Seq(S)) :
           /\ tt = Append(ss, s) /\ Len(tt) = last + 1 /\ tt[last + 1] = s
           /\ \A k \in 1 .. last : ss[k] = tt[k]
    <2>1. PICK tt : tt = Append(ss, s)
      OBVIOUS
    <2>2. tt \in Seq(Seq(S))
      BY <2>1
    <2>3. Len(tt) = last + 1 /\ tt[last + 1] = s
      BY <1>1, <2>1
    <2>4. \A k \in 1 .. last : ss[k] = tt[k]
      BY <1>1, <2>1
    <2> QED BY <2>1, <2>2, <2>3, <2>4
  <1>3. tt # <<>>
    BY <1>1, <1>2
  <1>4. PICK v : JoinsOf(v, tt, S) /\ FlattenSeq(tt) = v[last + 1]
    BY <1>2, <1>3, PartialJoins
  <1>5. v[last + 1] = IF last = 0 THEN s ELSE v[last] \o s
    <2>1. last + 1 \in 1 .. Len(tt) /\ (last + 1 = 1 <=> last = 0) /\ (last + 1) - 1 = last
      BY <1>2
    <2> QED BY <1>2, <1>4, <2>1 DEF JoinsOf
  <1>6. CASE ss = <<>>
    <2>1. last = 0 /\ FlattenSeq(ss) = <<>>
      BY <1>1, <1>6, FlattenEmpty
    <2>2. <<>> \o s = s
      OBVIOUS
    <2> QED BY <1>2, <1>4, <1>5, <2>1, <2>2
  <1>7. CASE ss # <<>>
    <2>1. PICK u : JoinsOf(u, ss, S) /\ FlattenSeq(ss) = u[last]
      BY <1>1, <1>7, PartialJoins
    <2>2. last # 0
      BY <1>1, <1>7
    <2> DEFINE Q == {k \in Nat : k <= last /\ k # 0 => u[k] = v[k]}
    <2>3. 0 \in Q
      OBVIOUS
    <2>4. ASSUME NEW k \in Nat, k \in Q PROVE k + 1 \in Q
      <3>1. ASSUME k + 1 <= last PROVE u[k + 1] = v[k + 1]
        <4>1. /\ k + 1 \in 1 .. Len(ss) /\ k + 1 \in 1 .. Len(tt) /\ k + 1 \in 1 .. last
              /\ (k + 1) - 1 = k /\ (k = 0 <=> k + 1 = 1)
          BY <1>1, <1>2, <3>1
        <4>2. /\ u[k + 1] = IF k = 0 THEN ss[k + 1] ELSE u[k] \o ss[k + 1]
              /\ v[k + 1] = IF k = 0 THEN tt[k + 1] ELSE v[k] \o tt[k + 1]
          BY <1>4, <2>1, <4>1 DEF JoinsOf
        <4>3. ss[k + 1] = tt[k + 1] /\ (k # 0 => u[k] = v[k])
          BY <1>2, <2>4, <3>1, <4>1
        <4> QED BY <4>2, <4>3
      <3> QED BY <3>1
    <2> HIDE DEF Q
    <2>5. Nat \subseteq Q
      BY <2>3, <2>4, Induct
    <2>6. last \in Q
      BY <2>5
    <2>7. u[last] = v[last]
      BY <2>2, <2>6 DEF Q
    <2> QED BY <1>2, <1>4, <1>5, <2>1, <2>2, <2>7
  <1> QED BY <1>6, <1>7
\* Joining to a sequence and then appending is joining to the longer one.
LEMMA JoinAppend ==
    ASSUME NEW S, NEW s \in Seq(S), NEW t \in Seq(S), NEW x \in S
    PROVE  s \o Append(t, x) = (s \o t) \o <<x>>
  <1>1. PICK n \in Nat, m \in Nat : n = Len(s) /\ m = Len(t)
    OBVIOUS
  <1>2. PICK a : a = s \o Append(t, x)
    OBVIOUS
  <1>3. PICK j : j = s \o t
    OBVIOUS
  <1>4. PICK b : b = j \o <<x>>
    OBVIOUS
  <1>5. j \in Seq(S) /\ Len(j) = n + m
    BY <1>1, <1>3
  <1>6. a \in Seq(S) /\ Len(a) = n + m + 1
    BY <1>1, <1>2
  <1>7. b \in Seq(S) /\ Len(b) = n + m + 1
    BY <1>4, <1>5
  <1>8. ASSUME NEW k \in 1 .. n + m + 1 PROVE a[k] = b[k]
    <2>1. CASE k \in 1 .. n
      BY <1>1, <1>2, <1>3, <1>4, <1>5, <2>1
    <2>2. CASE k \in n + 1 .. n + m
      BY <1>1, <1>2, <1>3, <1>4, <1>5, <2>2
    <2>3. CASE k = n + m + 1
      <3>1. a[k] = x
        BY <1>1, <1>2, <2>3
      <3>2. b[k] = x
        BY <1>4, <1>5, <2>3
      <3> QED BY <3>1, <3>2
    <2> QED BY <2>1, <2>2, <2>3
  <1>9. /\ a = [k \in 1 .. n + m + 1 |-> a[k]]
        /\ b = [k \in 1 .. n + m + 1 |-> b[k]]
    BY <1>6, <1>7
  <1>10. a = b
    BY <1>8, <1>9
  <1> QED BY <1>2, <1>3, <1>4, <1>10
=============================================================================
