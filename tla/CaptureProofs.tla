--------------------------- MODULE CaptureProofs ---------------------------
(***************************************************************************)
(* The capture of the remote control peripheral is sound for every block,  *)
(* limit, filter and idle threshold, and for lines of any length.          *)
(*                                                                         *)
(* CaptureSound compares the block with the whole history of samples; the  *)
(* channel has a level, four counters and a place.  The inductive          *)
(* invariant says what they are of that history (Tracks): the filter's     *)
(* level is the level of the line and its count the samples since that     *)
(* differ; idle is the age of the last edge; the width lacks the quantum   *)
(* of the edge, which the first pulse does not have; the place is the      *)
(* number of edges modulo the halves of the block, which keeps the pulse   *)
(* being stored off all but the oldest.  Edges are counted by their rank,  *)
(* and a new one comes after all others and leaves their ranks alone       *)
(* (NewEdge).                                                              *)
(***************************************************************************)
EXTENDS RmtCapture, FiniteSetTheorems, WellFoundedInduction, TLAPS

\* The specification without fairness, which safety does not need.
CaptureSpec == CaptureInit /\ [][CaptureNext]_captureVars

\* The level and the edges of a line with samples s under a filter of f, as
\* LineLevel and LineEdges define them, and the edge before the k-th pulse.
Steady(s, f, j) == \A k \in j - f + 1 .. j : s[k] = s[j]
SteadyTo(s, f, i) == {1} \cup {j \in f .. i : Steady(s, f, j)}
Lev(s, f, i) == s[Max(SteadyTo(s, f, i))]
EdgesOf(s, f) == {i \in 2 .. Len(s) : Lev(s, f, i) # Lev(s, f, i - 1)}
Rank(E, i) == Cardinality({j \in E : j <= i})
NthEdge(E, k) == CHOOSE i \in E : Rank(E, i) = k
StartOf(E, k) == IF k = 1 THEN 1 ELSE NthEdge(E, k - 1)

\* The edges are ranked from 1 on, without a gap and in their order.
Ranked(E) ==
  /\ E \subseteq Nat /\ IsFiniteSet(E)
  /\ \A i \in E : Rank(E, i) \in 1 .. Cardinality(E)
  /\ \A k \in 1 .. Cardinality(E) : \E i \in E : Rank(E, i) = k
  /\ \A i, j \in E : i < j => Rank(E, i) < Rank(E, j)

\* The line has a level after each of its samples.
Leveled(s, f) == \A i \in 1 .. Len(s) : Max(SteadyTo(s, f, i)) \in 1 .. i

\* The half item p holds the samples from i to j of the line s.
Kept(s, f, p, i, j) ==
  p[1] = Lev(s, f, j) /\ \E w \in {j - i, j - i + 1} : p[2] = Min({w, MaxWidth})

\* The halves of the block.
Turn == 2 * Capacity

\* The block m holds the pulses from the k0-th on that edges have closed.
Recorded(s, f, m, k0) ==
  LET E == EdgesOf(s, f) IN
  \A k \in 1 .. Cardinality(E) :
    k >= k0 => Kept(s, f, m[(k - 1) % Turn], StartOf(E, k), NthEdge(E, k) - 1)

\* The filter with level l has counted c samples that differ from it, since
\* the last that did not.
Filtered(s, f, l, c) ==
  /\ l = Lev(s, f, Len(s)) /\ c < f /\ c < Len(s)
  /\ s[Len(s) - c] = l
  /\ \A k \in Len(s) - c + 1 .. Len(s) : s[k] # l

\* What a running capture c with the settings conf has counted of the line s,
\* and stored in the block m: the level and the run of the filter, how long ago
\* the open pulse began, and where it will go.
Tracks(s, conf, m, c) ==
  LET f == conf.filter
      E == EdgesOf(s, f)
      n == Cardinality(E)
  IN  /\ Leveled(s, f) /\ Filtered(s, f, c.flevel, c.fcount)
      /\ E \subseteq 2 .. Len(s) /\ Ranked(E)
      /\ c.idle = Len(s) - StartOf(E, n + 1) /\ c.idle < IdleThres
      /\ c.pwidth = c.idle + (IF n = 0 THEN 1 ELSE 0)
      /\ c.place = n % Turn
      /\ Recorded(s, f, m, n - Turn + 1)
      /\ conf.lim \in 1 .. Capacity => n < 2 * conf.lim
      /\ ~conf.wrap => n < Turn

\* The block m holds the pulses of the line s from the a-th on.
Latest(s, f, m, a) ==
  LET E == EdgesOf(s, f) IN
  \A k \in Max({1, a}) .. Cardinality(E) :
    Kept(s, f, m[(k - 1) % Turn], StartOf(E, k), NthEdge(E, k) - 1)

\* RecordsPulses of the line s, the filter f, the block m and the channel c.
PulsesIn(s, f, m, c) ==
  LET E == EdgesOf(s, f)
      n == Cardinality(E)
      flushed == c.idle >= IdleThres
      last == IF flushed THEN n + 1 ELSE n
  IN  /\ c.active => c.place = n % Turn
      /\ Latest(s, f, m, last - Turn + 1)
      /\ flushed => Kept(s, f, m[((n + 1) - 1) % Turn], StartOf(E, n + 1), Len(s))

\* A capture that has ended found a quiet line or used up its limit or block.
EndsIn(s, conf, c) ==
  LET E == EdgesOf(s, conf.filter)
  IN  s # <<>> /\ ~c.active /\ ~c.armed =>
        \/ Len(s) > IdleThres /\ E \cap (Len(s) - IdleThres + 1 .. Len(s)) = {}
        \/ Cardinality(E) = 2 * (IF conf.lim > 0 THEN Min({conf.lim, Capacity}) ELSE Capacity)

\* The settings and the channel.
RxConf == [lim : RxLim, wrap : BOOLEAN, filter : FilterNeed]
RxCh == [armed : BOOLEAN, active : BOOLEAN, flevel : Level, fcount : Nat, pwidth : Nat,
         idle : Nat, place : 0 .. Turn]

\* The types, and that a running capture is armed and has a place to write to.
CaptureTypes ==
  /\ rxConf \in RxConf /\ cap \in RxCh
  /\ cap.active => cap.armed /\ samples # <<>> /\ cap.place \in Halves
  /\ rxMem \in [Halves -> Level \X (0 .. MaxWidth)]
  /\ samples \in Seq(Level)

\* The inductive invariant: while its writer is left alone, a running capture
\* tracks the line, and one that has ended recorded it and had a reason to.
CaptureIInv ==
  /\ CaptureTypes
  /\ ~rewound /\ cap.active => Tracks(samples, rxConf, rxMem, cap)
  /\ ~rewound /\ ~cap.active => /\ PulsesIn(samples, rxConf.filter, rxMem, cap)
                                /\ EndsIn(samples, rxConf, cap)

-----------------------------------------------------------------------------
(* Least and greatest numbers                                              *)

\* The smaller of two numbers.
LEMMA MinPair ==
  ASSUME NEW a \in Nat, NEW b \in Nat
  PROVE  Min({a, b}) = IF a <= b THEN a ELSE b
<1>1. CASE a <= b
  <2> DEFINE P(x) == x \in {a, b} /\ \A y \in {a, b} : x <= y
  <2>1. P(a)
    BY <1>1
  <2>2. \A x : P(x) => x = a
    BY <1>1
  <2>3. Min({a, b}) = a
    BY <2>1, <2>2, Zenon DEF Min
  <2> QED
    BY <2>3, <1>1, Zenon
<1>2. CASE b < a
  <2> DEFINE P(x) == x \in {a, b} /\ \A y \in {a, b} : x <= y
  <2>1. P(b)
    BY <1>2
  <2>2. \A x : P(x) => x = b
    BY <1>2
  <2>3. Min({a, b}) = b
    BY <2>1, <2>2, Zenon DEF Min
  <2> QED
    BY <2>3, <1>2
<1> QED
  BY <1>1, <1>2

\* A set of naturals has a least element.
LEMMA LeastNat ==
  ASSUME NEW T, T \subseteq Nat, T # {}
  PROVE  \E n \in T : \A m \in T : n <= m
<1> DEFINE R == OpToRel(<, Nat)
<1>1. IsWellFoundedOn(R, Nat)
  BY NatLessThanWellFounded, Zenon
<1>2. PICK n \in T : \A m \in T : ~ (<<m, n>> \in R)
  BY <1>1, WFMin, Zenon
<1>3. \A m \in T : m < n => <<m, n>> \in R
  BY Zenon DEF OpToRel
<1> HIDE DEF R
<1>4. ASSUME NEW m \in T PROVE n <= m
  <2>1. m \in Nat /\ n \in Nat
    BY Zenon
  <2>2. ~(m < n)
    BY <1>2, <1>3, Zenon
  <2>3. QED BY <2>1, <2>2
<1>5. QED BY <1>4, Zenon

-----------------------------------------------------------------------------
(* Edges in their order                                                    *)

\* What NthEdge chooses.
LEMMA NthIs ==
  ASSUME NEW E, Ranked(E)
  PROVE  /\ Cardinality(E) \in Nat
         /\ \A k \in 1 .. Cardinality(E) :
              NthEdge(E, k) \in E /\ NthEdge(E, k) \in Nat /\ Rank(E, NthEdge(E, k)) = k
         /\ \A i \in E : i = NthEdge(E, Rank(E, i))
<1>1. Cardinality(E) \in Nat
  BY FS_CardinalityType, Zenon DEF Ranked
<1>2. ASSUME NEW k \in 1 .. Cardinality(E)
      PROVE  NthEdge(E, k) \in E /\ Rank(E, NthEdge(E, k)) = k
  <2>1. \E i \in E : Rank(E, i) = k
    BY Zenon DEF Ranked
  <2> QED
    BY <2>1, Zenon DEF NthEdge
<1>3. ASSUME NEW i \in E PROVE i = NthEdge(E, Rank(E, i))
  <2> DEFINE j == NthEdge(E, Rank(E, i))
  <2>1. j \in E /\ Rank(E, j) = Rank(E, i) /\ Rank(E, i) \in 1 .. Cardinality(E)
    BY <1>2, Zenon DEF Ranked
  <2> HIDE DEF j
  <2>2. ~(i < j) /\ ~(j < i)
    <3>1. Rank(E, i) \in Nat
      BY <2>1
    <3>2. i < j => Rank(E, i) < Rank(E, j)
      BY <2>1, Zenon DEF Ranked
    <3>3. j < i => Rank(E, j) < Rank(E, i)
      BY <2>1, Zenon DEF Ranked
    <3> QED
      BY <2>1, <3>1, <3>2, <3>3
  <2>3. i \in Nat /\ j \in Nat
    BY <2>1, Zenon DEF Ranked
  <2>4. i = j
    BY <2>2, <2>3
  <2> QED
    BY <2>4, Zenon DEF j
<1>4. E \subseteq Nat
  BY Zenon DEF Ranked
<1> QED
  BY <1>1, <1>2, <1>3, <1>4, Zenon

\* The last edge.
LEMMA LastEdge ==
  ASSUME NEW E, Ranked(E), NEW e \in E
  PROVE  Cardinality(E) > 0 /\ e <= NthEdge(E, Cardinality(E))
<1> DEFINE n == Cardinality(E)
           l == NthEdge(E, n)
<1>1. Rank(E, e) \in 1 .. n /\ n \in Nat /\ e \in Nat
  BY NthIs, Zenon DEF Ranked
<1>2. n > 0 /\ n \in 1 .. n
  BY <1>1
<1>3. l \in E /\ l \in Nat /\ Rank(E, l) = n
  BY <1>2, NthIs, Zenon
<1>4. l < e => Rank(E, l) < Rank(E, e)
  BY <1>3, Zenon DEF Ranked
<1> HIDE DEF n, l
<1>5. ~(l < e)
  BY <1>1, <1>3, <1>4
<1> QED
  BY <1>1, <1>2, <1>3, <1>5 DEF n, l

\* No edges.
LEMMA NoEdges == Ranked({}) /\ Cardinality({}) = 0
<1>1. IsFiniteSet({}) /\ Cardinality({}) = 0
  BY FS_EmptySet, Zenon
<1>2. 1 .. Cardinality({}) = {}
  BY <1>1
<1> QED
  BY <1>1, <1>2, Zenon DEF Ranked

\* The edges F are those of E in their order, and then p.
AddsEdge(E, p, F) ==
  LET n == Cardinality(E) IN
  /\ Ranked(F) /\ Cardinality(F) = n + 1
  /\ \A k \in 1 .. n : NthEdge(F, k) = NthEdge(E, k)
  /\ NthEdge(F, n + 1) = p

\* An edge after all others is ranked last and leaves their ranks alone.
LEMMA NewEdge ==
  ASSUME NEW E, Ranked(E), NEW p \in Nat, \A e \in E : e < p
  PROVE  AddsEdge(E, p, E \cup {p})
<1> DEFINE F == E \cup {p}
           n == Cardinality(E)
<1>1. E \subseteq Nat /\ IsFiniteSet(E) /\ p \notin E
  <2>1. E \subseteq Nat /\ IsFiniteSet(E)
    BY Zenon DEF Ranked
  <2>2. ~(p < p)
    OBVIOUS
  <2> QED
    BY <2>1, <2>2, Zenon
<1>2. n \in Nat /\ IsFiniteSet(F) /\ Cardinality(F) = n + 1
  BY <1>1, NthIs, FS_AddElement, Zenon
<1>3. ASSUME NEW e \in E PROVE Rank(F, e) = Rank(E, e) /\ Rank(E, e) \in 1 .. n
  <2>1. ~(p <= e)
    BY <1>1
  <2>2. {j \in F : j <= e} = {j \in E : j <= e}
    BY <2>1, Zenon
  <2> QED
    BY <2>2, Zenon DEF Rank, Ranked
<1>4. Rank(F, p) = n + 1
  <2>1. \A j \in F : j <= p
    BY <1>1
  <2>2. {j \in F : j <= p} = F
    BY <2>1, Zenon
  <2> QED
    BY <2>2, <1>2, Zenon DEF Rank
<1>5. Ranked(F)
  <2>1. F \subseteq Nat
    BY <1>1, Zenon
  <2>2. ASSUME NEW i \in F PROVE Rank(F, i) \in 1 .. n + 1
    <3>1. CASE i \in E
      <4>1. Rank(F, i) \in 1 .. n
        BY <1>3, <3>1, Zenon
      <4> QED
        BY <1>2, <4>1
    <3>2. CASE i = p
      BY <1>2, <1>4, <3>2
    <3> QED
      BY <3>1, <3>2, Zenon
  <2>3. ASSUME NEW k \in 1 .. n + 1 PROVE \E i \in F : Rank(F, i) = k
    <3>1. CASE k \in 1 .. n
      <4>1. PICK i \in E : Rank(E, i) = k
        BY <3>1, Zenon DEF Ranked
      <4> QED
        BY <4>1, <1>3, Zenon
    <3>2. CASE k = n + 1
      BY <3>2, <1>4, Zenon
    <3>3. k \in 1 .. n \/ k = n + 1
      BY <1>2
    <3> QED
      BY <3>1, <3>2, <3>3, Zenon
  <2>4. ASSUME NEW i \in F, NEW j \in F, i < j PROVE Rank(F, i) < Rank(F, j)
    <3>1. CASE i \in E /\ j \in E
      BY <3>1, <2>4, <1>3, Zenon DEF Ranked
    <3>2. CASE i \in E /\ j = p
      <4>1. Rank(F, i) \in 1 .. n /\ Rank(F, j) = n + 1
        BY <3>2, <1>3, <1>4, Zenon
      <4> QED
        BY <4>1, <1>2
    <3>3. i # p
      <4>1. i = p => j <= i
        BY <1>1
      <4> QED
        BY <4>1, <2>4, <2>1
    <3> QED
      BY <3>1, <3>2, <3>3, Zenon
  <2> QED
    BY <1>2, <2>1, <2>2, <2>3, <2>4, Zenon DEF Ranked
<1>6. ASSUME NEW k \in 1 .. n PROVE NthEdge(F, k) = NthEdge(E, k)
  <2> DEFINE i == NthEdge(E, k)
  <2>1. i \in E /\ Rank(E, i) = k
    BY NthIs, Zenon
  <2>2. i \in F /\ Rank(F, i) = k
    BY <2>1, <1>3, Zenon
  <2> HIDE DEF i
  <2>3. i = NthEdge(F, Rank(F, i))
    BY <1>5, <2>2, NthIs, Zenon
  <2> QED
    BY <2>2, <2>3, Zenon DEF i
<1>7. NthEdge(F, n + 1) = p
  <2>1. p \in F
    BY Zenon
  <2>2. p = NthEdge(F, Rank(F, p))
    BY <1>5, <2>1, NthIs, Zenon
  <2> QED
    BY <2>2, <1>4, Zenon
<1> QED
  BY <1>2, <1>5, <1>6, <1>7, Zenon DEF AddsEdge

-----------------------------------------------------------------------------
(* The level of the line                                                   *)

\* A bound of a set that is in the set is its maximum.
LEMMA MaxIs ==
  ASSUME NEW S, S \subseteq Int, NEW m \in S, \A y \in S : y <= m
  PROVE  Max(S) = m
<1> DEFINE P(x) == x \in S /\ \A y \in S : x >= y
<1>1. P(m)
  BY Zenon
<1>2. \A x : P(x) => x = m
  OBVIOUS
<1> QED
  BY <1>1, <1>2, Zenon DEF Max

\* A sample added to the line s changes no earlier level; the new level is
\* that of the sample if it ends a steady run, or else the one before.
Longer(s, f, t) ==
  LET N == Len(s)
      ends == N + 1 >= f /\ Steady(t, f, N + 1)
  IN  /\ Leveled(t, f)
      /\ \A i \in 1 .. N : Lev(t, f, i) = Lev(s, f, i)
      /\ ends => Lev(t, f, N + 1) = t[N + 1]
      /\ ~ends => Lev(t, f, N + 1) = Lev(s, f, N)

\* Any line that has levels grows like that.
LEMMA LevelStep ==
  ASSUME NEW s \in Seq(Level), s # <<>>, NEW x \in Level, NEW f \in Nat \ {0}, Leveled(s, f),
         NEW t, t = Append(s, x)
  PROVE  Longer(s, f, t)
<1> DEFINE N == Len(s)
<1>1. /\ N \in Nat \ {0} /\ Len(t) = N + 1 /\ t[N + 1] = x
      /\ \A k \in 1 .. N : t[k] = s[k]
  OBVIOUS
<1> HIDE DEF N
<1>2. ASSUME NEW i \in 1 .. N PROVE SteadyTo(t, f, i) = SteadyTo(s, f, i)
  <2>1. ASSUME NEW j \in f .. i PROVE Steady(t, f, j) <=> Steady(s, f, j)
    <3>1. j \in 1 .. N /\ \A k \in j - f + 1 .. j : k \in 1 .. N
      BY <1>1
    <3>2. t[j] = s[j] /\ \A k \in j - f + 1 .. j : t[k] = s[k]
      BY <1>1, <3>1, Zenon
    <3> QED
      BY <3>2, Zenon DEF Steady
  <2> QED
    BY <2>1, Zenon DEF SteadyTo
<1>3. ASSUME NEW i \in 1 .. N
      PROVE  Max(SteadyTo(t, f, i)) \in 1 .. i /\ Lev(t, f, i) = Lev(s, f, i)
  <2>1. Max(SteadyTo(s, f, i)) \in 1 .. i
    BY Zenon DEF Leveled, N
  <2>2. Max(SteadyTo(s, f, i)) \in 1 .. N
    BY <1>1, <2>1
  <2> QED
    BY <1>1, <1>2, <2>1, <2>2, Zenon DEF Lev
<1>4. ASSUME N + 1 >= f, Steady(t, f, N + 1)
      PROVE  Max(SteadyTo(t, f, N + 1)) = N + 1 /\ Lev(t, f, N + 1) = t[N + 1]
  <2>1. SteadyTo(t, f, N + 1) \subseteq Int /\ \A y \in SteadyTo(t, f, N + 1) : y <= N + 1
    BY <1>1 DEF SteadyTo
  <2>2. N + 1 \in f .. N + 1
    BY <1>1, <1>4
  <2>3. N + 1 \in SteadyTo(t, f, N + 1)
    BY <1>4, <2>2, Zenon DEF SteadyTo
  <2>4. Max(SteadyTo(t, f, N + 1)) = N + 1
    BY <2>1, <2>3, MaxIs, Zenon
  <2> QED
    BY <1>1, <2>4, Zenon DEF Lev
<1>5. ASSUME ~(N + 1 >= f /\ Steady(t, f, N + 1))
      PROVE  Max(SteadyTo(t, f, N + 1)) \in 1 .. N /\ Lev(t, f, N + 1) = Lev(s, f, N)
  <2>1. ASSUME NEW j, Steady(t, f, j) PROVE j \in f .. N + 1 <=> j \in f .. N
    <3>1. j # N + 1 \/ ~(N + 1 >= f)
      BY <1>5, <2>1, Zenon
    <3> QED
      BY <1>1, <3>1
  <2>2. SteadyTo(t, f, N + 1) = SteadyTo(t, f, N)
    BY <2>1, Zenon DEF SteadyTo
  <2>3. N \in 1 .. N
    BY <1>1
  <2> QED
    BY <1>3, <2>2, <2>3, Zenon DEF Lev
<1>6. Leveled(t, f)
  <2>1. \A i \in 1 .. N + 1 : i \in 1 .. N \/ i = N + 1
    BY <1>1
  <2>2. Max(SteadyTo(t, f, N + 1)) \in 1 .. N + 1
    <3>1. N + 1 \in 1 .. N + 1 /\ \A m \in 1 .. N : m \in 1 .. N + 1
      BY <1>1
    <3> QED
      BY <1>4, <1>5, <3>1, Zenon
  <2> QED
    BY <1>1, <1>3, <2>1, <2>2, Zenon DEF Leveled
<1> QED
  BY <1>3, <1>4, <1>5, <1>6, Zenon DEF N, Longer

\* Edges are among the samples, and the sample added is one if it changes the
\* level.
MoreEdges(s, f, t) ==
  LET N == Len(s) IN
  /\ EdgesOf(s, f) \subseteq 2 .. N
  /\ Lev(t, f, N + 1) # Lev(s, f, N) => EdgesOf(t, f) = EdgesOf(s, f) \cup {N + 1}
  /\ Lev(t, f, N + 1) = Lev(s, f, N) => EdgesOf(t, f) = EdgesOf(s, f)

\* Any line that has levels grows its edges like that.
LEMMA EdgesStep ==
  ASSUME NEW s \in Seq(Level), s # <<>>, NEW x \in Level, NEW f \in Nat \ {0}, Leveled(s, f),
         NEW t, t = Append(s, x)
  PROVE  MoreEdges(s, f, t)
<1> DEFINE N == Len(s)
<1>1. N \in Nat \ {0} /\ Len(t) = N + 1
  OBVIOUS
<1>2. \A i \in 1 .. N : Lev(t, f, i) = Lev(s, f, i)
  <2>1. Longer(s, f, t)
    BY LevelStep, Zenon
  <2> QED
    BY <2>1, Zenon DEF Longer
<1>3. EdgesOf(s, f) \subseteq 2 .. N
  BY Zenon DEF EdgesOf
<1> HIDE DEF N
<1>4. ASSUME NEW i PROVE i \in 2 .. N + 1 <=> i \in 2 .. N \/ i = N + 1
  BY <1>1
<1>5. ASSUME NEW i \in 2 .. N PROVE Lev(t, f, i) = Lev(s, f, i) /\ Lev(t, f, i - 1) = Lev(s, f, i - 1)
  <2>1. i \in 1 .. N /\ i - 1 \in 1 .. N
    BY <1>1
  <2> QED
    BY <1>2, <2>1, Zenon
<1>6. Lev(t, f, (N + 1) - 1) = Lev(s, f, N)
  <2>1. (N + 1) - 1 = N /\ N \in 1 .. N
    BY <1>1
  <2> QED
    BY <1>2, <2>1, Zenon
<1>7. EdgesOf(t, f) = {i \in 2 .. N + 1 : Lev(t, f, i) # Lev(t, f, i - 1)}
  BY <1>1, Zenon DEF EdgesOf
<1>8. EdgesOf(s, f) = {i \in 2 .. N : Lev(s, f, i) # Lev(s, f, i - 1)}
  BY Zenon DEF EdgesOf, N
<1>9. \A i : i \in EdgesOf(t, f) <=>
               i \in EdgesOf(s, f) \/ (i = N + 1 /\ Lev(t, f, N + 1) # Lev(s, f, N))
  <2>1. ASSUME NEW i \in 2 .. N PROVE i \in EdgesOf(t, f) <=> i \in EdgesOf(s, f)
    BY <1>4, <1>5, <1>7, <1>8, Zenon
  <2>2. N + 1 \in EdgesOf(t, f) <=> Lev(t, f, N + 1) # Lev(s, f, N)
    BY <1>4, <1>6, <1>7, Zenon
  <2>3. N + 1 \notin 2 .. N
    BY <1>1
  <2> QED
    BY <1>3, <1>4, <1>7, <2>1, <2>2, <2>3, Zenon DEF N
<1>10. ASSUME Lev(t, f, N + 1) # Lev(s, f, N) PROVE EdgesOf(t, f) = EdgesOf(s, f) \cup {N + 1}
  <2> DEFINE q == N + 1
             A == EdgesOf(t, f)
             B == EdgesOf(s, f)
  <2>1. \A i : i \in A <=> i \in B \/ i = q
    BY <1>9, <1>10, Zenon
  <2> HIDE DEF q, A, B
  <2>2. A = B \cup {q}
    BY <2>1, Zenon
  <2> QED
    BY <2>2, Zenon DEF q, A, B
<1>11. ASSUME Lev(t, f, N + 1) = Lev(s, f, N) PROVE EdgesOf(t, f) = EdgesOf(s, f)
  BY <1>9, <1>11, Zenon
<1> QED
  BY <1>3, <1>10, <1>11, Zenon DEF N, MoreEdges
-----------------------------------------------------------------------------
(* Places of the block                                                     *)

\* The constants, and the halves of the block.
LEMMA CaptureBounds ==
  /\ Capacity \in Nat \ {0} /\ IdleThres \in Nat \ {0} /\ MaxWidth \in Nat \ {0}
  /\ Turn \in Nat /\ Turn >= 2 /\ Halves = 0 .. Turn - 1
<1>1. Capacity \in Nat \ {0} /\ IdleThres \in Nat \ {0} /\ MaxWidth \in Nat \ {0}
  BY CaptureAssumption
<1> QED
  BY <1>1 DEF Turn, Halves

\* Remainders, and the number of turns before.
LEMMA TurnValue ==
  ASSUME NEW a \in Nat
  PROVE  a % Turn \in 0 .. Turn - 1 /\ \E q \in Nat : a = q * Turn + (a % Turn)
<1>1. Turn \in Nat /\ Turn >= 2
  BY CaptureBounds, Zenon
<1>2. a = (a \div Turn) * Turn + (a % Turn) /\ a \div Turn \in Nat /\ a % Turn \in 0 .. Turn - 1
  BY <1>1
<1> QED
  BY <1>2, Zenon

\* A number below a turn is the remainder.
LEMMA TurnIs ==
  ASSUME NEW q \in Nat, NEW m \in 0 .. Turn - 1
  PROVE  (q * Turn + m) % Turn = m
<1>1. Turn \in Nat /\ Turn >= 2
  BY CaptureBounds, Zenon
<1> QED
  BY <1>1

\* Pulses less than a turn apart have places of their own.
LEMMA TurnApart ==
  ASSUME NEW a \in Nat, NEW b \in Nat, a < b, b < a + Turn
  PROVE  a % Turn # b % Turn
<1> SUFFICES ASSUME a % Turn = b % Turn PROVE FALSE
  BY Zenon
<1> DEFINE m == a % Turn
<1>1. PICK p \in Nat : a = p * Turn + m
  BY TurnValue, Zenon
<1>2. PICK q \in Nat : b = q * Turn + m
  BY TurnValue, Zenon
<1>3. m \in 0 .. Turn - 1 /\ Turn \in Nat /\ Turn >= 2
  BY TurnValue, CaptureBounds, Zenon
<1> HIDE DEF m
<1>4. CASE q <= p
  <2>1. q * Turn <= p * Turn
    BY <1>3, <1>4
  <2> QED
    BY <1>1, <1>2, <1>3, <2>1
<1>5. CASE q >= p + 1
  <2>1. q * Turn >= p * Turn + Turn
    BY <1>3, <1>5
  <2> QED
    BY <1>1, <1>2, <1>3, <2>1
<1> QED
  BY <1>4, <1>5

\* The place after the next pulse, and places before the first wrap.
LEMMA TurnNext ==
  ASSUME NEW a \in Nat
  PROVE  /\ (a + 1) % Turn = IF (a % Turn) + 1 = Turn THEN 0 ELSE (a % Turn) + 1
         /\ a < Turn => a % Turn = a
<1> DEFINE m == a % Turn
<1>1. PICK q \in Nat : a = q * Turn + m
  BY TurnValue, Zenon
<1>2. m \in 0 .. Turn - 1 /\ Turn \in Nat /\ Turn >= 2
  BY TurnValue, CaptureBounds, Zenon
<1> HIDE DEF m
<1>3. ASSUME m + 1 = Turn PROVE (a + 1) % Turn = 0
  <2>1. a + 1 = (q + 1) * Turn + 0 /\ q + 1 \in Nat /\ 0 \in 0 .. Turn - 1
    BY <1>1, <1>2, <1>3
  <2>2. ((q + 1) * Turn + 0) % Turn = 0
    BY <2>1, TurnIs, Zenon
  <2> QED
    BY <1>3, <2>1, <2>2, Zenon
<1>4. ASSUME m + 1 # Turn PROVE (a + 1) % Turn = m + 1
  <2>1. a + 1 = q * Turn + (m + 1) /\ m + 1 \in 0 .. Turn - 1
    BY <1>1, <1>2, <1>4
  <2>2. (q * Turn + (m + 1)) % Turn = m + 1
    BY <2>1, TurnIs, Zenon
  <2> QED
    BY <1>4, <2>1, <2>2, Zenon
<1>5. ASSUME a < Turn PROVE a % Turn = a
  <2>1. a = 0 * Turn + a /\ a \in 0 .. Turn - 1
    BY <1>2, <1>5
  <2>2. (0 * Turn + a) % Turn = a
    BY <2>1, TurnIs, Zenon
  <2> QED
    BY <2>1, <2>2, Zenon
<1> QED
  BY <1>3, <1>4, <1>5, Zenon DEF m

-----------------------------------------------------------------------------
(* One more sample                                                         *)

\* The filter after a sample x on a level l: an accepted one is the new level
\* of the line, any other leaves the level alone.
FilterMoves(f, l, c, x, t) ==
  /\ Leveled(t, f)
  /\ x # l /\ c + 1 >= f => Filtered(t, f, x, 0) /\ 1 - x = l
  /\ ~(x # l /\ c + 1 >= f) => Filtered(t, f, l, IF x # l THEN c + 1 ELSE 0)

\* A filter that follows the line goes on to follow it.
LEMMA FilterStep ==
  ASSUME NEW s \in Seq(Level), s # <<>>, NEW x \in Level, NEW f \in Nat \ {0}, Leveled(s, f),
         NEW t, t = Append(s, x), NEW l \in Level, NEW c \in Nat, Filtered(s, f, l, c)
  PROVE  FilterMoves(f, l, c, x, t)
<1> DEFINE N == Len(s)
<1>1. /\ N \in Nat \ {0} /\ Len(t) = N + 1 /\ t[N + 1] = x
      /\ \A k \in 1 .. N : t[k] = s[k] /\ s[k] \in Level
  OBVIOUS
<1>2. /\ l = Lev(s, f, N) /\ c < f /\ c < N /\ s[N - c] = l
      /\ \A k \in N - c + 1 .. N : s[k] # l
  BY Zenon DEF Filtered
<1>3. /\ Leveled(t, f)
      /\ N + 1 >= f /\ Steady(t, f, N + 1) => Lev(t, f, N + 1) = x
      /\ ~(N + 1 >= f /\ Steady(t, f, N + 1)) => Lev(t, f, N + 1) = Lev(s, f, N)
  <2>1. Longer(s, f, t)
    BY LevelStep, Zenon
  <2> QED
    BY <1>1, <2>1, Zenon DEF Longer
<1> HIDE DEF N
<1>4. t[N - c] = l /\ \A k \in N - c + 1 .. N : t[k] # l
  <2>1. N - c \in 1 .. N /\ \A k \in N - c + 1 .. N : k \in 1 .. N
    BY <1>1, <1>2
  <2> QED
    BY <1>1, <1>2, <2>1, Zenon
<1>5. ASSUME x # l, c + 1 >= f PROVE Filtered(t, f, x, 0) /\ 1 - x = l
  <2>1. c + 1 = f /\ N + 1 >= f
    BY <1>1, <1>2, <1>5
  <2>2. ASSUME NEW k \in (N + 1) - f + 1 .. N + 1 PROVE t[k] = x
    <3>1. k \in N - c + 1 .. N \/ k = N + 1
      BY <1>1, <2>1
    <3>2. ASSUME k \in N - c + 1 .. N PROVE t[k] = x
      <4>1. k \in 1 .. N
        BY <1>1, <1>2, <3>2
      <4>2. t[k] \in Level /\ t[k] # l
        BY <1>1, <1>4, <3>2, <4>1, Zenon
      <4> QED
        BY <4>2, <1>5, Zenon DEF Level
    <3> QED
      BY <1>1, <3>1, <3>2, Zenon
  <2>3. Steady(t, f, N + 1)
    BY <1>1, <2>2, Zenon DEF Steady
  <2>4. Lev(t, f, N + 1) = x
    BY <1>3, <2>1, <2>3, Zenon
  <2>5. 0 < f /\ 0 < N + 1 /\ (N + 1) - 0 = N + 1 /\ (N + 1) - 0 + 1 .. N + 1 = {}
    BY <1>1
  <2>6. Filtered(t, f, x, 0)
    BY <1>1, <2>4, <2>5, Zenon DEF Filtered
  <2> QED
    BY <2>6, <1>5 DEF Level
<1>6. ASSUME x = l PROVE Filtered(t, f, l, 0)
  <2>1. Lev(t, f, N + 1) = l
    BY <1>2, <1>3, <1>6, Zenon
  <2>2. 0 < f /\ 0 < N + 1 /\ (N + 1) - 0 = N + 1 /\ (N + 1) - 0 + 1 .. N + 1 = {}
    BY <1>1
  <2> QED
    BY <1>1, <1>6, <2>1, <2>2, Zenon DEF Filtered
<1>7. ASSUME x # l, ~(c + 1 >= f) PROVE Filtered(t, f, l, c + 1)
  <2>1. N - c \in (N + 1) - f + 1 .. N + 1
    BY <1>1, <1>2, <1>7
  <2>2. ~Steady(t, f, N + 1)
    BY <1>1, <1>4, <1>7, <2>1, Zenon DEF Steady
  <2>3. Lev(t, f, N + 1) = l
    BY <1>2, <1>3, <2>2, Zenon
  <2>4. c + 1 < f /\ c + 1 < N + 1 /\ (N + 1) - (c + 1) = N - c
    BY <1>1, <1>2, <1>7
  <2>5. ASSUME NEW k \in (N + 1) - (c + 1) + 1 .. N + 1 PROVE t[k] # l
    <3>1. k \in N - c + 1 .. N \/ k = N + 1
      BY <1>1
    <3> QED
      BY <3>1, <1>1, <1>4, <1>7, Zenon
  <2>6. \A k \in (N + 1) - (c + 1) + 1 .. N + 1 : t[k] # l
    BY <2>5, Zenon
  <2>7. t[(N + 1) - (c + 1)] = l
    BY <1>4, <2>4, Zenon
  <2> HIDE DEF N
  <2> DEFINE P == N + 1
             d == c + 1
  <2>8. /\ Len(t) = P /\ l = Lev(t, f, P) /\ d < f /\ d < P /\ t[P - d] = l
        /\ \A k \in P - d + 1 .. P : t[k] # l
    BY <1>1, <2>3, <2>4, <2>6, <2>7, Zenon
  <2> HIDE DEF P, d
  <2>9. Filtered(t, f, l, d)
    BY <2>8, Zenon DEF Filtered
  <2> QED
    BY <2>9, Zenon DEF d
<1> QED
  BY <1>3, <1>5, <1>6, <1>7, Zenon DEF FilterMoves

-----------------------------------------------------------------------------
(* The pulses in the block                                                 *)

\* The next place is that of no pulse but the oldest.
StoredNext(s, f, n, p, m) == Recorded(s, f, m, n - Turn + 2) /\ m[n % Turn] = p

\* Storing at the next place keeps the other pulses.
LEMMA Overwrite ==
  ASSUME NEW s, NEW f, Ranked(EdgesOf(s, f)), NEW n, n = Cardinality(EdgesOf(s, f)),
         NEW m \in [Halves -> Level \X (0 .. MaxWidth)], NEW p, NEW m2,
         m2 = [m EXCEPT ![n % Turn] = p], Recorded(s, f, m, n - Turn + 1)
  PROVE  StoredNext(s, f, n, p, m2)
<1> DEFINE E == EdgesOf(s, f)
<1>1. n \in Nat
  BY NthIs, Zenon
<1>2. Turn \in Nat /\ Turn >= 2 /\ Halves = 0 .. Turn - 1
  BY CaptureBounds, Zenon
<1>3. n % Turn \in Halves
  BY <1>1, <1>2, TurnValue, Zenon
<1>4. m2[n % Turn] = p /\ \A h \in Halves : h # n % Turn => m2[h] = m[h]
  BY <1>3, Zenon
<1>5. ASSUME NEW k \in 1 .. n, k >= n - Turn + 2
      PROVE  Kept(s, f, m2[(k - 1) % Turn], StartOf(E, k), NthEdge(E, k) - 1)
  <2>0. Turn \in Nat
    BY <1>2, Zenon
  <2>1. k - 1 \in Nat /\ k - 1 < n /\ n < (k - 1) + Turn /\ k >= n - Turn + 1
    BY <1>1, <1>5, <2>0
  <2>2. (k - 1) % Turn # n % Turn
    BY <1>1, <2>1, TurnApart, Zenon
  <2>3. (k - 1) % Turn \in Halves
    BY <1>2, <2>1, TurnValue, Zenon
  <2>4. m2[(k - 1) % Turn] = m[(k - 1) % Turn]
    BY <1>4, <2>2, <2>3, Zenon
  <2>5. Kept(s, f, m[(k - 1) % Turn], StartOf(E, k), NthEdge(E, k) - 1)
    BY <2>1, Zenon DEF Recorded
  <2> QED
    BY <2>4, <2>5, Zenon
<1> QED
  BY <1>4, <1>5, Zenon DEF Recorded, StoredNext

\* A longer line holds the same pulses.
LEMMA KeptOn ==
  ASSUME NEW s, NEW f, NEW t, Longer(s, f, t), NEW p, NEW i, NEW j \in 1 .. Len(s),
         Kept(s, f, p, i, j)
  PROVE  Kept(t, f, p, i, j)
<1>1. Lev(t, f, j) = Lev(s, f, j)
  BY Zenon DEF Longer
<1> QED
  BY <1>1, Zenon DEF Kept

\* Where the last sample of a closed pulse is.
LEMMA PulseEnd ==
  ASSUME NEW N \in Nat, NEW E, Ranked(E), E \subseteq 2 .. N, NEW k \in 1 .. Cardinality(E)
  PROVE  NthEdge(E, k) \in 2 .. N /\ NthEdge(E, k) - 1 \in 1 .. N
<1>1. NthEdge(E, k) \in 2 .. N
  BY NthIs, Zenon
<1> QED
  BY <1>1

\* A sample that is no edge.
LEMMA QuietStep ==
  ASSUME NEW s \in Seq(Level), NEW f, NEW t, Longer(s, f, t), NEW m, NEW k0,
         EdgesOf(s, f) \subseteq 2 .. Len(s), Ranked(EdgesOf(s, f)),
         EdgesOf(t, f) = EdgesOf(s, f), Recorded(s, f, m, k0)
  PROVE  Recorded(t, f, m, k0)
<1> DEFINE E == EdgesOf(s, f)
<1>1. Len(s) \in Nat
  OBVIOUS
<1>2. ASSUME NEW k \in 1 .. Cardinality(E), k >= k0
      PROVE  Kept(t, f, m[(k - 1) % Turn], StartOf(E, k), NthEdge(E, k) - 1)
  <2>1. NthEdge(E, k) - 1 \in 1 .. Len(s)
    BY <1>1, PulseEnd, Zenon
  <2>2. Kept(s, f, m[(k - 1) % Turn], StartOf(E, k), NthEdge(E, k) - 1)
    BY <1>2, Zenon DEF Recorded
  <2> QED
    BY <2>1, <2>2, KeptOn, Zenon
<1> QED
  BY <1>2, Zenon DEF Recorded

\* The line t has one edge more than n, at its sample N + 1.
ClosesPulse(t, f, m, k0, n, N) ==
  LET F == EdgesOf(t, f) IN
  /\ Ranked(F) /\ Cardinality(F) = n + 1 /\ StartOf(F, (n + 1) + 1) = N + 1
  /\ Recorded(t, f, m, k0)

\* A sample that is an edge closes the open pulse.
LEMMA EdgeStep ==
  ASSUME NEW s \in Seq(Level), s # <<>>, NEW f, NEW t, Longer(s, f, t), NEW m, NEW k0 \in Int,
         NEW E, E = EdgesOf(s, f), E \subseteq 2 .. Len(s), Ranked(E),
         EdgesOf(t, f) = E \cup {Len(s) + 1}, NEW n, n = Cardinality(E),
         Kept(s, f, m[n % Turn], StartOf(E, n + 1), Len(s)), Recorded(s, f, m, k0)
  PROVE  ClosesPulse(t, f, m, k0, n, Len(s))
<1> DEFINE N == Len(s)
           F == EdgesOf(t, f)
<1>1. N \in Nat \ {0}
  OBVIOUS
<1>2. n \in Nat
  BY NthIs, Zenon
<1>a. F = E \cup {N + 1}
  BY Zenon
<1> HIDE DEF N, F
<1>3. N + 1 \in Nat /\ \A e \in E : e < N + 1
  BY <1>1 DEF N
<1>4. /\ Ranked(F) /\ Cardinality(F) = n + 1 /\ NthEdge(F, n + 1) = N + 1
      /\ \A k \in 1 .. n : NthEdge(F, k) = NthEdge(E, k)
  <2>1. AddsEdge(E, N + 1, F)
    BY <1>a, <1>3, NewEdge, Zenon
  <2> QED
    BY <2>1, Zenon DEF AddsEdge
<1>5. \A k \in 1 .. n + 1 : StartOf(F, k) = StartOf(E, k)
  <2>1. \A k \in 1 .. n + 1 : k # 1 => k - 1 \in 1 .. n
    BY <1>2
  <2> QED
    BY <1>4, <2>1, Zenon DEF StartOf
<1>6. StartOf(F, (n + 1) + 1) = N + 1
  <2>1. (n + 1) + 1 # 1 /\ ((n + 1) + 1) - 1 = n + 1
    BY <1>2
  <2> QED
    BY <1>4, <2>1, Zenon DEF StartOf
<1>7. ASSUME NEW k \in 1 .. n + 1, k >= k0
      PROVE  Kept(t, f, m[(k - 1) % Turn], StartOf(F, k), NthEdge(F, k) - 1)
  <2>1. ASSUME k \in 1 .. n PROVE Kept(t, f, m[(k - 1) % Turn], StartOf(F, k), NthEdge(F, k) - 1)
    <3>1. NthEdge(E, k) - 1 \in 1 .. N
      BY <1>1, <2>1, PulseEnd, Zenon DEF N
    <3>2. Kept(s, f, m[(k - 1) % Turn], StartOf(E, k), NthEdge(E, k) - 1)
      BY <1>7, <2>1, Zenon DEF Recorded
    <3>3. Kept(t, f, m[(k - 1) % Turn], StartOf(E, k), NthEdge(E, k) - 1)
      BY <3>1, <3>2, KeptOn, Zenon DEF N
    <3> QED
      BY <1>4, <1>5, <2>1, <3>3, Zenon
  <2>2. ASSUME k = n + 1 PROVE Kept(t, f, m[(k - 1) % Turn], StartOf(F, k), NthEdge(F, k) - 1)
    <3>1. k - 1 = n /\ (N + 1) - 1 = N /\ N \in 1 .. N
      BY <1>1, <1>2, <2>2
    <3>2. Kept(t, f, m[n % Turn], StartOf(E, n + 1), N)
      BY <3>1, KeptOn, Zenon DEF N
    <3>3. NthEdge(F, k) - 1 = N /\ StartOf(F, k) = StartOf(E, n + 1)
      BY <1>4, <1>5, <2>2, <3>1, Zenon
    <3> QED
      BY <3>1, <3>2, <3>3, Zenon
  <2>3. k \in 1 .. n \/ k = n + 1
    BY <1>2
  <2> QED
    BY <2>1, <2>2, <2>3, Zenon
<1>8. Recorded(t, f, m, k0)
  BY <1>4, <1>7, Zenon DEF Recorded, F
<1> QED
  BY <1>4, <1>6, <1>8, Zenon DEF N, F, ClosesPulse

-----------------------------------------------------------------------------
(* Ticks of a running capture                                              *)

\* The properties in terms of the operators above.
LEMMA CaptureLinks ==
  /\ RecordsPulses <=> (~rewound => PulsesIn(samples, rxConf.filter, rxMem, cap))
  /\ EndsForAReason <=> (~rewound => EndsIn(samples, rxConf, cap))
<1>1. \A i : LineLevel(i) = Lev(samples, rxConf.filter, i)
  BY Zenon DEF LineLevel, Lev, SteadyTo, Steady
<1>2. LineEdges = EdgesOf(samples, rxConf.filter)
  BY <1>1, Zenon DEF LineEdges, EdgesOf
<1>3. \A k : EdgeAt(k) = NthEdge(EdgesOf(samples, rxConf.filter), k)
  BY <1>2, Zenon DEF EdgeAt, NthEdge, Rank
<1>4. \A p, i, j : Holds(p, i, j) <=> Kept(samples, rxConf.filter, p, i, j)
  BY <1>1, Zenon DEF Holds, Kept
<1>5. RecordsPulses <=> (~rewound => PulsesIn(samples, rxConf.filter, rxMem, cap))
  BY <1>2, <1>3, <1>4, Zenon DEF RecordsPulses, PulsesIn, Latest, StartOf, Turn
<1>6. EndsForAReason <=> (~rewound => EndsIn(samples, rxConf, cap))
  BY <1>2, Zenon DEF EndsForAReason, EndsIn
<1> QED
  BY <1>5, <1>6, Zenon

\* The latest pulses are those that fit the block.
LEMMA LatestPulses ==
  ASSUME NEW s, NEW f, Ranked(EdgesOf(s, f)), NEW m, NEW a \in Int, Recorded(s, f, m, a)
  PROVE  Latest(s, f, m, a)
<1> DEFINE n == Cardinality(EdgesOf(s, f))
<1>1. n \in Nat
  BY NthIs, Zenon
<1>2. Max({1, a}) = IF a <= 1 THEN 1 ELSE a
  <2>1. {1, a} \subseteq Int
    OBVIOUS
  <2>2. CASE a <= 1
    <3>1. \A y \in {1, a} : y <= 1
      BY <2>2
    <3> QED
      BY <2>1, <2>2, <3>1, MaxIs, Zenon
  <2>3. CASE ~(a <= 1)
    <3>1. \A y \in {1, a} : y <= a
      BY <2>3
    <3> QED
      BY <2>1, <2>3, <3>1, MaxIs, Zenon
  <2> QED
    BY <2>2, <2>3, Zenon
<1> HIDE DEF n
<1>3. \A k \in Max({1, a}) .. n : k \in 1 .. n /\ k >= a
  BY <1>1, <1>2
<1> QED
  BY <1>3, Zenon DEF Recorded, Latest, n

\* The settings.
LEMMA ConfIs ==
  ASSUME rxConf \in RxConf
  PROVE  rxConf.lim \in Nat /\ rxConf.wrap \in BOOLEAN /\ rxConf.filter \in Nat \ {0}
<1>1. rxConf.lim \in RxLim /\ rxConf.wrap \in BOOLEAN /\ rxConf.filter \in FilterNeed
  BY Zenon DEF RxConf
<1>2. RxLim \subseteq 0 .. 511 /\ FilterNeed \subseteq Nat \ {0}
  BY CaptureAssumption, Zenon
<1> DEFINE K == 0 .. 511
           P == Nat \ {0}
<1>3. RxLim \subseteq K /\ FilterNeed \subseteq P
  BY <1>2, Zenon
<1> HIDE DEF K, P
<1>4. rxConf.lim \in K /\ rxConf.filter \in P
  BY <1>1, <1>3, Zenon
<1>5. K \subseteq Nat
  BY DEF K
<1> QED
  BY <1>1, <1>4, <1>5, Zenon DEF P

\* The channel after an edge, by cases on where the writer then is.
EndsAt(conf, next) ==
  next % 2 = 0 /\ ((conf.lim > 0 /\ next >= 2 * conf.lim) \/ (next = Turn /\ ~conf.wrap))

MovesOn(conf, x, next, d) ==
  /\ d \in RxCh /\ d.flevel = x /\ d.fcount = 0 /\ d.idle = 0 /\ d.pwidth = 0
  /\ next \in 1 .. Turn
  /\ d.active <=> ~EndsAt(conf, next)
  /\ d.armed <=> ~EndsAt(conf, next)
  /\ ~EndsAt(conf, next) => d.place = IF next = Turn THEN 0 ELSE next

\* rx_close_pulse and the end of a completed item do that.
LEMMA AfterEdgeIs ==
  ASSUME NEW c \in RxCh, c.active, c.armed, c.place \in Halves, NEW x \in Level, rxConf \in RxConf,
         NEW d, d = AfterEdge(c, x), NEW next, next = c.place + 1
  PROVE  MovesOn(rxConf, x, next, d)
<1> DEFINE e == [c EXCEPT !.flevel = x, !.fcount = 0, !.idle = 0, !.pwidth = 0, !.place = next]
           item == next \div 2
<1>1. /\ Turn \in Nat /\ Turn >= 2 /\ Halves = 0 .. Turn - 1 /\ Turn = 2 * Capacity
      /\ Capacity \in Nat /\ rxConf.lim \in Nat /\ rxConf.wrap \in BOOLEAN
  <2>1. Turn \in Nat /\ Turn >= 2 /\ Halves = 0 .. Turn - 1 /\ Capacity \in Nat
    BY CaptureBounds, Zenon
  <2>2. rxConf.lim \in Nat /\ rxConf.wrap \in BOOLEAN
    BY ConfIs, Zenon
  <2> QED
    BY <2>1, <2>2, Zenon DEF Turn
<1>2. next \in 1 .. Turn
  BY <1>1
<1>3. next = 2 * item + (next % 2) /\ item \in Nat /\ next % 2 \in {0, 1}
  BY <1>2
<1>4. /\ e \in RxCh /\ e.flevel = x /\ e.fcount = 0 /\ e.idle = 0 /\ e.pwidth = 0
      /\ e.place = next /\ e.active /\ e.armed
  <2>1. next \in 0 .. Turn /\ 0 \in Nat
    BY <1>1, <1>2
  <2>2. e \in RxCh
    BY <2>1, Zenon DEF RxCh
  <2>3. e.flevel = x /\ e.fcount = 0 /\ e.idle = 0 /\ e.pwidth = 0 /\ e.place = next
    BY Zenon DEF RxCh
  <2>4. e.active /\ e.armed
    BY Zenon DEF RxCh
  <2> QED
    BY <2>2, <2>3, <2>4, Zenon
<1>5. Finished(e) \in RxCh /\ Finished(e).flevel = x /\ Finished(e).fcount = 0
      /\ Finished(e).idle = 0 /\ Finished(e).pwidth = 0 /\ ~Finished(e).active /\ ~Finished(e).armed
  <2> HIDE DEF e
  <2> QED
    BY <1>4, Zenon DEF Finished, RxCh
<1>6. LET g == [e EXCEPT !.place = 0] IN
      /\ g \in RxCh /\ g.flevel = x /\ g.fcount = 0 /\ g.idle = 0 /\ g.pwidth = 0
      /\ g.place = 0 /\ g.active /\ g.armed
  <2>1. 0 \in 0 .. Turn
    BY <1>1
  <2> HIDE DEF e
  <2> QED
    BY <1>4, <2>1, Zenon DEF RxCh
<1>7. d = IF next % 2 = 1 THEN e
          ELSE IF rxConf.lim > 0 /\ item >= rxConf.lim THEN Finished(e)
          ELSE IF item < Capacity THEN e
          ELSE IF rxConf.wrap THEN [e EXCEPT !.place = 0]
          ELSE Finished(e)
  BY Zenon DEF AfterEdge
<1> HIDE DEF e, item
<1> DEFINE lim == rxConf.lim
           wrap == rxConf.wrap
           odd == next % 2
<1>a. EndsAt(rxConf, next) <=> odd = 0 /\ ((lim > 0 /\ next >= 2 * lim) \/ (next = Turn /\ ~wrap))
  BY Zenon DEF EndsAt
<1>b. /\ Turn = 2 * Capacity /\ Capacity \in Nat /\ lim \in Nat /\ next \in 1 .. Turn
      /\ next = 2 * item + odd /\ item \in Nat /\ odd \in {0, 1}
  BY <1>1, <1>2, <1>3, Zenon
<1> HIDE DEF lim, wrap, odd
<1>8. CASE next % 2 = 1
  <2>1. ~EndsAt(rxConf, next) /\ next # Turn
    <3>1. odd = 1
      BY <1>8, Zenon DEF odd
    <3> QED
      BY <1>a, <1>b, <3>1
  <2> QED
    BY <1>2, <1>4, <1>7, <1>8, <2>1, Zenon DEF MovesOn
<1>9. CASE next % 2 # 1 /\ rxConf.lim > 0 /\ item >= rxConf.lim
  <2>1. EndsAt(rxConf, next)
    <3>1. odd # 1 /\ lim > 0 /\ item >= lim
      BY <1>9, Zenon DEF odd, lim, wrap
    <3> QED
      BY <1>a, <1>b, <3>1
  <2> QED
    BY <1>2, <1>5, <1>7, <1>9, <2>1, Zenon DEF MovesOn
<1>10. CASE next % 2 # 1 /\ ~(rxConf.lim > 0 /\ item >= rxConf.lim) /\ item < Capacity
  <2>1. ~EndsAt(rxConf, next) /\ next # Turn
    <3>1. odd # 1 /\ ~(lim > 0 /\ item >= lim) /\ item < Capacity
      BY <1>10, Zenon DEF odd, lim, wrap
    <3> QED
      BY <1>a, <1>b, <3>1
  <2> QED
    BY <1>2, <1>4, <1>7, <1>10, <2>1, Zenon DEF MovesOn
<1>11. CASE next % 2 # 1 /\ ~(rxConf.lim > 0 /\ item >= rxConf.lim) /\ ~(item < Capacity) /\ rxConf.wrap
  <2>1. ~EndsAt(rxConf, next) /\ next = Turn
    <3>1. odd # 1 /\ ~(lim > 0 /\ item >= lim) /\ ~(item < Capacity) /\ wrap
      BY <1>11, Zenon DEF odd, lim, wrap
    <3> QED
      BY <1>a, <1>b, <3>1
  <2> QED
    BY <1>2, <1>6, <1>7, <1>11, <2>1, Zenon DEF MovesOn
<1>12. CASE next % 2 # 1 /\ ~(rxConf.lim > 0 /\ item >= rxConf.lim) /\ ~(item < Capacity) /\ ~rxConf.wrap
  <2>1. EndsAt(rxConf, next)
    <3>1. odd # 1 /\ ~(lim > 0 /\ item >= lim) /\ ~(item < Capacity) /\ ~wrap
      BY <1>12, Zenon DEF odd, lim, wrap
    <3> QED
      BY <1>a, <1>b, <3>1
  <2> QED
    BY <1>2, <1>5, <1>7, <1>12, <2>1, Zenon DEF MovesOn
<1> QED
  BY <1>8, <1>9, <1>10, <1>11, <1>12, Zenon

\* Where the open pulse began.
LEMMA OpenPulse ==
  ASSUME NEW N \in Nat \ {0}, NEW E, Ranked(E), E \subseteq 2 .. N, NEW n, n = Cardinality(E)
  PROVE  n \in Nat /\ StartOf(E, n + 1) \in 1 .. N /\ \A e \in E : e <= StartOf(E, n + 1)
<1>1. n \in Nat
  BY NthIs, Zenon
<1>2. CASE n = 0
  <2>1. \A e \in E : FALSE
    <3>1. ASSUME NEW e \in E PROVE FALSE
      <4>1. Cardinality(E) > 0
        BY LastEdge, Zenon
      <4> QED
        BY <1>2, <4>1
    <3> QED
      BY <3>1, Zenon
  <2>2. StartOf(E, n + 1) = 1
    BY <1>2 DEF StartOf
  <2>3. 1 \in 1 .. N
    OBVIOUS
  <2> QED
    BY <1>1, <2>1, <2>2, <2>3, Zenon
<1>3. CASE n # 0
  <2>1. n \in 1 .. n /\ n + 1 # 1 /\ (n + 1) - 1 = n
    BY <1>1, <1>3
  <2>2. StartOf(E, n + 1) = NthEdge(E, n)
    BY <2>1, Zenon DEF StartOf
  <2>3. NthEdge(E, n) \in 2 .. N
    BY <2>1, NthIs, Zenon
  <2>4. NthEdge(E, n) \in 1 .. N
    BY <2>3
  <2>5. \A e \in E : e <= NthEdge(E, n)
    BY LastEdge, Zenon
  <2> QED
    BY <1>1, <2>2, <2>4, <2>5, Zenon
<1> QED
  BY <1>2, <1>3, Zenon

\* A stored half.
LEMMA StoredIs ==
  ASSUME NEW l \in Level, NEW w \in Nat
  PROVE  /\ Stored(l, w) \in Level \X (0 .. MaxWidth)
         /\ Stored(l, w)[1] = l /\ Stored(l, w)[2] = Min({w, MaxWidth})
<1>1. MaxWidth \in Nat
  BY CaptureBounds, Zenon
<1>2. Min({w, MaxWidth}) = IF w <= MaxWidth THEN w ELSE MaxWidth
  BY <1>1, MinPair, Zenon
<1>3. Min({w, MaxWidth}) \in 0 .. MaxWidth
  BY <1>1, <1>2
<1> HIDE DEF Min
<1> QED
  BY <1>3, Zenon DEF Stored

\* How many pulses a capture that goes on, or ends, has closed.
LEMMA PulseCount ==
  ASSUME NEW conf, conf.lim \in Nat, conf.wrap \in BOOLEAN, NEW n \in Nat,
         conf.lim \in 1 .. Capacity => n < 2 * conf.lim, ~conf.wrap => n < Turn,
         NEW next, next = (n % Turn) + 1
  PROVE  /\ ~EndsAt(conf, next) =>
              /\ conf.lim \in 1 .. Capacity => n + 1 < 2 * conf.lim
              /\ ~conf.wrap => n + 1 < Turn
              /\ (n + 1) % Turn = IF next = Turn THEN 0 ELSE next
         /\ EndsAt(conf, next) =>
              n + 1 = 2 * (IF conf.lim > 0 THEN Min({conf.lim, Capacity}) ELSE Capacity)
<1> DEFINE lim == conf.lim
           wrap == conf.wrap
           odd == next % 2
           least == IF lim > 0 THEN Min({lim, Capacity}) ELSE Capacity
<1>1. EndsAt(conf, next) <=> odd = 0 /\ ((lim > 0 /\ next >= 2 * lim) \/ (next = Turn /\ ~wrap))
  BY Zenon DEF EndsAt
<1>2. (n + 1) % Turn = (IF next = Turn THEN 0 ELSE next) /\ (n < Turn => n % Turn = n)
  BY TurnNext, Zenon
<1>3. /\ Turn = 2 * Capacity /\ Capacity \in Nat \ {0} /\ n % Turn \in 0 .. Turn - 1
  BY TurnValue, CaptureBounds, Zenon DEF Turn
<1>4. lim \in Nat /\ (lim \in 1 .. Capacity => n < 2 * lim) /\ (~wrap => n < Turn)
  BY Zenon
<1>5. lim > 0 => least = IF lim <= Capacity THEN lim ELSE Capacity
  BY <1>3, <1>4, MinPair, Zenon
<1>6. ~(lim > 0) => least = Capacity
  BY Zenon
<1>7. next \in 1 .. Turn /\ (n < Turn => next = n + 1)
  BY <1>2, <1>3
<1>8. odd = next % 2 /\ \A k \in Nat : (2 * k) % 2 = 0
  OBVIOUS
<1> HIDE DEF lim, wrap, odd, least
<1>9. ASSUME ~EndsAt(conf, next), lim \in 1 .. Capacity PROVE n + 1 < 2 * lim
  <2>1. next = n + 1 /\ n + 1 <= 2 * lim
    BY <1>3, <1>4, <1>7, <1>9
  <2>2. next = 2 * lim => odd = 0
    BY <1>4, <1>8, Zenon
  <2> QED
    BY <1>1, <1>4, <1>9, <2>1, <2>2
<1>10. ASSUME ~EndsAt(conf, next), ~wrap PROVE n + 1 < Turn
  <2>1. next = n + 1 /\ n + 1 <= Turn
    BY <1>3, <1>4, <1>7, <1>10
  <2>2. next = Turn => odd = 0
    BY <1>3, <1>8, Zenon
  <2> QED
    BY <1>1, <1>3, <1>10, <2>1, <2>2
<1>11. ASSUME EndsAt(conf, next) PROVE n + 1 = 2 * least
  <2>1. CASE lim > 0 /\ next >= 2 * lim
    <3>1. lim \in 1 .. Capacity
      BY <1>3, <1>4, <1>7, <2>1
    <3> QED
      BY <1>3, <1>4, <1>5, <1>7, <2>1, <3>1
  <2>2. CASE ~(lim > 0 /\ next >= 2 * lim)
    <3>1. next = Turn /\ ~wrap
      BY <1>1, <1>11, <2>2, Zenon
    <3>2. n + 1 = Turn
      BY <1>4, <1>7, <3>1, Zenon
    <3>3. ~(lim > 0) \/ lim > Capacity
      BY <1>3, <1>4, <2>2, <3>1
    <3> QED
      BY <1>3, <1>4, <1>5, <1>6, <3>2, <3>3
  <2> QED
    BY <2>1, <2>2, Zenon
<1> QED
  BY <1>2, <1>9, <1>10, <1>11, Zenon DEF lim, wrap, least

\* A tick with an accepted edge closes the open pulse and opens the next, or
\* ends the capture.
LEMMA EdgeTicks ==
  ASSUME CaptureTypes, cap.active, Tracks(samples, rxConf, rxMem, cap), NEW x \in Level, Accepted(x),
         NEW t, t = Append(samples, x),
         NEW m, m = [rxMem EXCEPT ![cap.place] = Stored(1 - x, cap.pwidth)],
         NEW d, d = AfterEdge(cap, x)
  PROVE  /\ d \in RxCh /\ m \in [Halves -> Level \X (0 .. MaxWidth)]
         /\ d.active => d.armed /\ d.place \in Halves /\ Tracks(t, rxConf, m, d)
         /\ ~d.active => PulsesIn(t, rxConf.filter, m, d) /\ EndsIn(t, rxConf, d)
<1> DEFINE s == samples
           N == Len(s)
           f == rxConf.filter
           E == EdgesOf(s, f)
           F == EdgesOf(t, f)
           n == Cardinality(E)
           next == cap.place + 1
           M == Level \X (0 .. MaxWidth)
<1>1. /\ s \in Seq(Level) /\ s # <<>> /\ cap \in RxCh /\ cap.armed /\ cap.place \in Halves
      /\ rxConf \in RxConf /\ rxMem \in [Halves -> M]
  BY Zenon DEF CaptureTypes
<1>2. /\ Leveled(s, f) /\ Filtered(s, f, cap.flevel, cap.fcount) /\ E \subseteq 2 .. N /\ Ranked(E)
      /\ cap.idle = N - StartOf(E, n + 1) /\ cap.pwidth = cap.idle + (IF n = 0 THEN 1 ELSE 0)
      /\ cap.place = n % Turn /\ Recorded(s, f, rxMem, n - Turn + 1)
      /\ rxConf.lim \in 1 .. Capacity => n < 2 * rxConf.lim
      /\ ~rxConf.wrap => n < Turn
  BY Zenon DEF Tracks
<1>3. f \in Nat \ {0} /\ rxConf.lim \in Nat /\ rxConf.wrap \in BOOLEAN
  BY <1>1, ConfIs, Zenon
<1>4. cap.flevel \in Level /\ cap.fcount \in Nat /\ cap.pwidth \in Nat /\ cap.idle \in Nat
  BY <1>1, Zenon DEF RxCh
<1>5. N \in Nat \ {0} /\ Len(t) = N + 1
  BY <1>1
<1>6. x # cap.flevel /\ cap.fcount + 1 >= f
  BY Zenon DEF Accepted
<1>7. Leveled(t, f) /\ Filtered(t, f, x, 0) /\ 1 - x = cap.flevel
  <2>1. FilterMoves(f, cap.flevel, cap.fcount, x, t)
    BY <1>1, <1>2, <1>3, <1>4, FilterStep, Zenon
  <2> QED
    BY <1>6, <2>1, Zenon DEF FilterMoves
<1>8. Longer(s, f, t) /\ MoreEdges(s, f, t)
  BY <1>1, <1>2, <1>3, LevelStep, EdgesStep, Zenon
<1>9. Lev(t, f, N + 1) = x /\ Lev(s, f, N) = cap.flevel
  BY <1>2, <1>5, <1>7, Zenon DEF Filtered
<1>10. F = E \cup {N + 1}
  BY <1>6, <1>8, <1>9, Zenon DEF MoreEdges
<1>11. /\ Stored(1 - x, cap.pwidth) \in M /\ Stored(1 - x, cap.pwidth)[1] = cap.flevel
       /\ Stored(1 - x, cap.pwidth)[2] = Min({cap.pwidth, MaxWidth})
  <2>1. /\ Stored(cap.flevel, cap.pwidth) \in M /\ Stored(cap.flevel, cap.pwidth)[1] = cap.flevel
        /\ Stored(cap.flevel, cap.pwidth)[2] = Min({cap.pwidth, MaxWidth})
    BY <1>4, StoredIs, ZenonT(30)
  <2>2. Stored(1 - x, cap.pwidth) = Stored(cap.flevel, cap.pwidth)
    BY <1>7, Zenon
  <2> QED
    BY <2>1, <2>2, Zenon
<1>12. n \in Nat /\ StartOf(E, n + 1) \in 1 .. N
  BY <1>2, <1>5, OpenPulse, Zenon
<1>13. Kept(s, f, Stored(1 - x, cap.pwidth), StartOf(E, n + 1), N)
  <2>1. cap.pwidth \in {N - StartOf(E, n + 1), N - StartOf(E, n + 1) + 1}
    <3> DEFINE q == StartOf(E, n + 1)
    <3>1. q \in 1 .. N /\ cap.idle = N - q
      BY <1>2, <1>12, Zenon
    <3> HIDE DEF q, n, E, N
    <3>2. cap.pwidth = N - q \/ cap.pwidth = N - q + 1
      BY <1>2, <1>4, <1>5, <3>1
    <3> QED
      BY <3>2, Zenon DEF q
  <2> QED
    BY <2>1, <1>9, <1>11, Zenon DEF Kept
<1>14. Recorded(s, f, m, n - Turn + 2) /\ m[n % Turn] = Stored(1 - x, cap.pwidth)
  <2>1. StoredNext(s, f, n, Stored(1 - x, cap.pwidth), m)
    BY <1>1, <1>2, Overwrite, Zenon
  <2> QED
    BY <2>1, Zenon DEF StoredNext
<1>15. m \in [Halves -> M]
  BY <1>1, <1>11, Zenon
<1>16. Turn \in Nat /\ Turn >= 2 /\ Halves = 0 .. Turn - 1 /\ IdleThres \in Nat \ {0}
  BY CaptureBounds, Zenon
<1>17. /\ Ranked(F) /\ Cardinality(F) = n + 1 /\ StartOf(F, (n + 1) + 1) = N + 1
       /\ Recorded(t, f, m, n - Turn + 2)
  <2>1. n - Turn + 2 \in Int
    BY <1>12, <1>16
  <2>2. Kept(s, f, m[n % Turn], StartOf(E, n + 1), N)
    BY <1>13, <1>14, Zenon
  <2>3. ClosesPulse(t, f, m, n - Turn + 2, n, N)
    BY <1>1, <1>2, <1>8, <1>10, <1>14, <2>1, <2>2, EdgeStep, Zenon
  <2> QED
    BY <2>3, Zenon DEF ClosesPulse
<1>18. /\ d \in RxCh /\ d.flevel = x /\ d.fcount = 0 /\ d.idle = 0 /\ d.pwidth = 0
       /\ next \in 1 .. Turn
       /\ d.active <=> ~EndsAt(rxConf, next)
       /\ d.armed <=> ~EndsAt(rxConf, next)
       /\ ~EndsAt(rxConf, next) => d.place = IF next = Turn THEN 0 ELSE next
  <2>1. MovesOn(rxConf, x, next, d)
    BY <1>1, AfterEdgeIs, Zenon
  <2> QED
    BY <2>1, Zenon DEF MovesOn
<1>19. /\ ~EndsAt(rxConf, next) =>
            /\ rxConf.lim \in 1 .. Capacity => n + 1 < 2 * rxConf.lim
            /\ ~rxConf.wrap => n + 1 < Turn
            /\ (n + 1) % Turn = IF next = Turn THEN 0 ELSE next
       /\ EndsAt(rxConf, next) =>
            n + 1 = 2 * (IF rxConf.lim > 0 THEN Min({rxConf.lim, Capacity}) ELSE Capacity)
  BY <1>2, <1>3, <1>12, PulseCount, Zenon
<1>20. (n + 1) - Turn + 1 = n - Turn + 2 /\ n + 1 # 0 /\ (N + 1) - (N + 1) = 0 /\ 0 < IdleThres
       /\ ~(0 >= IdleThres) /\ (n + 1) - Turn + 1 \in Int /\ 0 + 0 = 0
  BY <1>5, <1>12, <1>16
<1>21. F \subseteq 2 .. N + 1
  BY <1>2, <1>5, <1>10
<1> HIDE DEF next, n, N, F, E, f, s
<1>22. ASSUME d.active PROVE d.armed /\ d.place \in Halves /\ Tracks(t, rxConf, m, d)
  <2>1. ~EndsAt(rxConf, next) /\ d.armed /\ d.place = (n + 1) % Turn
    BY <1>18, <1>19, <1>22, Zenon
  <2>2. n + 1 \in Nat
    BY <1>12
  <2>3. d.place \in Halves
    BY <1>16, <2>1, <2>2, TurnValue, Zenon
  <2>4. d.idle = Len(t) - StartOf(F, (n + 1) + 1) /\ d.idle < IdleThres
    BY <1>5, <1>17, <1>18, <1>20, Zenon
  <2>5. d.pwidth = d.idle + (IF n + 1 = 0 THEN 1 ELSE 0)
    BY <1>18, <1>20, Zenon
  <2>6. Recorded(t, f, m, (n + 1) - Turn + 1)
    BY <1>17, <1>20, Zenon
  <2>7. F \subseteq 2 .. Len(t)
    BY <1>5, <1>21, Zenon
  <2>8. Tracks(t, rxConf, m, d)
    BY <1>7, <1>17, <1>18, <1>19, <2>1, <2>4, <2>5, <2>6, <2>7, Zenon DEF Tracks, F, f
  <2> QED
    BY <2>1, <2>3, <2>8, Zenon
<1>23. ASSUME ~d.active PROVE PulsesIn(t, rxConf.filter, m, d) /\ EndsIn(t, rxConf, d)
  <2>1. Recorded(t, f, m, (n + 1) - Turn + 1)
    BY <1>17, <1>20, Zenon
  <2>2. Latest(t, f, m, (n + 1) - Turn + 1)
    BY <1>17, <1>20, <2>1, LatestPulses, Zenon DEF F
  <2>3. ~(d.idle >= IdleThres)
    BY <1>18, <1>20, Zenon
  <2>4. PulsesIn(t, f, m, d)
    BY <1>17, <1>23, <2>2, <2>3, Zenon DEF PulsesIn, F
  <2>5. n + 1 = 2 * (IF rxConf.lim > 0 THEN Min({rxConf.lim, Capacity}) ELSE Capacity)
    BY <1>18, <1>19, <1>23, Zenon
  <2>6. EndsIn(t, rxConf, d)
    BY <1>17, <2>5, Zenon DEF EndsIn, F, f
  <2> QED
    BY <2>4, <2>6, Zenon DEF f
<1> QED
  BY <1>15, <1>18, <1>22, <1>23, Zenon

\* The channel after a tick without an edge.
WaitsOn(c, x, d) ==
  /\ d \in RxCh /\ d.flevel = c.flevel /\ d.fcount = (IF x # c.flevel THEN c.fcount + 1 ELSE 0)
  /\ d.idle = c.idle + 1 /\ d.pwidth = c.pwidth + 1
  /\ d.place = c.place /\ d.active = c.active /\ d.armed = c.armed

\* A tick that finds no edge does that.
LEMMA AfterQuietIs ==
  ASSUME NEW c \in RxCh, NEW x \in Level, NEW d, d = AfterQuiet(c, x)
  PROVE  WaitsOn(c, x, d)
<1>1. (IF x # c.flevel THEN c.fcount + 1 ELSE 0) \in Nat /\ c.pwidth + 1 \in Nat /\ c.idle + 1 \in Nat
  BY DEF RxCh
<1>2. d = [c EXCEPT !.fcount = IF x # c.flevel THEN c.fcount + 1 ELSE 0,
                    !.pwidth = c.pwidth + 1, !.idle = c.idle + 1]
  BY Zenon DEF AfterQuiet
<1> DEFINE u == IF x # c.flevel THEN c.fcount + 1 ELSE 0
           v == c.pwidth + 1
           w == c.idle + 1
<1>3. d = [c EXCEPT !.fcount = u, !.pwidth = v, !.idle = w] /\ u \in Nat /\ v \in Nat /\ w \in Nat
  BY <1>1, <1>2, Zenon
<1> HIDE DEF u, v, w
<1>4. d \in RxCh
  BY <1>3, Zenon DEF RxCh
<1>5. /\ d.fcount = u /\ d.pwidth = v /\ d.idle = w /\ d.flevel = c.flevel
      /\ d.place = c.place /\ d.active = c.active /\ d.armed = c.armed
  BY <1>3, Zenon DEF RxCh
<1> QED
  BY <1>4, <1>5, Zenon DEF u, v, w, WaitsOn

\* What rx_finish leaves of the channel when the line is quiet.
LEMMA QuietEndIs ==
  ASSUME NEW c \in RxCh, c.place \in Halves, NEW d, d = [Finished(c) EXCEPT !.place = c.place + 1]
  PROVE  d \in RxCh /\ d.idle = c.idle /\ d.active = FALSE /\ d.armed = FALSE
<1>1. c.place + 1 \in 0 .. Turn
  <2>1. Turn \in Nat /\ Halves = 0 .. Turn - 1
    BY CaptureBounds, Zenon
  <2> QED
    BY <2>1
<1> DEFINE q == c.place + 1
           e == Finished(c)
<1>2. e \in RxCh /\ e.idle = c.idle /\ e.active = FALSE /\ e.armed = FALSE
  BY Zenon DEF Finished, RxCh
<1> HIDE DEF q, e
<1>3. d = [e EXCEPT !.place = q] /\ q \in 0 .. Turn
  BY <1>1, Zenon DEF q, e
<1>4. d \in RxCh /\ d.idle = e.idle /\ d.active = e.active /\ d.armed = e.armed
  BY <1>2, <1>3, Zenon DEF RxCh
<1> QED
  BY <1>2, <1>4, Zenon

\* What a tick without an edge finds and leaves, before it stores anything.
StaysOpen(f, E, n, N, c, t) ==
  /\ EdgesOf(t, f) = E /\ Ranked(E) /\ n = Cardinality(E) /\ n \in Nat
  /\ E \subseteq 2 .. N /\ N \in Nat \ {0} /\ Len(t) = N + 1
  /\ StartOf(E, n + 1) \in 1 .. N /\ \A e \in E : e <= StartOf(E, n + 1)
  /\ Lev(t, f, N + 1) = c.flevel
  /\ c.idle \in Nat /\ c.idle = N - StartOf(E, n + 1) /\ c.idle < IdleThres
  /\ c.pwidth \in Nat /\ c.pwidth = c.idle + (IF n = 0 THEN 1 ELSE 0)

\* A running capture that accepts no edge keeps its pulse open.
LEMMA QuietOpen ==
  ASSUME CaptureTypes, cap.active, Tracks(samples, rxConf, rxMem, cap), NEW x \in Level, ~Accepted(x),
         NEW t, t = Append(samples, x)
  PROVE  LET f == rxConf.filter
             E == EdgesOf(samples, f)
         IN  /\ StaysOpen(f, E, Cardinality(E), Len(samples), cap, t)
             /\ Longer(samples, f, t)
             /\ Leveled(t, f)
             /\ Filtered(t, f, cap.flevel, IF x # cap.flevel THEN cap.fcount + 1 ELSE 0)
<1> DEFINE s == samples
           N == Len(s)
           f == rxConf.filter
           E == EdgesOf(s, f)
           n == Cardinality(E)
<1>1. s \in Seq(Level) /\ s # <<>> /\ cap \in RxCh /\ rxConf \in RxConf
  BY Zenon DEF CaptureTypes
<1>2. /\ Leveled(s, f) /\ Filtered(s, f, cap.flevel, cap.fcount) /\ E \subseteq 2 .. N /\ Ranked(E)
      /\ cap.idle = N - StartOf(E, n + 1) /\ cap.pwidth = cap.idle + (IF n = 0 THEN 1 ELSE 0)
      /\ cap.idle < IdleThres
  BY Zenon DEF Tracks
<1>3. f \in Nat \ {0}
  BY <1>1, ConfIs, Zenon
<1>4. cap.flevel \in Level /\ cap.fcount \in Nat /\ cap.pwidth \in Nat /\ cap.idle \in Nat
  BY <1>1, Zenon DEF RxCh
<1>5. N \in Nat \ {0} /\ Len(t) = N + 1
  BY <1>1
<1>6. ~(x # cap.flevel /\ cap.fcount + 1 >= f)
  BY Zenon DEF Accepted
<1>7. Leveled(t, f) /\ Filtered(t, f, cap.flevel, IF x # cap.flevel THEN cap.fcount + 1 ELSE 0)
  <2>1. FilterMoves(f, cap.flevel, cap.fcount, x, t)
    BY <1>1, <1>2, <1>3, <1>4, FilterStep, Zenon
  <2> QED
    BY <1>6, <2>1, Zenon DEF FilterMoves
<1>8. Longer(s, f, t) /\ MoreEdges(s, f, t)
  BY <1>1, <1>2, <1>3, LevelStep, EdgesStep, Zenon
<1>9. Lev(t, f, N + 1) = cap.flevel /\ Lev(s, f, N) = cap.flevel
  BY <1>2, <1>5, <1>7, Zenon DEF Filtered
<1>10. EdgesOf(t, f) = E
  BY <1>8, <1>9, Zenon DEF MoreEdges
<1>11. n \in Nat /\ StartOf(E, n + 1) \in 1 .. N /\ \A e \in E : e <= StartOf(E, n + 1)
  BY <1>2, <1>5, OpenPulse, Zenon
<1> QED
  BY <1>2, <1>4, <1>5, <1>7, <1>8, <1>9, <1>10, <1>11, Zenon DEF StaysOpen

\* A tick without an edge on a line that is not yet quiet.
LEMMA QuietGoesOn ==
  ASSUME CaptureTypes, cap.active, Tracks(samples, rxConf, rxMem, cap), NEW x \in Level, ~Accepted(x),
         NEW t, t = Append(samples, x), NEW d, d = AfterQuiet(cap, x), d.idle < IdleThres
  PROVE  d \in RxCh /\ d.active /\ d.armed /\ d.place \in Halves /\ Tracks(t, rxConf, rxMem, d)
<1> DEFINE f == rxConf.filter
           E == EdgesOf(samples, f)
           n == Cardinality(E)
           N == Len(samples)
<1>1. /\ StaysOpen(f, E, n, N, cap, t) /\ Longer(samples, f, t) /\ Leveled(t, f)
      /\ Filtered(t, f, cap.flevel, IF x # cap.flevel THEN cap.fcount + 1 ELSE 0)
  BY QuietOpen, Zenon
<1>2. cap \in RxCh /\ cap.armed /\ cap.place \in Halves /\ samples \in Seq(Level)
  BY Zenon DEF CaptureTypes
<1>3. /\ d \in RxCh /\ d.flevel = cap.flevel
      /\ d.fcount = (IF x # cap.flevel THEN cap.fcount + 1 ELSE 0)
      /\ d.idle = cap.idle + 1 /\ d.pwidth = cap.pwidth + 1
      /\ d.place = cap.place /\ d.active = cap.active /\ d.armed = cap.armed
  <2>1. WaitsOn(cap, x, d)
    BY <1>2, AfterQuietIs, Zenon
  <2> QED
    BY <2>1, Zenon DEF WaitsOn
<1>4. /\ cap.place = n % Turn /\ Recorded(samples, f, rxMem, n - Turn + 1)
      /\ rxConf.lim \in 1 .. Capacity => n < 2 * rxConf.lim
      /\ ~rxConf.wrap => n < Turn
  BY Zenon DEF Tracks
<1>5. Recorded(t, f, rxMem, n - Turn + 1)
  <2>1. Ranked(E) /\ E \subseteq 2 .. N /\ EdgesOf(t, f) = E
    BY <1>1, Zenon DEF StaysOpen
  <2> QED
    BY <1>1, <1>2, <1>4, <2>1, QuietStep, Zenon
<1> HIDE DEF n, N, E, f
<1>6. /\ d.idle = (N + 1) - StartOf(E, n + 1)
      /\ d.pwidth = d.idle + (IF n = 0 THEN 1 ELSE 0)
  <2> DEFINE q == StartOf(E, n + 1)
  <2>1. /\ q \in 1 .. N /\ N \in Nat /\ cap.idle \in Nat /\ cap.idle = N - q
        /\ cap.pwidth = cap.idle + (IF n = 0 THEN 1 ELSE 0)
    BY <1>1, Zenon DEF StaysOpen
  <2> HIDE DEF q
  <2>2. /\ d.idle = (N + 1) - q
        /\ d.pwidth = d.idle + (IF n = 0 THEN 1 ELSE 0)
    BY <1>3, <2>1
  <2> QED
    BY <2>2, Zenon DEF q
<1>7. EdgesOf(t, f) = E /\ Ranked(E) /\ n = Cardinality(E) /\ Len(t) = N + 1 /\ E \subseteq 2 .. Len(t)
  <2>1. EdgesOf(t, f) = E /\ Ranked(E) /\ n = Cardinality(E) /\ Len(t) = N + 1 /\ E \subseteq 2 .. N
        /\ N \in Nat
    BY <1>1, Zenon DEF StaysOpen
  <2>2. E \subseteq 2 .. N + 1
    BY <2>1
  <2> QED
    BY <2>1, <2>2, Zenon
<1>8. Tracks(t, rxConf, rxMem, d)
  <2>1. Leveled(t, f) /\ Filtered(t, f, d.flevel, d.fcount)
    BY <1>1, <1>3, Zenon
  <2>2. d.idle = Len(t) - StartOf(E, n + 1)
    BY <1>6, <1>7, Zenon
  <2>3. d.place = n % Turn
    BY <1>3, <1>4, Zenon
  <2> QED
    BY <1>4, <1>5, <1>6, <1>7, <2>1, <2>2, <2>3, Zenon DEF Tracks, f
<1> QED
  BY <1>2, <1>3, <1>8, Zenon

\* The number of the pulse that is flushed.
LEMMA NextPulse ==
  ASSUME NEW n \in Nat, NEW a \in Nat, NEW b \in Nat
  PROVE  (n + 1) - 1 = n /\ (n + 1) - a + 1 = n - a + 2 /\ n - a + 2 \in Int /\ b >= b
OBVIOUS

\* A tick that finds the line quiet stores the open pulse and ends the capture.
LEMMA QuietEnds ==
  ASSUME CaptureTypes, cap.active, Tracks(samples, rxConf, rxMem, cap), NEW x \in Level, ~Accepted(x),
         NEW t, t = Append(samples, x), NEW c, c = AfterQuiet(cap, x), ~(c.idle < IdleThres),
         NEW m, m = [rxMem EXCEPT ![c.place] = Stored(c.flevel, c.pwidth)],
         NEW d, d = [Finished(c) EXCEPT !.place = c.place + 1]
  PROVE  /\ d \in RxCh /\ m \in [Halves -> Level \X (0 .. MaxWidth)] /\ ~d.active
         /\ PulsesIn(t, rxConf.filter, m, d) /\ EndsIn(t, rxConf, d)
<1> DEFINE f == rxConf.filter
           E == EdgesOf(samples, f)
           n == Cardinality(E)
           N == Len(samples)
           q == StartOf(E, n + 1)
           M == Level \X (0 .. MaxWidth)
           p == Stored(c.flevel, c.pwidth)
<1>1. StaysOpen(f, E, n, N, cap, t) /\ Longer(samples, f, t)
  BY QuietOpen, Zenon
<1>2. /\ cap \in RxCh /\ cap.place \in Halves /\ samples \in Seq(Level)
      /\ rxMem \in [Halves -> M]
  BY Zenon DEF CaptureTypes
<1>3. /\ c \in RxCh /\ c.flevel = cap.flevel
      /\ c.idle = cap.idle + 1 /\ c.pwidth = cap.pwidth + 1 /\ c.place = cap.place
  <2>1. WaitsOn(cap, x, c)
    BY <1>2, AfterQuietIs, Zenon
  <2> QED
    BY <2>1, Zenon DEF WaitsOn
<1>4. cap.place = n % Turn /\ Recorded(samples, f, rxMem, n - Turn + 1)
  BY Zenon DEF Tracks
<1>5. /\ EdgesOf(t, f) = E /\ Ranked(E) /\ n \in Nat /\ E \subseteq 2 .. N /\ N \in Nat \ {0}
      /\ Len(t) = N + 1 /\ q \in 1 .. N /\ Lev(t, f, N + 1) = cap.flevel
      /\ \A e \in E : e <= q
      /\ cap.idle \in Nat /\ cap.idle = N - q /\ cap.idle < IdleThres
      /\ cap.pwidth \in Nat /\ cap.pwidth = cap.idle + (IF n = 0 THEN 1 ELSE 0)
  BY <1>1, Zenon DEF StaysOpen
<1>6. d \in RxCh /\ d.idle = c.idle /\ d.active = FALSE /\ d.armed = FALSE
  BY <1>2, <1>3, QuietEndIs, ZenonT(30)
<1>7. Turn \in Nat /\ IdleThres \in Nat \ {0}
  BY CaptureBounds, Zenon
<1>8. p \in M /\ p[1] = cap.flevel /\ p[2] = Min({c.pwidth, MaxWidth})
  <2>1. c.flevel \in Level /\ c.pwidth \in Nat
    BY <1>3, Zenon DEF RxCh
  <2> QED
    BY <1>3, <2>1, StoredIs, Zenon
<1>9. m \in [Halves -> M] /\ m = [rxMem EXCEPT ![n % Turn] = p]
  BY <1>2, <1>3, <1>4, <1>8, Zenon
<1>10. Recorded(samples, f, m, n - Turn + 2) /\ m[n % Turn] = p
  <2>1. StoredNext(samples, f, n, p, m)
    BY <1>2, <1>4, <1>5, <1>9, Overwrite, Zenon
  <2> QED
    BY <2>1, Zenon DEF StoredNext
<1>11. Recorded(t, f, m, n - Turn + 2)
  BY <1>1, <1>2, <1>5, <1>10, QuietStep, Zenon
<1> HIDE DEF f, E, n, N, q, p, M
<1>12. c.pwidth \in {(N + 1) - q, (N + 1) - q + 1} /\ c.idle = (N + 1) - q /\ c.idle = IdleThres
  <2>1. c.pwidth = (N + 1) - q \/ c.pwidth = (N + 1) - q + 1
    BY <1>3, <1>5
  <2>2. c.idle = (N + 1) - q
    BY <1>3, <1>5
  <2>3. c.idle = IdleThres
    BY <1>3, <1>5, <1>7
  <2> QED
    BY <2>1, <2>2, <2>3, Zenon
<1>13. Kept(t, f, p, q, N + 1)
  BY <1>5, <1>8, <1>12, Zenon DEF Kept
<1>14. (n + 1) - 1 = n /\ (n + 1) - Turn + 1 = n - Turn + 2 /\ n - Turn + 2 \in Int
       /\ IdleThres >= IdleThres
  BY <1>5, <1>7, NextPulse, Zenon
<1>15. Latest(t, f, m, (n + 1) - Turn + 1)
  BY <1>5, <1>11, <1>14, LatestPulses, Zenon
<1>16. PulsesIn(t, f, m, d)
  <2>1. Kept(t, f, m[((n + 1) - 1) % Turn], StartOf(E, n + 1), Len(t))
    BY <1>5, <1>10, <1>13, <1>14, Zenon DEF q
  <2>2. d.idle >= IdleThres
    BY <1>6, <1>12, <1>14, Zenon
  <2> QED
    BY <1>5, <1>6, <1>15, <2>1, <2>2, Zenon DEF PulsesIn, n
<1>17. EndsIn(t, rxConf, d)
  <2>1. N + 1 > IdleThres /\ (N + 1) - IdleThres = q
    BY <1>5, <1>7, <1>12
  <2>2. ASSUME NEW e \in E PROVE e \notin (N + 1) - IdleThres + 1 .. N + 1
    <3>1. e <= q /\ e \in 2 .. N
      BY <1>5, Zenon
    <3> QED
      BY <1>5, <2>1, <3>1
  <2>3. E \cap ((N + 1) - IdleThres + 1 .. N + 1) = {}
    BY <2>2, Zenon
  <2> QED
    BY <1>5, <2>1, <2>3, Zenon DEF EndsIn, f
<1> QED
  BY <1>6, <1>9, <1>16, <1>17, Zenon DEF f, M

-----------------------------------------------------------------------------
(* The capture                                                             *)

\* The smallest setting of the filter and the largest limit exist.
LEMMA Extremes == Min(FilterNeed) \in FilterNeed /\ Max(RxLim) \in RxLim
<1>1. Min(FilterNeed) \in FilterNeed
  <2>1. FilterNeed \subseteq Nat /\ FilterNeed # {}
    BY CaptureAssumption
  <2>2. \E n \in FilterNeed : \A k \in FilterNeed : n <= k
    BY <2>1, LeastNat, Zenon
  <2> QED
    BY <2>2, Zenon DEF Min
<1>2. Max(RxLim) \in RxLim
  <2>1. RxLim \subseteq 0 .. 511 /\ RxLim # {}
    BY CaptureAssumption, Zenon
  <2> DEFINE U == {u \in 0 .. 511 : \A k \in RxLim : k <= u}
  <2>2. 511 \in U /\ U \subseteq Nat
    BY <2>1
  <2> HIDE DEF U
  <2>3. PICK u \in U : \A k \in U : u <= k
    BY <2>2, LeastNat, ZenonT(30)
  <2>4. u \in 0 .. 511 /\ \A k \in RxLim : k <= u
    BY <2>3 DEF U
  <2>5. ASSUME u \notin RxLim PROVE FALSE
    <3>1. PICK r : r \in RxLim
      BY <2>1
    <3>2. u # 0
      BY <2>1, <2>4, <2>5, <3>1
    <3>3. u - 1 \in 0 .. 511 /\ ~(u <= u - 1)
      BY <2>4, <3>2
    <3>4. \A k \in RxLim : k <= u - 1
      BY <2>1, <2>4, <2>5
    <3> QED
      BY <2>3, <3>3, <3>4 DEF U
  <2>6. \A k \in RxLim : u >= k
    BY <2>1, <2>4
  <2> QED
    BY <2>5, <2>6, Zenon DEF Max
<1> QED
  BY <1>1, <1>2, Zenon

\* A channel that has sampled nothing since it was armed.
LEMMA NothingSampled ==
  ASSUME NEW conf, NEW m, NEW c, c.active = FALSE, c.idle = 0
  PROVE  PulsesIn(<<>>, conf.filter, m, c) /\ EndsIn(<<>>, conf, c)
<1> DEFINE f == conf.filter
           E == EdgesOf(<<>>, f)
<1>1. E = {}
  <2>1. 2 .. Len(<<>>) = {}
    OBVIOUS
  <2> QED
    BY <2>1, Zenon DEF EdgesOf
<1>2. Cardinality(E) = 0 /\ Ranked(E)
  BY <1>1, NoEdges, Zenon
<1>3. Turn \in Nat /\ Turn >= 2 /\ IdleThres \in Nat \ {0}
  BY CaptureBounds, Zenon
<1>4. ~(c.idle >= IdleThres) /\ 0 - Turn + 1 \in Int
  BY <1>3
<1>5. Recorded(<<>>, f, m, 0 - Turn + 1)
  <2>1. 1 .. Cardinality(E) = {}
    BY <1>2
  <2> QED
    BY <2>1, Zenon DEF Recorded
<1>6. Latest(<<>>, f, m, 0 - Turn + 1)
  BY <1>2, <1>4, <1>5, LatestPulses, Zenon
<1>7. PulsesIn(<<>>, f, m, c)
  BY <1>2, <1>4, <1>6, Zenon DEF PulsesIn
<1> QED
  BY <1>7, Zenon DEF EndsIn

\* A channel with its first sample.
LEMMA FirstSample ==
  ASSUME rxConf \in RxConf, NEW x \in Level, NEW m,
         NEW c, c.flevel = x, c.fcount = 0, c.pwidth = 1, c.idle = 0, c.place = 0
  PROVE  Tracks(<<x>>, rxConf, m, c)
<1> DEFINE f == rxConf.filter
           s == <<x>>
           E == EdgesOf(s, f)
<1>1. f \in Nat \ {0} /\ rxConf.lim \in Nat
  BY ConfIs, Zenon
<1>2. Turn \in Nat /\ Turn >= 2 /\ IdleThres \in Nat \ {0} /\ Capacity \in Nat \ {0}
  BY CaptureBounds, Zenon
<1>3. Len(s) = 1 /\ s[1] = x /\ 1 .. Len(s) = {1} /\ 2 .. Len(s) = {}
  OBVIOUS
<1> HIDE DEF s
<1>4. SteadyTo(s, f, 1) = {1}
  <2>1. \A j \in f .. 1 : j = 1
    BY <1>1
  <2> QED
    BY <2>1, Zenon DEF SteadyTo
<1>5. Max(SteadyTo(s, f, 1)) = 1
  <2>1. {1} \subseteq Int /\ 1 \in {1} /\ \A y \in {1} : y <= 1
    OBVIOUS
  <2> QED
    BY <1>4, <2>1, MaxIs, Zenon
<1>6. Leveled(s, f)
  <2>1. 1 \in 1 .. 1
    OBVIOUS
  <2> QED
    BY <1>3, <1>5, <2>1, Zenon DEF Leveled
<1>7. Filtered(s, f, x, 0)
  <2>1. Lev(s, f, 1) = x
    BY <1>3, <1>5, Zenon DEF Lev
  <2>2. 0 < f /\ 0 < 1 /\ 1 - 0 = 1 /\ 1 - 0 + 1 .. 1 = {}
    BY <1>1
  <2> QED
    BY <1>3, <2>1, <2>2, Zenon DEF Filtered
<1>8. E = {} /\ Cardinality(E) = 0 /\ Ranked(E) /\ E \subseteq 2 .. Len(s)
  <2>1. E = {}
    BY <1>3, Zenon DEF EdgesOf
  <2> QED
    BY <2>1, NoEdges, Zenon
<1>9. StartOf(E, 0 + 1) = 1
  BY DEF StartOf
<1>10. Recorded(s, f, m, 0 - Turn + 1)
  <2>1. 1 .. Cardinality(E) = {}
    BY <1>8
  <2> QED
    BY <2>1, Zenon DEF Recorded
<1>11. 0 % Turn = 0
  <2>1. 0 \in Nat /\ 0 < Turn
    BY <1>2
  <2> QED
    BY <2>1, TurnNext, Zenon
<1>12. /\ c.idle = Len(s) - 1 /\ c.idle < IdleThres /\ c.pwidth = c.idle + 1
       /\ rxConf.lim \in 1 .. Capacity => 0 < 2 * rxConf.lim
       /\ 0 < Turn
  BY <1>1, <1>2, <1>3
<1>13. Tracks(s, rxConf, m, c)
  BY <1>6, <1>7, <1>8, <1>9, <1>10, <1>11, <1>12, Zenon DEF Tracks
<1> QED
  BY <1>13, Zenon DEF s

\* Nothing has been captured at first.
LEMMA CaptureInitIInv == CaptureInit => CaptureIInv
<1> SUFFICES ASSUME CaptureInit PROVE CaptureIInv
  BY Zenon
<1>1. /\ samples = <<>> /\ rewound = FALSE /\ rxMem = Blank
      /\ rxConf = [lim |-> Max(RxLim), wrap |-> FALSE, filter |-> Min(FilterNeed)]
      /\ cap = [armed |-> FALSE, active |-> FALSE, flevel |-> 0, fcount |-> 0,
                pwidth |-> 0, idle |-> 0, place |-> 0]
  BY Zenon DEF CaptureInit
<1>2. rxConf \in RxConf
  <2> DEFINE a == Max(RxLim)
             b == Min(FilterNeed)
  <2>1. a \in RxLim /\ b \in FilterNeed /\ rxConf = [lim |-> a, wrap |-> FALSE, filter |-> b]
    BY <1>1, Extremes, Zenon
  <2> HIDE DEF a, b
  <2> QED
    BY <2>1, Zenon DEF RxConf
<1>3. Turn \in Nat /\ MaxWidth \in Nat
  BY CaptureBounds, Zenon
<1>4. cap \in RxCh
  BY <1>1, <1>3 DEF RxCh, Level
<1>5. cap.active = FALSE /\ cap.idle = 0
  BY <1>1, Zenon
<1>6. rxMem \in [Halves -> Level \X (0 .. MaxWidth)]
  <2>1. <<0, 0>> \in Level \X (0 .. MaxWidth)
    BY <1>3 DEF Level
  <2> QED
    BY <1>1, <2>1, Zenon DEF Blank
<1>7. samples \in Seq(Level)
  BY <1>1
<1>8. PulsesIn(samples, rxConf.filter, rxMem, cap) /\ EndsIn(samples, rxConf, cap)
  BY <1>1, <1>5, NothingSampled, Zenon
<1> QED
  BY <1>2, <1>4, <1>5, <1>6, <1>7, <1>8, Zenon DEF CaptureIInv, CaptureTypes

\* A rising rx_en arms the channel and clears its counters, but for fcount.
LEMMA ArmedIs ==
  ASSUME NEW c \in RxCh, NEW d,
         d = [c EXCEPT !.armed = TRUE, !.active = FALSE, !.place = 0, !.idle = 0,
                       !.pwidth = 0, !.flevel = 0]
  PROVE  d \in RxCh /\ d.active = FALSE /\ d.idle = 0
<1>1. 0 \in 0 .. Turn
  BY CaptureBounds
<1> QED
  BY <1>1, Zenon DEF RxCh, Level

\* mem_wr_rst moves the writer back and leaves the rest.
LEMMA RewoundIs ==
  ASSUME NEW c \in RxCh, NEW d, d = [c EXCEPT !.place = 0]
  PROVE  d \in RxCh /\ d.active = c.active /\ d.armed = c.armed /\ d.place = 0 /\ 0 \in Halves
<1>1. 0 \in 0 .. Turn /\ 0 \in Halves
  BY CaptureBounds
<1> QED
  BY <1>1, Zenon DEF RxCh

\* The channel after its first sample x.
Started(x, d) ==
  /\ d \in RxCh /\ d.active /\ d.armed /\ d.flevel = x /\ d.fcount = 0 /\ d.pwidth = 1
  /\ d.idle = 0 /\ d.place = 0 /\ 0 \in Halves

\* The first tick of an armed channel does that.
LEMMA StartedIs ==
  ASSUME NEW c \in RxCh, c.armed, NEW x \in Level, NEW d,
         d = [c EXCEPT !.active = TRUE, !.flevel = x, !.fcount = 0, !.pwidth = 1,
                       !.place = 0, !.idle = 0]
  PROVE  Started(x, d)
<1>1. 0 \in 0 .. Turn /\ 0 \in Halves
  BY CaptureBounds
<1>2. d \in RxCh
  BY <1>1, Zenon DEF RxCh
<1>3. d.active /\ d.flevel = x /\ d.fcount = 0 /\ d.pwidth = 1 /\ d.idle = 0 /\ d.place = 0
  BY Zenon DEF RxCh
<1>4. d.armed
  BY Zenon DEF RxCh
<1> QED
  BY <1>1, <1>2, <1>3, <1>4, Zenon DEF Started

\* Every step keeps the invariant, one case for each action.
LEMMA CaptureNextIInv == CaptureIInv /\ [CaptureNext]_captureVars => CaptureIInv'
<1> SUFFICES ASSUME CaptureIInv, [CaptureNext]_captureVars PROVE CaptureIInv'
  BY Zenon
<1> DEFINE M == Level \X (0 .. MaxWidth)
<1>1. /\ rxConf \in RxConf /\ cap \in RxCh /\ samples \in Seq(Level) /\ rxMem \in [Halves -> M]
      /\ cap.active => cap.armed /\ samples # <<>> /\ cap.place \in Halves
      /\ CaptureTypes
  BY Zenon DEF CaptureIInv, CaptureTypes
<1>2. <<>> \in Seq(Level)
  OBVIOUS
<1>3. ASSUME UNCHANGED <<rxConf, cap, rxMem, samples, rewound>> PROVE CaptureIInv'
  BY <1>3, Zenon DEF CaptureIInv, CaptureTypes
<1>4. CASE SetRxConf
  <2>1. /\ ~cap.armed /\ rxConf' \in RxConf /\ samples' = <<>> /\ rewound' = TRUE
        /\ cap' = cap /\ rxMem' = rxMem
    BY <1>4, Zenon DEF SetRxConf, RxConf
  <2> QED
    BY <1>1, <1>2, <2>1, Zenon DEF CaptureIInv, CaptureTypes
<1>5. CASE Arm
  <2>1. /\ cap' = [cap EXCEPT !.armed = TRUE, !.active = FALSE, !.place = 0, !.idle = 0,
                              !.pwidth = 0, !.flevel = 0]
        /\ samples' = <<>> /\ rxConf' = rxConf /\ rxMem' = rxMem /\ rewound' = rewound
    BY <1>5, Zenon DEF Arm
  <2>2. cap' \in RxCh /\ cap'.active = FALSE /\ cap'.idle = 0
    BY <1>1, <2>1, ArmedIs, Zenon
  <2>3. PulsesIn(<<>>, rxConf.filter, rxMem, cap') /\ EndsIn(<<>>, rxConf, cap')
    BY <2>2, NothingSampled, Zenon
  <2> QED
    BY <1>1, <1>2, <2>1, <2>2, <2>3, Zenon DEF CaptureIInv, CaptureTypes
<1>6. CASE ClearEn
  BY <1>3, <1>6, Zenon DEF ClearEn
<1>7. CASE ResetWriter
  <2>1. /\ cap' = [cap EXCEPT !.place = 0] /\ rewound' = TRUE
        /\ samples' = samples /\ rxConf' = rxConf /\ rxMem' = rxMem
    BY <1>7, Zenon DEF ResetWriter
  <2>2. cap' \in RxCh /\ cap'.active = cap.active /\ cap'.armed = cap.armed /\ cap'.place = 0 /\ 0 \in Halves
    BY <1>1, <2>1, RewoundIs, Zenon
  <2> QED
    BY <1>1, <2>1, <2>2, Zenon DEF CaptureIInv, CaptureTypes
<1>8. CASE RmtIntClr
  BY <1>3, <1>8, Zenon DEF RmtIntClr
<1>9. CASE AwaitCapture
  BY <1>3, <1>9, Zenon DEF AwaitCapture
<1>10. CASE StartCapture
  <2>1. PICK x \in Level :
          /\ cap' = [cap EXCEPT !.active = TRUE, !.flevel = x, !.fcount = 0, !.pwidth = 1,
                                !.place = 0, !.idle = 0]
          /\ samples' = <<x>>
    BY <1>10, Zenon DEF StartCapture
  <2>2. cap.armed /\ rxMem' = Blank /\ rewound' = FALSE /\ rxConf' = rxConf
    BY <1>10, Zenon DEF StartCapture
  <2>3. /\ cap' \in RxCh /\ cap'.active /\ cap'.armed /\ cap'.flevel = x /\ cap'.fcount = 0
        /\ cap'.pwidth = 1 /\ cap'.idle = 0 /\ cap'.place = 0 /\ 0 \in Halves
    <3>1. Started(x, cap')
      BY <1>1, <2>1, <2>2, StartedIs, Zenon
    <3> QED
      BY <3>1, Zenon DEF Started
  <2>4. Tracks(<<x>>, rxConf, Blank, cap')
    BY <1>1, <2>3, FirstSample, Zenon
  <2>5. <<x>> \in Seq(Level) /\ <<x>> # <<>>
    OBVIOUS
  <2>6. Blank \in [Halves -> M]
    <3>1. MaxWidth \in Nat
      BY CaptureBounds, Zenon
    <3>2. <<0, 0>> \in M
      BY <3>1 DEF Level
    <3> HIDE DEF M
    <3> QED
      BY <3>2, Zenon DEF Blank
  <2> QED
    BY <1>1, <2>1, <2>2, <2>3, <2>4, <2>5, <2>6, Zenon DEF CaptureIInv, CaptureTypes
<1>11. CASE cap.active /\ EdgeTick /\ UNCHANGED <<rxConf, rxEn, rmtQuiet, rewound>>
  <2>1. PICK x \in Level :
          /\ Accepted(x) /\ rxMem' = [rxMem EXCEPT ![cap.place] = Stored(1 - x, cap.pwidth)]
          /\ cap' = AfterEdge(cap, x) /\ samples' = Append(samples, x)
    BY <1>11, Zenon DEF EdgeTick
  <2>2. samples' \in Seq(Level) /\ samples' # <<>>
    BY <1>1, <2>1
  <2>3. CASE ~rewound
    <3>1. Tracks(samples, rxConf, rxMem, cap)
      BY <1>11, <2>3, Zenon DEF CaptureIInv
    <3>2. /\ cap' \in RxCh /\ rxMem' \in [Halves -> M]
          /\ cap'.active => cap'.armed /\ cap'.place \in Halves /\ Tracks(samples', rxConf, rxMem', cap')
          /\ ~cap'.active => PulsesIn(samples', rxConf.filter, rxMem', cap') /\ EndsIn(samples', rxConf, cap')
      BY <1>1, <1>11, <2>1, <3>1, EdgeTicks, Zenon
    <3> QED
      BY <1>1, <1>11, <2>2, <3>2, Zenon DEF CaptureIInv, CaptureTypes
  <2>4. CASE rewound
    <3>1. 1 - x \in Level /\ cap.pwidth \in Nat /\ cap.place \in Halves /\ cap.armed
      BY <1>1, <1>11 DEF RxCh, Level
    <3>2. Stored(1 - x, cap.pwidth) \in M
      BY <3>1, StoredIs, Zenon
    <3>3. rxMem' \in [Halves -> M]
      BY <1>1, <2>1, <3>1, <3>2, Zenon
    <3>4. MovesOn(rxConf, x, cap.place + 1, cap')
      BY <1>1, <1>11, <2>1, <3>1, AfterEdgeIs, Zenon
    <3>5. /\ cap' \in RxCh /\ (cap'.active => cap'.armed)
          /\ cap'.active => cap'.place = IF cap.place + 1 = Turn THEN 0 ELSE cap.place + 1
      BY <3>4, Zenon DEF MovesOn
    <3>6. cap'.active => cap'.place \in Halves
      <4>1. Turn \in Nat /\ Turn >= 2 /\ Halves = 0 .. Turn - 1
        BY CaptureBounds, Zenon
      <4>2. (IF cap.place + 1 = Turn THEN 0 ELSE cap.place + 1) \in Halves
        BY <3>1, <4>1
      <4> QED
        BY <3>5, <4>2, Zenon
    <3> QED
      BY <1>1, <1>11, <2>2, <2>4, <3>3, <3>5, <3>6, Zenon DEF CaptureIInv, CaptureTypes
  <2> QED
    BY <2>3, <2>4, Zenon
<1>12. CASE cap.active /\ QuietTick /\ UNCHANGED <<rxConf, rxEn, rmtQuiet, rewound>>
  <2>1. PICK x \in Level :
          LET c == AfterQuiet(cap, x) IN
          /\ ~Accepted(x) /\ samples' = Append(samples, x)
          /\ \/ c.idle < IdleThres /\ cap' = c /\ rxMem' = rxMem
             \/ /\ ~(c.idle < IdleThres) /\ rxMem' = [rxMem EXCEPT ![c.place] = Stored(c.flevel, c.pwidth)]
                /\ cap' = [Finished(c) EXCEPT !.place = c.place + 1]
    BY <1>12, Zenon DEF QuietTick
  <2>2. samples' \in Seq(Level) /\ samples' # <<>>
    BY <1>1, <2>1
  <2> DEFINE c == AfterQuiet(cap, x)
  <2>3. WaitsOn(cap, x, c)
    BY <1>1, AfterQuietIs, Zenon
  <2>4. c \in RxCh /\ c.place = cap.place /\ c.active = cap.active /\ c.armed = cap.armed
    BY <2>3, Zenon DEF WaitsOn
  <2>5. CASE c.idle < IdleThres /\ cap' = c /\ rxMem' = rxMem
    <3>1. ASSUME ~rewound PROVE Tracks(samples', rxConf, rxMem, cap')
      <4>1. Tracks(samples, rxConf, rxMem, cap)
        BY <1>12, <3>1, Zenon DEF CaptureIInv
      <4>2. cap'.idle < IdleThres
        BY <2>5, Zenon
      <4> QED
        BY <1>1, <1>12, <2>1, <2>5, <4>1, <4>2, QuietGoesOn, Zenon
    <3> HIDE DEF c
    <3> QED
      BY <1>1, <1>12, <2>2, <2>4, <2>5, <3>1, Zenon DEF CaptureIInv, CaptureTypes
  <2>6. CASE /\ ~(c.idle < IdleThres) /\ rxMem' = [rxMem EXCEPT ![c.place] = Stored(c.flevel, c.pwidth)]
             /\ cap' = [Finished(c) EXCEPT !.place = c.place + 1]
    <3>1. ASSUME ~rewound
          PROVE  PulsesIn(samples', rxConf.filter, rxMem', cap') /\ EndsIn(samples', rxConf, cap')
      <4>1. Tracks(samples, rxConf, rxMem, cap)
        BY <1>12, <3>1, Zenon DEF CaptureIInv
      <4> QED
        BY <1>1, <1>12, <2>1, <2>6, <4>1, QuietEnds, Zenon
    <3> HIDE DEF c
    <3>2. c.place \in Halves /\ c.flevel \in Level /\ c.pwidth \in Nat
      BY <1>1, <1>12, <2>4, Zenon DEF RxCh
    <3>3. Stored(c.flevel, c.pwidth) \in M
      BY <3>2, StoredIs, Zenon
    <3>4. rxMem' \in [Halves -> M]
      BY <1>1, <2>6, <3>2, <3>3, Zenon
    <3>5. cap' \in RxCh /\ cap'.active = FALSE
      BY <2>4, <2>6, <3>2, QuietEndIs, Zenon
    <3> QED
      BY <1>1, <1>12, <2>2, <3>1, <3>4, <3>5, Zenon DEF CaptureIInv, CaptureTypes
  <2> QED
    BY <2>1, <2>5, <2>6, Zenon
<1>13. CASE UNCHANGED captureVars
  BY <1>3, <1>13, Zenon DEF captureVars
<1> QED
  BY <1>4, <1>5, <1>6, <1>7, <1>8, <1>9, <1>10, <1>11, <1>12, <1>13, Zenon DEF CaptureNext, RmtTick

\* The invariant holds in every reachable state.
THEOREM CaptureInvariant == CaptureSpec => []CaptureIInv
BY CaptureInitIInv, CaptureNextIInv, PTL DEF CaptureSpec

\* What tick_rx leaves in the block are the latest pulses of the filtered line,
\* each in the place of its turn and with its width, and it ends a capture only
\* on a line quiet for idle_thres or when the limit or the block is used up.
THEOREM CaptureIsSound == CaptureSpec => []CaptureSound
<1>1. CaptureIInv => CaptureSound
  <2> SUFFICES ASSUME CaptureIInv PROVE CaptureSound
    BY Zenon
  <2>1. CaptureTypeOK
    <3>1. cap.place \in 0 .. Turn
      <4>1. cap \in RxCh
        BY Zenon DEF CaptureIInv, CaptureTypes
      <4> QED
        BY <4>1, Zenon DEF RxCh
    <3> QED
      BY <3>1, Zenon DEF CaptureIInv, CaptureTypes, CaptureTypeOK, Turn
  <2>2. ASSUME ~rewound, cap.active PROVE PulsesIn(samples, rxConf.filter, rxMem, cap)
    <3> DEFINE f == rxConf.filter
               E == EdgesOf(samples, f)
               n == Cardinality(E)
    <3>1. Tracks(samples, rxConf, rxMem, cap)
      BY <2>2, Zenon DEF CaptureIInv
    <3>2. /\ cap.place = n % Turn /\ Ranked(E) /\ Recorded(samples, f, rxMem, n - Turn + 1)
          /\ cap.idle < IdleThres
      BY <3>1, Zenon DEF Tracks
    <3>3. n \in Nat /\ Turn \in Nat /\ IdleThres \in Nat /\ cap \in RxCh
      BY <3>2, NthIs, CaptureBounds, Zenon DEF CaptureIInv, CaptureTypes
    <3>4. ~(cap.idle >= IdleThres) /\ n - Turn + 1 \in Int
      <4> HIDE DEF n
      <4> QED
        BY <3>2, <3>3 DEF RxCh
    <3>5. Latest(samples, f, rxMem, n - Turn + 1)
      BY <3>2, <3>4, LatestPulses, Zenon
    <3> QED
      BY <3>2, <3>4, <3>5, Zenon DEF PulsesIn
  <2>3. RecordsPulses
    BY <2>2, CaptureLinks, Zenon DEF CaptureIInv
  <2>4. EndsForAReason
    BY CaptureLinks, Zenon DEF CaptureIInv, EndsIn
  <2> QED
    BY <2>1, <2>3, <2>4, Zenon DEF CaptureSound
<1> QED
  BY <1>1, CaptureInvariant, PTL

=============================================================================
