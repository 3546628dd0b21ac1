---------------------------- MODULE WindowFrames ----------------------------
(***************************************************************************)
(* Where the frames of XtensaWindow lie, for every register file of at     *)
(* least 8 units, every depth of calls and every set of increments and of  *)
(* registers named: the inductive invariant, the lemmas on units modulo N, *)
(* and the steps that keep the resident frames as they are, up to ENTRY,   *)
(* CALLn and the exceptions.  WindowProofs has the other steps and the     *)
(* theorems.                                                               *)
(*                                                                         *)
(* The invariant says that there is a frame r such that the frames from r  *)
(* on are in the register file and those below r are in their save areas.  *)
(* Frames are placed by where they start counted without wrapping round    *)
(* (the history field at), so that "in the way" is a comparison of numbers *)
(* and only the lemmas on units speak of wrapping.                         *)
(***************************************************************************)
EXTENDS XtensaWindow, SequenceTheorems, TLAPS

-----------------------------------------------------------------------------
(* The inductive invariant                                                 *)

OF == {"of4", "of8", "of12"}
UF == {"uf4", "uf8", "uf12"}

\* Where frame d starts, without wrapping round.
At(d) == frames[d].at

\* The innermost frame that has executed its ENTRY.
Live == IF insn.op = "entry" THEN Nesting - 1 ELSE Nesting

Frame == [inc : 0..3, owned : 0..3, at : Nat]
Words == [frame : 0 .. MaxDepth, unit : 0..3, count : 0..3]

\* Frames lie one after the other, and a caller owns no unit of its callee's.
StackOK ==
  /\ frames \in Seq(Frame) /\ Nesting \in 1 .. MaxDepth /\ frames[1].inc = 0
  /\ \A d \in 1 .. Nesting - 1 :
       /\ frames[d + 1].inc \in 1..3
       /\ At(d + 1) = At(d) + frames[d + 1].inc
       /\ frames[d].owned < frames[d + 1].inc
  /\ \A d, e \in 1 .. Nesting : d < e => At(d + 1) <= At(e)

ControlOK ==
  /\ insn \in [op : {"none", "use", "call", "entry", "retw"}, u : 0..3]
  /\ handler \in OF \union UF \union {"none"}
  /\ callinc \in 0..3 /\ illegal \in BOOLEAN
  /\ windowbase \in Unit /\ owb \in Unit
  /\ insn.op = "use" => insn.u \in Reach
  /\ insn.op = "call" => insn.u \in Inc /\ Nesting < MaxDepth
  /\ insn.op = "entry" =>
       /\ Nesting > 1 /\ insn.u = frames[Nesting].inc /\ callinc = insn.u
       /\ frames[Nesting].owned = 0 /\ handler = "none"
  /\ excm = (handler # "none" \/ illegal)
  /\ illegal => Nesting = 1 /\ handler = "none"
  /\ (IF handler = "none" THEN windowbase ELSE owb) = At(Live) % N

\* The resident frames are those from r to the innermost, and they fit.
ChainOK(r) ==
  /\ r \in 1 .. Live
  /\ windowstart = {At(d) % N : d \in r .. Live}
  /\ At(Nesting) + frames[Nesting].owned < At(r) + N
  /\ handler \in OF =>
       r < Live /\ windowbase = At(r) % N /\ Size(handler) = frames[r + 1].inc
  /\ handler \in UF =>
       /\ r = Live /\ Live > 1 /\ insn.op = "retw"
       /\ windowbase = At(r - 1) % N /\ Size(handler) = frames[r].inc

\* What each frame counts on is in the register file from r on, and in the
\* save area below.
HoldsOK(r) ==
  /\ phys \in [Unit -> Words]
  /\ \A d \in r .. Nesting :
       /\ phys[At(d) % N] = Word(d, 0, frames[d].inc)
       /\ \A u \in 1 .. frames[d].owned : phys[(At(d) + u) % N] = Word(d, u, 0)
  /\ save \in [1 .. MaxDepth -> Seq(Words)]
  /\ \A d \in 1 .. r - 1 :
       /\ Len(save[d]) = frames[d + 1].inc
       /\ save[d][1] = Word(d, 0, frames[d].inc)
       /\ \A u \in 1 .. frames[d].owned : save[d][u + 1] = Word(d, u, 0)
  /\ \A d \in r .. MaxDepth : save[d] = <<>>

\* Word x, found in unit w or saved from it, is dead or one of a frame up
\* to e, at its place, and not above what that frame owns.
Traced(x, w, e) ==
  x.frame # 0 => /\ x.frame \in 1 .. e
                 /\ x.unit <= frames[x.frame].owned
                 /\ (At(x.frame) + x.unit) % N = w

TracesOK(r) ==
  /\ \A w \in Unit : Traced(phys[w], w, Nesting)
  /\ \A d \in 1 .. r - 1 : \A j \in 1 .. Len(save[d]) :
       Traced(save[d][j], (At(d) + (j - 1)) % N, d)

InvAt(r) == StackOK /\ ControlOK /\ ChainOK(r) /\ HoldsOK(r) /\ TracesOK(r)

WindowInv == \E r \in Nat : InvAt(r)

-----------------------------------------------------------------------------
(* Units modulo N                                                          *)

LEMMA ModValue ==
  ASSUME NEW a \in Nat
  PROVE  /\ a % N \in Unit
         /\ \E q \in Nat : a = q * N + (a % N)
<1>1. a = (a \div N) * N + (a % N) /\ a \div N \in Nat /\ a % N \in 0 .. N - 1
  BY WindowAssumption
<1>2. QED BY <1>1 DEF Unit

\* Remainders are determined by the equation.
LEMMA ModIs ==
  ASSUME NEW q \in Nat, NEW m \in Unit
  PROVE  (q * N + m) % N = m
BY WindowAssumption DEF Unit

LEMMA UpMod ==
  ASSUME NEW a \in Nat, NEW k \in 0 .. N
  PROVE  Up(a % N, k) = (a + k) % N
<1> DEFINE m == a % N
<1>1. PICK q \in Nat : a = q * N + m
  BY ModValue, Zenon
<1>2. m \in 0 .. N - 1 /\ N \in Nat /\ N >= 8
  BY ModValue, WindowAssumption, Zenon DEF Unit
<1> HIDE DEF m
<1>3. CASE m + k < N
  <2>1. a + k = q * N + (m + k) /\ m + k = 0 * N + (m + k) /\ m + k \in Unit
    BY <1>1, <1>2, <1>3 DEF Unit
  <2>2. (q * N + (m + k)) % N = m + k /\ (0 * N + (m + k)) % N = m + k
    BY <2>1, ModIs, Zenon
  <2>3. (a + k) % N = m + k /\ (m + k) % N = m + k
    BY <2>1, <2>2, Zenon
  <2>4. QED BY <2>3, Zenon DEF Up, m
<1>4. CASE m + k >= N
  <2>1. /\ a + k = (q + 1) * N + (m + k - N) /\ m + k = 1 * N + (m + k - N)
        /\ m + k - N \in Unit /\ q + 1 \in Nat
    BY <1>1, <1>2, <1>4 DEF Unit
  <2>2. /\ ((q + 1) * N + (m + k - N)) % N = m + k - N
        /\ (1 * N + (m + k - N)) % N = m + k - N
    BY <2>1, ModIs, Zenon
  <2>3. (a + k) % N = m + k - N /\ (m + k) % N = m + k - N
    BY <2>1, <2>2, Zenon
  <2>4. QED BY <2>3, Zenon DEF Up, m
<1>5. QED BY <1>2, <1>3, <1>4

LEMMA DownMod ==
  ASSUME NEW a \in Nat, NEW k \in 0 .. N
  PROVE  Down(a % N, k) = (a + N - k) % N
<1>1. N - k \in 0 .. N /\ N \in Nat
  BY WindowAssumption
<1>2. Up(a % N, N - k) = (a + (N - k)) % N
  BY <1>1, UpMod, Zenon
<1>3. a % N \in Nat
  BY ModValue, <1>1 DEF Unit
<1>4. a + N - k = a + (N - k) /\ (a % N) + N - k = (a % N) + (N - k)
  BY <1>1, <1>3, Zenon
<1>5. QED BY <1>2, <1>4, Zenon DEF Up, Down

\* A turn makes no difference.
LEMMA ModTurn ==
  ASSUME NEW a \in Nat
  PROVE  (a + N) % N = a % N
<1> DEFINE m == a % N
<1>1. PICK q \in Nat : a = q * N + m
  BY ModValue, Zenon
<1>2. m \in Unit /\ N \in Nat
  BY ModValue, WindowAssumption, Zenon
<1> HIDE DEF m
<1>3. a + N = (q + 1) * N + m /\ q + 1 \in Nat
  BY <1>1, <1>2 DEF Unit
<1>4. ((q + 1) * N + m) % N = m
  BY <1>2, <1>3, ModIs, Zenon
<1>5. QED BY <1>3, <1>4, Zenon DEF m

\* Units less than a turn apart are different.
LEMMA ModApart ==
  ASSUME NEW a \in Nat, NEW b \in Nat, a < b, b < a + N
  PROVE  a % N # b % N
<1> SUFFICES ASSUME a % N = b % N PROVE FALSE
  BY Zenon
<1> DEFINE m == a % N
<1>1. PICK p \in Nat : a = p * N + m
  BY ModValue, Zenon
<1>2. PICK q \in Nat : b = q * N + m
  BY ModValue, Zenon
<1>3. m \in Unit /\ N \in Nat /\ N >= 8
  BY ModValue, WindowAssumption, Zenon
<1> HIDE DEF m
<1>4. CASE q <= p
  <2>1. q * N <= p * N
    BY <1>3, <1>4
  <2>2. QED BY <1>1, <1>2, <1>3, <2>1 DEF Unit
<1>5. CASE q >= p + 1
  <2>1. q * N >= p * N + N
    BY <1>3, <1>5
  <2>2. QED BY <1>1, <1>2, <1>3, <2>1 DEF Unit
<1>6. QED BY <1>4, <1>5

\* Every unit is some way above a, and Down gives how far.
LEMMA UnitAbove ==
  ASSUME NEW a \in Nat, NEW w \in Unit
  PROVE  Down(w, a % N) \in 0 .. N - 1 /\ (a + Down(w, a % N)) % N = w
<1> DEFINE m == a % N
           k == Down(w, m)
<1>1. m \in 0 .. N - 1 /\ w \in 0 .. N - 1 /\ N \in Nat /\ N >= 8
  BY ModValue, WindowAssumption, Zenon DEF Unit
<1> HIDE DEF m
<1>2. k = IF m <= w THEN w - m ELSE w + N - m
  <2>1. CASE m <= w
    <3>1. w + N - m = 1 * N + (w - m) /\ w - m \in Unit
      BY <1>1, <2>1 DEF Unit
    <3>2. (1 * N + (w - m)) % N = w - m
      BY <3>1, ModIs, Zenon
    <3>3. QED BY <2>1, <3>1, <3>2, Zenon DEF Down
  <2>2. CASE w < m
    <3>1. w + N - m = 0 * N + (w + N - m) /\ w + N - m \in Unit
      BY <1>1, <2>2 DEF Unit
    <3>2. (0 * N + (w + N - m)) % N = w + N - m
      BY <3>1, ModIs, Zenon
    <3>3. QED BY <1>1, <2>2, <3>1, <3>2 DEF Down
  <2>3. QED BY <1>1, <2>1, <2>2
<1> HIDE DEF k
<1>3. k \in 0 .. N - 1
  BY <1>1, <1>2
<1>4. Up(m, k) = w
  <2>1. CASE m <= w
    <3>1. m + k = 0 * N + w /\ w \in Unit
      BY <1>1, <1>2, <2>1 DEF Unit
    <3>2. (0 * N + w) % N = w
      BY <3>1, ModIs, Zenon
    <3>3. QED BY <3>1, <3>2, Zenon DEF Up
  <2>2. CASE w < m
    <3>1. m + k = 1 * N + w /\ w \in Unit
      BY <1>1, <1>2, <2>2 DEF Unit
    <3>2. (1 * N + w) % N = w
      BY <3>1, ModIs, Zenon
    <3>3. QED BY <3>1, <3>2, Zenon DEF Up
  <2>3. QED BY <1>1, <2>1, <2>2
<1>5. k \in 0 .. N
  BY <1>1, <1>3
<1>6. Up(a % N, k) = (a + k) % N
  BY <1>5, UpMod, Zenon
<1>7. QED BY <1>3, <1>4, <1>6, Zenon DEF m, k

LEMMA AboveBy ==
  ASSUME NEW a \in Nat, NEW k \in 0 .. N - 1
  PROVE  (a + k) % N \in Unit /\ Down((a + k) % N, a % N) = k
<1> DEFINE w == (a + k) % N
           j == Down(w, a % N)
<1>1. N \in Nat /\ a + k \in Nat
  BY WindowAssumption
<1>2. w \in Unit
  BY <1>1, ModValue, Zenon
<1>3. j \in 0 .. N - 1 /\ (a + j) % N = w
  BY <1>2, UnitAbove, Zenon
<1> HIDE DEF j
<1>4. CASE j < k
  <2>1. a + j \in Nat /\ a + j < a + k /\ a + k < a + j + N
    BY <1>1, <1>3, <1>4
  <2>2. QED BY <1>1, <1>3, <2>1, ModApart, Zenon
<1>5. CASE k < j
  <2>1. a + j \in Nat /\ a + k < a + j /\ a + j < a + k + N
    BY <1>1, <1>3, <1>5
  <2>2. QED BY <1>1, <1>3, <2>1, ModApart, Zenon
<1>6. QED BY <1>1, <1>2, <1>3, <1>4, <1>5 DEF j

-----------------------------------------------------------------------------
(* The frames and where they lie                                           *)

LEMMA FrameFacts ==
  ASSUME StackOK, NEW d \in 1 .. Nesting
  PROVE  At(d) \in Nat /\ frames[d].inc \in 0..3 /\ frames[d].owned \in 0..3
<1>1. frames[d] \in Frame
  BY ElementOfSeq, Zenon DEF StackOK, Nesting
<1>2. QED BY <1>1, Zenon DEF Frame, At

LEMMA FrameOrder ==
  ASSUME StackOK, NEW d \in 1 .. Nesting, NEW e \in 1 .. Nesting, d < e
  PROVE  /\ d + 1 \in 1 .. Nesting /\ frames[d + 1].inc \in 1..3
         /\ At(d + 1) = At(d) + frames[d + 1].inc
         /\ At(d) + frames[d].owned < At(d + 1) /\ At(d) < At(d + 1)
         /\ At(d + 1) <= At(e) /\ At(d) < At(e)
         /\ At(d) + frames[d].owned < At(e)
<1>1. Nesting \in Nat /\ d \in 1 .. Nesting - 1 /\ d + 1 \in 1 .. Nesting
  BY DEF StackOK
<1>2. /\ frames[d + 1].inc \in 1..3 /\ At(d + 1) = At(d) + frames[d + 1].inc
      /\ frames[d].owned < frames[d + 1].inc /\ At(d + 1) <= At(e)
  BY <1>1, Zenon DEF StackOK
<1>3. /\ At(d) \in Nat /\ frames[d].owned \in 0..3
      /\ At(d + 1) \in Nat /\ frames[d + 1].inc \in 0..3
      /\ At(e) \in Nat
  BY <1>1, FrameFacts, Zenon
<1>4. QED BY <1>1, <1>2, <1>3

LEMMA LiveFacts ==
  ASSUME StackOK, ControlOK
  PROVE  /\ Nesting \in Nat /\ Live \in 1 .. Nesting
         /\ insn.op = "entry" => Live = Nesting - 1
         /\ insn.op # "entry" => Live = Nesting
BY DEF StackOK, ControlOK, Live

\* The resident frames lie within one turn.
LEMMA ChainFacts ==
  ASSUME StackOK, ControlOK, NEW r, ChainOK(r), NEW d \in r .. Nesting
  PROVE  /\ r \in 1 .. Nesting /\ d \in 1 .. Nesting
         /\ At(r) \in Nat /\ At(d) \in Nat /\ frames[d].owned \in 0..3
         /\ At(r) <= At(d) /\ At(d) <= At(Nesting)
         /\ At(d) + frames[d].owned < At(r) + N
         /\ At(d) < At(r) + N
<1>1. /\ Nesting \in Nat /\ Live \in 1 .. Nesting /\ r \in 1 .. Live
      /\ N \in Nat
  BY LiveFacts, WindowAssumption, Zenon DEF ChainOK
<1>2. r \in 1 .. Nesting /\ d \in 1 .. Nesting /\ Nesting \in 1 .. Nesting
  BY <1>1
<1>3. /\ At(r) \in Nat /\ At(d) \in Nat /\ At(Nesting) \in Nat
      /\ frames[d].owned \in 0..3 /\ frames[Nesting].owned \in 0..3
  BY <1>2, FrameFacts, Zenon
<1>4. At(Nesting) + frames[Nesting].owned < At(r) + N
  BY Zenon DEF ChainOK
<1>5. r = d \/ At(r) < At(d)
  BY <1>1, <1>2, FrameOrder
<1>6. d = Nesting \/ At(d) + frames[d].owned < At(Nesting)
  BY <1>1, <1>2, FrameOrder
<1>7. QED BY <1>1, <1>2, <1>3, <1>4, <1>5, <1>6

LEMMA NextStartIs ==
  ASSUME NEW b, NEW k \in 1 .. N, Up(b, k) \in windowstart,
         \A j \in 1 .. k - 1 : Up(b, j) \notin windowstart
  PROVE  NextStart(b) = k
<1> DEFINE P(i) == Up(b, i) \in windowstart /\ \A j \in 1 .. i - 1 : Up(b, j) \notin windowstart
<1>1. P(k)
  BY Zenon
<1>2. ASSUME NEW i \in 1 .. N, P(i) PROVE i = k
  <2>1. CASE i < k
    <3>1. i \in 1 .. k - 1
      BY <2>1, WindowAssumption
    <3>2. QED BY <1>2, <3>1, Zenon
  <2>2. CASE k < i
    <3>1. k \in 1 .. i - 1
      BY <2>2, WindowAssumption
    <3>2. QED BY <1>2, <3>1, Zenon
  <2>3. QED BY <2>1, <2>2, WindowAssumption
<1>3. QED BY <1>1, <1>2, Zenon DEF NextStart

\* A unit above the innermost entered frame and below the oldest one, a turn
\* on, starts no frame.
LEMMA FreeAbove ==
  ASSUME StackOK, ControlOK, NEW r, ChainOK(r), NEW x \in Nat,
         At(Live) < x, x < At(r) + N
  PROVE  x % N \notin windowstart
<1>1. Live \in 1 .. Nesting /\ r \in 1 .. Live /\ Nesting \in Nat /\ N \in Nat
  BY LiveFacts, WindowAssumption, Zenon DEF ChainOK
<1>2. ASSUME NEW d \in r .. Live PROVE x % N # At(d) % N
  <2>1. d \in r .. Nesting /\ d \in 1 .. Nesting
    BY <1>1
  <2>2. At(d) \in Nat /\ At(r) \in Nat /\ At(r) <= At(d) /\ At(Live) \in Nat
    BY <1>1, <2>1, ChainFacts, FrameFacts, Zenon
  <2>3. d = Live \/ At(d) < At(Live)
    BY <1>1, <2>1, FrameOrder
  <2>4. At(d) < x /\ x < At(d) + N
    BY <1>1, <2>2, <2>3
  <2>5. QED BY <2>2, <2>4, ModApart, Zenon
<1>3. QED BY <1>2, Zenon DEF ChainOK

LEMMA AboveLive ==
  ASSUME StackOK, ControlOK, NEW r, ChainOK(r)
  PROVE  /\ NextStart(At(Live) % N) = At(r) + N - At(Live)
         /\ At(r) + N - At(Live) \in 1 .. N
<1> DEFINE a == At(Live)
           k == At(r) + N - a
<1>1. /\ Live \in 1 .. Nesting /\ r \in 1 .. Live /\ Nesting \in Nat /\ N \in Nat
      /\ Live \in r .. Nesting
  BY LiveFacts, WindowAssumption DEF ChainOK
<1>2. a \in Nat /\ At(r) \in Nat /\ At(r) <= a /\ a < At(r) + N
  BY <1>1, ChainFacts, Zenon
<1>3. At(r) % N \in windowstart
  BY <1>1 DEF ChainOK
<1>4. \A x \in Nat : a < x /\ x < At(r) + N => x % N \notin windowstart
  BY FreeAbove, Zenon
<1> HIDE DEF a
<1>5. k \in 1 .. N
  BY <1>1, <1>2
<1>6. Up(a % N, k) \in windowstart
  <2>1. Up(a % N, k) = (a + k) % N
    BY <1>1, <1>2, <1>5, UpMod
  <2>2. a + k = At(r) + N
    BY <1>1, <1>2
  <2>3. QED BY <1>2, <1>3, <2>1, <2>2, ModTurn, Zenon
<1>7. ASSUME NEW j \in 1 .. k - 1 PROVE Up(a % N, j) \notin windowstart
  <2>1. j \in 0 .. N /\ a + j \in Nat /\ a < a + j /\ a + j < At(r) + N
    BY <1>1, <1>2, <1>5
  <2>2. Up(a % N, j) = (a + j) % N
    BY <1>2, <2>1, UpMod, Zenon
  <2>3. QED BY <1>4, <2>1, <2>2, Zenon
<1> HIDE DEF k
<1>8. NextStart(a % N) = k
  BY <1>5, <1>6, <1>7, NextStartIs, Zenon
<1>9. QED BY <1>5, <1>8, Zenon DEF a, k

LEMMA AboveOldest ==
  ASSUME StackOK, ControlOK, NEW r, ChainOK(r), r < Live
  PROVE  NextStart(At(r) % N) = frames[r + 1].inc
<1> DEFINE k == frames[r + 1].inc
<1>1. /\ Live \in 1 .. Nesting /\ r \in 1 .. Live /\ Nesting \in Nat /\ N \in Nat /\ N >= 8
      /\ r \in 1 .. Nesting /\ r + 1 \in r .. Live /\ r + 1 \in 1 .. Nesting
  BY LiveFacts, WindowAssumption DEF ChainOK
<1>2. k \in 1..3 /\ At(r + 1) = At(r) + k /\ At(r) \in Nat
  BY <1>1, FrameOrder, FrameFacts, Zenon
<1>3. windowstart = {At(d) % N : d \in r .. Live}
  BY Zenon DEF ChainOK
<1> HIDE DEF k
<1>4. k \in 1 .. N /\ k \in 0 .. N
  BY <1>1, <1>2
<1>5. Up(At(r) % N, k) \in windowstart
  <2>1. Up(At(r) % N, k) = At(r + 1) % N
    BY <1>2, <1>4, UpMod, Zenon
  <2>2. QED BY <1>1, <1>3, <2>1, Zenon
<1>6. ASSUME NEW j \in 1 .. k - 1 PROVE Up(At(r) % N, j) \notin windowstart
  <2>1. j \in 0 .. N /\ j \in 1..3 /\ At(r) + j \in Nat
    BY <1>1, <1>2
  <2>2. Up(At(r) % N, j) = (At(r) + j) % N
    BY <1>2, <2>1, UpMod, Zenon
  <2>3. ASSUME NEW d \in r .. Live PROVE (At(r) + j) % N # At(d) % N
    <3>1. d \in r .. Nesting
      BY <1>1
    <3>2. At(d) \in Nat /\ At(d) < At(r) + N
      BY <3>1, ChainFacts, Zenon
    <3>3. CASE d = r
      <4>1. At(r) < At(r) + j /\ At(r) + j < At(r) + N
        BY <1>1, <1>2, <2>1
      <4>2. QED BY <1>2, <2>1, <3>3, <4>1, ModApart, Zenon
    <3>4. CASE d # r
      <4>1. r < d /\ d \in 1 .. Nesting
        BY <1>1, <3>4
      <4>2. At(r + 1) <= At(d)
        BY <1>1, <4>1, FrameOrder, Zenon
      <4>3. At(r) + j < At(d) /\ At(d) < At(r) + j + N
        BY <1>1, <1>2, <2>1, <3>2, <4>2
      <4>4. QED BY <2>1, <3>2, <4>3, ModApart, Zenon
    <3>5. QED BY <3>3, <3>4, Zenon
  <2>4. QED BY <1>3, <2>2, <2>3, Zenon
<1>7. NextStart(At(r) % N) = k
  BY <1>4, <1>5, <1>6, NextStartIs, Zenon
<1>8. QED BY <1>7, Zenon DEF k

\* A unit the overflow check lets through is free.
LEMMA FreeUnits ==
  ASSUME StackOK, ControlOK, NEW r, ChainOK(r), Executing, NEW u \in 1..3, ~Blocked(u)
  PROVE  At(Live) + u < At(r) + N
<1>1. ~excm /\ windowbase = At(Live) % N
  BY Zenon DEF Executing, ControlOK
<1>2. /\ NextStart(windowbase) = At(r) + N - At(Live)
      /\ At(r) + N - At(Live) \in 1 .. N
  BY <1>1, AboveLive, Zenon
<1>3. At(r) \in Nat /\ At(Live) \in Nat /\ N \in Nat
  BY LiveFacts, FrameFacts, WindowAssumption DEF ChainOK
<1>4. u <= (IF At(r) + N - At(Live) > 3 THEN 3 ELSE At(r) + N - At(Live) - 1)
  BY <1>1, <1>2, <1>3 DEF Blocked, Window
<1>5. QED BY <1>3, <1>4

-----------------------------------------------------------------------------
(* Steps that move no register                                             *)

LEMMA WindowInitInv == WindowInit => WindowInv
<1> SUFFICES ASSUME WindowInit PROVE InvAt(1)
  BY Zenon DEF WindowInv
<1> DEFINE f == [inc |-> 0, owned |-> 0, at |-> 0]
<1>1. /\ frames = <<f>> /\ f \in Frame /\ Nesting = 1 /\ frames[1] = f
      /\ N \in Nat /\ N >= 8 /\ MaxDepth \in Nat \ {0}
  BY WindowAssumption DEF WindowInit, Frame, Nesting
<1>2. 0 % N = 0 /\ 0 \in Unit
  BY <1>1 DEF Unit
<1>3. frames[1].inc = 0 /\ frames[1].owned = 0 /\ At(1) = 0 /\ frames \in Seq(Frame)
  BY <1>1 DEF At
<1> HIDE DEF f
<1>4. Live = 1
  BY <1>1, Zenon DEF WindowInit, Live, Idle
<1>5. StackOK
  BY <1>1, <1>3 DEF StackOK
<1>6. ControlOK
  <2>1. insn \in [op : {"none", "use", "call", "entry", "retw"}, u : 0..3] /\ insn.op = "none"
    BY DEF WindowInit, Idle
  <2>2. /\ handler = "none" /\ callinc = 0 /\ illegal = FALSE /\ excm = FALSE
        /\ windowbase = 0 /\ owb = 0
    BY Zenon DEF WindowInit
  <2>3. windowbase \in Unit /\ owb \in Unit /\ windowbase = At(Live) % N
    BY <1>2, <1>3, <1>4, <2>2, Zenon
  <2>4. excm = (handler # "none" \/ illegal)
    BY <2>2, Zenon
  <2>5. (IF handler = "none" THEN windowbase ELSE owb) = At(Live) % N
    BY <2>2, <2>3, Zenon
  <2>6. handler \in OF \union UF \union {"none"} /\ callinc \in 0..3 /\ illegal \in BOOLEAN
    <3>1. illegal \in BOOLEAN
      BY <2>2, Zenon
    <3>2. QED BY <2>2, <3>1
  <2>7. QED BY <2>1, <2>2, <2>3, <2>4, <2>5, <2>6, Zenon DEF ControlOK
<1>7. ChainOK(1)
  <2>1. windowstart = {At(d) % N : d \in 1 .. 1}
    BY <1>2, <1>3 DEF WindowInit
  <2>2. At(1) + frames[1].owned < At(1) + N
    BY <1>1, <1>3
  <2>3. handler \notin OF /\ handler \notin UF
    BY Zenon DEF WindowInit, OF, UF
  <2>4. QED BY <1>1, <1>4, <2>1, <2>2, <2>3 DEF ChainOK
<1>8. phys \in [Unit -> Words] /\ phys[0] = Word(1, 0, 0)
      /\ \A w \in Unit : phys[w] = Dead \/ (w = 0 /\ phys[w] = Word(1, 0, 0))
  <2>1. Word(1, 0, 0) \in Words /\ Dead \in Words
    BY <1>1 DEF Word, Dead, Words
  <2>2. QED BY <1>2, <2>1, Zenon DEF WindowInit
<1>9. save \in [1 .. MaxDepth -> Seq(Words)] /\ \A d \in 1 .. MaxDepth : save[d] = <<>>
  BY DEF WindowInit
<1>10. HoldsOK(1)
  <2>1. \A d \in 1 .. 1 : d = 1
    OBVIOUS
  <2>2. \A u \in 1 .. 0 : FALSE
    OBVIOUS
  <2>3. \A d \in 1 .. 1 - 1 : FALSE
    OBVIOUS
  <2>4. QED BY <1>1, <1>2, <1>3, <1>8, <1>9, <2>1, <2>2, <2>3, Zenon DEF HoldsOK
<1>11. TracesOK(1)
  <2>1. \A d \in 1 .. 1 - 1 : FALSE
    OBVIOUS
  <2>2. Dead.frame = 0 /\ Word(1, 0, 0).frame = 1 /\ Word(1, 0, 0).unit = 0 /\ 0 + 0 = 0
    BY DEF Dead, Word
  <2>3. ASSUME NEW w \in Unit PROVE Traced(phys[w], w, 1)
    <3>1. CASE phys[w] = Dead
      BY <2>2, <3>1, Zenon DEF Traced
    <3>2. CASE w = 0 /\ phys[w] = Word(1, 0, 0)
      <4>1. phys[w].frame = 1 /\ phys[w].unit = 0 /\ (At(1) + 0) % N = 0
        BY <1>2, <1>3, <2>2, <3>2, Zenon
      <4>2. QED BY <1>3, <3>2, <4>1 DEF Traced
    <3>3. QED BY <1>8, <3>1, <3>2, Zenon
  <2>4. QED BY <1>1, <2>1, <2>3, Zenon DEF TracesOK
<1>12. QED BY <1>5, <1>6, <1>7, <1>10, <1>11, Zenon DEF InvAt

\* Steps that leave the frames alone leave their facts alone.
LEMMA StackKept ==
  ASSUME StackOK, UNCHANGED frames
  PROVE  StackOK' /\ UNCHANGED Nesting /\ \A d : At(d)' = At(d)
BY Zenon DEF StackOK, Nesting, At

LEMMA DataKept ==
  ASSUME NEW r, HoldsOK(r), TracesOK(r), UNCHANGED <<phys, save, frames>>
  PROVE  HoldsOK(r)' /\ TracesOK(r)'
<1>1. HoldsOK(r)'
  BY Zenon DEF HoldsOK, At, Nesting
<1>2. TracesOK(r)'
  BY DEF TracesOK, Traced, At, Nesting
<1>3. QED BY <1>1, <1>2, Zenon

LEMMA FetchKept ==
  ASSUME NEW r \in Nat, InvAt(r), Fetch
  PROVE  InvAt(r)'
<1> USE DEF InvAt
<1>1. /\ handler = "none" /\ insn = Idle
      /\ UNCHANGED <<windowbase, windowstart, phys, excm, owb, callinc, handler,
                     illegal, save, frames>>
  BY Zenon DEF Fetch, Executing, cpuVars
<1>2. /\ insn' \in [op : {"none", "use", "call", "entry", "retw"}, u : 0..3]
      /\ insn'.op \in {"use", "call", "retw"}
      /\ insn'.op = "use" => insn'.u \in Reach
      /\ insn'.op = "call" => insn'.u \in Inc /\ Nesting < MaxDepth
  <2>1. \/ insn' \in [op : {"use"}, u : Reach]
        \/ insn' \in [op : {"call"}, u : Inc] /\ Nesting < MaxDepth
        \/ insn' \in [op : {"retw"}, u : {0}]
    BY Zenon DEF Fetch
  <2>2. Inc \subseteq 0..3 /\ Reach \subseteq 0..3
    BY WindowAssumption
  <2>3. CASE insn' \in [op : {"use"}, u : Reach]
    BY <2>2, <2>3, Zenon
  <2>4. CASE insn' \in [op : {"call"}, u : Inc] /\ Nesting < MaxDepth
    BY <2>2, <2>4, Zenon
  <2>5. CASE insn' \in [op : {"retw"}, u : {0}]
    BY <2>5
  <2>6. QED BY <2>1, <2>3, <2>4, <2>5, Zenon
<1>3. insn.op = "none"
  BY <1>1, Zenon DEF Idle
<1>4. StackOK' /\ UNCHANGED Nesting /\ \A d : At(d)' = At(d)
  BY <1>1, StackKept, Zenon
<1>5. Live' = Live
  BY <1>2, <1>3, <1>4, Zenon DEF Live
<1>6. ControlOK'
  BY <1>1, <1>2, <1>4, <1>5, Zenon DEF ControlOK, At
<1>7. ChainOK(r)'
  BY <1>1, <1>4, <1>5, Zenon DEF ChainOK, At, OF, UF
<1>8. QED BY <1>1, <1>4, <1>6, <1>7, DataKept, Zenon

\* The overflow exception rotates to the oldest resident frame, and its
\* vector is the one for what that frame called with.
LEMMA OverflowKept ==
  ASSUME NEW r \in Nat, InvAt(r), Overflow
  PROVE  InvAt(r)'
<1> USE DEF InvAt
<1> DEFINE n == At(r) + N - At(Live)
<1>1. /\ handler = "none" /\ illegal = FALSE /\ excm = FALSE
      /\ insn.op \in {"use", "call", "entry"} /\ Blocked(insn.u)
      /\ UNCHANGED <<windowstart, phys, callinc, insn, illegal, save, frames>>
      /\ owb' = windowbase /\ excm' = TRUE
  BY Zenon DEF Overflow, Executing, ControlOK, WindowOverflow
<1>2. /\ Live \in 1 .. Nesting /\ r \in 1 .. Live /\ Nesting \in 1 .. MaxDepth /\ N \in Nat
      /\ N >= 8 /\ Live \in r .. Nesting /\ Nesting \in r .. Nesting /\ MaxDepth \in Nat
  BY LiveFacts, WindowAssumption DEF ChainOK, StackOK
<1>3. windowbase = At(Live) % N /\ windowbase \in Unit
  BY <1>1, Zenon DEF ControlOK
<1>4. NextStart(windowbase) = n /\ n \in 1 .. N
  BY <1>3, AboveLive, Zenon
<1>5. /\ At(r) \in Nat /\ At(Live) \in Nat /\ At(Nesting) \in Nat
      /\ At(Live) < At(r) + N /\ At(Nesting) < At(r) + N
  BY <1>2, ChainFacts, Zenon
<1>6. insn.u \in 1..3
  <2>1. CASE insn.op = "use" \/ insn.op = "call"
    BY <2>1, WindowAssumption, Zenon DEF ControlOK
  <2>2. CASE insn.op = "entry"
    <3>1. Nesting > 1 /\ insn.u = frames[Nesting].inc
      BY <2>2, Zenon DEF ControlOK
    <3>2. Nesting - 1 \in 1 .. Nesting - 1 /\ (Nesting - 1) + 1 = Nesting
      BY <1>2, <3>1
    <3>3. frames[(Nesting - 1) + 1].inc \in 1..3
      BY <3>2, Zenon DEF StackOK
    <3>4. QED BY <3>1, <3>2, <3>3, Zenon
  <2>3. QED BY <1>1, <2>1, <2>2, Zenon
<1>7. n <= insn.u
  <2>1. insn.u > IF n > 3 THEN 3 ELSE n - 1
    BY <1>1, <1>4, Zenon DEF Blocked, Window
  <2> HIDE DEF n
  <2>2. QED BY <1>2, <1>4, <1>6, <2>1
<1>8. insn.op # "entry"
  <2> SUFFICES ASSUME insn.op = "entry" PROVE FALSE
    BY Zenon
  <2>1. Live = Nesting - 1 /\ Nesting > 1 /\ insn.u = frames[Nesting].inc
    BY LiveFacts, Zenon DEF ControlOK
  <2>2. Live \in 1 .. Nesting - 1 /\ Live + 1 = Nesting
    BY <1>2, <2>1
  <2>3. At(Nesting) = At(Live) + insn.u
    BY <2>1, <2>2, Zenon DEF StackOK
  <2>4. QED BY <1>2, <1>5, <1>6, <1>7, <2>3
<1>9. r < Live
  <2>1. r # Live
    BY <1>2, <1>5, <1>6, <1>7
  <2>2. QED BY <1>2, <2>1
<1>10. windowbase' = At(r) % N
  <2>1. windowbase' = Up(At(Live) % N, n)
    BY <1>3, <1>4, Zenon DEF Overflow, WindowOverflow
  <2>2. n \in 0 .. N /\ At(Live) + n = At(r) + N
    BY <1>2, <1>4, <1>5
  <2>3. Up(At(Live) % N, n) = (At(r) + N) % N
    BY <1>5, <2>2, UpMod
  <2>4. QED BY <1>5, <2>1, <2>3, ModTurn, Zenon
<1>11. handler' \in OF /\ Size(handler') = frames[r + 1].inc
  <2> DEFINE s == NextStart(At(r) % N)
  <2>1. s = frames[r + 1].inc
    BY <1>9, AboveOldest, Zenon
  <2>2. s \in 1..3
    BY <1>2, <1>9, <2>1, FrameOrder
  <2>3. handler' = IF s > 2 THEN "of12" ELSE IF s = 2 THEN "of8" ELSE "of4"
    BY <1>10, Zenon DEF Overflow, WindowOverflow
  <2> HIDE DEF s
  <2>4. (s = 1 /\ handler' = "of4") \/ (s = 2 /\ handler' = "of8") \/ (s = 3 /\ handler' = "of12")
    BY <2>2, <2>3
  <2>5. handler' \in OF /\ Size(handler') = s
    BY <2>4, Zenon DEF Size, OF
  <2>6. QED BY <2>1, <2>5, Zenon
<1>12. StackOK' /\ UNCHANGED Nesting /\ \A d : At(d)' = At(d)
  BY <1>1, StackKept, Zenon
<1>13. Live' = Live
  BY <1>1, <1>12, Zenon DEF Live
<1>14. handler' # "none" /\ handler' \notin UF
  BY <1>11, Zenon DEF OF, UF
<1>15. ControlOK'
  <2>1. excm' = (handler' # "none" \/ illegal')
    BY <1>1, <1>14, Zenon
  <2>2. (IF handler' = "none" THEN windowbase' ELSE owb') = At(Live)' % N
    BY <1>1, <1>3, <1>12, <1>13, <1>14, Zenon DEF At
  <2>3. windowbase' \in Unit /\ owb' \in Unit
    BY <1>1, <1>3, <1>5, <1>10, ModValue, Zenon
  <2>4. handler' \in OF \union UF \union {"none"} /\ illegal' = FALSE
    BY <1>1, <1>11, Zenon
  <2>5. QED BY <1>1, <1>8, <1>12, <2>1, <2>2, <2>3, <2>4, Zenon DEF ControlOK
<1>16. ChainOK(r)'
  BY <1>1, <1>9, <1>10, <1>11, <1>12, <1>13, <1>14, Zenon DEF ChainOK, At
<1>17. QED BY <1>1, <1>12, <1>15, <1>16, DataKept, Zenon

\* ENTRY moves to the frame its CALL prepared.
LEMMA EntryKept ==
  ASSUME NEW r \in Nat, InvAt(r), Entry
  PROVE  InvAt(r)'
<1> USE DEF InvAt
<1>1. /\ handler = "none" /\ illegal = FALSE /\ insn.op = "entry" /\ insn' = Idle
      /\ UNCHANGED <<phys, excm, owb, callinc, handler, illegal, save, frames>>
      /\ windowbase' = Up(windowbase, callinc)
      /\ windowstart' = windowstart \union {Up(windowbase, callinc)}
  BY Zenon DEF Entry, Executing, ControlOK
<1>2. /\ Live = Nesting - 1 /\ Nesting > 1 /\ callinc = frames[Nesting].inc
      /\ windowbase = At(Live) % N /\ insn'.op = "none"
  BY <1>1, LiveFacts, Zenon DEF ControlOK, Idle
<1>3. /\ Live \in 1 .. Nesting - 1 /\ Live + 1 = Nesting /\ Live \in 1 .. Nesting
      /\ Nesting \in 1 .. Nesting /\ Nesting \in Nat /\ N \in Nat /\ N >= 8
      /\ r \in 1 .. Live
  BY <1>2, WindowAssumption DEF StackOK, ChainOK
<1>4. callinc \in 1..3 /\ At(Nesting) = At(Live) + callinc /\ At(Live) \in Nat
  BY <1>2, <1>3, FrameFacts, Zenon DEF StackOK
<1>5. Up(windowbase, callinc) = At(Nesting) % N
  <2>1. callinc \in 0 .. N
    BY <1>3, <1>4
  <2>2. QED BY <1>2, <1>4, <2>1, UpMod, Zenon
<1>6. StackOK' /\ UNCHANGED Nesting /\ \A d : At(d)' = At(d)
  BY <1>1, StackKept, Zenon
<1>7. Live' = Nesting
  BY <1>2, <1>6, Zenon DEF Live
<1>8. ControlOK'
  <2>1. windowbase' \in Unit /\ windowbase' = At(Live)' % N
    <3>1. At(Nesting) \in Nat
      BY <1>3, FrameFacts, Zenon
    <3>2. QED BY <1>1, <1>5, <1>6, <1>7, <3>1, ModValue, Zenon DEF At
  <2>2. insn' \in [op : {"none", "use", "call", "entry", "retw"}, u : 0..3]
    BY <1>1 DEF Idle
  <2>3. excm' = (handler' # "none" \/ illegal')
    BY <1>1, Zenon DEF ControlOK
  <2>4. QED BY <1>1, <1>2, <1>6, <2>1, <2>2, <2>3, Zenon DEF ControlOK
<1>9. ChainOK(r)'
  <2>1. windowstart' = {At(d) % N : d \in r .. Nesting}
    <3>1. windowstart = {At(d) % N : d \in r .. Live}
      BY Zenon DEF ChainOK
    <3>2. \A d : d \in r .. Nesting <=> d \in r .. Live \/ d = Nesting
      BY <1>3
    <3>3. QED BY <1>1, <1>5, <3>1, <3>2, Zenon
  <2>2. r \in 1 .. Nesting
    BY <1>3
  <2>3. handler' \notin OF /\ handler' \notin UF
    BY <1>1, Zenon DEF OF, UF
  <2>4. QED BY <1>1, <1>6, <1>7, <2>1, <2>2, <2>3 DEF ChainOK, At
<1>10. QED BY <1>1, <1>6, <1>8, <1>9, DataKept, Zenon

-----------------------------------------------------------------------------
(* RETW                                                                    *)

\* The units below a frame whose caller is not resident start no frame.
LEMMA FreeBelow ==
  ASSUME StackOK, ControlOK, NEW r, ChainOK(r), r = Live, NEW k \in 1..3
  PROVE  Down(At(Live) % N, k) \notin windowstart
<1>1. Live \in 1 .. Nesting /\ r \in 1 .. Live /\ N \in Nat /\ N >= 8 /\ Nesting \in Nat
  BY LiveFacts, WindowAssumption, Zenon DEF ChainOK
<1>2. At(Live) \in Nat
  BY <1>1, FrameFacts, Zenon
<1>3. windowstart = {At(Live) % N}
  <2>1. windowstart = {At(d) % N : d \in r .. Live}
    BY Zenon DEF ChainOK
  <2>2. \A d : d \in r .. Live <=> d = Live
    BY <1>1
  <2>3. QED BY <2>1, <2>2, Zenon
<1>4. k \in 0 .. N /\ At(Live) + N - k \in Nat /\ At(Live) < At(Live) + N - k
      /\ At(Live) + N - k < At(Live) + N
  BY <1>1, <1>2
<1>5. Down(At(Live) % N, k) = (At(Live) + N - k) % N
  BY <1>2, <1>4, DownMod, Zenon
<1>6. At(Live) % N # (At(Live) + N - k) % N
  BY <1>2, <1>4, ModApart, Zenon
<1>7. QED BY <1>3, <1>5, <1>6, Zenon

\* Down from a frame that was called, to its caller.
LEMMA DownToCaller ==
  ASSUME StackOK, NEW d \in 2 .. Nesting
  PROVE  /\ d - 1 \in 1 .. Nesting /\ frames[d].inc \in 1..3
         /\ At(d) = At(d - 1) + frames[d].inc
         /\ Down(At(d) % N, frames[d].inc) = At(d - 1) % N
<1> DEFINE k == frames[d].inc
           a == At(d - 1)
<1>1. Nesting \in Nat /\ d - 1 \in 1 .. Nesting - 1 /\ d - 1 \in 1 .. Nesting
      /\ (d - 1) + 1 = d /\ N \in Nat /\ N >= 8
  BY WindowAssumption DEF StackOK
<1>2. k \in 1..3 /\ At(d) = a + k /\ a \in Nat
  <2>1. frames[(d - 1) + 1].inc \in 1..3 /\ At((d - 1) + 1) = At(d - 1) + frames[(d - 1) + 1].inc
    BY <1>1, Zenon DEF StackOK
  <2>2. QED BY <1>1, <2>1, FrameFacts, Zenon
<1> HIDE DEF k, a
<1>3. k \in 0 .. N /\ a + k \in Nat /\ (a + k) + N - k = a + N
  BY <1>1, <1>2
<1>4. Down((a + k) % N, k) = ((a + k) + N - k) % N
  BY <1>3, DownMod, Zenon
<1>5. (a + N) % N = a % N
  BY <1>2, ModTurn, Zenon
<1>6. QED BY <1>1, <1>2, <1>3, <1>4, <1>5, Zenon DEF k, a

\* The nearest frame start below a frame whose caller is resident is the
\* caller's; there is none within reach when the caller is not resident.
LEMMA NearestIs ==
  ASSUME StackOK, ControlOK, NEW r, ChainOK(r), windowbase = At(Live) % N
  PROVE  NearestBelow = IF r < Live THEN frames[Live].inc ELSE 0
<1>1. /\ Live \in 1 .. Nesting /\ r \in 1 .. Live /\ N \in Nat /\ N >= 8 /\ Nesting \in Nat
  BY LiveFacts, WindowAssumption, Zenon DEF ChainOK
<1>2. CASE r = Live
  <2>1. \A k \in 1..3 : Down(windowbase, k) \notin windowstart
    BY <1>2, FreeBelow, Zenon
  <2>2. ~(r < Live)
    BY <1>1, <1>2
  <2>3. QED BY <2>1, <2>2, Zenon DEF NearestBelow
<1>3. CASE r < Live
  <2> DEFINE c == frames[Live].inc
             P(k) == Down(windowbase, k) \in windowstart
                     /\ \A j \in 1 .. k - 1 : Down(windowbase, j) \notin windowstart
  <2>1. Live \in 2 .. Nesting /\ Live - 1 \in r .. Live
    BY <1>1, <1>3
  <2>2. /\ Live - 1 \in 1 .. Nesting /\ c \in 1..3 /\ At(Live) = At(Live - 1) + c
        /\ Down(windowbase, c) = At(Live - 1) % N
    BY <2>1, DownToCaller, Zenon
  <2>3. windowstart = {At(d) % N : d \in r .. Live}
    BY Zenon DEF ChainOK
  <2>4. Down(windowbase, c) \in windowstart
    BY <2>1, <2>2, <2>3, Zenon
  <2>5. ASSUME NEW j \in 1 .. c - 1 PROVE Down(windowbase, j) \notin windowstart
    <3>1. /\ At(Live) \in Nat /\ At(Live - 1) \in Nat /\ At(r) \in Nat
          /\ At(Live) < At(r) + N
      <4>1. Live \in r .. Nesting
        BY <1>1
      <4>2. QED BY <1>1, <2>2, <4>1, FrameFacts, ChainFacts, Zenon
    <3> DEFINE x == At(Live) - j
    <3>2. j \in 1..3 /\ j \in 0 .. N /\ x \in Nat /\ At(Live - 1) < x /\ x < At(Live)
          /\ At(Live) + N - j = x + N
      BY <1>1, <2>2, <3>1
    <3>3. Down(windowbase, j) = x % N
      <4>1. Down(At(Live) % N, j) = (At(Live) + N - j) % N
        BY <3>1, <3>2, DownMod, Zenon
      <4>2. QED BY <3>2, <4>1, ModTurn, Zenon
    <3> HIDE DEF x
    <3>4. ASSUME NEW d \in r .. Live PROVE x % N # At(d) % N
      <4>1. d \in r .. Nesting /\ d \in 1 .. Nesting
        BY <1>1
      <4>2. At(d) \in Nat /\ At(r) <= At(d)
        BY <4>1, ChainFacts, Zenon
      <4>3. CASE d = Live
        <5>1. At(d) < x + N
          BY <1>1, <2>2, <3>1, <3>2, <4>2, <4>3
        <5>2. QED BY <3>2, <4>2, <4>3, <5>1, ModApart, Zenon
      <4>4. CASE d # Live
        <5>1. d = Live - 1 \/ d < Live - 1
          BY <1>1, <4>1, <4>4
        <5>2. At(d) <= At(Live - 1)
          BY <2>2, <3>1, <4>1, <4>2, <5>1, FrameOrder
        <5>3. At(d) < x /\ x < At(d) + N
          BY <1>1, <3>1, <3>2, <4>2, <5>2
        <5>4. QED BY <3>2, <4>2, <5>3, ModApart, Zenon
      <4>5. QED BY <4>3, <4>4, Zenon
    <3>5. QED BY <2>3, <3>3, <3>4, Zenon
  <2>6. ASSUME NEW k \in 1..3, P(k) PROVE k = c
    <3>1. CASE k < c
      <4>1. k \in 1 .. c - 1
        BY <2>2, <3>1
      <4>2. QED BY <2>5, <2>6, <4>1, Zenon
    <3>2. CASE c < k
      <4>1. c \in 1 .. k - 1
        BY <2>2, <3>2
      <4>2. QED BY <2>4, <2>6, <4>1, Zenon
    <3>3. QED BY <2>2, <3>1, <3>2
  <2>7. P(c)
    BY <2>4, <2>5, Zenon
  <2> HIDE DEF c
  <2>8. NearestBelow = c
    BY <2>2, <2>4, <2>6, <2>7, Zenon DEF NearestBelow
  <2>9. QED BY <1>3, <2>8, Zenon DEF c
<1>4. QED BY <1>1, <1>2, <1>3

\* RETW finds its own count in a0, and is legal in every frame that was called.
LEMMA RetwFacts ==
  ASSUME NEW r \in Nat, InvAt(r), Executing, insn.op = "retw"
  PROVE  /\ Live = Nesting /\ windowbase = At(Nesting) % N
         /\ RetCount = frames[Nesting].inc
         /\ RetwLegal <=> Nesting > 1
<1> USE DEF InvAt
<1>1. Live = Nesting /\ windowbase = At(Nesting) % N /\ Nesting \in Nat \ {0}
  BY LiveFacts DEF Executing, ControlOK, StackOK
<1>2. r \in 1 .. Nesting /\ Nesting \in r .. Nesting
  BY <1>1 DEF ChainOK
<1>3. RetCount = frames[Nesting].inc
  <2>1. phys[At(Nesting) % N] = Word(Nesting, 0, frames[Nesting].inc)
    BY <1>2, Zenon DEF HoldsOK
  <2>2. QED BY <1>1, <2>1 DEF RetCount, Word
<1>4. NearestBelow = IF r < Nesting THEN frames[Nesting].inc ELSE 0
  BY <1>1, NearestIs, Zenon
<1>5. Nesting = 1 => frames[Nesting].inc = 0
  BY Zenon DEF StackOK
<1>6. Nesting > 1 => frames[Nesting].inc \in 1..3
  <2> SUFFICES ASSUME Nesting > 1 PROVE frames[Nesting].inc \in 1..3
    BY Zenon
  <2>1. Nesting \in 2 .. Nesting
    BY <1>1
  <2>2. QED BY <2>1, DownToCaller, Zenon
<1>7. RetwLegal <=> Nesting > 1
  BY <1>1, <1>3, <1>4, <1>5, <1>6 DEF RetwLegal
<1>8. QED BY <1>1, <1>3, <1>7, Zenon

LEMMA RetwIllegalKept ==
  ASSUME NEW r \in Nat, InvAt(r), RetwIllegal
  PROVE  InvAt(r)'
<1> USE DEF InvAt
<1>1. /\ Executing /\ insn.op = "retw" /\ ~RetwLegal /\ illegal' = TRUE /\ excm' = TRUE
      /\ UNCHANGED <<windowbase, windowstart, phys, owb, callinc, insn, handler, save, frames>>
  BY Zenon DEF RetwIllegal
<1>2. Nesting = 1 /\ handler = "none"
  <2>1. ~(Nesting > 1)
    BY <1>1, RetwFacts, Zenon
  <2>2. Nesting \in Nat \ {0}
    BY DEF StackOK
  <2>3. QED BY <1>1, <2>1, <2>2 DEF Executing
<1>3. StackOK' /\ UNCHANGED Nesting /\ \A d : At(d)' = At(d)
  BY <1>1, StackKept, Zenon
<1>4. Live' = Live
  BY <1>1, <1>3, Zenon DEF Live
<1>5. ControlOK'
  <2>1. excm' = (handler' # "none" \/ illegal') /\ illegal' \in BOOLEAN
    BY <1>1, Zenon
  <2>2. QED BY <1>1, <1>2, <1>3, <1>4, <2>1, Zenon DEF ControlOK, At
<1>6. ChainOK(r)'
  BY <1>1, <1>3, <1>4, Zenon DEF ChainOK, At
<1>7. QED BY <1>1, <1>3, <1>5, <1>6, DataKept, Zenon

\* The underflow exception rotates to where the caller lies.
LEMMA RetwUnderflowKept ==
  ASSUME NEW r \in Nat, InvAt(r), RetwUnderflow
  PROVE  InvAt(r)'
<1> USE DEF InvAt
<1> DEFINE c == frames[Nesting].inc
<1>1. /\ Executing /\ insn.op = "retw" /\ RetwLegal /\ WindowUnderflow(RetCount)
      /\ Down(windowbase, RetCount) \notin windowstart
  BY Zenon DEF RetwUnderflow
<1>2. /\ Live = Nesting /\ windowbase = At(Nesting) % N /\ RetCount = c /\ Nesting > 1
  BY <1>1, RetwFacts, Zenon
<1>3. /\ windowbase' = Down(windowbase, c) /\ owb' = windowbase /\ excm' = TRUE
      /\ handler' = IF c > 2 THEN "uf12" ELSE IF c = 2 THEN "uf8" ELSE "uf4"
      /\ UNCHANGED <<windowstart, phys, callinc, insn, illegal, save, frames>>
  BY <1>1, <1>2, Zenon DEF WindowUnderflow
<1>4. Nesting \in Nat /\ Nesting \in 2 .. Nesting /\ r \in 1 .. Nesting
  BY <1>2 DEF StackOK, ChainOK
<1>5. /\ Nesting - 1 \in 1 .. Nesting /\ c \in 1..3
      /\ Down(windowbase, c) = At(Nesting - 1) % N
  BY <1>2, <1>4, DownToCaller, Zenon
<1>6. r = Nesting
  <2> SUFFICES ASSUME r # Nesting PROVE FALSE
    BY Zenon
  <2>1. Nesting - 1 \in r .. Live
    BY <1>2, <1>4
  <2>2. At(Nesting - 1) % N \in windowstart
    BY <2>1, Zenon DEF ChainOK
  <2>3. QED BY <1>1, <1>2, <1>5, <2>2, Zenon
<1> HIDE DEF c
<1>7. handler' \in UF /\ Size(handler') = c /\ handler' # "none" /\ handler' \notin OF
  <2>1. (c = 1 /\ handler' = "uf4") \/ (c = 2 /\ handler' = "uf8") \/ (c = 3 /\ handler' = "uf12")
    BY <1>3, <1>5
  <2>2. QED BY <2>1, Zenon DEF Size, UF, OF
<1>8. StackOK' /\ UNCHANGED Nesting /\ \A d : At(d)' = At(d)
  BY <1>3, StackKept, Zenon
<1>9. Live' = Live
  BY <1>3, <1>8, Zenon DEF Live
<1>10. ControlOK'
  <2>1. illegal' = FALSE
    BY <1>1, <1>3, Zenon DEF Executing, ControlOK
  <2>2. excm' = (handler' # "none" \/ illegal')
    BY <1>3, <1>7, Zenon
  <2>3. windowbase' \in Unit /\ owb' \in Unit
    <3>1. At(Nesting - 1) \in Nat
      BY <1>5, FrameFacts, Zenon
    <3>2. QED BY <1>3, <1>5, <3>1, ModValue, Zenon DEF ControlOK
  <2>4. (IF handler' = "none" THEN windowbase' ELSE owb') = At(Live)' % N
    BY <1>2, <1>3, <1>7, <1>8, <1>9, Zenon DEF At
  <2>5. handler' \in OF \union UF \union {"none"} /\ illegal' \in BOOLEAN
    BY <1>7, <2>1, Zenon
  <2>6. QED BY <1>1, <1>3, <1>8, <2>1, <2>2, <2>3, <2>4, <2>5, Zenon DEF ControlOK
<1>11. ChainOK(r)'
  BY <1>1, <1>2, <1>3, <1>5, <1>6, <1>7, <1>8, <1>9 DEF ChainOK, At, c
<1>12. QED BY <1>3, <1>8, <1>10, <1>11, DataKept, Zenon

-----------------------------------------------------------------------------
(* Steps that move registers                                               *)

\* A unit from x on, x no higher than b, is not among the u units above b
\* while those stay short of x, a turn on.
LEMMA Outside ==
  ASSUME NEW b \in Nat, NEW u \in 0 .. N - 1, NEW x \in Nat, x <= b, b + u < x + N
  PROVE  x % N \in Unit /\ Down(x % N, b % N) \notin 1 .. u
<1> DEFINE k == Down(x % N, b % N)
<1>1. x % N \in Unit /\ N \in Nat
  BY ModValue, WindowAssumption, Zenon
<1>2. (b + k) % N = x % N
  BY <1>1, UnitAbove, Zenon
<1> HIDE DEF k
<1>3. ASSUME k \in 1 .. u PROVE FALSE
  <2>1. b + k \in Nat /\ x < b + k /\ b + k < x + N
    BY <1>1, <1>3
  <2>2. QED BY <1>2, <2>1, ModApart, Zenon
<1>4. QED BY <1>1, <1>3, Zenon DEF k

\* The same frames, with another number of owned units in the innermost.
Reown(o) == [frames EXCEPT ![Nesting].owned = o]

LEMMA Reowned ==
  ASSUME StackOK, NEW o \in 0..3, NEW g, g = Reown(o)
  PROVE  /\ g \in Seq(Frame) /\ Len(g) = Nesting
         /\ \A d \in 1 .. Nesting : g[d].inc = frames[d].inc /\ g[d].at = At(d)
         /\ \A d \in 1 .. Nesting : d # Nesting => g[d] = frames[d]
         /\ g[Nesting].owned = o
<1>1. frames \in Seq(Frame) /\ Nesting \in Nat \ {0} /\ Nesting \in 1 .. Nesting
  BY DEF StackOK
<1>2. DOMAIN frames = 1 .. Nesting
  BY <1>1, LenProperties, Zenon DEF Nesting
<1>3. frames[Nesting] \in Frame
  BY <1>1, ElementOfSeq, Zenon DEF Nesting
<1>4. g = [frames EXCEPT ![Nesting] = [frames[Nesting] EXCEPT !.owned = o]]
  BY Zenon DEF Reown
<1> DEFINE h == [frames[Nesting] EXCEPT !.owned = o]
<1>5. h \in Frame /\ h.inc = frames[Nesting].inc /\ h.at = At(Nesting) /\ h.owned = o
  BY <1>3, Zenon DEF Frame, At
<1> HIDE DEF h
<1>6. g \in Seq(Frame) /\ Len(g) = Nesting /\ g[Nesting] = h
      /\ \A d \in 1 .. Nesting : d # Nesting => g[d] = frames[d]
  <2>1. g = [frames EXCEPT ![Nesting] = h]
    BY <1>4, Zenon DEF h
  <2>2. g \in Seq(Frame) /\ Len(g) = Len(frames)
    BY <1>1, <1>2, <1>5, <2>1, ExceptSeq DEF Nesting
  <2>3. QED BY <1>1, <1>2, <2>1, <2>2, Zenon DEF Nesting
<1>7. QED BY <1>1, <1>5, <1>6 DEF At

\* An instruction writes its own frame's registers and no other's.
LEMMA UseKept ==
  ASSUME NEW r \in Nat, InvAt(r), UseRegisters
  PROVE  InvAt(r)'
<1> USE DEF InvAt
<1> DEFINE T == Nesting
           u == insn.u
           b == At(T)
           o == IF u > frames[T].owned THEN u ELSE frames[T].owned
<1>1. /\ Executing /\ insn.op = "use" /\ ~Blocked(u) /\ insn' = Idle
      /\ phys' = [w \in Unit |-> IF Down(w, windowbase) \in 1 .. u
                                 THEN Word(T, Down(w, windowbase), 0) ELSE phys[w]]
      /\ frames' = [frames EXCEPT ![T].owned = o]
      /\ UNCHANGED <<windowbase, windowstart, excm, owb, callinc, handler, illegal, save>>
  BY Zenon DEF UseRegisters
<1>2. /\ Live = T /\ windowbase = b % N /\ T \in Nat \ {0} /\ T \in 1 .. T /\ r \in 1 .. T
      /\ N \in Nat /\ N >= 8 /\ T \in 1 .. MaxDepth /\ MaxDepth \in Nat /\ handler = "none"
  BY <1>1, LiveFacts, WindowAssumption DEF Executing, ControlOK, StackOK, ChainOK
<1>3. u \in 1..3
  BY <1>1, WindowAssumption, Zenon DEF ControlOK
<1>4. b + u < At(r) + N
  BY <1>1, <1>2, <1>3, FreeUnits, Zenon
<1>5. b \in Nat /\ At(r) \in Nat /\ frames[T].owned \in 0..3
  BY <1>2, FrameFacts, Zenon
<1>6. o \in 0..3 /\ o >= u /\ o >= frames[T].owned /\ b + o < At(r) + N
  <2>1. b + frames[T].owned < At(r) + N
    BY Zenon DEF ChainOK
  <2> HIDE DEF b
  <2>2. QED BY <1>2, <1>3, <1>4, <1>5, <2>1
<1>7. /\ frames' \in Seq(Frame) /\ Nesting' = T
      /\ \A d \in 1 .. T : frames'[d].inc = frames[d].inc /\ frames'[d].at = At(d)
      /\ \A d \in 1 .. T : d # T => frames'[d] = frames[d]
      /\ frames'[T].owned = o
  <2> HIDE DEF o
  <2>1. /\ frames' \in Seq(Frame) /\ Len(frames') = T
        /\ \A d \in 1 .. T : frames'[d].inc = frames[d].inc /\ frames'[d].at = At(d)
        /\ \A d \in 1 .. T : d # T => frames'[d] = frames[d]
        /\ frames'[T].owned = o
    <3>1. frames' = Reown(o)
      BY <1>1, Zenon DEF Reown
    <3>2. QED BY <1>6, <3>1, Reowned
  <2>2. QED BY <2>1, Zenon DEF Nesting
<1> HIDE DEF u, b, o
<1>8. \A d \in 1 .. T : At(d)' = At(d)
  BY <1>7, Zenon DEF At
<1>9. Live' = T
  BY <1>1, <1>7, Zenon DEF Live, Idle
<1>10. StackOK'
  <2>1. ASSUME NEW d \in 1 .. T - 1
        PROVE  /\ frames'[d + 1].inc \in 1..3
               /\ frames'[d + 1].at = frames'[d].at + frames'[d + 1].inc
               /\ frames'[d].owned < frames'[d + 1].inc
    <3>1. d \in 1 .. T /\ d + 1 \in 1 .. T /\ d # T
      BY <1>2
    <3>2. /\ frames[d + 1].inc \in 1..3 /\ At(d + 1) = At(d) + frames[d + 1].inc
          /\ frames[d].owned < frames[d + 1].inc
      BY Zenon DEF StackOK
    <3>3. QED BY <1>7, <3>1, <3>2, Zenon
  <2>2. ASSUME NEW d \in 1 .. T, NEW e \in 1 .. T, d < e PROVE At(d + 1)' <= At(e)'
    <3>1. d + 1 \in 1 .. T
      BY <1>2, <2>2
    <3>2. QED BY <1>8, <2>2, <3>1, Zenon DEF StackOK
  <2>3. QED BY <1>2, <1>7, <2>1, <2>2 DEF StackOK, At
<1>11. ControlOK'
  <2>1. insn' \in [op : {"none", "use", "call", "entry", "retw"}, u : 0..3] /\ insn'.op = "none"
    BY <1>1 DEF Idle
  <2>2. (IF handler' = "none" THEN windowbase' ELSE owb') = At(Live)' % N
    BY <1>1, <1>2, <1>7, <1>9, Zenon DEF At, b
  <2>3. QED BY <1>1, <1>7, <2>1, <2>2, Zenon DEF ControlOK
<1>12. ChainOK(r)'
  <2>1. handler \notin OF /\ handler \notin UF
    BY <1>2, Zenon DEF OF, UF
  <2>2. windowstart' = {At(d)' % N : d \in r .. T}
    <3>1. windowstart = {At(d) % N : d \in r .. T}
      BY <1>2, Zenon DEF ChainOK
    <3>2. \A d \in r .. T : At(d)' = At(d)
      BY <1>2, <1>8
    <3>3. QED BY <1>1, <3>1, <3>2, Zenon
  <2>3. At(T)' + frames'[T].owned < At(r)' + N
    BY <1>2, <1>6, <1>7, <1>8, Zenon DEF b
  <2>4. QED BY <1>1, <1>2, <1>7, <1>9, <2>1, <2>2, <2>3, Zenon DEF ChainOK, At
<1>13. phys' \in [Unit -> Words]
  <2>1. \A k \in 1 .. u : Word(T, k, 0) \in Words
    BY <1>2, <1>3 DEF Word, Words
  <2>2. phys \in [Unit -> Words]
    BY Zenon DEF HoldsOK
  <2>3. QED BY <1>1, <2>1, <2>2, Zenon
<1>14. ASSUME NEW x \in Nat, x <= b, At(r) <= x PROVE phys'[x % N] = phys[x % N]
  <2>1. b + u < x + N /\ u \in 0 .. N - 1
    BY <1>2, <1>3, <1>4, <1>5, <1>14
  <2>2. x % N \in Unit /\ Down(x % N, b % N) \notin 1 .. u
    BY <1>5, <1>14, <2>1, Outside, Zenon
  <2>3. QED BY <1>1, <1>2, <2>2, Zenon
<1>15. ASSUME NEW j \in 1..3
       PROVE  phys'[(b + j) % N] = IF j <= u THEN Word(T, j, 0) ELSE phys[(b + j) % N]
  <2>1. j \in 0 .. N - 1
    BY <1>2
  <2>2. (b + j) % N \in Unit /\ Down((b + j) % N, b % N) = j
    BY <1>5, <2>1, AboveBy, Zenon
  <2>3. j \in 1 .. u <=> j <= u
    BY <1>3
  <2>4. QED BY <1>1, <1>2, <2>2, <2>3, Zenon
<1>16. HoldsOK(r)'
  <2>1. ASSUME NEW d \in r .. T
        PROVE  /\ phys'[At(d) % N] = Word(d, 0, frames[d].inc)
               /\ \A j \in 1 .. frames'[d].owned : phys'[(At(d) + j) % N] = Word(d, j, 0)
    <3>1. /\ d \in 1 .. T /\ At(d) \in Nat /\ At(r) <= At(d) /\ At(d) <= b
          /\ frames[d].owned \in 0..3
      BY ChainFacts, Zenon DEF b
    <3>2. /\ phys[At(d) % N] = Word(d, 0, frames[d].inc)
          /\ \A j \in 1 .. frames[d].owned : phys[(At(d) + j) % N] = Word(d, j, 0)
      BY Zenon DEF HoldsOK
    <3>3. phys'[At(d) % N] = phys[At(d) % N]
      BY <1>14, <3>1, Zenon
    <3>4. ASSUME NEW j \in 1 .. frames'[d].owned PROVE phys'[(At(d) + j) % N] = Word(d, j, 0)
      <4>1. CASE d = T
        <5>1. j \in 1 .. o /\ j \in 1..3
          BY <1>6, <1>7, <4>1
        <5>2. j <= u \/ j \in 1 .. frames[T].owned
          BY <1>5, <5>1 DEF o
        <5>3. QED BY <1>15, <3>2, <4>1, <5>1, <5>2, Zenon DEF b
      <4>2. CASE d # T
        <5>1. frames'[d].owned = frames[d].owned /\ d < T
          BY <1>2, <1>7, <3>1, <4>2
        <5>2. At(d) + frames[d].owned < b
          BY <1>2, <3>1, <5>1, FrameOrder, Zenon DEF b
        <5>3. j \in 1 .. frames[d].owned /\ At(d) + j \in Nat /\ At(d) + j <= b
              /\ At(r) <= At(d) + j
          BY <1>5, <3>1, <5>1, <5>2
        <5>4. phys'[(At(d) + j) % N] = phys[(At(d) + j) % N]
          BY <1>14, <5>3, Zenon
        <5>5. QED BY <3>2, <5>3, <5>4, Zenon
      <4>3. QED BY <4>1, <4>2, Zenon
    <3>5. QED BY <3>2, <3>3, <3>4, Zenon
  <2>2. \A d \in r .. T : d \in 1 .. T
    BY <1>2
  <2>3. ASSUME NEW d \in 1 .. r - 1
        PROVE  d \in 1 .. T /\ d + 1 \in 1 .. T /\ frames'[d] = frames[d]
               /\ frames'[d + 1].inc = frames[d + 1].inc
    <3>1. d \in 1 .. T /\ d + 1 \in 1 .. T /\ d # T
      BY <1>2
    <3>2. QED BY <1>7, <3>1, Zenon
  <2>4. \A d \in r .. T : /\ phys'[At(d)' % N] = Word(d, 0, frames'[d].inc)
                          /\ \A j \in 1 .. frames'[d].owned :
                               phys'[(At(d)' + j) % N] = Word(d, j, 0)
    BY <1>7, <1>8, <2>1, <2>2
  <2>5. /\ save' \in [1 .. MaxDepth -> Seq(Words)]
        /\ \A d \in 1 .. r - 1 :
             /\ Len(save'[d]) = frames'[d + 1].inc
             /\ save'[d][1] = Word(d, 0, frames'[d].inc)
             /\ \A j \in 1 .. frames'[d].owned : save'[d][j + 1] = Word(d, j, 0)
        /\ \A d \in r .. MaxDepth : save'[d] = <<>>
    BY <1>1, <2>3 DEF HoldsOK
  <2>6. QED BY <1>7, <1>13, <2>4, <2>5, Zenon DEF HoldsOK, At
<1>17. TracesOK(r)'
  <2>1. ASSUME NEW w \in Unit, phys'[w].frame # 0
        PROVE  /\ phys'[w].frame \in 1 .. T
               /\ phys'[w].unit <= frames'[phys'[w].frame].owned
               /\ (frames'[phys'[w].frame].at + phys'[w].unit) % N = w
    <3> DEFINE k == Down(w, b % N)
    <3>1. CASE k \in 1 .. u
      <4>1. phys'[w] = Word(T, k, 0)
        BY <1>1, <1>2, <3>1, Zenon
      <4>2. (b + k) % N = w
        BY <1>5, UnitAbove, Zenon
      <4> HIDE DEF k
      <4>3. phys'[w].frame = T /\ phys'[w].unit = k
        BY <4>1 DEF Word
      <4>4. k <= o
        BY <1>3, <1>6, <3>1
      <4>5. QED BY <1>2, <1>7, <1>8, <4>2, <4>3, <4>4, Zenon DEF b
    <3>2. CASE k \notin 1 .. u
      <4> DEFINE f == phys[w].frame
      <4>1. phys'[w] = phys[w]
        BY <1>1, <1>2, <3>2, Zenon
      <4>2. f \in 1 .. T /\ phys[w].unit <= frames[f].owned /\ (At(f) + phys[w].unit) % N = w
        BY <2>1, <4>1, Zenon DEF TracesOK, Traced
      <4>3. phys[w].unit \in 0..3
        BY Zenon DEF HoldsOK, Words
      <4> HIDE DEF f
      <4>4. phys[w].unit <= frames'[f].owned
        <5>1. CASE f = T
          BY <1>5, <1>6, <1>7, <4>2, <4>3, <5>1, SMTT(60)
        <5>2. CASE f # T
          BY <1>7, <4>2, <5>2, Zenon
        <5>3. QED BY <5>1, <5>2, Zenon
      <4>5. QED BY <1>7, <4>1, <4>2, <4>4, Zenon DEF f
    <3>3. QED BY <3>1, <3>2, Zenon
  <2>2. ASSUME NEW d \in 1 .. r - 1, NEW j \in 1 .. Len(save[d]), save[d][j].frame # 0
        PROVE  /\ save[d][j].frame \in 1 .. d
               /\ save[d][j].unit <= frames'[save[d][j].frame].owned
               /\ (frames'[save[d][j].frame].at + save[d][j].unit) % N = (frames'[d].at + (j - 1)) % N
    <3> DEFINE f == save[d][j].frame
    <3>1. f \in 1 .. d /\ save[d][j].unit <= frames[f].owned
          /\ (At(f) + save[d][j].unit) % N = (At(d) + (j - 1)) % N
      BY <2>2, Zenon DEF TracesOK, Traced
    <3> HIDE DEF f
    <3>2. f \in 1 .. T /\ f # T /\ d \in 1 .. T
      BY <1>2, <3>1, SMTT(60)
    <3>3. QED BY <1>7, <1>8, <3>1, <3>2, Zenon DEF f
  <2>3. \A w \in Unit : phys'[w].frame # 0 =>
             /\ phys'[w].frame \in 1 .. Nesting'
             /\ phys'[w].unit <= frames'[phys'[w].frame].owned
             /\ (frames'[phys'[w].frame].at + phys'[w].unit) % N = w
    BY <1>7, <2>1, Zenon
  <2>4. \A w \in Unit : Traced(phys[w], w, Nesting)'
    BY <2>3, Zenon DEF Traced, At
  <2>5. ASSUME NEW d \in 1 .. r - 1, NEW j \in 1 .. Len(save'[d])
        PROVE  Traced(save[d][j], (At(d) + (j - 1)) % N, d)'
    <3>1. save' = save
      BY <1>1, Zenon
    <3>2. QED BY <2>2, <3>1, Zenon DEF Traced, At
  <2>6. QED BY <2>4, <2>5, Zenon DEF TracesOK
<1>18. QED BY <1>10, <1>11, <1>12, <1>16, <1>17, Zenon

\* CALLn writes the callee's a0 above the caller's last own unit.
LEMMA CallKept ==
  ASSUME NEW r \in Nat, InvAt(r), CallN
  PROVE  InvAt(r)'
<1> USE DEF InvAt
<1> DEFINE T == Nesting
           u == insn.u
           b == At(T)
           o == IF frames[T].owned < u THEN frames[T].owned ELSE u - 1
           new == [inc |-> u, owned |-> 0, at |-> b + u]
           c == (b + u) % N
<1>1. /\ Executing /\ insn.op = "call" /\ ~Blocked(u) /\ insn' = [op |-> "entry", u |-> u]
      /\ phys' = [Discard(phys, T, u) EXCEPT ![Up(windowbase, u)] = Word(T + 1, 0, u)]
      /\ callinc' = u
      /\ frames' = Append(Reown(o), new)
      /\ UNCHANGED <<windowbase, windowstart, excm, owb, handler, illegal, save>>
  BY Zenon DEF CallN, Reown, At
<1>2. /\ Live = T /\ windowbase = b % N /\ T \in Nat \ {0} /\ T \in 1 .. T /\ r \in 1 .. T
      /\ N \in Nat /\ N >= 8 /\ T \in 1 .. MaxDepth /\ MaxDepth \in Nat /\ handler = "none"
      /\ T < MaxDepth
  BY <1>1, LiveFacts, WindowAssumption, SMTT(60) DEF Executing, ControlOK, StackOK, ChainOK
<1>3. u \in 1..3 /\ u \in 0 .. N
  BY <1>1, <1>2, WindowAssumption, SMTT(60) DEF ControlOK
<1>4. b + u < At(r) + N
  BY <1>1, <1>2, <1>3, FreeUnits, Zenon
<1>5. b \in Nat /\ At(r) \in Nat /\ frames[T].owned \in 0..3
  BY <1>2, FrameFacts, Zenon
<1> HIDE DEF b, u
<1>6. o \in 0..3 /\ o < u /\ o <= frames[T].owned
  BY <1>3, <1>5
<1>7. Up(windowbase, u) = c /\ c \in Unit
  <2>1. b + u \in Nat
    BY <1>3, <1>5
  <2>2. QED BY <1>2, <1>3, <1>5, <2>1, UpMod, ModValue, Zenon
<1> HIDE DEF o
<1>8. /\ frames' \in Seq(Frame) /\ Nesting' = T + 1
      /\ \A d \in 1 .. T : frames'[d].inc = frames[d].inc /\ frames'[d].at = At(d)
      /\ \A d \in 1 .. T : d # T => frames'[d] = frames[d]
      /\ frames'[T].owned = o /\ frames'[T + 1] = new
  <2> DEFINE g == Reown(o)
  <2>1. /\ g \in Seq(Frame) /\ Len(g) = T
        /\ \A d \in 1 .. T : g[d].inc = frames[d].inc /\ g[d].at = At(d)
        /\ \A d \in 1 .. T : d # T => g[d] = frames[d]
        /\ g[T].owned = o
    BY <1>6, Reowned, Zenon
  <2>2. new \in Frame
    BY <1>3, <1>5 DEF Frame
  <2> HIDE DEF g, new
  <2>3. /\ Append(g, new) \in Seq(Frame) /\ Len(Append(g, new)) = T + 1
        /\ \A d \in 1 .. T : Append(g, new)[d] = g[d]
        /\ Append(g, new)[T + 1] = new
    BY <2>1, <2>2, AppendProperties
  <2>4. frames' = Append(g, new)
    BY <1>1, Zenon DEF g
  <2>5. QED BY <1>2, <2>1, <2>3, <2>4, Zenon DEF Nesting
<1>9. frames'[T + 1].inc = u /\ frames'[T + 1].owned = 0 /\ frames'[T + 1].at = b + u
  BY <1>8
<1> HIDE DEF new
<1>10. \A d \in 1 .. T : At(d)' = At(d)
  BY <1>8, Zenon DEF At
<1>11. Live' = T /\ insn'.op = "entry" /\ insn'.u = u
  BY <1>1, <1>2, <1>8 DEF Live
<1>12. StackOK'
  <2>1. ASSUME NEW d \in 1 .. T
        PROVE  /\ frames'[d + 1].inc \in 1..3
               /\ frames'[d + 1].at = frames'[d].at + frames'[d + 1].inc
               /\ frames'[d].owned < frames'[d + 1].inc
    <3>1. CASE d = T
      BY <1>3, <1>6, <1>8, <1>9, <3>1, Zenon DEF b
    <3>2. CASE d # T
      <4>1. d \in 1 .. T - 1 /\ d + 1 \in 1 .. T
        BY <1>2, <3>2
      <4>2. /\ frames[d + 1].inc \in 1..3 /\ At(d + 1) = At(d) + frames[d + 1].inc
            /\ frames[d].owned < frames[d + 1].inc
        BY <4>1, Zenon DEF StackOK
      <4>3. QED BY <1>8, <3>2, <4>1, <4>2, Zenon
    <3>3. QED BY <3>1, <3>2, Zenon
  <2>2. ASSUME NEW d \in 1 .. T + 1, NEW e \in 1 .. T + 1, d < e
        PROVE  frames'[d + 1].at <= frames'[e].at
    <3>1. d \in 1 .. T
      BY <1>2, <2>2
    <3>2. CASE e = T + 1
      <4>1. CASE d = T
        BY <1>3, <1>5, <1>9, <3>2, <4>1
      <4>2. CASE d # T
        <5>1. d < T /\ d + 1 \in 1 .. T
          BY <1>2, <3>1, <4>2
        <5>2. At(d + 1) <= b /\ At(d + 1) \in Nat
          BY <1>2, <3>1, <5>1, FrameOrder, FrameFacts, Zenon DEF b
        <5>3. QED BY <1>3, <1>5, <1>8, <1>9, <3>2, <5>1, <5>2, SMTT(60)
      <4>3. QED BY <4>1, <4>2, Zenon
    <3>3. CASE e # T + 1
      <4>1. e \in 1 .. T /\ d + 1 \in 1 .. T
        BY <1>2, <2>2, <3>3
      <4>2. At(d + 1) <= At(e)
        BY <2>2, <3>1, <4>1, FrameOrder, Zenon
      <4>3. QED BY <1>8, <4>1, <4>2, Zenon
    <3>4. QED BY <3>2, <3>3, Zenon
  <2>3. frames'[1].inc = 0
    BY <1>2, <1>8 DEF StackOK
  <2>4. Nesting' \in 1 .. MaxDepth /\ Nesting' - 1 = T
    BY <1>2, <1>8
  <2>5. QED BY <1>8, <2>1, <2>2, <2>3, <2>4, Zenon DEF StackOK, At
<1>13. ControlOK'
  <2>1. insn' \in [op : {"none", "use", "call", "entry", "retw"}, u : 0..3]
    BY <1>1, <1>3
  <2>2. (IF handler' = "none" THEN windowbase' ELSE owb') = At(Live)' % N
    BY <1>1, <1>2, <1>8, <1>11, Zenon DEF At, b
  <2>3. Nesting' > 1 /\ callinc' \in 0..3
    BY <1>1, <1>2, <1>3, <1>8
  <2>4. illegal' = FALSE
    BY <1>1, Zenon DEF Executing, ControlOK
  <2>5. QED BY <1>1, <1>2, <1>8, <1>9, <1>11, <2>1, <2>2, <2>3, <2>4, SMTT(60) DEF ControlOK
<1>14. ChainOK(r)'
  <2>1. handler \notin OF /\ handler \notin UF
    BY <1>2, Zenon DEF OF, UF
  <2>2. windowstart' = {At(d)' % N : d \in r .. T}
    <3>1. windowstart = {At(d) % N : d \in r .. T}
      BY <1>2, Zenon DEF ChainOK
    <3>2. \A d \in r .. T : At(d)' = At(d)
      BY <1>2, <1>10
    <3>3. QED BY <1>1, <3>1, <3>2, Zenon
  <2>3. frames'[T + 1].at + frames'[T + 1].owned < At(r)' + N
    BY <1>2, <1>3, <1>4, <1>5, <1>9, <1>10
  <2>4. QED BY <1>1, <1>2, <1>8, <1>11, <2>1, <2>2, <2>3, Zenon DEF ChainOK, At
<1>15. phys \in [Unit -> Words]
  BY Zenon DEF HoldsOK
<1>16. /\ phys'[c] = Word(T + 1, 0, u)
       /\ \A w \in Unit : w # c => phys'[w] = IF phys[w].frame = T /\ phys[w].unit >= u
                                              THEN Dead ELSE phys[w]
  BY <1>1, <1>7, <1>15, Zenon DEF Discard
<1>17. phys' \in [Unit -> Words]
  <2>1. Word(T + 1, 0, u) \in Words /\ Dead \in Words
    BY <1>2, <1>3 DEF Word, Dead, Words
  <2>2. Discard(phys, T, u) \in [Unit -> Words]
    BY <1>15, <2>1, Zenon DEF Discard
  <2>3. QED BY <1>1, <1>7, <2>1, <2>2, Zenon
<1>18. ASSUME NEW d \in r .. T, NEW j \in 0 .. frames'[d].owned, NEW n,
              phys[(At(d) + j) % N] = Word(d, j, n)
       PROVE  phys'[(At(d) + j) % N] = Word(d, j, n)
  <2> DEFINE x == At(d) + j
  <2>1. /\ d \in 1 .. T /\ At(d) \in Nat /\ At(r) <= At(d) /\ frames[d].owned \in 0..3
    BY ChainFacts, Zenon
  <2>2. x \in Nat /\ x < b + u /\ b + u < x + N /\ ~(d = T /\ j >= u) /\ j \in Nat
    <3>1. CASE d = T
      <4>1. At(d) = b /\ frames'[d].owned = o
        BY <1>8, <3>1, Zenon DEF b
      <4>2. j \in 0 .. o
        BY <4>1, Zenon
      <4>3. x = b + j
        BY <4>1, Zenon
      <4> HIDE DEF x
      <4>4. QED BY <1>2, <1>3, <1>4, <1>5, <1>6, <2>1, <4>1, <4>2, <4>3
    <3>2. CASE d # T
      <4>1. d < T /\ frames'[d].owned = frames[d].owned
        BY <1>2, <1>8, <2>1, <3>2
      <4>2. At(d) + frames[d].owned < b
        BY <1>2, <2>1, <4>1, FrameOrder, Zenon DEF b
      <4>3. QED BY <1>2, <1>3, <1>4, <1>5, <2>1, <4>1, <4>2
    <3>3. QED BY <3>1, <3>2, Zenon
  <2> HIDE DEF x
  <2>3. x % N # c /\ x % N \in Unit
    <3>1. b + u \in Nat
      BY <1>3, <1>5
    <3>2. QED BY <2>2, <3>1, ModApart, ModValue, Zenon
  <2>4. phys[x % N] = Word(d, j, n)
    BY <1>18, Zenon DEF x
  <2>5. phys[x % N].frame = d /\ phys[x % N].unit = j
    BY <2>4 DEF Word
  <2>6. phys'[x % N] = phys[x % N]
    BY <1>16, <2>2, <2>3, <2>5, Zenon
  <2>7. QED BY <2>4, <2>6, Zenon DEF x
<1>19. HoldsOK(r)'
  <2>1. ASSUME NEW d \in r .. T
        PROVE  /\ phys'[At(d) % N] = Word(d, 0, frames[d].inc)
               /\ \A j \in 1 .. frames'[d].owned : phys'[(At(d) + j) % N] = Word(d, j, 0)
    <3>1. /\ phys[At(d) % N] = Word(d, 0, frames[d].inc)
          /\ \A j \in 1 .. frames[d].owned : phys[(At(d) + j) % N] = Word(d, j, 0)
      BY Zenon DEF HoldsOK
    <3>2. d \in 1 .. T /\ At(d) + 0 = At(d) /\ frames[d].owned \in 0..3
      <4>1. d \in 1 .. T
        BY <1>2
      <4>2. QED BY <4>1, FrameFacts
    <3>3. frames'[d].owned \in 0..3 /\ frames'[d].owned <= frames[d].owned
      BY <1>6, <1>8, <3>2
    <3>4. \A j \in 1 .. frames'[d].owned : j \in 1 .. frames[d].owned /\ j \in 0 .. frames'[d].owned
      BY <3>2, <3>3
    <3>5. 0 \in 0 .. frames'[d].owned
      BY <3>3
    <3>6. phys'[(At(d) + 0) % N] = Word(d, 0, frames[d].inc)
      BY <1>18, <3>1, <3>2, <3>5
    <3>7. QED BY <1>18, <3>1, <3>2, <3>4, <3>6, Zenon
  <2>2. /\ phys'[frames'[T + 1].at % N] = Word(T + 1, 0, frames'[T + 1].inc)
        /\ \A j \in 1 .. frames'[T + 1].owned : FALSE
    BY <1>9, <1>16
  <2>3. ASSUME NEW d \in r .. T + 1
        PROVE  /\ phys'[frames'[d].at % N] = Word(d, 0, frames'[d].inc)
               /\ \A j \in 1 .. frames'[d].owned :
                    phys'[(frames'[d].at + j) % N] = Word(d, j, 0)
    <3>1. d = T + 1 \/ (d \in r .. T /\ d \in 1 .. T)
      BY <1>2
    <3>2. QED BY <1>8, <2>1, <2>2, <3>1
  <2>4. ASSUME NEW d \in 1 .. r - 1
        PROVE  d \in 1 .. T /\ d + 1 \in 1 .. T /\ frames'[d] = frames[d]
               /\ frames'[d + 1].inc = frames[d + 1].inc
    <3>1. d \in 1 .. T /\ d + 1 \in 1 .. T /\ d # T
      BY <1>2
    <3>2. QED BY <1>8, <3>1, Zenon
  <2>5. /\ save' \in [1 .. MaxDepth -> Seq(Words)]
        /\ \A d \in 1 .. r - 1 :
             /\ Len(save'[d]) = frames'[d + 1].inc
             /\ save'[d][1] = Word(d, 0, frames'[d].inc)
             /\ \A j \in 1 .. frames'[d].owned : save'[d][j + 1] = Word(d, j, 0)
        /\ \A d \in r .. MaxDepth : save'[d] = <<>>
    BY <1>1, <2>4, ZenonT(60) DEF HoldsOK
  <2>6. QED BY <1>8, <1>17, <2>3, <2>5, Zenon DEF HoldsOK, At
<1>20. TracesOK(r)'
  <2>1. ASSUME NEW w \in Unit, phys'[w].frame # 0
        PROVE  /\ phys'[w].frame \in 1 .. T + 1
               /\ phys'[w].unit <= frames'[phys'[w].frame].owned
               /\ (frames'[phys'[w].frame].at + phys'[w].unit) % N = w
    <3>1. CASE w = c
      <4>1. phys'[w].frame = T + 1 /\ phys'[w].unit = 0
        BY <1>16, <3>1 DEF Word
      <4>2. (b + u) + 0 = b + u /\ T + 1 \in 1 .. T + 1
        BY <1>2, <1>3, <1>5
      <4>3. QED BY <1>9, <3>1, <4>1, <4>2
    <3>2. CASE w # c
      <4> DEFINE f == phys[w].frame
      <4>1. phys'[w] = phys[w] /\ ~(f = T /\ phys[w].unit >= u)
        BY <1>16, <2>1, <3>2 DEF Dead, Word
      <4>2. f \in 1 .. T /\ phys[w].unit <= frames[f].owned /\ (At(f) + phys[w].unit) % N = w
        BY <2>1, <4>1, Zenon DEF TracesOK, Traced
      <4>3. phys[w].unit \in 0..3
        BY <1>15, Zenon DEF Words
      <4> HIDE DEF f
      <4>4. phys[w].unit <= frames'[f].owned
        <5>1. CASE f = T
          <6>1. phys[w].unit <= o
            BY <1>3, <1>5, <4>1, <4>2, <4>3, <5>1 DEF o
          <6>2. QED BY <1>8, <5>1, <6>1, Zenon
        <5>2. CASE f # T
          BY <1>8, <4>2, <5>2, Zenon
        <5>3. QED BY <5>1, <5>2, Zenon
      <4>5. f \in 1 .. T + 1
        BY <1>2, <4>2
      <4>6. QED BY <1>8, <4>1, <4>2, <4>4, <4>5, Zenon DEF f
    <3>3. QED BY <3>1, <3>2, Zenon
  <2>2. ASSUME NEW d \in 1 .. r - 1, NEW j \in 1 .. Len(save[d]), save[d][j].frame # 0
        PROVE  /\ save[d][j].frame \in 1 .. d
               /\ save[d][j].unit <= frames'[save[d][j].frame].owned
               /\ (frames'[save[d][j].frame].at + save[d][j].unit) % N
                    = (frames'[d].at + (j - 1)) % N
    <3> DEFINE f == save[d][j].frame
    <3>1. f \in 1 .. d /\ save[d][j].unit <= frames[f].owned
          /\ (At(f) + save[d][j].unit) % N = (At(d) + (j - 1)) % N
      BY <2>2, Zenon DEF TracesOK, Traced
    <3> HIDE DEF f
    <3>2. f \in 1 .. T /\ f # T /\ d \in 1 .. T
      BY <1>2, <3>1
    <3>3. QED BY <1>8, <3>1, <3>2, Zenon DEF f
  <2>3. QED BY <1>1, <1>8, <2>1, <2>2, ZenonT(60) DEF TracesOK, Traced, At
<1>21. QED BY <1>12, <1>13, <1>14, <1>19, <1>20, Zenon
=============================================================================
