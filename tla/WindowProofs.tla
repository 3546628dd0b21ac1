---------------------------- MODULE WindowProofs ----------------------------
(***************************************************************************)
(* Proofs about XtensaWindow, from the invariant of WindowFrames:          *)
(* WindowSound holds, and the register file with its spill and fill        *)
(* handlers implements CallStack.  RFWO moves the oldest resident frame up *)
(* by one, RFWU down, and every other step keeps it.                       *)
(***************************************************************************)
EXTENDS WindowFrames

-----------------------------------------------------------------------------
(* RETW and the window handlers                                            *)

\* RETW gives up the innermost frame and finds the caller's registers as the
\* caller left them.
LEMMA RetwKept ==
  ASSUME NEW r \in Nat, InvAt(r), Retw
  PROVE  InvAt(r)'
<1> USE DEF InvAt
<1> DEFINE T == Nesting
           S == T - 1
<1>1. /\ Executing /\ insn.op = "retw" /\ RetwLegal /\ insn' = Idle
      /\ Down(windowbase, RetCount) \in windowstart
      /\ windowstart' = windowstart \ {windowbase}
      /\ windowbase' = Down(windowbase, RetCount)
      /\ frames' = SubSeq(frames, 1, T - 1)
      /\ phys' = Discard(phys, T, 0)
      /\ UNCHANGED <<excm, owb, callinc, handler, illegal, save>>
  BY Zenon DEF Retw
<1>2. /\ Live = T /\ windowbase = At(T) % N /\ RetCount = frames[T].inc /\ T > 1
  BY <1>1, RetwFacts, Zenon
<1>3. /\ T \in Nat /\ T \in 2 .. T /\ r \in 1 .. T /\ N \in Nat /\ N >= 8 /\ handler = "none"
      /\ T \in 1 .. MaxDepth /\ MaxDepth \in Nat /\ S \in 1 .. T /\ S \in 1 .. MaxDepth
      /\ S \in Nat /\ S < T /\ T \in 1 .. T /\ illegal = FALSE
  BY <1>1, <1>2, WindowAssumption DEF StackOK, ChainOK, Executing, ControlOK
<1>4. /\ frames[T].inc \in 1..3 /\ At(T) = At(S) + frames[T].inc
      /\ Down(windowbase, RetCount) = At(S) % N
  BY <1>2, <1>3, DownToCaller, Zenon
<1>5. r \in 1 .. S
  <2>1. r # Live
    BY <1>1, <1>2, <1>4, FreeBelow, Zenon
  <2>2. QED BY <1>2, <1>3, <2>1
<1>6. /\ frames' \in Seq(Frame) /\ Nesting' = S
      /\ \A d \in 1 .. S : frames'[d] = frames[d]
  <2>1. frames \in Seq(Frame) /\ \A d \in 1 .. T : frames[d] \in Frame
    BY ElementOfSeq, Zenon DEF StackOK, Nesting
  <2>2. \A d \in 1 .. S : frames[d] \in Frame
    BY <1>3, <2>1
  <2>3. /\ SubSeq(frames, 1, S) \in Seq(Frame)
        /\ Len(SubSeq(frames, 1, S)) = IF 1 <= S THEN S - 1 + 1 ELSE 0
        /\ \A d \in 1 .. S - 1 + 1 : SubSeq(frames, 1, S)[d] = frames[1 + d - 1]
    BY <1>3, <2>2, SubSeqProperties
  <2>4. S - 1 + 1 = S /\ 1 <= S /\ \A d \in 1 .. S : 1 + d - 1 = d
    BY <1>3
  <2>5. QED BY <1>1, <2>3, <2>4, Zenon DEF Nesting
<1> HIDE DEF S
<1>7. Live' = S /\ insn'.op = "none"
  BY <1>1, <1>6, Zenon DEF Live, Idle
<1>8. \A d \in 1 .. S : d \in 1 .. T
  BY <1>3
<1>9. StackOK'
  <2>1. ASSUME NEW d \in 1 .. S - 1
        PROVE  /\ frames'[d + 1].inc \in 1..3
               /\ frames'[d + 1].at = frames'[d].at + frames'[d + 1].inc
               /\ frames'[d].owned < frames'[d + 1].inc
    <3>1. d \in 1 .. S /\ d + 1 \in 1 .. S /\ d \in 1 .. T - 1
      BY <1>3
    <3>2. QED BY <1>6, <3>1, Zenon DEF StackOK, At
  <2>2. ASSUME NEW d \in 1 .. S, NEW e \in 1 .. S, d < e
        PROVE  frames'[d + 1].at <= frames'[e].at
    <3>1. d + 1 \in 1 .. S
      BY <1>3, <2>2
    <3>2. QED BY <1>6, <1>8, <2>2, <3>1, FrameOrder, Zenon DEF At
  <2>3. frames'[1].inc = 0
    BY <1>3, <1>6 DEF StackOK
  <2>4. QED BY <1>3, <1>6, <2>1, <2>2, <2>3, Zenon DEF StackOK, At
<1>10. At(S) \in Nat /\ At(T) \in Nat /\ frames[S].owned \in 0..3 /\ At(r) \in Nat
  BY <1>3, FrameFacts, Zenon
<1>11. ControlOK'
  <2>1. insn' \in [op : {"none", "use", "call", "entry", "retw"}, u : 0..3]
    BY <1>1 DEF Idle
  <2>2. windowbase' = At(S) % N /\ windowbase' \in Unit
    BY <1>1, <1>4, <1>10, ModValue, Zenon
  <2>3. (IF handler' = "none" THEN windowbase' ELSE owb') = At(Live)' % N
    <3>1. S \in 1 .. S
      BY <1>3
    <3>2. QED BY <1>1, <1>3, <1>6, <1>7, <2>2, <3>1, Zenon DEF At
  <2>4. QED BY <1>1, <1>3, <1>7, <2>1, <2>2, <2>3, Zenon DEF ControlOK
<1>12. ChainOK(r)'
  <2>1. handler \notin OF /\ handler \notin UF
    BY <1>3, Zenon DEF OF, UF
  <2>2. windowstart' = {At(d) % N : d \in r .. S}
    <3>1. windowstart = {At(d) % N : d \in r .. T}
      BY <1>2, Zenon DEF ChainOK
    <3>2. \A d : d \in r .. T <=> d \in r .. S \/ d = T
      BY <1>3, <1>5 DEF S
    <3>3. ASSUME NEW d \in r .. S PROVE At(d) % N # At(T) % N
      <4>1. d \in r .. T /\ d \in 1 .. T /\ d < T
        BY <1>3
      <4>2. At(d) \in Nat /\ At(r) <= At(d) /\ At(T) < At(r) + N /\ At(d) < At(T)
        <5>1. T \in r .. T
          BY <1>3
        <5>2. QED BY <1>3, <4>1, <5>1, ChainFacts, FrameOrder, Zenon
      <4>3. At(T) < At(d) + N
        BY <1>3, <1>10, <4>2
      <4>4. QED BY <1>10, <4>2, <4>3, ModApart, Zenon
    <3>4. QED BY <1>1, <1>2, <3>1, <3>2, <3>3, Zenon
  <2>3. \A d \in r .. S : frames'[d] = frames[d]
    BY <1>3, <1>6
  <2>4. frames[S].at + frames[S].owned < At(r) + N
    <3>1. S \in r .. T
      BY <1>3, <1>5
    <3>2. QED BY <3>1, ChainFacts, Zenon DEF At
  <2>5. S \in r .. S /\ r \in r .. S
    BY <1>3, <1>5
  <2>6. windowstart' = {frames'[d].at % N : d \in r .. S}
    BY <2>2, <2>3, Zenon DEF At
  <2>7. frames'[S].at + frames'[S].owned < frames'[r].at + N
    BY <2>3, <2>4, <2>5, Zenon DEF At
  <2>8. QED BY <1>1, <1>5, <1>6, <1>7, <2>1, <2>6, <2>7, Zenon DEF ChainOK, At
<1>13. phys \in [Unit -> Words]
  BY Zenon DEF HoldsOK
<1>14. \A w \in Unit : /\ phys[w].frame = T => phys'[w] = Dead
                       /\ phys[w].frame # T => phys'[w] = phys[w]
  <2>1. \A w \in Unit : phys[w].unit \in 0..3
    BY <1>13, Zenon DEF Words
  <2>2. \A w \in Unit : phys[w].unit >= 0
    BY <2>1
  <2>3. QED BY <1>1, <2>2, Zenon DEF Discard
<1>15. phys' \in [Unit -> Words]
  <2>1. Dead \in Words
    BY <1>3 DEF Dead, Word, Words
  <2>2. QED BY <1>1, <1>13, <2>1, Zenon DEF Discard
<1>16. HoldsOK(r)'
  <2>1. ASSUME NEW d \in r .. S, NEW x \in Nat, NEW j, NEW n, phys[x % N] = Word(d, j, n)
        PROVE  phys'[x % N] = Word(d, j, n)
    <3>1. phys[x % N].frame = d /\ d # T /\ x % N \in Unit
      <4>1. d # T /\ x % N \in Unit
        <5>1. d # T
          BY <1>3
        <5>2. x % N \in Unit
          BY ModValue, Zenon
        <5>3. QED BY <5>1, <5>2, Zenon
      <4>2. phys[x % N].frame = d
        BY <2>1 DEF Word
      <4>3. QED BY <4>1, <4>2, Zenon
    <3>2. QED BY <1>14, <2>1, <3>1, Zenon
  <2>2. ASSUME NEW d \in r .. S
        PROVE  /\ phys'[At(d) % N] = Word(d, 0, frames[d].inc)
               /\ \A j \in 1 .. frames[d].owned : phys'[(At(d) + j) % N] = Word(d, j, 0)
    <3>1. d \in r .. T /\ d \in 1 .. T
      BY <1>3
    <3>2. At(d) \in Nat /\ frames[d].owned \in 0..3
      BY <3>1, FrameFacts, Zenon
    <3>3. \A j \in 1 .. frames[d].owned : At(d) + j \in Nat
      BY <3>2
    <3>4. /\ phys[At(d) % N] = Word(d, 0, frames[d].inc)
          /\ \A j \in 1 .. frames[d].owned : phys[(At(d) + j) % N] = Word(d, j, 0)
      BY <3>1, Zenon DEF HoldsOK
    <3>5. QED BY <2>1, <3>2, <3>3, <3>4
  <2>3. \A d \in r .. S : frames'[d] = frames[d]
    BY <1>3, <1>6
  <2>4. \A d \in 1 .. r - 1 : frames'[d] = frames[d] /\ frames'[d + 1] = frames[d + 1]
    <3>1. \A d \in 1 .. r - 1 : d \in 1 .. S /\ d + 1 \in 1 .. S
      BY <1>3, <1>5
    <3>2. QED BY <1>6, <3>1, Zenon
  <2>5. /\ save' \in [1 .. MaxDepth -> Seq(Words)]
        /\ \A d \in 1 .. r - 1 :
             /\ Len(save'[d]) = frames'[d + 1].inc
             /\ save'[d][1] = Word(d, 0, frames'[d].inc)
             /\ \A j \in 1 .. frames'[d].owned : save'[d][j + 1] = Word(d, j, 0)
        /\ \A d \in r .. MaxDepth : save'[d] = <<>>
    BY <1>1, <2>4, ZenonT(60) DEF HoldsOK
  <2>6. \A d \in r .. S : /\ phys'[frames'[d].at % N] = Word(d, 0, frames'[d].inc)
                          /\ \A j \in 1 .. frames'[d].owned :
                               phys'[(frames'[d].at + j) % N] = Word(d, j, 0)
    BY <2>2, <2>3, Zenon DEF At
  <2>7. QED BY <1>6, <1>15, <2>5, <2>6, Zenon DEF HoldsOK, At
<1>17. TracesOK(r)'
  <2>1. ASSUME NEW w \in Unit, phys'[w].frame # 0
        PROVE  /\ phys'[w].frame \in 1 .. S
               /\ phys'[w].unit <= frames'[phys'[w].frame].owned
               /\ (frames'[phys'[w].frame].at + phys'[w].unit) % N = w
    <3> DEFINE f == phys[w].frame
    <3>1. phys'[w] = phys[w] /\ f # T
      BY <1>14, <2>1 DEF Dead, Word
    <3>2. f \in 1 .. T /\ phys[w].unit <= frames[f].owned /\ (At(f) + phys[w].unit) % N = w
      BY <2>1, <3>1, Zenon DEF TracesOK, Traced
    <3> HIDE DEF f
    <3>3. f \in 1 .. S
      BY <1>3, <3>1, <3>2 DEF S
    <3>4. QED BY <1>6, <3>1, <3>2, <3>3, Zenon DEF f, At
  <2>2. ASSUME NEW d \in 1 .. r - 1, NEW j \in 1 .. Len(save[d]), save[d][j].frame # 0
        PROVE  /\ save[d][j].frame \in 1 .. d
               /\ save[d][j].unit <= frames'[save[d][j].frame].owned
               /\ (frames'[save[d][j].frame].at + save[d][j].unit) % N
                    = (frames'[d].at + (j - 1)) % N
    <3> DEFINE f == save[d][j].frame
    <3>1. f \in 1 .. d /\ save[d][j].unit <= frames[f].owned
          /\ (At(f) + save[d][j].unit) % N = (At(d) + (j - 1)) % N
      BY <2>2, Zenon DEF TracesOK, Traced
    <3> HIDE DEF f
    <3>2. f \in 1 .. S /\ d \in 1 .. S
      BY <1>3, <1>5, <3>1
    <3>3. QED BY <1>6, <3>1, <3>2, Zenon DEF f, At
  <2>3. QED BY <1>1, <1>6, <2>1, <2>2, ZenonT(60) DEF TracesOK, Traced, At
<1>18. QED BY <1>9, <1>11, <1>12, <1>16, <1>17

\* A word in a unit of the oldest resident frame is not of a younger frame.
LEMMA SpilledTraced ==
  ASSUME NEW r \in Nat, InvAt(r), r < Live, NEW j \in 0 .. frames[r + 1].inc - 1
  PROVE  Traced(phys[(At(r) + j) % N], (At(r) + j) % N, r)
<1> USE DEF InvAt
<1> DEFINE w == (At(r) + j) % N
           f == phys[w].frame
<1>1. /\ Live \in 1 .. Nesting /\ r \in 1 .. Live /\ N \in Nat /\ N >= 8 /\ Nesting \in Nat
      /\ r \in 1 .. Nesting /\ r + 1 \in 1 .. Nesting
  BY LiveFacts, WindowAssumption DEF ChainOK
<1>2. /\ frames[r + 1].inc \in 1..3 /\ At(r + 1) = At(r) + frames[r + 1].inc /\ At(r) \in Nat
  BY <1>1, FrameOrder, FrameFacts, Zenon
<1>3. At(r) + j \in Nat /\ At(r) + j < At(r + 1)
  BY <1>2
<1>4. w \in Unit
  BY <1>3, ModValue, Zenon
<1>5. phys[w].unit \in 0..3
  BY <1>4, Zenon DEF HoldsOK, Words
<1>6. f # 0 => f \in 1 .. Nesting /\ phys[w].unit <= frames[f].owned
               /\ (At(f) + phys[w].unit) % N = w
  BY <1>4, Zenon DEF TracesOK, Traced
<1> HIDE DEF f, w
<1>7. ASSUME f # 0, f \notin 1 .. r PROVE FALSE
  <2> DEFINE y == At(f) + phys[w].unit
  <2>1. f \in r .. Nesting /\ f \in 1 .. Nesting /\ r < f
    BY <1>1, <1>6, <1>7
  <2>2. /\ At(f) \in Nat /\ frames[f].owned \in 0..3
        /\ At(f) + frames[f].owned < At(r) + N /\ At(r + 1) <= At(f)
    BY <1>1, <2>1, ChainFacts, FrameOrder, Zenon
  <2>3. phys[w].unit <= frames[f].owned /\ y % N = w
    BY <1>6, <1>7, Zenon
  <2>4. At(r + 1) \in Nat
    BY <1>1, FrameFacts, Zenon
  <2>5. y \in Nat /\ At(r) + j < y /\ y < At(r) + j + N
    BY <1>1, <1>2, <1>3, <1>5, <2>2, <2>3, <2>4
  <2> HIDE DEF y
  <2>6. QED BY <1>3, <2>3, <2>5, ModApart, Zenon DEF w
<1>8. QED BY <1>6, <1>7, Zenon DEF Traced, f, w

\* A function on 1 .. d is a sequence of length d.
LEMMA FcnSeq ==
  ASSUME NEW S, NEW d \in Nat, NEW f \in [1 .. d -> S]
  PROVE  f \in Seq(S) /\ Len(f) = d
<1>1. f \in Seq(S)
  BY SeqDef, Zenon
<1>2. DOMAIN f = 1 .. Len(f) /\ Len(f) \in Nat /\ DOMAIN f = 1 .. d
  BY <1>1, LenProperties, Zenon
<1>3. QED BY <1>1, <1>2

\* The overflow handler saves the oldest resident frame, whole.
LEMMA RfwoKept ==
  ASSUME NEW r \in Nat, InvAt(r), Rfwo
  PROVE  InvAt(r + 1)'
<1> USE DEF InvAt
<1> DEFINE T == Nesting
           k == frames[r + 1].inc
           a == At(r)
           area == [j \in 1 .. k |-> phys[(a + (j - 1)) % N]]
<1>1. /\ handler \in OF /\ windowstart' = windowstart \ {windowbase} /\ Spill
      /\ excm' = FALSE /\ windowbase' = owb /\ handler' = "none"
      /\ UNCHANGED <<owb, callinc, insn, illegal, frames, phys>>
  BY Zenon DEF Rfwo, ReturnFromWindow, OF
<1>2. /\ r < Live /\ windowbase = a % N /\ Size(handler) = k /\ handler # "none"
      /\ insn.op # "entry" /\ owb = At(Live) % N /\ illegal = FALSE /\ owb \in Unit
  <2>1. handler # "none"
    BY <1>1, Zenon DEF OF
  <2>2. QED BY <1>1, <2>1, Zenon DEF ChainOK, ControlOK
<1>3. /\ Live = T /\ T \in Nat /\ r \in 1 .. T /\ r + 1 \in 1 .. T /\ T \in 1 .. MaxDepth
      /\ MaxDepth \in Nat /\ N \in Nat /\ N >= 8 /\ r < T /\ r \in 1 .. MaxDepth
      /\ T \in 1 .. T /\ r + 1 \in r .. T
  <2>1. Live = T /\ T \in Nat
    BY <1>2, LiveFacts, Zenon
  <2>2. r \in 1 .. T /\ T \in 1 .. MaxDepth
    BY <2>1, Zenon DEF ChainOK, StackOK
  <2>3. QED BY <1>2, <2>1, <2>2, WindowAssumption
<1>4. /\ k \in 1..3 /\ At(r + 1) = a + k /\ a \in Nat /\ At(r + 1) \in Nat
      /\ frames[r].owned < k /\ frames[r].owned \in 0..3
  <2>1. r \in 1 .. T - 1
    BY <1>3
  <2>2. QED BY <1>3, <2>1, FrameOrder, FrameFacts, Zenon DEF StackOK
<1>5. phys \in [Unit -> Words] /\ save \in [1 .. MaxDepth -> Seq(Words)]
  BY Zenon DEF HoldsOK
<1>6. StackOK' /\ UNCHANGED T /\ \A d : At(d)' = At(d)
  BY <1>1, StackKept, Zenon
<1>7. Live' = T
  BY <1>1, <1>2, <1>3, <1>6, Zenon DEF Live
<1> HIDE DEF k, a
<1>8. save' = [save EXCEPT ![r] = area]
  <2>1. Up(windowbase, k) = At(r + 1) % N
    <3>1. k \in 0 .. N
      BY <1>3, <1>4
    <3>2. QED BY <1>2, <1>4, <3>1, UpMod, Zenon
  <2>2. phys[Up(windowbase, k)].frame - 1 = r
    <3>1. phys[At(r + 1) % N] = Word(r + 1, 0, frames[r + 1].inc)
      BY <1>3, Zenon DEF HoldsOK
    <3>2. phys[At(r + 1) % N].frame = r + 1
      BY <3>1 DEF Word
    <3>3. QED BY <2>1, <3>2
  <2>3. \A j \in 1 .. k : Up(windowbase, j - 1) = (a + (j - 1)) % N
    <3>1. \A j \in 1 .. k : j - 1 \in 0 .. N
      BY <1>3, <1>4
    <3>2. QED BY <1>2, <1>4, <3>1, UpMod, Zenon
  <2>4. area = [j \in 1 .. k |-> phys[Up(windowbase, j - 1)]]
    BY <2>3, Zenon
  <2>5. save' = [save EXCEPT ![phys[Up(windowbase, k)].frame - 1]
                   = [j \in 1 .. k |-> phys[Up(windowbase, j - 1)]]]
    BY <1>1, <1>2, Zenon DEF Spill
  <2>6. QED BY <2>2, <2>4, <2>5, Zenon
<1>9. \A j \in 1 .. k : (a + (j - 1)) % N \in Unit
  <2>1. \A j \in 1 .. k : a + (j - 1) \in Nat
    BY <1>4
  <2>2. QED BY <2>1, ModValue, Zenon
<1>10. area \in Seq(Words) /\ Len(area) = k
  <2>1. area \in [1 .. k -> Words]
    BY <1>5, <1>9, Zenon
  <2>2. k \in Nat
    BY <1>4
  <2> HIDE DEF area
  <2>3. QED BY <2>1, <2>2, FcnSeq, Zenon
<1>11. save' \in [1 .. MaxDepth -> Seq(Words)] /\ save'[r] = area
       /\ \A d \in 1 .. MaxDepth : d # r => save'[d] = save[d]
  <2> HIDE DEF area
  <2>1. QED BY <1>3, <1>5, <1>8, <1>10, Zenon
<1>12. ControlOK'
  <2>1. excm' = (handler' # "none" \/ illegal')
    BY <1>1, <1>2, Zenon
  <2>2. (IF handler' = "none" THEN windowbase' ELSE owb') = At(Live)' % N
    BY <1>1, <1>2, <1>3, <1>6, <1>7, Zenon DEF At
  <2>3. windowbase' \in Unit /\ owb' \in Unit /\ handler' \in OF \union UF \union {"none"}
    BY <1>1, <1>2, Zenon
  <2>4. QED BY <1>1, <1>2, <1>6, <2>1, <2>2, <2>3, Zenon DEF ControlOK
<1>13. ChainOK(r + 1)'
  <2>1. handler' \notin OF /\ handler' \notin UF
    BY <1>1, Zenon DEF OF, UF
  <2>2. windowstart' = {At(d) % N : d \in r + 1 .. T}
    <3>1. windowstart = {At(d) % N : d \in r .. T}
      BY <1>3, Zenon DEF ChainOK
    <3>2. \A d : d \in r .. T <=> d \in r + 1 .. T \/ d = r
      BY <1>3
    <3>3. ASSUME NEW d \in r + 1 .. T PROVE At(d) % N # a % N
      <4>1. d \in r .. T /\ d \in 1 .. T /\ r < d
        BY <1>3
      <4>2. At(d) \in Nat /\ a < At(d) /\ At(d) < a + N
        BY <1>3, <4>1, ChainFacts, FrameOrder, Zenon DEF a
      <4>3. QED BY <1>4, <4>2, ModApart, Zenon
    <3>4. QED BY <1>1, <1>2, <3>1, <3>2, <3>3, Zenon DEF a
  <2>3. At(T) + frames[T].owned < At(r + 1) + N
    <3>1. At(T) + frames[T].owned < a + N
      BY Zenon DEF ChainOK, a
    <3>2. At(T) \in Nat /\ frames[T].owned \in 0..3
      BY <1>3, FrameFacts, Zenon
    <3>3. QED BY <1>3, <1>4, <3>1, <3>2
  <2>4. QED BY <1>1, <1>3, <1>6, <1>7, <2>1, <2>2, <2>3, ZenonT(60) DEF ChainOK, At
<1>14. HoldsOK(r + 1)'
  <2>1. \A d \in r + 1 .. T : d \in r .. T
    BY <1>3
  <2>2. \A d \in r + 1 .. T : /\ phys[At(d) % N] = Word(d, 0, frames[d].inc)
                              /\ \A u \in 1 .. frames[d].owned :
                                   phys[(At(d) + u) % N] = Word(d, u, 0)
    BY <2>1, Zenon DEF HoldsOK
  <2>3. /\ area[1] = Word(r, 0, frames[r].inc)
        /\ \A u \in 1 .. frames[r].owned : area[u + 1] = Word(r, u, 0)
    <3>1. r \in r .. T
      BY <1>3
    <3>2. /\ phys[a % N] = Word(r, 0, frames[r].inc)
          /\ \A u \in 1 .. frames[r].owned : phys[(a + u) % N] = Word(r, u, 0)
      BY <3>1, Zenon DEF HoldsOK, a
    <3>3. 1 \in 1 .. k /\ a + (1 - 1) = a
      BY <1>4
    <3>4. \A u \in 1 .. frames[r].owned : u + 1 \in 1 .. k /\ a + ((u + 1) - 1) = a + u
      BY <1>4
    <3>5. QED BY <3>2, <3>3, <3>4, Zenon
  <2> HIDE DEF area
  <2>4. ASSUME NEW d \in 1 .. (r + 1) - 1
        PROVE  /\ Len(save'[d]) = frames[d + 1].inc
               /\ save'[d][1] = Word(d, 0, frames[d].inc)
               /\ \A u \in 1 .. frames[d].owned : save'[d][u + 1] = Word(d, u, 0)
    <3>1. CASE d = r
      BY <1>10, <1>11, <2>3, <3>1, Zenon DEF k
    <3>2. CASE d # r
      <4>1. d \in 1 .. r - 1 /\ d \in 1 .. MaxDepth
        BY <1>3, <3>2
      <4>2. QED BY <1>11, <3>2, <4>1 DEF HoldsOK
    <3>3. QED BY <3>1, <3>2, Zenon
  <2>5. ASSUME NEW d \in r + 1 .. MaxDepth PROVE save'[d] = <<>>
    <3>1. d \in r .. MaxDepth /\ d # r /\ d \in 1 .. MaxDepth
      BY <1>3
    <3>2. QED BY <1>11, <3>1, Zenon DEF HoldsOK
  <2>6. QED BY <1>1, <1>5, <1>6, <1>11, <2>2, <2>4, <2>5, Zenon DEF HoldsOK, At
<1>15. TracesOK(r + 1)'
  <2>1. ASSUME NEW d \in 1 .. (r + 1) - 1, NEW j \in 1 .. Len(save'[d])
        PROVE  Traced(save'[d][j], (At(d) + (j - 1)) % N, d)
    <3>1. CASE d = r
      <4>1. j \in 1 .. k /\ j - 1 \in 0 .. frames[r + 1].inc - 1
        <5>1. save'[d] = area
          BY <1>11, <3>1, Zenon
        <5>2. Len(save'[d]) = k
          BY <1>10, <5>1, Zenon
        <5>3. j \in 1 .. frames[r + 1].inc
          BY <5>2, Zenon DEF k
        <5>4. QED BY <1>4, <5>3 DEF k
      <4>2. Traced(phys[(At(r) + (j - 1)) % N], (At(r) + (j - 1)) % N, r)
        BY <1>2, <4>1, SpilledTraced, Zenon
      <4>3. save'[d][j] = phys[(At(r) + (j - 1)) % N]
        BY <1>11, <3>1, <4>1, Zenon DEF a
      <4>4. QED BY <3>1, <4>2, <4>3, Zenon
    <3>2. CASE d # r
      <4>1. d \in 1 .. r - 1 /\ d \in 1 .. MaxDepth
        BY <1>3, <3>2
      <4>2. QED BY <1>11, <3>2, <4>1, Zenon DEF TracesOK
    <3>3. QED BY <3>1, <3>2, Zenon
  <2>2. QED BY <1>1, <1>6, <2>1, SMTT(60) DEF TracesOK, Traced, At
<1>16. QED BY <1>6, <1>12, <1>13, <1>14, <1>15, Zenon

\* The underflow handler loads the caller's units where they were, below
\* those of the frame that is returning.
LEMMA RfwuKept ==
  ASSUME NEW r \in Nat, InvAt(r), Rfwu
  PROVE  r > 1 /\ InvAt(r - 1)'
<1> USE DEF InvAt
<1> DEFINE T == Nesting
           S == r - 1
           k == frames[r].inc
           a == At(S)
<1>1. /\ handler \in UF /\ windowstart' = windowstart \union {windowbase} /\ Fill
      /\ excm' = FALSE /\ windowbase' = owb /\ handler' = "none"
      /\ UNCHANGED <<owb, callinc, insn, illegal, frames>>
  BY Zenon DEF Rfwu, ReturnFromWindow, UF
<1>2. /\ r = Live /\ Live > 1 /\ insn.op = "retw" /\ windowbase = a % N /\ Size(handler) = k
      /\ handler # "none" /\ owb = At(Live) % N /\ illegal = FALSE /\ owb \in Unit
  <2>1. handler # "none"
    BY <1>1, Zenon DEF UF
  <2>2. QED BY <1>1, <2>1, Zenon DEF ChainOK, ControlOK
<1>3. /\ r = T /\ T \in Nat /\ T \in 2 .. T /\ S \in 1 .. T /\ T \in 1 .. MaxDepth
      /\ MaxDepth \in Nat /\ N \in Nat /\ N >= 8 /\ S \in 1 .. MaxDepth /\ S \in Nat
      /\ T \in 1 .. T /\ S < T /\ r \in r .. T /\ S \in 1 .. r - 1 /\ S + 1 = r
  <2>1. Live = T /\ T \in Nat
    BY <1>2, LiveFacts, Zenon
  <2>2. T \in 1 .. MaxDepth
    BY Zenon DEF StackOK
  <2>3. QED BY <1>2, <2>1, <2>2, WindowAssumption
<1>4. /\ k \in 1..3 /\ At(r) = a + k /\ a \in Nat /\ frames[r].owned \in 0..3
      /\ frames[S].owned < k /\ frames[S].owned \in 0..3
  <2>1. S \in 1 .. T - 1
    BY <1>3, Zenon
  <2>2. frames[S].owned < frames[S + 1].inc
    BY <2>1, Zenon DEF StackOK
  <2>3. k \in 1..3 /\ At(r) = a + k
    BY <1>3, DownToCaller, Zenon
  <2>4. a \in Nat /\ frames[r].owned \in 0..3 /\ frames[S].owned \in 0..3
    BY <1>3, FrameFacts, Zenon
  <2>5. QED BY <1>3, <2>2, <2>3, <2>4, Zenon
<1>5. phys \in [Unit -> Words] /\ save \in [1 .. MaxDepth -> Seq(Words)]
  BY Zenon DEF HoldsOK
<1>6. /\ Len(save[S]) = k /\ save[S][1] = Word(S, 0, frames[S].inc)
      /\ \A u \in 1 .. frames[S].owned : save[S][u + 1] = Word(S, u, 0)
  <2>1. Len(save[S]) = frames[S + 1].inc
    BY <1>3, Zenon DEF HoldsOK
  <2>2. QED BY <1>3, <2>1, Zenon DEF HoldsOK
<1>7. StackOK' /\ UNCHANGED T /\ \A d : At(d)' = At(d)
  BY <1>1, StackKept, Zenon
<1>8. Live' = T
  BY <1>1, <1>2, <1>3, <1>7, Zenon DEF Live
<1> HIDE DEF k, a, S
<1>9. /\ phys' = [w \in Unit |-> IF Down(w, a % N) + 1 \in 1 .. k
                                 THEN save[S][Down(w, a % N) + 1] ELSE phys[w]]
      /\ save' = [save EXCEPT ![S] = <<>>]
  <2>1. phys[owb] = Word(r, 0, frames[r].inc)
    BY <1>2, <1>3, Zenon DEF HoldsOK
  <2>2. phys[owb].frame - 1 = S
    BY <2>1 DEF Word, S
  <2>3. /\ phys' = [w \in Unit |->
                      IF Down(w, windowbase) + 1 \in 1 .. k /\ Down(w, windowbase) + 1 <= Len(save[S])
                      THEN save[S][Down(w, windowbase) + 1] ELSE phys[w]]
        /\ save' = [save EXCEPT ![S] = <<>>]
    BY <1>1, <1>2, <2>2, Zenon DEF Fill
  <2>4. \A w \in Unit : Down(w, a % N) + 1 \in 1 .. k => Down(w, a % N) + 1 <= k
    BY <1>4
  <2>5. QED BY <1>2, <1>6, <2>3, <2>4, Zenon
<1>10. ASSUME NEW j \in 0 .. k - 1
       PROVE  (a + j) % N \in Unit /\ phys'[(a + j) % N] = save[S][j + 1]
  <2>1. j \in 0 .. N - 1 /\ j + 1 \in 1 .. k
    BY <1>3, <1>4
  <2>2. (a + j) % N \in Unit /\ Down((a + j) % N, a % N) = j
    BY <1>4, <2>1, AboveBy, Zenon
  <2>3. QED BY <1>9, <2>1, <2>2, Zenon
<1>11. ASSUME NEW j \in 0..3 PROVE phys'[(At(r) + j) % N] = phys[(At(r) + j) % N]
  <2>1. k + j \in 0 .. N - 1 /\ k + j + 1 \notin 1 .. k /\ At(r) + j = a + (k + j)
    BY <1>3, <1>4
  <2>2. (a + (k + j)) % N \in Unit /\ Down((a + (k + j)) % N, a % N) = k + j
    BY <1>4, <2>1, AboveBy, Zenon
  <2>3. QED BY <1>9, <2>1, <2>2, Zenon
<1>12. \A j \in 1 .. k : save[S][j] \in Words
  BY <1>3, <1>5, <1>6, ElementOfSeq, Zenon
<1>13. phys' \in [Unit -> Words]
  BY <1>5, <1>9, <1>12, Zenon
<1>14. save' \in [1 .. MaxDepth -> Seq(Words)] /\ save'[S] = <<>>
       /\ \A d \in 1 .. MaxDepth : d # S => save'[d] = save[d]
  BY <1>3, <1>5, <1>9, EmptySeq, Zenon
<1>15. ControlOK'
  <2>1. excm' = (handler' # "none" \/ illegal')
    BY <1>1, <1>2, Zenon
  <2>2. (IF handler' = "none" THEN windowbase' ELSE owb') = At(Live)' % N
    BY <1>1, <1>2, <1>3, <1>7, <1>8, Zenon DEF At
  <2>3. windowbase' \in Unit /\ owb' \in Unit /\ handler' \in OF \union UF \union {"none"}
    BY <1>1, <1>2, Zenon
  <2>4. QED BY <1>1, <1>2, <1>7, <2>1, <2>2, <2>3, Zenon DEF ControlOK
<1>16. ChainOK(S)'
  <2>1. handler' \notin OF /\ handler' \notin UF
    BY <1>1, Zenon DEF OF, UF
  <2>2. windowstart' = {At(d) % N : d \in S .. T}
    <3>1. windowstart = {At(d) % N : d \in r .. T}
      BY <1>2, <1>3, Zenon DEF ChainOK
    <3>2. \A d : d \in S .. T <=> d \in r .. T \/ d = S
      BY <1>3
    <3>3. windowbase = At(S) % N
      BY <1>2, Zenon DEF a
    <3>4. QED BY <1>1, <3>1, <3>2, <3>3, Zenon
  <2>3. At(T) + frames[T].owned < At(S) + N
    BY <1>3, <1>4 DEF a
  <2>4. QED BY <1>1, <1>3, <1>7, <1>8, <2>1, <2>2, <2>3 DEF ChainOK, At
<1>17. HoldsOK(S)'
  <2>1. /\ phys'[At(r) % N] = Word(r, 0, frames[r].inc)
        /\ \A u \in 1 .. frames[r].owned : phys'[(At(r) + u) % N] = Word(r, u, 0)
    <3>1. /\ phys[At(r) % N] = Word(r, 0, frames[r].inc)
          /\ \A u \in 1 .. frames[r].owned : phys[(At(r) + u) % N] = Word(r, u, 0)
      BY <1>3, Zenon DEF HoldsOK
    <3>2. At(r) + 0 = At(r) /\ \A u \in 1 .. frames[r].owned : u \in 0..3
      BY <1>4
    <3>3. QED BY <1>11, <3>1, <3>2
  <2>2. /\ phys'[At(S) % N] = Word(S, 0, frames[S].inc)
        /\ \A u \in 1 .. frames[S].owned : phys'[(At(S) + u) % N] = Word(S, u, 0)
    <3>1. 0 \in 0 .. k - 1 /\ a + 0 = a /\ 0 + 1 = 1
          /\ \A u \in 1 .. frames[S].owned : u \in 0 .. k - 1
      BY <1>4
    <3>2. QED BY <1>6, <1>10, <3>1, Zenon DEF a
  <2>3. \A d \in S .. T : d = S \/ d = r
    BY <1>3
  <2>4. \A d \in 1 .. S - 1 : /\ Len(save'[d]) = frames[d + 1].inc
                              /\ save'[d][1] = Word(d, 0, frames[d].inc)
                              /\ \A u \in 1 .. frames[d].owned : save'[d][u + 1] = Word(d, u, 0)
    <3>1. \A d \in 1 .. S - 1 : d \in 1 .. r - 1 /\ d \in 1 .. MaxDepth /\ d # S
      BY <1>3
    <3>2. QED BY <1>14, <3>1 DEF HoldsOK
  <2>5. ASSUME NEW d \in S .. MaxDepth PROVE save'[d] = <<>>
    <3>1. d = S \/ (d \in r .. MaxDepth /\ d \in 1 .. MaxDepth /\ d # S)
      BY <1>3
    <3>2. QED BY <1>14, <3>1, Zenon DEF HoldsOK
  <2>6. QED BY <1>1, <1>7, <1>13, <1>14, <2>1, <2>2, <2>3, <2>4, <2>5, SMTT(60) DEF HoldsOK, At
<1>18. TracesOK(S)'
  <2>1. ASSUME NEW w \in Unit PROVE Traced(phys'[w], w, T)
    <3> DEFINE j == Down(w, a % N)
    <3>1. j \in 0 .. N - 1 /\ (a + j) % N = w
      BY <1>4, UnitAbove, Zenon
    <3>2. CASE j + 1 \in 1 .. k
      <4>1. phys'[w] = save[S][j + 1]
        BY <1>9, <3>2, Zenon
      <4> HIDE DEF j
      <4>2. Traced(save[S][j + 1], (At(S) + ((j + 1) - 1)) % N, S)
        BY <1>3, <1>6, <3>2, Zenon DEF TracesOK
      <4>3. At(S) + ((j + 1) - 1) = a + j
        BY <1>3, <1>4, <3>1 DEF a
      <4>4. Traced(save[S][j + 1], w, S)
        BY <3>1, <4>2, <4>3, Zenon
      <4>5. \A f : f \in 1 .. S => f \in 1 .. T
        BY <1>3
      <4>6. QED BY <4>1, <4>4, <4>5, Zenon DEF Traced
    <3>3. CASE j + 1 \notin 1 .. k
      <4>1. phys'[w] = phys[w]
        BY <1>9, <3>3, Zenon
      <4>2. QED BY <4>1, Zenon DEF TracesOK
    <3>4. QED BY <3>2, <3>3, Zenon
  <2>2. ASSUME NEW d \in 1 .. S - 1, NEW j \in 1 .. Len(save'[d])
        PROVE  Traced(save'[d][j], (At(d) + (j - 1)) % N, d)
    <3>1. d \in 1 .. r - 1 /\ d \in 1 .. MaxDepth /\ d # S
      BY <1>3
    <3>2. save'[d] = save[d]
      BY <1>14, <3>1, Zenon
    <3>3. QED BY <3>1, <3>2, Zenon DEF TracesOK
  <2>3. \A x, w, e : Traced(x, w, e) => Traced(x, w, e)'
    BY <1>1, Zenon DEF Traced, At
  <2>4. QED BY <1>1, <1>7, <2>1, <2>2, <2>3, Zenon DEF TracesOK
<1>19. r > 1
  BY <1>3
<1>20. QED BY <1>7, <1>15, <1>16, <1>17, <1>18, <1>19, Zenon DEF S

-----------------------------------------------------------------------------

LEMMA WindowNextInv == WindowInv /\ [WindowNext]_windowVars => WindowInv'
<1> SUFFICES ASSUME NEW r \in Nat, InvAt(r), [WindowNext]_windowVars
             PROVE  \E q \in Nat : InvAt(q)'
  BY Zenon DEF WindowInv
<1>1. CASE Panic \/ UNCHANGED windowVars
  <2>1. UNCHANGED <<windowbase, windowstart, phys, excm, owb, callinc, insn, handler,
                    illegal, save, frames>>
    BY <1>1, Zenon DEF Panic, windowVars, cpuVars
  <2>2. StackOK' /\ UNCHANGED Nesting /\ \A d : At(d)' = At(d)
    BY <2>1, StackKept, Zenon DEF InvAt
  <2>3. Live' = Live
    BY <2>1, <2>2, Zenon DEF Live
  <2>4. ControlOK'
    BY <2>1, <2>2, <2>3, Zenon DEF InvAt, ControlOK, At
  <2>5. ChainOK(r)'
    BY <2>1, <2>2, <2>3, Zenon DEF InvAt, ChainOK, At
  <2>6. QED BY <2>1, <2>2, <2>4, <2>5, DataKept, Zenon DEF InvAt
<1>2. CASE Rfwo
  <2>1. r + 1 \in Nat /\ InvAt(r + 1)'
    BY <1>2, RfwoKept
  <2>2. QED BY <2>1, Zenon
<1>3. CASE Rfwu
  <2>1. r - 1 \in Nat /\ InvAt(r - 1)'
    BY <1>3, RfwuKept
  <2>2. QED BY <2>1, Zenon
<1>4. CASE Fetch \/ Overflow \/ UseRegisters \/ CallN \/ Entry \/ RetwIllegal
           \/ RetwUnderflow \/ Retw
  BY <1>4, FetchKept, OverflowKept, UseKept, CallKept, EntryKept, RetwIllegalKept,
     RetwUnderflowKept, RetwKept, Zenon
<1>5. QED
  BY <1>1, <1>2, <1>3, <1>4, Zenon DEF WindowNext, WindowStep

-----------------------------------------------------------------------------
(* What the invariant says of the frames                                   *)

\* A remainder below N is determined by the equation, for multiples below
\* zero too.
LEMMA ModIsInt ==
  ASSUME NEW q \in Int, NEW m \in Unit
  PROVE  (q * N + m) % N = m
<1> DEFINE x == q * N + m
           p == x \div N
           t == x % N
<1>1. N \in Nat /\ N >= 8 /\ m \in 0 .. N - 1 /\ q * N \in Int
  BY WindowAssumption DEF Unit
<1>2. x \in Int /\ x = q * N + m
  BY <1>1
<1>3. p \in Int /\ t \in 0 .. N - 1 /\ x = p * N + t
  <2> HIDE DEF x
  <2>1. QED BY <1>1, <1>2
<1> HIDE DEF x, p, t
<1>4. CASE q < p
  <2>1. (q + 1) * N <= p * N
    BY <1>1, <1>3, <1>4
  <2>2. QED BY <1>1, <1>2, <1>3, <2>1
<1>5. CASE p < q
  <2>1. (p + 1) * N <= q * N
    BY <1>1, <1>3, <1>5
  <2>2. QED BY <1>1, <1>2, <1>3, <2>1
<1>6. CASE p = q
  BY <1>1, <1>2, <1>3, <1>6 DEF t, x
<1>7. QED BY <1>3, <1>4, <1>5, <1>6

\* The innermost frame starts where the registers say.
LEMMA BaseIs ==
  ASSUME NEW r \in Nat, InvAt(r)
  PROVE  Base = At(Nesting) % N
<1>1. /\ (IF handler = "none" THEN windowbase ELSE owb) = At(Live) % N
      /\ insn.op = "entry" => Nesting > 1 /\ callinc = frames[Nesting].inc /\ handler = "none"
  BY Zenon DEF InvAt, ControlOK
<1>2. CASE insn.op # "entry"
  BY <1>1, <1>2, Zenon DEF Base, Live
<1>3. CASE insn.op = "entry"
  <2>1. Nesting \in Nat /\ Nesting > 1 /\ StackOK
    BY <1>1, <1>3, SMTT(60) DEF InvAt, StackOK
  <2>2. /\ Nesting - 1 \in 1 .. Nesting /\ Nesting \in 1 .. Nesting /\ Nesting - 1 < Nesting
        /\ (Nesting - 1) + 1 = Nesting
    BY <2>1
  <2>3. /\ frames[Nesting].inc \in 1..3 /\ At(Nesting - 1) \in Nat
        /\ At(Nesting) = At(Nesting - 1) + frames[Nesting].inc
    BY <2>1, <2>2, FrameOrder, FrameFacts, Zenon
  <2>4. frames[Nesting].inc \in 0 .. N
    BY <2>3, WindowAssumption
  <2>5. Up(At(Nesting - 1) % N, frames[Nesting].inc) = At(Nesting) % N
    BY <2>3, <2>4, UpMod, Zenon
  <2>6. QED BY <1>1, <1>3, <2>5, Zenon DEF Base, Live
<1>4. QED BY <1>2, <1>3, Zenon

LEMMA PlaceIs ==
  ASSUME NEW r \in Nat, InvAt(r), NEW d \in 1 .. Nesting
  PROVE  /\ Place(d) = At(d) % N /\ Place(d) \in Unit
         /\ DistanceOf(d) = At(Nesting) - At(d) /\ DistanceOf(d) \in Nat
<1> DEFINE T == Nesting
<1>1. T \in Nat /\ StackOK /\ T \in 1 .. T /\ N \in Nat
  BY WindowAssumption DEF InvAt, StackOK
<1>2. At(d) \in Nat /\ At(T) \in Nat
  BY <1>1, FrameFacts, Zenon
<1>3. At(d) <= At(T)
  <2>1. d = T \/ d < T
    BY <1>1
  <2>2. ASSUME d < T PROVE At(d) < At(T)
    BY <1>1, <2>2, FrameOrder, Zenon
  <2>3. QED BY <1>2, <2>1, <2>2
<1>4. DistanceOf(d) = At(T) - At(d)
  BY Zenon DEF DistanceOf, At
<1>5. PICK q \in Nat : At(T) = q * N + (At(T) % N)
  BY <1>2, ModValue, Zenon
<1>6. PICK p \in Nat : At(d) = p * N + (At(d) % N)
  BY <1>2, ModValue, Zenon
<1>7. At(T) % N \in 0 .. N - 1 /\ At(d) % N \in 0 .. N - 1
  BY <1>2, ModValue, Zenon DEF Unit
<1>8. (At(T) % N) - (At(T) - At(d)) = (p - q) * N + (At(d) % N)
  <2> DEFINE a == At(T) % N
             b == At(d) % N
  <2> HIDE DEF a, b
  <2>1. At(T) = q * N + a /\ At(d) = p * N + b /\ a \in Int /\ b \in Int
    BY <1>1, <1>5, <1>6, <1>7 DEF a, b
  <2>2. q * N \in Int /\ p * N \in Int /\ (p - q) * N = p * N - q * N
    BY <1>1
  <2>3. a - (At(T) - At(d)) = (p - q) * N + b
    BY <1>2, <2>1, <2>2
  <2>4. QED BY <2>3, Zenon DEF a, b
<1>9. ((p - q) * N + (At(d) % N)) % N = At(d) % N
  <2>1. p - q \in Int /\ At(d) % N \in Unit
    BY <1>7 DEF Unit
  <2>2. QED BY <2>1, ModIsInt, Zenon
<1>10. QED BY <1>2, <1>3, <1>4, <1>7, <1>8, <1>9, BaseIs DEF Place, Unit

LEMMA ResidentIs ==
  ASSUME NEW r \in Nat, InvAt(r), NEW d \in 1 .. Nesting
  PROVE  Resident(d) <=> d \in r .. Live
<1> DEFINE T == Nesting
<1>1. /\ T \in Nat /\ StackOK /\ T \in 1 .. T /\ N \in Nat /\ T >= 1
      /\ Live \in Nat /\ Live <= T /\ r \in 1 .. Live /\ r \in 1 .. T
  <2>1. T \in Nat /\ StackOK /\ T >= 1
    BY DEF InvAt, StackOK
  <2>2. r \in 1 .. Live
    BY Zenon DEF InvAt, ChainOK
  <2>3. Live = T \/ Live = T - 1
    BY Zenon DEF Live
  <2>4. QED BY <2>1, <2>2, <2>3, WindowAssumption
<1>2. Entered(d) <=> d <= Live
  <2>1. CASE insn.op = "entry"
    BY <1>1, <2>1 DEF Entered, Live
  <2>2. CASE insn.op # "entry"
    BY <1>1, <2>2 DEF Entered, Live
  <2>3. QED BY <2>1, <2>2, Zenon
<1>3. /\ Place(d) = At(d) % N /\ DistanceOf(d) = At(T) - At(d)
  BY PlaceIs, Zenon
<1>4. /\ windowstart = {At(e) % N : e \in r .. Live}
      /\ At(T) + frames[T].owned < At(r) + N
  BY Zenon DEF InvAt, ChainOK
<1>5. At(d) \in Nat /\ At(T) \in Nat /\ At(r) \in Nat /\ frames[T].owned \in 0..3
  BY <1>1, FrameFacts, Zenon
<1>6. ASSUME d \in r .. Live PROVE Resident(d)
  <2>1. At(r) <= At(d)
    <3>1. r = d \/ r < d
      BY <1>1, <1>6
    <3>2. QED BY <1>1, <1>5, <3>1, FrameOrder
  <2>2. DistanceOf(d) < N
    BY <1>1, <1>3, <1>4, <1>5, <2>1
  <2>3. QED BY <1>1, <1>2, <1>3, <1>4, <1>6, <2>2 DEF Resident
<1>7. ASSUME Resident(d) PROVE d \in r .. Live
  <2>1. d <= Live /\ At(T) - At(d) < N /\ At(d) % N \in windowstart
    BY <1>2, <1>3, <1>7, Zenon DEF Resident
  <2>2. CASE r <= d
    BY <1>1, <2>1, <2>2
  <2>3. CASE d < r
    <3>1. PICK e \in r .. Live : At(d) % N = At(e) % N
      BY <1>4, <2>1, Zenon
    <3>2. e \in 1 .. T /\ d < e
      BY <1>1, <2>3
    <3>3. At(e) \in Nat /\ At(d) < At(e)
      BY <1>1, <3>2, FrameFacts, FrameOrder, Zenon
    <3>4. At(e) <= At(T)
      <4>1. e = T \/ e < T
        BY <1>1, <3>2
      <4>2. QED BY <1>1, <1>5, <3>2, <3>3, <4>1, FrameOrder
    <3>5. At(e) < At(d) + N
      BY <1>1, <1>5, <2>1, <3>3, <3>4
    <3>6. QED BY <1>5, <3>1, <3>3, <3>5, ModApart, Zenon
  <2>4. QED BY <1>1, <2>2, <2>3
<1>8. QED BY <1>6, <1>7, Zenon

LEMMA HeldIs ==
  ASSUME NEW r \in Nat, InvAt(r), NEW d \in 1 .. Nesting, NEW u \in 0..3
  PROVE  Held(d, u) = IF d >= r THEN phys[(At(d) + u) % N]
                      ELSE IF u < Len(save[d]) THEN save[d][u + 1] ELSE Dead
<1>1. Resident(d) <=> d \in r .. Live
  BY ResidentIs, Zenon
<1>2. Place(d) = At(d) % N
  BY PlaceIs, Zenon
<1>3. /\ Nesting \in Nat /\ StackOK /\ r \in 1 .. Live /\ Nesting >= 1
  BY DEF InvAt, StackOK, ChainOK
<1>4. At(d) \in Nat /\ u \in 0 .. N
  BY <1>3, FrameFacts, WindowAssumption
<1>5. Up(Place(d), u) = (At(d) + u) % N
  BY <1>2, <1>4, UpMod, Zenon
<1>6. Resident(d) \/ ~Entered(d) <=> d >= r
  <2>1. Entered(d) <=> d <= Live
    <3>1. CASE insn.op = "entry"
      BY <1>3, <3>1 DEF Entered, Live
    <3>2. CASE insn.op # "entry"
      BY <1>3, <3>2 DEF Entered, Live
    <3>3. QED BY <3>1, <3>2, Zenon
  <2>2. Live \in Nat
    BY <1>3 DEF Live
  <2>3. QED BY <1>1, <1>3, <2>1, <2>2
<1>7. QED BY <1>5, <1>6, Zenon DEF Held

\* What frame d holds is its own up to the last unit it owns, and no further.
LEMMA HeldOwn ==
  ASSUME NEW r \in Nat, InvAt(r), NEW d \in 1 .. Nesting
  PROVE  /\ Held(d, 0) = Word(d, 0, frames[d].inc)
         /\ \A v \in 1..3 : Held(d, v) = Word(d, v, 0) <=> v <= frames[d].owned
<1>1. /\ Nesting \in Nat /\ Nesting \in 1 .. MaxDepth /\ StackOK /\ r \in 1 .. Live /\ r >= 1
      /\ HoldsOK(r) /\ TracesOK(r)
  <2>1. StackOK /\ ControlOK /\ HoldsOK(r) /\ TracesOK(r) /\ r \in 1 .. Live
    BY Zenon DEF InvAt, ChainOK
  <2>2. Nesting \in Nat /\ Live \in 1 .. Nesting
    BY <2>1, LiveFacts, Zenon
  <2>3. Nesting \in 1 .. MaxDepth
    BY <2>1, Zenon DEF StackOK
  <2>4. QED BY <2>1, <2>2, <2>3
<1>2. At(d) \in Nat /\ frames[d].owned \in 0..3 /\ frames[d].inc \in 0..3
  BY <1>1, FrameFacts, Zenon
<1>3. CASE d >= r
  <2>1. d \in r .. Nesting
    BY <1>1, <1>3
  <2>2. /\ phys[At(d) % N] = Word(d, 0, frames[d].inc)
        /\ \A u \in 1 .. frames[d].owned : phys[(At(d) + u) % N] = Word(d, u, 0)
    BY <1>1, <2>1, Zenon DEF HoldsOK
  <2>3. \A u \in 0..3 : Held(d, u) = phys[(At(d) + u) % N]
    BY <1>3, HeldIs, Zenon
  <2>4. ASSUME NEW v \in 1..3
        PROVE  Held(d, v) = Word(d, v, 0) <=> v <= frames[d].owned
    <3>1. v \in 0..3 /\ Held(d, v) = phys[(At(d) + v) % N] /\ At(d) + v \in Nat
      BY <1>2, <2>3
    <3>2. (At(d) + v) % N \in Unit
      BY <3>1, ModValue, Zenon
    <3>3. ASSUME v <= frames[d].owned PROVE Held(d, v) = Word(d, v, 0)
      BY <1>2, <2>2, <3>1, <3>3
    <3>4. ASSUME Held(d, v) = Word(d, v, 0) PROVE v <= frames[d].owned
      <4>1. Traced(Word(d, v, 0), (At(d) + v) % N, Nesting)
        BY <1>1, <3>1, <3>2, <3>4, Zenon DEF TracesOK
      <4>2. QED BY <4>1 DEF Traced, Word
    <3>5. QED BY <3>3, <3>4, Zenon
  <2>5. Held(d, 0) = Word(d, 0, frames[d].inc)
    <3>1. At(d) + 0 = At(d) /\ 0 \in 0..3
      BY <1>2
    <3>2. QED BY <2>2, <2>3, <3>1, Zenon
  <2>6. QED BY <2>4, <2>5, Zenon
<1>4. CASE d < r
  <2>1. d \in 1 .. r - 1 /\ d \in 1 .. Nesting - 1
    <3>1. Live \in Nat /\ Live <= Nesting
      BY <1>1 DEF Live
    <3>2. QED BY <1>1, <1>4, <3>1
  <2>2. /\ Len(save[d]) = frames[d + 1].inc
        /\ save[d][1] = Word(d, 0, frames[d].inc)
        /\ \A u \in 1 .. frames[d].owned : save[d][u + 1] = Word(d, u, 0)
    BY <1>1, <2>1, Zenon DEF HoldsOK
  <2>3. frames[d].owned < Len(save[d]) /\ Len(save[d]) \in 1..3
    BY <1>1, <2>1, <2>2, Zenon DEF StackOK
  <2>4. \A u \in 0..3 : Held(d, u) = IF u < Len(save[d]) THEN save[d][u + 1] ELSE Dead
    <3>1. ~(d >= r)
      BY <1>4
    <3>2. QED BY <3>1, HeldIs, Zenon
  <2>5. ASSUME NEW v \in 1..3
        PROVE  Held(d, v) = Word(d, v, 0) <=> v <= frames[d].owned
    <3>1. v \in 0..3 /\ Held(d, v) = IF v < Len(save[d]) THEN save[d][v + 1] ELSE Dead
      BY <2>4
    <3>2. ASSUME v <= frames[d].owned PROVE Held(d, v) = Word(d, v, 0)
      <4>1. v < Len(save[d]) /\ v \in 1 .. frames[d].owned
        BY <1>2, <2>3, <3>2
      <4>2. QED BY <2>2, <3>1, <4>1, Zenon
    <3>3. ASSUME Held(d, v) = Word(d, v, 0) PROVE v <= frames[d].owned
      <4>1. CASE v < Len(save[d])
        <5>1. v + 1 \in 1 .. Len(save[d]) /\ save[d][v + 1] = Word(d, v, 0)
          BY <2>3, <3>1, <3>3, <4>1
        <5>2. Traced(Word(d, v, 0), (At(d) + ((v + 1) - 1)) % N, d)
          BY <1>1, <2>1, <5>1, Zenon DEF TracesOK
        <5>3. QED BY <5>2 DEF Traced, Word
      <4>2. CASE ~(v < Len(save[d]))
        <5>1. Dead = Word(d, v, 0)
          BY <3>1, <3>3, <4>2, Zenon
        <5>2. QED BY <5>1 DEF Dead, Word
      <4>3. QED BY <4>1, <4>2, Zenon
    <3>4. QED BY <3>2, <3>3, Zenon
  <2>6. Held(d, 0) = Word(d, 0, frames[d].inc)
    <3>1. \A L \in 1..3 : 0 < L
      OBVIOUS
    <3>2. 0 < Len(save[d])
      BY <2>3, <3>1, Zenon
    <3>3. 0 \in 0..3 /\ 0 + 1 = 1
      OBVIOUS
    <3>4. QED BY <2>2, <2>4, <3>2, <3>3, Zenon
  <2>7. QED BY <2>5, <2>6, Zenon
<1>5. QED BY <1>1, <1>3, <1>4

LEMMA SoundAt ==
  ASSUME NEW r \in Nat, InvAt(r)
  PROVE  WindowSound
<1>1. /\ Nesting \in Nat /\ Nesting \in 1 .. MaxDepth /\ StackOK /\ ControlOK /\ ChainOK(r)
      /\ HoldsOK(r) /\ r \in 1 .. Live /\ Live \in 1 .. Nesting /\ Live \in Nat
      /\ insn.op # "entry" => Live = Nesting
      /\ insn.op = "entry" => Live = Nesting - 1
  BY LiveFacts DEF InvAt, StackOK, ChainOK
<1>2. \A d \in 1 .. Nesting : Resident(d) <=> d \in r .. Live
  BY ResidentIs, Zenon
<1>3. \A d \in 1 .. Nesting : Place(d) = At(d) % N /\ Place(d) \in Unit
  BY PlaceIs, Zenon
<1>4. windowstart = {Place(d) : d \in {e \in 1 .. Nesting : Resident(e)}}
  <2>1. \A d : d \in r .. Live => d \in 1 .. Nesting
    BY <1>1
  <2>2. windowstart = {At(d) % N : d \in r .. Live}
    BY <1>1, Zenon DEF ChainOK
  <2>3. {e \in 1 .. Nesting : Resident(e)} = r .. Live
    BY <1>2, <2>1, Zenon
  <2>4. \A d \in r .. Live : Place(d) = At(d) % N
    BY <1>3, <2>1, Zenon
  <2>5. QED BY <2>2, <2>3, <2>4, Zenon
<1>5. WindowTypeOK
  <2>1. windowstart \subseteq Unit
    BY <1>3, <1>4, Zenon
  <2>2. \A u \in Unit : phys[u].frame \in 0 .. MaxDepth /\ phys[u].count \in 0..3
    BY <1>1, Zenon DEF HoldsOK, Words
  <2>3. DOMAIN phys = Unit
    BY <1>1, Zenon DEF HoldsOK
  <2>4. excm \in BOOLEAN
    <3>1. excm = (handler # "none" \/ illegal)
      BY <1>1, Zenon DEF ControlOK
    <3>2. QED BY <3>1, Zenon
  <2>5. QED BY <1>1, <2>1, <2>2, <2>3, <2>4, Zenon DEF WindowTypeOK, ControlOK
<1>6. ResidentChain
  <2>1. ASSUME NEW d \in 1 .. Nesting - 1, Resident(d)
        PROVE  Resident(d + 1) \/ ~Entered(d + 1)
    <3>1. d \in 1 .. Nesting /\ d + 1 \in 1 .. Nesting /\ d \in r .. Live
      BY <1>1, <1>2, <2>1
    <3>2. CASE insn.op # "entry"
      <4>1. d + 1 \in r .. Live
        BY <1>1, <3>1, <3>2
      <4>2. QED BY <1>2, <3>1, <4>1, Zenon
    <3>3. CASE insn.op = "entry"
      <4>1. d + 1 \in r .. Live \/ d + 1 = Nesting
        BY <1>1, <3>1, <3>3
      <4>2. d + 1 = Nesting => ~Entered(d + 1)
        BY <1>1, <3>3 DEF Entered
      <4>3. QED BY <1>2, <3>1, <4>1, <4>2, Zenon
    <3>4. QED BY <3>2, <3>3, Zenon
  <2>2. QED BY <1>4, <2>1, Zenon DEF ResidentChain
<1>7. FramesIntact
  <2>1. ASSUME NEW d \in 1 .. Nesting, NEW u \in 1 .. frames[d].owned
        PROVE  Held(d, u) = Word(d, u, 0)
    <3>1. frames[d].owned \in 0..3
      BY <1>1, FrameFacts, Zenon
    <3>2. u \in 1..3 /\ u <= frames[d].owned
      BY <3>1
    <3>3. QED BY <3>2, HeldOwn, Zenon
  <2>2. QED BY <2>1, HeldOwn, Zenon DEF FramesIntact
<1>8. SpillsOldest
  <2> SUFFICES ASSUME handler \in OF
               PROVE  \E d \in 1 .. Nesting - 1 :
                        /\ Resident(d) /\ (d > 1 => ~Resident(d - 1))
                        /\ windowbase = Place(d)
                        /\ Size(handler) = frames[d + 1].inc
    BY Zenon DEF SpillsOldest, OF
  <2>1. r < Live /\ windowbase = At(r) % N /\ Size(handler) = frames[r + 1].inc
    BY <1>1, Zenon DEF ChainOK
  <2>2. r \in 1 .. Nesting - 1 /\ r \in 1 .. Nesting /\ r \in r .. Live
    BY <1>1, <2>1
  <2>3. r > 1 => r - 1 \in 1 .. Nesting /\ r - 1 \notin r .. Live
    BY <1>1
  <2>4. QED BY <1>2, <1>3, <2>1, <2>2, <2>3, Zenon
<1>9. IllegalOnlyOutermost
  BY <1>1, Zenon DEF ControlOK, IllegalOnlyOutermost
<1>10. QED BY <1>5, <1>6, <1>7, <1>8, <1>9, Zenon DEF WindowSound

\* No program of calls, returns and register uses, whatever overflows and
\* underflows it meets, loses a register of any of its frames: WINDOWSTART
\* marks exactly the resident frames and these are the innermost, each
\* frame's registers are intact wherever they are, an overflow spills the
\* oldest resident frame through the vector of its size, and RETW is illegal
\* only in a frame nobody called.
THEOREM WindowIsSound == WindowSpec => []WindowSound
<1>1. WindowInit => WindowInv
  BY WindowInitInv, Zenon
<1>2. WindowInv => WindowSound
  BY SoundAt, Zenon DEF WindowInv
<1>3. QED BY <1>1, <1>2, WindowNextInv, PTL DEF WindowSpec

-----------------------------------------------------------------------------
(* The call stack the register file implements                             *)

\* The part of frames the call stack has.
View(f) == [d \in 1 .. Len(f) |-> [inc |-> f[d].inc, owned |-> f[d].owned]]

Entries == [inc : 0..3, owned : 0..3]

LEMMA ViewSeq ==
  ASSUME NEW f \in Seq(Frame)
  PROVE  /\ View(f) \in Seq(Entries) /\ Len(View(f)) = Len(f) /\ Len(f) \in Nat
         /\ \A d \in 1 .. Len(f) : View(f)[d] = [inc |-> f[d].inc, owned |-> f[d].owned]
<1>1. Len(f) \in Nat /\ \A d \in 1 .. Len(f) : f[d] \in Frame
  BY ElementOfSeq, LenProperties, Zenon
<1>2. View(f) \in [1 .. Len(f) -> Entries]
  BY <1>1, Zenon DEF View, Frame, Entries
<1>3. View(f) \in Seq(Entries) /\ Len(View(f)) = Len(f)
  BY <1>1, <1>2, FcnSeq, Zenon
<1>4. QED BY <1>1, <1>3, Zenon DEF View

\* What the registers and the save areas hold is the stack of frames.
LEMMA HeldFramesIs ==
  ASSUME NEW r \in Nat, InvAt(r)
  PROVE  HeldFrames = View(frames)
<1>1. ASSUME NEW d \in 1 .. Nesting
      PROVE  HeldFrame(d) = [inc |-> frames[d].inc, owned |-> frames[d].owned]
  <2> DEFINE o == frames[d].owned
             P(u) == /\ \A v \in 1..u : Held(d, v) = Word(d, v, 0)
                     /\ u < 3 => Held(d, u + 1) # Word(d, u + 1, 0)
  <2>1. Held(d, 0).count = frames[d].inc
    BY HeldOwn DEF Word
  <2>2. \A v \in 1..3 : Held(d, v) = Word(d, v, 0) <=> v <= o
    BY HeldOwn, Zenon
  <2>3. o \in 0..3
    BY FrameFacts, Zenon DEF InvAt
  <2> HIDE DEF o
  <2>4. P(o)
    <3>1. \A v \in 1 .. o : v \in 1..3 /\ v <= o
      BY <2>3
    <3>2. o < 3 => o + 1 \in 1..3 /\ ~(o + 1 <= o)
      BY <2>3
    <3>3. QED BY <2>2, <3>1, <3>2, Zenon
  <2>5. ASSUME NEW u \in 0..3, P(u) PROVE u = o
    <3>1. CASE u < o
      <4>1. u < 3 /\ u + 1 \in 1..3 /\ u + 1 <= o
        BY <2>3, <3>1
      <4>2. QED BY <2>2, <2>5, <4>1, Zenon
    <3>2. CASE o < u
      <4>1. u \in 1 .. u /\ u \in 1..3 /\ ~(u <= o)
        BY <2>3, <3>2
      <4>2. QED BY <2>2, <2>5, <4>1, Zenon
    <3>3. QED BY <2>3, <3>1, <3>2
  <2>6. (CHOOSE u \in 0..3 : P(u)) = o
    <3> HIDE DEF P
    <3>1. QED BY <2>3, <2>4, <2>5, Zenon
  <2>7. QED BY <2>1, <2>6, Zenon DEF HeldFrame, o
<1>2. QED BY <1>1, Zenon DEF HeldFrames, View, Nesting

LEMMA UseUses ==
  ASSUME NEW r \in Nat, InvAt(r), UseRegisters, HeldFrames' = View(frames')
  PROVE  Stack!Use
<1> DEFINE u == insn.u
           T == Nesting
           e == IF u > frames[T].owned THEN u ELSE frames[T].owned
           f == View(frames)
<1>1. /\ u \in Reach /\ u \in 0..3
      /\ frames' = [frames EXCEPT ![T].owned = e]
  BY Zenon DEF UseRegisters, InvAt, ControlOK
<1>2. /\ frames \in Seq(Frame) /\ T \in Nat /\ T \in 1 .. T /\ Len(frames) = T
      /\ frames[T].owned \in 0..3
  <2>1. StackOK /\ T \in Nat /\ T \in 1 .. T
    BY SMTT(60) DEF InvAt, StackOK
  <2>2. QED BY <2>1, FrameFacts, Zenon DEF StackOK, Nesting
<1>3. /\ f \in Seq(Entries) /\ Len(f) = T
      /\ \A d \in 1 .. T : f[d] = [inc |-> frames[d].inc, owned |-> frames[d].owned]
      /\ DOMAIN f = 1 .. T
  BY <1>2, ViewSeq, Zenon DEF View
<1>4. e = IF u > f[T].owned THEN u ELSE f[T].owned
  BY <1>2, <1>3
<1> HIDE DEF T
<1>5. /\ DOMAIN frames = 1 .. T
      /\ \A d \in 1 .. T : frames[d] \in Frame
  BY <1>2, ElementOfSeq, LenProperties, Zenon
<1>6. /\ Len(frames') = T
      /\ \A d \in 1 .. T : frames'[d].inc = frames[d].inc
                           /\ frames'[d].owned = IF d = T THEN e ELSE frames[d].owned
  <2>1. frames' = [frames EXCEPT ![T] = [frames[T] EXCEPT !.owned = e]]
    BY <1>1, Zenon
  <2>2. [frames[T] EXCEPT !.owned = e] \in Frame /\ T \in 1 .. Len(frames)
    BY <1>1, <1>2, <1>5 DEF Frame
  <2>3. /\ Len(frames') = Len(frames)
        /\ \A d \in 1 .. T : frames'[d] = IF d = T THEN [frames[T] EXCEPT !.owned = e] ELSE frames[d]
    BY <1>2, <2>1, <2>2, ExceptSeq
  <2>4. [frames[T] EXCEPT !.owned = e].owned = e
        /\ [frames[T] EXCEPT !.owned = e].inc = frames[T].inc
    BY <1>2, <1>5, Zenon DEF Frame
  <2>5. QED BY <1>2, <2>3, <2>4, Zenon
<1>7. View(frames') = [f EXCEPT ![T].owned = e]
  <2> HIDE DEF e
  <2>1. View(frames') = [d \in 1 .. T |-> [inc |-> frames[d].inc,
                                          owned |-> IF d = T THEN e ELSE frames[d].owned]]
    BY <1>6, Zenon DEF View
  <2>2. [f[T] EXCEPT !.owned = e] = [inc |-> frames[T].inc, owned |-> e]
    BY <1>2, <1>3
  <2>3. [f EXCEPT ![T].owned = e]
          = [d \in 1 .. T |-> IF d = T THEN [f[T] EXCEPT !.owned = e] ELSE f[d]]
    <3> HIDE DEF f
    <3>1. QED BY <1>2, <1>3, Zenon
  <2>4. \A d \in 1 .. T : [inc |-> frames[d].inc,
                           owned |-> IF d = T THEN e ELSE frames[d].owned]
                          = IF d = T THEN [f[T] EXCEPT !.owned = e] ELSE f[d]
    BY <1>3, <2>2, Zenon
  <2>5. QED BY <2>1, <2>3, <2>4, Zenon
<1>8. HeldFrames = f
  BY HeldFramesIs, Zenon
<1> HIDE DEF f, u
<1>9. HeldFrames' = [HeldFrames EXCEPT ![Len(HeldFrames)].owned =
                       IF u > @ THEN u ELSE @]
  BY <1>3, <1>4, <1>7, <1>8, Zenon
<1>10. QED BY <1>1, <1>9, Zenon DEF Stack!Use, Stack!Depth

LEMMA CallCalls ==
  ASSUME NEW r \in Nat, InvAt(r), CallN, HeldFrames' = View(frames')
  PROVE  Stack!Call
<1> DEFINE i == insn.u
           T == Nesting
           e == IF frames[T].owned < i THEN frames[T].owned ELSE i - 1
           f == View(frames)
           kept == [frames EXCEPT ![T].owned = e]
           new == [inc |-> i, owned |-> 0, at |-> frames[T].at + i]
<1>1. /\ i \in Inc /\ i \in 1..3 /\ T < MaxDepth
      /\ frames' = Append(kept, new)
  BY WindowAssumption, Zenon DEF CallN, InvAt, ControlOK
<1>2. /\ frames \in Seq(Frame) /\ T \in Nat /\ T \in 1 .. T /\ Len(frames) = T
      /\ frames[T].owned \in 0..3 /\ frames[T].at \in Nat
  <2>1. StackOK /\ T \in Nat /\ T \in 1 .. T
    BY DEF InvAt, StackOK
  <2>2. QED BY <2>1, FrameFacts, Zenon DEF StackOK, Nesting, At
<1>3. /\ f \in Seq(Entries) /\ Len(f) = T
      /\ \A d \in 1 .. T : f[d] = [inc |-> frames[d].inc, owned |-> frames[d].owned]
      /\ DOMAIN f = 1 .. T
  BY <1>2, ViewSeq, Zenon DEF View
<1>4. e = (IF f[T].owned < i THEN f[T].owned ELSE i - 1) /\ e \in 0..3
  BY <1>1, <1>2, <1>3
<1> HIDE DEF T, e
<1>5. \A d \in 1 .. T : frames[d] \in Frame
  BY <1>2, ElementOfSeq, LenProperties, Zenon
<1>6. /\ kept \in Seq(Frame) /\ Len(kept) = T
      /\ \A d \in 1 .. T : kept[d].inc = frames[d].inc
                           /\ kept[d].owned = IF d = T THEN e ELSE frames[d].owned
  <2>1. kept = [frames EXCEPT ![T] = [frames[T] EXCEPT !.owned = e]]
    BY <1>2, Zenon
  <2>2. [frames[T] EXCEPT !.owned = e] \in Frame /\ T \in 1 .. Len(frames)
    BY <1>2, <1>4, <1>5, ZenonT(60) DEF Frame
  <2> HIDE DEF kept
  <2>3. /\ kept \in Seq(Frame) /\ Len(kept) = Len(frames)
        /\ \A d \in 1 .. T : kept[d] = IF d = T THEN [frames[T] EXCEPT !.owned = e] ELSE frames[d]
    BY <1>2, <2>1, <2>2, ExceptSeq
  <2>4. [frames[T] EXCEPT !.owned = e].owned = e
        /\ [frames[T] EXCEPT !.owned = e].inc = frames[T].inc
    BY <1>2, <1>5, Zenon DEF Frame
  <2>5. QED BY <1>2, <2>3, <2>4, Zenon
<1> HIDE DEF kept
<1>7. new \in Frame /\ new.inc = i /\ new.owned = 0
  BY <1>1, <1>2 DEF Frame
<1> HIDE DEF new
<1>8. /\ frames' \in Seq(Frame) /\ Len(frames') = T + 1
      /\ \A d \in 1 .. T : frames'[d] = kept[d]
      /\ frames'[T + 1] = new
  BY <1>1, <1>6, <1>7, AppendProperties
<1> DEFINE g == [f EXCEPT ![T].owned = e]
           h == Append(g, [inc |-> i, owned |-> 0])
<1>9. /\ g \in Seq(Entries) /\ Len(g) = T
      /\ \A d \in 1 .. T : g[d] = [inc |-> frames[d].inc,
                                   owned |-> IF d = T THEN e ELSE frames[d].owned]
  <2> HIDE DEF f
  <2>1. g = [f EXCEPT ![T] = [f[T] EXCEPT !.owned = e]]
    BY <1>2, Zenon
  <2>2. [f[T] EXCEPT !.owned = e] = [inc |-> frames[T].inc, owned |-> e]
    BY <1>2, <1>3
  <2>3. [inc |-> frames[T].inc, owned |-> e] \in Entries
    BY <1>2, <1>4, <1>5, Zenon DEF Entries, Frame
  <2> HIDE DEF g
  <2>4. /\ g \in Seq(Entries) /\ Len(g) = Len(f)
        /\ \A d \in 1 .. T : g[d] = IF d = T THEN [f[T] EXCEPT !.owned = e] ELSE f[d]
    BY <1>2, <1>3, <2>1, <2>2, <2>3, ExceptSeq
  <2>5. QED BY <1>2, <1>3, <2>2, <2>4, Zenon
<1> HIDE DEF g
<1>10. /\ h \in Seq(Entries) /\ Len(h) = T + 1
       /\ \A d \in 1 .. T : h[d] = g[d]
       /\ h[T + 1] = [inc |-> i, owned |-> 0]
  <2>1. [inc |-> i, owned |-> 0] \in Entries
    BY <1>1 DEF Entries
  <2>2. QED BY <1>9, <2>1, AppendProperties
<1> HIDE DEF h
<1>11. View(frames') = h
  <2>1. /\ View(frames') \in Seq(Entries) /\ Len(View(frames')) = T + 1
        /\ \A d \in 1 .. T + 1 : View(frames')[d] = [inc |-> frames'[d].inc,
                                                    owned |-> frames'[d].owned]
    BY <1>8, ViewSeq, Zenon
  <2>2. ASSUME NEW d \in 1 .. T + 1 PROVE View(frames')[d] = h[d]
    <3>1. CASE d = T + 1
      BY <1>7, <1>8, <1>10, <2>1, <3>1
    <3>2. CASE d \in 1 .. T
      <4>1. View(frames')[d] = [inc |-> frames'[d].inc, owned |-> frames'[d].owned]
        BY <2>1, Zenon
      <4>2. h[d] = [inc |-> frames[d].inc, owned |-> IF d = T THEN e ELSE frames[d].owned]
        BY <1>9, <1>10, <3>2, Zenon
      <4>3. QED BY <1>6, <1>8, <3>2, <4>1, <4>2
    <3>3. QED BY <1>2, <3>1, <3>2
  <2>3. QED BY <1>10, <2>1, <2>2, SeqEqual, Zenon
<1>12. HeldFrames = f
  BY HeldFramesIs, Zenon
<1> HIDE DEF f, i
<1>13. HeldFrames' = Append([HeldFrames EXCEPT ![Len(HeldFrames)].owned =
                               IF @ < i THEN @ ELSE i - 1],
                            [inc |-> i, owned |-> 0])
  <2>1. [HeldFrames EXCEPT ![Len(HeldFrames)].owned = IF @ < i THEN @ ELSE i - 1] = g
    BY <1>3, <1>4, <1>12, Zenon DEF g
  <2>2. QED BY <1>11, <2>1, Zenon DEF h
<1>14. Len(HeldFrames) < MaxDepth
  BY <1>1, <1>3, <1>12, Zenon
<1>15. QED BY <1>1, <1>13, <1>14, Zenon DEF Stack!Call, Stack!Depth

LEMMA RetwReturns ==
  ASSUME NEW r \in Nat, InvAt(r), Retw, HeldFrames' = View(frames')
  PROVE  Stack!Return
<1> DEFINE T == Nesting
           f == View(frames)
           g == SubSeq(f, 1, T - 1)
<1>1. T > 1 /\ frames' = SubSeq(frames, 1, T - 1)
  <2>1. Executing /\ insn.op = "retw" /\ RetwLegal /\ frames' = SubSeq(frames, 1, Nesting - 1)
    BY Zenon DEF Retw
  <2>2. QED BY <2>1, RetwFacts, Zenon
<1>2. frames \in Seq(Frame) /\ T \in Nat /\ Len(frames) = T
  BY DEF InvAt, StackOK, Nesting
<1>3. /\ f \in Seq(Entries) /\ Len(f) = T
      /\ \A d \in 1 .. T : f[d] = [inc |-> frames[d].inc, owned |-> frames[d].owned]
  BY <1>2, ViewSeq, Zenon
<1> HIDE DEF T, f
<1>4. /\ \A d \in 1 .. T - 1 : d \in 1 .. T /\ 1 + d - 1 = d
      /\ 1 \in Int /\ T - 1 \in Int /\ T - 1 - 1 + 1 = T - 1 /\ 1 <= T - 1 /\ T - 1 \in Nat
  BY <1>1, <1>2
<1>5. /\ frames' \in Seq(Frame) /\ Len(frames') = T - 1
      /\ \A d \in 1 .. T - 1 : frames'[d] = frames[d]
  <2>1. \A d \in 1 .. T - 1 : frames[d] \in Frame
    BY <1>2, <1>4, ElementOfSeq, Zenon
  <2>2. QED BY <1>1, <1>4, <2>1, SubSeqProperties
<1>6. /\ g \in Seq(Entries) /\ Len(g) = T - 1
      /\ \A d \in 1 .. T - 1 : g[d] = f[d]
  <2>1. \A d \in 1 .. T - 1 : f[d] \in Entries
    BY <1>3, <1>4, ElementOfSeq, Zenon
  <2>2. QED BY <1>4, <2>1, SubSeqProperties
<1> HIDE DEF g
<1>7. View(frames') = g
  <2>1. /\ View(frames') \in Seq(Entries) /\ Len(View(frames')) = T - 1
        /\ \A d \in 1 .. T - 1 : View(frames')[d] = [inc |-> frames'[d].inc,
                                                    owned |-> frames'[d].owned]
    BY <1>5, ViewSeq, Zenon
  <2>2. \A d \in 1 .. T - 1 : View(frames')[d] = g[d]
    BY <1>3, <1>4, <1>5, <1>6, <2>1, ZenonT(60)
  <2>3. QED BY <1>6, <2>1, <2>2, SeqEqual, Zenon
<1>8. HeldFrames = f
  BY HeldFramesIs, Zenon DEF f
<1>9. QED BY <1>1, <1>3, <1>7, <1>8, Zenon DEF Stack!Return, Stack!Depth, g

LEMMA HeldFramesInv == WindowInv => HeldFrames = View(frames)
BY HeldFramesIs, Zenon DEF WindowInv

LEMMA StepIsStackStep ==
  WindowInv /\ WindowInv' /\ [WindowNext]_windowVars => [Stack!Next]_HeldFrames
<1> SUFFICES ASSUME NEW r \in Nat, InvAt(r), WindowInv', [WindowNext]_windowVars
             PROVE  [Stack!Next]_HeldFrames
  BY Zenon DEF WindowInv
<1>1. HeldFrames = View(frames)
  BY HeldFramesIs, Zenon
<1>2. HeldFrames' = View(frames')
  <2>1. (WindowInv => HeldFrames = View(frames))'
    BY HeldFramesInv, PTL
  <2>2. QED BY <2>1, Zenon DEF View
<1>3. CASE UseRegisters
  BY <1>2, <1>3, UseUses, Zenon DEF Stack!Next
<1>4. CASE CallN
  BY <1>2, <1>4, CallCalls, Zenon DEF Stack!Next
<1>5. CASE Retw
  BY <1>2, <1>5, RetwReturns, Zenon DEF Stack!Next
<1>6. ASSUME UNCHANGED frames PROVE [Stack!Next]_HeldFrames
  <2>1. View(frames') = View(frames)
    BY <1>6, Zenon
  <2>2. QED BY <1>1, <1>2, <2>1, Zenon
<1>7. CASE Fetch \/ Overflow \/ Entry \/ RetwIllegal \/ RetwUnderflow \/ Rfwo \/ Rfwu
           \/ Panic \/ UNCHANGED windowVars
  <2>1. UNCHANGED frames
    BY <1>7, Zenon DEF Fetch, Overflow, WindowOverflow, Entry, RetwIllegal, RetwUnderflow,
                WindowUnderflow, Rfwo, Rfwu, ReturnFromWindow, Panic, windowVars
  <2>2. QED BY <1>6, <2>1, Zenon
<1>8. QED
  BY <1>3, <1>4, <1>5, <1>7, Zenon DEF WindowNext, WindowStep

LEMMA InitIsStackInit ==
  ASSUME WindowInit
  PROVE  Stack!Init
<1> DEFINE z == [inc |-> 0, owned |-> 0, at |-> 0]
<1>1. HeldFrames = View(frames)
  BY WindowInitInv, HeldFramesIs, Zenon DEF WindowInv
<1>2. frames = <<z>> /\ Len(frames) = 1 /\ frames[1] = z
  BY Zenon DEF WindowInit
<1>3. View(frames) = [d \in 1..1 |-> [inc |-> 0, owned |-> 0]]
  BY <1>2 DEF View
<1>4. [d \in 1..1 |-> [inc |-> 0, owned |-> 0]] = <<[inc |-> 0, owned |-> 0]>>
  OBVIOUS
<1>5. QED BY <1>1, <1>3, <1>4, Zenon DEF Stack!Init

\* The register file, with the spill and fill handlers, implements a call
\* stack: what each frame holds, in registers or in its save area, changes
\* only when the program itself writes a register, calls or returns, and
\* then as the windowed ABI promises.
THEOREM WindowRefinesCallStack == WindowSpec => RefinesCallStack
<1>1. WindowInit => WindowInv /\ Stack!Init
  BY WindowInitInv, InitIsStackInit, Zenon
<1>2. QED
  BY <1>1, WindowNextInv, StepIsStackStep, PTL
  DEF WindowSpec, RefinesCallStack, Stack!Spec
=============================================================================
