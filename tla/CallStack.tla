----------------------------- MODULE CallStack -----------------------------
(***************************************************************************)
(* What the windowed ABI promises compiled code: an unbounded stack of     *)
(* frames, each with its own registers.  A frame that calls keeps its      *)
(* first inc units of registers (four registers each) across the call,     *)
(* whatever its callees do.                                                *)
(***************************************************************************)
EXTENDS Naturals, Sequences

CONSTANTS
  Inc,       \* the window increments of CALL4, CALL8 and CALL12, in units
  Reach,     \* the highest register units an instruction names
  MaxDepth   \* bound: the deepest call

VARIABLES
  frames     \* outermost first; a frame is [inc, owned]: the increment it was
             \* called with and the highest unit whose contents are still its own

Depth == Len(frames)

Top == frames[Depth]

Init == frames = <<[inc |-> 0, owned |-> 0]>>

\* The current frame writes its registers up to those of unit u.
Use ==
  \E u \in Reach :
    frames' = [frames EXCEPT ![Depth].owned = IF u > @ THEN u ELSE @]

\* Registers of the caller from unit i on become the callee's.
Call ==
  /\ Depth < MaxDepth
  /\ \E i \in Inc :
       frames' = Append([frames EXCEPT ![Depth].owned = IF @ < i THEN @ ELSE i - 1],
                        [inc |-> i, owned |-> 0])

Return ==
  /\ Depth > 1
  /\ frames' = SubSeq(frames, 1, Depth - 1)

Next == Use \/ Call \/ Return

Spec == Init /\ [][Next]_frames
=============================================================================
