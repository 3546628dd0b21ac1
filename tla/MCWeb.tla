------------------------------- MODULE MCWeb -------------------------------
(* The web page: the shared ring, and the messages between UI and worker.  *)
(* They share no variable, so a behaviour drives one of them, named by     *)
(* part, and the other rests.                                              *)
(*                                                                         *)
(* A ring of four slots, reads of at most two bytes and chunks of up to    *)
(* three wrap and fill it.  Four messages under way let a reset, a stop    *)
(* and a run, or two switches of the transport, cross the worker's         *)
(* answers; that bound is a guard of the user's actions.                   *)
EXTENDS SabRing, UiWorker

VARIABLE part

all == <<part, vars, uiVars>>

WebInit == part \in {"ring", "ui"} /\ Init /\ UiInit

RingStep == part = "ring" /\ Next /\ UNCHANGED <<part, uiVars>>
UiStep == part = "ui" /\ UiNext /\ UNCHANGED <<part, vars>>

WebNext == RingStep \/ UiStep

\* The worker finishes a write and the UI a read it has begun; both event
\* loops handle the messages that have arrived; the user owes nothing.
WebFairness ==
  /\ WF_vars(part = "ring" /\ Write)
  /\ WF_vars(part = "ring" /\ Read)
  /\ WF_uiVars(part = "ui" /\ OnMessage)
  /\ WF_uiVars(part = "ui" /\ OnWorkerMessage)

WebSpec == WebInit /\ [][WebNext]_all /\ WebFairness
=============================================================================
