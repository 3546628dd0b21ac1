------------------------------ MODULE UiWorker ------------------------------
(***************************************************************************)
(* The UI thread (web/main.js) and the emulation worker (emu-worker.js):   *)
(* each sends the other messages, delivered in order, and each keeps its   *)
(* own idea of whether the machine runs and which shared ring carries its  *)
(* output.  Modelled from the moment the worker has reported ready.        *)
(***************************************************************************)
EXTENDS Naturals, Sequences

CONSTANTS
  MaxSent,   \* bound: messages under way, answers included
  MaxRing,   \* bound: rings created
  Hasty      \* the transport is switched again before the worker's answer

ASSUME UiAssumption ==
  MaxSent \in Nat \ {0} /\ MaxRing \in Nat \ {0} /\ Hasty \in BOOLEAN

None == 0    \* no ring: postMessage carries the output

VARIABLES
  workerLoaded, workerRunning, sabRings, engineMode,  \* main.js
  runOn, stopOn,   \* the Run and Stop buttons are enabled
  made,        \* rings created so far
  emu, running, rings, engine,                        \* emu-worker.js
  toWorker, toUi                                      \* message queues

ui == <<workerLoaded, workerRunning, sabRings, engineMode, runOn, stopOn, made>>
worker == <<emu, running, rings, engine>>
uiVars == <<ui, worker, toWorker, toUi>>

UiInit ==
  /\ workerLoaded = FALSE /\ workerRunning = FALSE /\ sabRings = None
  /\ engineMode = "single" /\ runOn = FALSE /\ stopOn = FALSE /\ made = 0
  /\ emu = FALSE /\ running = FALSE /\ rings = None /\ engine = "single"
  /\ toWorker = <<>> /\ toUi = <<>>

-----------------------------------------------------------------------------
(* UI thread: the user's actions                                           *)

Post(ms) ==
  /\ Len(toWorker) + Len(toUi) + Len(ms) <= MaxSent
  /\ toWorker' = toWorker \o ms

Msg(c, a) == [cmd |-> c, arg |-> a]

ClickRun ==
  /\ runOn /\ workerLoaded
  /\ runOn' = FALSE /\ stopOn' = TRUE /\ workerRunning' = TRUE
  /\ IF workerRunning THEN UNCHANGED toWorker ELSE Post(<<Msg("run", None)>>)
  /\ UNCHANGED <<workerLoaded, sabRings, engineMode, made, worker, toUi>>

ClickStop ==
  /\ stopOn
  /\ Post(<<Msg("stop", None)>>)
  /\ workerRunning' = FALSE /\ runOn' = TRUE /\ stopOn' = FALSE
  /\ UNCHANGED <<workerLoaded, sabRings, engineMode, made, worker, toUi>>

ClickReset ==
  /\ workerLoaded
  /\ Post(<<Msg("reset", None)>>)
  /\ UNCHANGED <<ui, worker, toUi>>

\* loadFlash: stopLoop, then the image; Run stays disabled until it is loaded.
LoadFlash ==
  /\ Post(<<Msg("stop", None), Msg("load", None)>>)
  /\ workerRunning' = FALSE /\ runOn' = FALSE /\ stopOn' = FALSE
  /\ UNCHANGED <<workerLoaded, sabRings, engineMode, made, worker, toUi>>

SelectEngine ==
  /\ engineMode' = IF engineMode = "single" THEN "dual" ELSE "single"
  /\ Post(<<Msg("engine", engineMode')>>)
  /\ UNCHANGED <<workerLoaded, workerRunning, sabRings, runOn, stopOn, made, worker, toUi>>

Switching ==
  \/ \E i \in 1 .. Len(toWorker) : toWorker[i].cmd = "transport"
  \/ \E i \in 1 .. Len(toUi) : toUi[i].type = "transport"

\* applyTransportSelection: a new ring, or none.
SelectTransport ==
  /\ Hasty \/ ~Switching
  /\ \/ /\ made < MaxRing /\ made' = made + 1
        /\ sabRings' = made + 1
     \/ sabRings' = None /\ UNCHANGED made
  /\ Post(<<Msg("transport", sabRings')>>)
  /\ UNCHANGED <<workerLoaded, workerRunning, engineMode, runOn, stopOn, worker, toUi>>

-----------------------------------------------------------------------------
(* Worker: onmessage                                                       *)

Receive(c) == toWorker # <<>> /\ toWorker[1].cmd = c /\ toWorker' = Tail(toWorker)

Reply(t, v) == toUi' = Append(toUi, [type |-> t, on |-> v])

\* Mutant: the loop is not stopped for the new machine.
DoLoadKeepsLoop == emu' = TRUE /\ Reply("loaded", FALSE) /\ UNCHANGED <<running, rings>>

\* doLoad: stops the loop and builds a new machine.
DoLoad == emu' = TRUE /\ running' = FALSE /\ Reply("loaded", FALSE) /\ UNCHANGED rings

OnLoad == Receive("load") /\ DoLoad /\ UNCHANGED <<ui, engine>>

OnRun ==
  /\ Receive("run") /\ running' = emu /\ Reply("running", TRUE)
  /\ UNCHANGED <<ui, emu, rings, engine>>

\* Mutant: a stop that finds the loop running is put off until it is not.
OnStopDeferred ==
  \/ /\ Receive("stop") /\ ~running /\ Reply("running", FALSE)
     /\ UNCHANGED <<ui, worker>>
  \/ /\ toWorker # <<>> /\ toWorker[1].cmd = "stop" /\ running
     /\ toWorker' = Append(Tail(toWorker), toWorker[1])
     /\ UNCHANGED <<ui, worker, toUi>>

OnStop ==
  /\ Receive("stop") /\ running' = FALSE /\ Reply("running", FALSE)
  /\ UNCHANGED <<ui, emu, rings, engine>>

\* Reload the retained image, if there is one.
Reload == IF emu THEN DoLoad ELSE UNCHANGED <<emu, running, rings, toUi>>

OnReset == Receive("reset") /\ Reload /\ UNCHANGED <<ui, engine>>

OnEngine ==
  /\ Receive("engine")
  /\ engine' = toWorker[1].arg
  /\ IF engine' # engine THEN Reload ELSE UNCHANGED <<emu, running, rings, toUi>>
  /\ UNCHANGED ui

OnTransport ==
  /\ Receive("transport")
  /\ rings' = toWorker[1].arg
  /\ Reply("transport", toWorker[1].arg # None)
  /\ UNCHANGED <<ui, emu, running, engine>>

-----------------------------------------------------------------------------
(* UI thread: onWorkerMessage                                              *)

Heard(t) == toUi # <<>> /\ toUi[1].type = t /\ toUi' = Tail(toUi)

HearLoaded ==
  /\ Heard("loaded")
  /\ workerLoaded' = TRUE /\ workerRunning' = FALSE /\ runOn' = TRUE /\ stopOn' = FALSE
  /\ UNCHANGED <<sabRings, engineMode, made, worker, toWorker>>

HearRunning ==
  /\ Heard("running") /\ workerRunning' = toUi[1].on
  /\ UNCHANGED <<workerLoaded, sabRings, engineMode, runOn, stopOn, made, worker, toWorker>>

HearTransport ==
  /\ Heard("transport") /\ sabRings' = IF toUi[1].on THEN sabRings ELSE None
  /\ UNCHANGED <<workerLoaded, workerRunning, engineMode, runOn, stopOn, made, worker, toWorker>>

-----------------------------------------------------------------------------

OnMessage == OnLoad \/ OnRun \/ OnStop \/ OnReset \/ OnEngine \/ OnTransport
OnWorkerMessage == HearLoaded \/ HearRunning \/ HearTransport

UiNext ==
  \/ ClickRun \/ ClickStop \/ ClickReset \/ LoadFlash \/ SelectEngine \/ SelectTransport
  \/ OnMessage \/ OnWorkerMessage

UiSpec == UiInit /\ [][UiNext]_uiVars

-----------------------------------------------------------------------------
(* Properties                                                              *)

Quiet == toWorker = <<>> /\ toUi = <<>>

\* Rings are ones the UI made, only a machine that exists runs, and the UI
\* takes a machine for loaded only when the worker has one.
UiTypeOK ==
  /\ sabRings \in 0 .. made /\ rings \in 0 .. made /\ made \in 0 .. MaxRing
  /\ running => emu
  /\ workerLoaded => emu

\* Once every message has arrived the UI and the worker agree on whether the
\* machine runs, however run, stop, reset, load and engine changes crossed.
RunAgrees == Quiet => workerRunning = running

\* Once every message has arrived both use the same ring.  In a UI without
\* it the machine's output goes to a ring that nobody reads.
TransportAgrees == Quiet => sabRings = rings

\* A disagreement about running does not last, even while messages go on.
Settles == (workerRunning # running) ~> (workerRunning = running)

\* Whatever crossed on the way, the UI knows the machine's state once all
\* messages have arrived: whether it exists, whether it runs, and on which
\* ring it writes.
UiSound == UiTypeOK /\ RunAgrees /\ TransportAgrees
=============================================================================
