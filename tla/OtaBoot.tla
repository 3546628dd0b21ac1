------------------------------- MODULE OtaBoot -------------------------------
(***************************************************************************)
(* Which app the machine boots (select_ota_boot_offset of partition.rs)    *)
(* when a reset (reset of machine.rs) meets a firmware update at any       *)
(* moment of its erase and program operations.                             *)
(*                                                                         *)
(* Of the flash only the two otadata sectors are kept, each with the entry *)
(* the driver writes; it leaves the one at +32 erased.  The driver is      *)
(* firmware, modelled from the entry layout and the update trace that      *)
(* partition.rs records.                                                   *)
(***************************************************************************)
EXTENDS Integers, FiniteSetsExt

CONSTANTS
  OtaCount,   \* the OTA app partitions of the table
  MaxSeq      \* bound: the highest ota_seq an update writes

OTA_SEQ_ERASED == MaxSeq + 1    \* 0xFFFFFFFF, above every sequence number

ASSUME OtaAssumption == OtaCount \in Nat \ {0} /\ MaxSeq \in Nat \ {0}

VARIABLES
  live,      \* otadata in the SoC's flash, by sector
  image,     \* otadata in the image the machine boots from
  job,       \* the update under way: [step, sector, seq]
  running,   \* the slot booted, or Factory
  chosen     \* history: the slot the last completed operation selects

otaVars == <<live, image, job, running, chosen>>

Factory == -1
Erased == [seq |-> OTA_SEQ_ERASED, state |-> "undefined", crc |-> FALSE]
NoJob == [step |-> "none", sector |-> 0, seq |-> 0]

OtaInit ==
  /\ live = [s \in {0, 1} |-> Erased] /\ image = live
  /\ job = NoJob /\ running = Factory /\ chosen = Factory

-----------------------------------------------------------------------------

\* Mutant: the CRC is not looked at.
ValidNoCrc(e) == e.seq # OTA_SEQ_ERASED /\ e.state \notin {"invalid", "aborted"}

Valid(e) == e.seq # OTA_SEQ_ERASED /\ e.state \notin {"invalid", "aborted"} /\ e.crc

\* select_ota_boot_offset, as the slot and not its offset.
Select(otadata) ==
  LET seqs == {otadata[s].seq : s \in {x \in {0, 1} : Valid(otadata[x])}}
  IN  IF seqs = {} THEN Factory ELSE (Max(seqs) - 1) % OtaCount

\* A reset, at any moment, boots from a snapshot of the live flash.
Reset ==
  /\ image' = live
  /\ running' = Select(image')
  /\ job' = NoJob /\ UNCHANGED <<live, chosen>>

-----------------------------------------------------------------------------
(* External: the OTA driver                                                *)

\* The sector of the entry in force, and the other one, which is rewritten.
InForce ==
  IF Valid(live[1]) /\ (Valid(live[0]) => live[1].seq > live[0].seq) THEN 1 ELSE 0

Spare == IF Valid(live[InForce]) THEN 1 - InForce ELSE 0

\* esp_ota_set_boot_partition: erase the spare sector ...
Update ==
  /\ job = NoJob
  /\ LET now == IF Valid(live[InForce]) THEN live[InForce].seq ELSE 0
     IN  \E seq \in now + 1 .. Min({now + OtaCount, MaxSeq}) :
           job' = [step |-> "program", sector |-> Spare, seq |-> seq]
  /\ live' = [live EXCEPT ![Spare] = Erased]
  /\ UNCHANGED <<image, running, chosen>>

\* ... program the entry, its CRC last.
Program ==
  /\ job.step = "program"
  /\ live' = [live EXCEPT ![job.sector].seq = job.seq, ![job.sector].state = "new"]
  /\ job' = [job EXCEPT !.step = "crc"]
  /\ UNCHANGED <<image, running, chosen>>

ProgramCrc ==
  /\ job.step = "crc"
  /\ live' = [live EXCEPT ![job.sector].crc = TRUE]
  /\ job' = NoJob
  /\ chosen' = (job.seq - 1) % OtaCount
  /\ UNCHANGED <<image, running>>

\* esp_ota_mark_app_invalid_rollback: the entry in force is marked, and the
\* one before it counts again.
Rollback ==
  /\ job = NoJob /\ Valid(live[0]) /\ Valid(live[1])
  /\ \E st \in {"invalid", "aborted"} : live' = [live EXCEPT ![InForce].state = st]
  /\ chosen' = (live[1 - InForce].seq - 1) % OtaCount
  /\ UNCHANGED <<image, job, running>>

OtaNext == Reset \/ Update \/ Program \/ ProgramCrc \/ Rollback

-----------------------------------------------------------------------------
(* Properties                                                              *)

\* The entries, the job and the slots are well-formed.
OtaTypeOK ==
  /\ {live, image} \subseteq [{0, 1} -> [seq : 1 .. OTA_SEQ_ERASED,
                                         state : {"undefined", "new", "invalid", "aborted"},
                                         crc : BOOLEAN]]
  /\ job \in [step : {"none", "program", "crc"}, sector : {0, 1}, seq : 0 .. MaxSeq]
  /\ {running, chosen} \subseteq {Factory} \union (0 .. OtaCount - 1)

\* A reset boots what the last completed update or rollback selected, also
\* when it cuts one off between erasing, programming and the CRC, and however
\* many updates were made since the image was loaded.
BootsChosen == [][Reset => running' = chosen]_otaVars
=============================================================================
