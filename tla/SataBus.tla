------------------------------ MODULE SataBus ------------------------------
(***************************************************************************)
(* What the bridge owes the drive (Serial ATA, as the comments and states  *)
(* of sata.c use it): queued commands (FPDMA) may be outstanding together, *)
(* a command that is not queued must have the drive to itself, and a tag   *)
(* is not issued again while the drive holds it.  After an error the drive *)
(* is halted: it then takes the one command that reads the error log.      *)
(***************************************************************************)
EXTENDS Naturals

CONSTANTS Tags

VARIABLES
  queued,   \* tags of the queued commands the drive holds
  legacy,   \* tags of the others
  halted    \* the drive has reported an error and not given its log

busVars == <<queued, legacy, halted>>

BusInit == queued = {} /\ legacy = {} /\ halted = FALSE

IssueQueued(t) ==
  /\ t \notin queued /\ legacy = {}
  /\ queued' = queued \cup {t}
  /\ UNCHANGED <<legacy, halted>>

IssueLegacy(t) ==
  /\ t \notin queued /\ legacy = {} /\ (halted \/ queued = {})
  /\ legacy' = {t}
  /\ UNCHANGED <<queued, halted>>

\* The drive completes some commands and may start its next state at once:
\* the bridge hands over a waiting command in the same step it sees the end
\* of another.
CompleteQueued(S) ==
  /\ S # {} /\ S \subseteq queued
  /\ queued' = queued \ S
  /\ halted' \in BOOLEAN
  /\ UNCHANGED legacy

CompleteLegacy ==
  /\ legacy # {}
  /\ legacy' = {}
  /\ halted' \in BOOLEAN
  /\ UNCHANGED queued

Halt == ~halted /\ queued # {} /\ halted' = TRUE /\ UNCHANGED <<queued, legacy>>

Reset == queued' = {} /\ legacy' = {} /\ halted' = FALSE

BusNext ==
  \/ \E t \in Tags : IssueQueued(t) \/ IssueLegacy(t)
  \/ \E S \in SUBSET Tags : CompleteQueued(S)
  \/ CompleteLegacy \/ Halt \/ Reset

BusSpec == BusInit /\ [][BusNext]_busVars
=============================================================================
