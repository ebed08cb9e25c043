------------------------------ MODULE BotWire ------------------------------
(***************************************************************************)
(* What the bulk-only transport promises the host, seen from the cable: a  *)
(* command is taken, its data moves, and it ends with exactly one status   *)
(* that tells the truth about it, or the host resets the device.           *)
(***************************************************************************)
EXTENDS BotCases

CONSTANT Commands   \* [op, dir, len, dev]: what the host asks and what the command needs

VARIABLE wire   \* [at, cmd, moved, failed, status]

Statuses == {"GOOD", "ERROR", "PHASE"}
Quiet == [at |-> "idle", cmd |-> NoCommand, moved |-> 0, failed |-> FALSE, status |-> "none"]

\* Cases the host must hear of as a phase error; 7 only if the command
\* cannot be cut short.
PhaseError(cmd) == Case(cmd) \in {2, 3, 8, 10, 13} \/ (Case(cmd) = 7 /\ cmd.op = "READ")

\* The data a command moves when it succeeds.
Expected(cmd) == IF cmd.len < cmd.dev THEN cmd.len ELSE cmd.dev

\* A status tells the truth about the command in progress.
Truthful(w, status) ==
  /\ status \in Statuses
  /\ status = "GOOD" => ~w.failed /\ ~PhaseError(w.cmd) /\ w.moved >= Expected(w.cmd)
  /\ status = "PHASE" => PhaseError(w.cmd)

Take == /\ wire.at = "idle"
        /\ \E c \in Commands : wire' = [Quiet EXCEPT !.at = "busy", !.cmd = c]
Move == /\ wire.at = "busy" /\ wire.moved < wire.cmd.len
        /\ \E n \in wire.moved + 1..wire.cmd.len : wire' = [wire EXCEPT !.moved = n]
Fail == /\ wire.at = "busy"
        /\ wire' = [wire EXCEPT !.failed = TRUE]
Answer == /\ wire.at = "busy"
          /\ \E s \in Statuses : Truthful(wire, s) /\ wire' = [Quiet EXCEPT !.status = s]
Reset == wire' = Quiet

Init == wire = Quiet
Next == Take \/ Move \/ Fail \/ Answer \/ Reset
Spec == Init /\ [][Next]_wire
=============================================================================
