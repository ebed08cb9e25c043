------------------------------ MODULE BotCases ------------------------------
(***************************************************************************)
(* A command of the bulk-only transport: what the host asks for, dir and   *)
(* len in its wrapper, against what the command moves, dev; and the        *)
(* thirteen cases these can fall in, which the USB controller works out.   *)
(***************************************************************************)
EXTENDS Integers

NoCommand == [op |-> "NONE", dir |-> "in", len |-> 0, dev |-> 0]

\* Which way the command itself moves data.
DeviceDir(cmd) == IF cmd.dev = 0 THEN "none" ELSE IF cmd.op \in {"READ", "INQ"} THEN "in" ELSE "out"

\* Which way the host asks for it to be moved.
HostDir(cmd) == IF cmd.len = 0 THEN "none" ELSE cmd.dir

Case(cmd) ==
  LET dev == DeviceDir(cmd)
      host == HostDir(cmd)
      fit(more, same, less) == IF cmd.len > cmd.dev THEN more ELSE IF cmd.len = cmd.dev THEN same ELSE less
  IN CASE dev = "none" -> IF host = "none" THEN 1 ELSE IF host = "in" THEN 4 ELSE 9
       [] dev = "in" -> IF host = "none" THEN 2 ELSE IF host = "in" THEN fit(5, 6, 7) ELSE 10
       [] dev = "out" -> IF host = "none" THEN 3 ELSE IF host = "in" THEN 8 ELSE fit(11, 12, 13)
=============================================================================
