------------------------------- MODULE MCUsb --------------------------------
(***************************************************************************)
(* Instances of UsbBot for TLC: a command of each kind, in every case of   *)
(* the bulk-only transport that it can be in.                              *)
(***************************************************************************)
EXTENDS UsbInvariant

Cmd(op, dir, len, dev) == [op |-> op, dir |-> dir, len |-> len, dev |-> dev]
Moving(op) == {Cmd(op, "in", len, 1) : len \in 0..2} \cup {Cmd(op, "out", len, 1) : len \in 1..2}
Small == {Cmd("VERIFY", "in", 0, 0), Cmd("VERIFY", "out", 1, 0),
          Cmd("TUR", "in", 0, 0), Cmd("TUR", "in", 1, 0),
          Cmd("START", "in", 0, 0), Cmd("STOP", "in", 0, 0),
          Cmd("REFUSED", "in", 1, 0), Cmd("BAD", "in", 0, 0)}

MCCommands ==
  Small \cup Moving("INQ") \cup Moving("SEL")
  \cup {Cmd(op, dir, 1, 0) : op \in {"READ", "WRITE"}, dir \in {"in", "out"}}
  \cup {Cmd("READ", "in", len, 2) : len \in 0..2} \cup {Cmd("READ", "in", 2, 1), Cmd("READ", "out", 1, 1)}
  \cup {Cmd("WRITE", "out", len, 2) : len \in 0..2} \cup {Cmd("WRITE", "out", 2, 1), Cmd("WRITE", "in", 1, 1)}
=============================================================================
