-------------------------------- MODULE Dbuf --------------------------------
(***************************************************************************)
(* The data buffers of the bridge (dbuf.c, dbuf_obj.c): two banks of five  *)
(* segments, TX towards the host and RX from it.  A segment joins the port *)
(* that fills it to the port that empties it; the firmware keeps a busy    *)
(* mark per segment.  A buffer index names a use of the segments: what is  *)
(* moved, for which drive, with or without the AES engine, and whether the *)
(* second set of segments of the UAS transport is meant.                   *)
(*                                                                         *)
(* Sizes, addresses and the byte counts of the ports are left out.         *)
(***************************************************************************)
EXTENDS Integers, FiniteSets

None == "none"
Segs == {"tx", "rx"} \X (0..4)
Sata(ch) == IF ch = 0 THEN "SATA0" ELSE "SATA1"

\* The uses with a segment towards the host, from it, and neither.
Reads == {"U2SR", "B2SR", "B2SR2", "U2BR", "RAIDR"}
Writes == {"U2SW", "B2SW", "U2BW", "RAIDW"}
Copies == {"VERIFY", "REBUILDR", "REBUILDW"}
Uses == Reads \cup Writes \cup Copies

\* Only the moves between a drive and the host or the CPU can be encrypted,
\* and only those between the host and one drive have a second set.
Index == {i \in [use : Uses, ch : {0, 1}, aes : BOOLEAN, uas2 : BOOLEAN] :
            /\ i.aes => i.use \in {"U2SR", "U2SW", "B2SR", "B2SW", "RAIDR", "RAIDW"}
            /\ i.uas2 => i.use \in {"U2SR", "U2SW"}}

\* The engines that fill and empty segments.
Ports == {None, "USB", "CPU", "SATA0", "SATA1", "AESE", "AESD", "DD", "RAID", "STRIPE0", "STRIPE1"}
Free == [in |-> None, out |-> None, busy |-> FALSE, full |-> FALSE]
Segments == [Segs -> [in : Ports, out : Ports, busy : BOOLEAN, full : BOOLEAN]]
Tx(n, i, o) == [seg |-> <<"tx", n>>, in |-> i, out |-> o]
Rx(n, i, o) == [seg |-> <<"rx", n>>, in |-> i, out |-> o]

(***************************************************************************)
(* set_dbufConnection: the segments of an index and the ports they join.   *)
(***************************************************************************)
\* Between a drive and the host.
HostRoute(i) ==
  LET s == Sata(i.ch) IN
  CASE i.use = "U2SR" /\ ~i.aes -> {Tx(IF i.uas2 THEN 2 ELSE 1, s, "USB")}
    [] i.use = "U2SR" /\ i.aes  -> {Tx(IF i.uas2 THEN 3 ELSE 1, s, "AESE"), Tx(2, "AESD", "USB")}
    [] i.use = "U2SW" /\ ~i.aes -> {Rx(IF i.uas2 THEN 2 ELSE 1, "USB", s)}
    [] i.use = "U2SW" /\ i.aes  -> {Rx(2, "USB", "AESD"), Rx(IF i.uas2 THEN 3 ELSE 1, "AESE", s)}

\* Between the CPU and a drive or the host.
CpuRoute(i) ==
  LET s == Sata(i.ch) IN
  CASE i.use = "B2SR" /\ ~i.aes -> {Tx(4, s, "CPU")}
    [] i.use = "B2SR" /\ i.aes  -> {Tx(4, s, "AESE"), Tx(3, "AESD", "CPU")}
    [] i.use = "B2SR2"          -> {Tx(0, s, "CPU")}
    [] i.use = "B2SW" /\ ~i.aes -> {Rx(4, "CPU", s)}
    [] i.use = "B2SW" /\ i.aes  -> {Rx(1, "CPU", "AESD"), Rx(2, "AESE", s)}
    [] i.use = "U2BR"           -> {Tx(0, "CPU", "USB")}
    [] i.use = "U2BW"           -> {Rx(0, "USB", "CPU")}

\* Between the two drives: the second one checks or receives the copy.
CopyRoute(i) ==
  CASE i.use = "VERIFY"   -> {Tx(2, "SATA0", "STRIPE0"), Tx(3, "SATA1", "STRIPE1")}
    [] i.use = "REBUILDR" -> {Tx(2, Sata(i.ch), "DD")}
    [] i.use = "REBUILDW" -> {Rx(3, "CPU", "CPU"), Rx(4, "DD", Sata(1 - i.ch))}

\* Through the RAID engine: both drives at once.
RaidRoute(i) ==
  CASE i.use = "RAIDR" -> {Tx(3, "SATA0", "STRIPE0"), Tx(4, "SATA1", "STRIPE1")} \cup
         IF i.aes THEN {Tx(1, "AESD", "USB"), Tx(2, "RAID", "AESE")} ELSE {Tx(2, "RAID", "USB")}
    [] i.use = "RAIDW" -> {Rx(3, "STRIPE0", "SATA0"), Rx(4, "STRIPE1", "SATA1")} \cup
         IF i.aes THEN {Rx(1, "USB", "AESD"), Rx(2, "AESE", "RAID")} ELSE {Rx(2, "USB", "RAID")}

Route(i) == CASE i.use \in {"U2SR", "U2SW"} -> HostRoute(i)
              [] i.use \in {"RAIDR", "RAIDW"} -> RaidRoute(i)
              [] i.use \in Copies -> CopyRoute(i)
              [] OTHER -> CpuRoute(i)

SegsOf(i) == {r.seg : r \in Route(i)}
Joins(i, s) == CHOOSE r \in Route(i) : r.seg = s

\* The segments of an index that its last port empties, and its first fills.
Entry(i) == {s \in SegsOf(i) : Joins(i, s).in \in {"SATA0", "SATA1", "CPU", "RAID"}}

\* The write of a rebuild from drive 0 marks RX 0 in place of RX 4.
Marked(i) == IF i.use = "REBUILDW" /\ i.ch = 0 THEN {<<"rx", 0>>, <<"rx", 3>>} ELSE SegsOf(i)

Joined(x, j) == [x EXCEPT !.in = j.in, !.out = j.out, !.full = TRUE]

set_dbufConnection(d, i) ==
  [s \in Segs |-> [(IF s \in SegsOf(i) THEN Joined(d[s], Joins(i, s)) ELSE d[s])
                     EXCEPT !.busy = @ \/ s \in Marked(i)]]

(***************************************************************************)
(* The read path in two steps: set_dbufSource lets the drive or the CPU    *)
(* fill its segment, keep_sourceDbufConnection later joins the host.       *)
(***************************************************************************)
\* A segment that feeds a stripe of the RAID engine is joined at once.
Feeds(j) == j.out \in {"STRIPE0", "STRIPE1"}

set_dbufSource(d, i) ==
  IF i.use \notin {"U2BR", "U2SR", "B2SW", "RAIDR"} \/ (i.use = "RAIDR" /\ d[<<"tx", 2>>].busy) THEN d
  ELSE [s \in Segs |->
          IF s \notin Entry(i) THEN d[s]
          ELSE LET j == Joins(i, s)
               IN [Joined(d[s], [j EXCEPT !.out = IF Feeds(j) THEN @ ELSE None]) EXCEPT !.busy = TRUE]]

keep_sourceDbufConnection(d, i) ==
  IF i.use \notin {"U2BR", "U2SR", "RAIDR"} THEN d
  ELSE [s \in Segs |->
          IF s \notin SegsOf(i) \/ Feeds(Joins(i, s)) THEN d[s]
          ELSE IF s \notin Entry(i) THEN [Joined(d[s], Joins(i, s)) EXCEPT !.busy = TRUE]
          ELSE [d[s] EXCEPT !.out = Joins(i, s).out, !.busy = @ \/ i.use # "RAIDR"]]

\* The next read is joined to the host before its turn: only its last segment.
set_dbuf_readPrefetch(d, i) ==
  IF i.use \notin {"U2SR", "RAIDR"} \/ (i.use = "RAIDR" /\ i.aes) THEN d
  ELSE [s \in Segs |-> IF s \in SegsOf(i) /\ Joins(i, s).out = "USB"
                       THEN [d[s] EXCEPT !.out = "USB", !.busy = TRUE] ELSE d[s]]

\* The drive has sent its last data: its segment keeps what the host must take.
free_SourcedbufConnection(d, i) ==
  [s \in Segs |-> IF i.use = "U2SR" /\ s \in Entry(i) THEN [d[s] EXCEPT !.in = None] ELSE d[s]]

\* A drive that is reset leaves its segments, but for the first of each bank.
disconnect_SataDbufConnection(d, ch) ==
  [s \in Segs |-> IF s[2] = 0 THEN d[s]
                  ELSE IF s[1] = "tx" THEN [d[s] EXCEPT !.in = IF @ = Sata(ch) THEN None ELSE @]
                  ELSE [d[s] EXCEPT !.out = IF @ = Sata(ch) THEN None ELSE @]]

(***************************************************************************)
(* Emptying segments and giving them back.                                 *)
(***************************************************************************)
\* reset_dbuf_seg leaves some segments of the RAID engine to its own reset.
ResetSegs(i) == CASE i.use = "RAIDR" -> {<<"tx", 3>>, <<"tx", 4>>}
                  [] i.use = "RAIDW" -> SegsOf(i) \ {<<"rx", 3>>, <<"rx", 4>>}
                  [] OTHER -> SegsOf(i)
reset_dbuf_seg(d, i) == [s \in Segs |-> IF s \in ResetSegs(i) THEN [d[s] EXCEPT !.full = FALSE] ELSE d[s]]

free_dbufConnection(d, i) ==
  [s \in Segs |-> IF s \in SegsOf(i) THEN [d[s] EXCEPT !.in = None, !.out = None, !.busy = FALSE] ELSE d[s]]

rst_all_seg == [s \in Segs |-> Free]

(***************************************************************************)
(* Which segments a new command may take.                                  *)
(***************************************************************************)
\* TX_DBUF_GetIdleSeg_UAS and RX_DBUF_GetIdleSeg_UAS: the first set, the
\* second set, or none.
GetIdleSeg_UAS(d, i) ==
  LET bank == IF i.use = "U2SR" THEN "tx" ELSE "rx"
      second == <<bank, IF i.aes THEN 3 ELSE 2>>
  IN IF ~d[<<bank, 1>>].busy THEN {i} ELSE IF ~d[second].busy THEN {[i EXCEPT !.uas2 = TRUE]} ELSE {}

chk_TX_DBUF_idleSeg_B2S(d) == ~d[<<"tx", 4>>].busy

\* No port serves two segments of a bank at once.
PortsApart(d) ==
  \A s, t \in Segs : s # t /\ s[1] = t[1] =>
    /\ d[s].in # None => d[s].in # d[t].in
    /\ d[s].out # None => d[s].out # d[t].out
=============================================================================
