---------------------------- MODULE UsbBotProofs ----------------------------
(***************************************************************************)
(* The bulk-only transport for every set of commands: the invariant of     *)
(* UsbInvariant is inductive, one lemma per action, and what follows from  *)
(* it.                                                                     *)
(***************************************************************************)
EXTENDS UsbSegProofs

Good(m) == m \in Machine /\ MachineInv(m)

LEMMA CommandIs ==
  ASSUME NEW c \in Commands
  PROVE /\ c.len \in Nat /\ c.dev \in Nat /\ c.dir \in {"in", "out"}
        /\ c.op \in DataOps \cup {"VERIFY", "TUR", "START", "STOP", "REFUSED", "BAD"}
        /\ c.op \notin DataOps => c.dev = 0
        /\ c.op = "START" => c.dir = "in"
BY BotAssumption DEF CommandsAssumption

\* The cases of a command.
LEMMA CaseIs ==
  ASSUME NEW c \in Commands
  PROVE /\ Case(c) \in 1..13
        /\ c.dev = 0 => Case(c) \in {1, 4, 9}
        /\ c.dev # 0 /\ c.op \in {"READ", "INQ"} =>
             /\ c.len = 0 => Case(c) = 2
             /\ c.len # 0 /\ c.dir = "out" => Case(c) = 10
             /\ c.len # 0 /\ c.dir = "in" => Case(c) = IF c.len < c.dev THEN 7 ELSE IF c.len = c.dev THEN 6 ELSE 5
        /\ c.dev # 0 /\ c.op \notin {"READ", "INQ"} =>
             /\ c.len = 0 => Case(c) = 3
             /\ c.len # 0 /\ c.dir = "in" => Case(c) = 8
             /\ c.len # 0 /\ c.dir = "out" => Case(c) = IF c.len < c.dev THEN 13 ELSE IF c.len = c.dev THEN 12 ELSE 11
<1>1. c.len \in Nat /\ c.dev \in Nat /\ c.dir \in {"in", "out"}
  BY CommandIs
<1>2. CASE c.dev = 0
  BY <1>1, <1>2 DEF Case, DeviceDir, HostDir
<1>3. CASE c.dev # 0 /\ c.op \in {"READ", "INQ"}
  BY <1>1, <1>3 DEF Case, DeviceDir, HostDir
<1>4. CASE c.dev # 0 /\ c.op \notin {"READ", "INQ"}
  BY <1>1, <1>4 DEF Case, DeviceDir, HostDir
<1> QED BY <1>2, <1>3, <1>4

LEMMA WireCase == ASSUME NEW c PROVE Wire!Case(c) = Case(c)
BY DEF Wire!Case, Case, Wire!DeviceDir, DeviceDir, Wire!HostDir, HostDir

LEMMA NowIs == /\ Now.host = host /\ Now.ctx = ctx /\ Now.fw = fw
               /\ Now.usb = usb /\ Now.drive = drive /\ Now.seg = seg
BY DEF Now

LEMMA NextIs == /\ Now'.host = host' /\ Now'.ctx = ctx' /\ Now'.fw = fw'
                /\ Now'.usb = usb' /\ Now'.drive = drive' /\ Now'.seg = seg'
BY DEF Now

LEMMA DrivesFrame ==
  ASSUME NEW m, NEW n, DrivesInv(m), n.drive = m.drive, n.fw.timer = m.fw.timer, n.fw.asleep = m.fw.asleep
  PROVE DrivesInv(n)
BY DEF DrivesInv

LEMMA SegFrame ==
  ASSUME NEW m, NEW n, SegInv(m), n.drive = m.drive, n.seg = m.seg, Holds(m) \in {NoSeg, Holds(n)}
  PROVE SegInv(n)
BY SegInvIs, OwnedFrame

LEMMA WireStep ==
  ASSUME Good(Now), UNCHANGED <<ctx, fw, drive, seg>>, host' \in Hosts, usb' \in Controllers, Phase(Now')
  PROVE Good(Now')
<1> DEFINE m == Now
           n == Now'
<1>1. n.ctx = m.ctx /\ n.fw = m.fw /\ n.drive = m.drive /\ n.seg = m.seg
  BY NowIs, NextIs
<1>2. n \in Machine
  BY DEF Good, Machine, Now
<1> HIDE DEF m, n
<1>3. Holds(n) = Holds(m)
  BY <1>1 DEF Holds, Held
<1>4. DrivesInv(m) /\ SegInv(m)
  BY DEF Good, MachineInv, m
<1>5. DrivesInv(n) /\ SegInv(n)
  BY <1>1, <1>3, <1>4, DrivesFrame, SegFrame
<1> QED BY <1>2, <1>5 DEF Good, MachineInv, n

LEMMA FreshIs ==
  ASSUME NEW b \in BOOLEAN, NEW c \in Commands
  PROVE LET h == [Idle EXCEPT !.at = "busy", !.cmd = c, !.done = b]
        IN /\ h \in Hosts /\ h.at = "busy" /\ h.cmd = c /\ h.moved = 0
           /\ ~h.failed /\ ~h.stalled /\ h.done = b
BY DEF Idle, Hosts

LEMMA HostSendsKeeps == ASSUME Good(Now), NoMismatch, NEW c \in Commands, HostSends(c) PROVE Good(Now')
<1> DEFINE m == Now
           n == Now'
<1>1. /\ n.ctx = m.ctx /\ n.fw = m.fw /\ n.drive = m.drive /\ n.seg = m.seg
      /\ UNCHANGED <<ctx, fw, drive, seg>>
  BY NowIs, NextIs DEF HostSends
<1> DEFINE b == c.len = 0
           k == [Idle EXCEPT !.at = "busy", !.cmd = c, !.done = b]
<1>0. n.host = host' /\ host' = k
  BY NextIs DEF HostSends
<1>12. k \in Hosts /\ k.at = "busy" /\ k.cmd = c /\ k.moved = 0 /\ ~k.failed /\ ~k.stalled /\ k.done = b
  BY FreshIs, ZenonT(60)
<1> HIDE DEF b, k
<1>2. /\ n.host.at = "busy" /\ n.host.cmd = c /\ n.host.moved = 0 /\ ~n.host.failed /\ ~n.host.stalled
      /\ n.host.done = b /\ host' \in Hosts
  BY <1>0, <1>12
<1>3. /\ m.host.at = "idle" /\ Running /\ ~Asked(m) /\ ~m.usb.avail
      /\ ("CSW_DONE" \in m.usb.ints => m.fw.at = "bot" /\ m.fw.cbw)
      /\ c.op \in {"READ", "WRITE"} /\ ~DrivesOn(m) => Case(c) \in {5, 6, 11, 12}
  BY NowIs DEF HostSends, ResetAsked, Asked, Resets, MayArrive, Fits, NoMismatch
<1>4. /\ n.usb.avail /\ n.usb.ints = m.usb.ints /\ n.usb.halts = m.usb.halts /\ n.usb.csw = m.usb.csw
      /\ n.usb.tx = m.usb.tx /\ n.usb.rx = m.usb.rx /\ usb' \in Controllers
  BY NowIs, NextIs, ZenonT(60) DEF HostSends, Controllers, Good, Machine
<1>6. Phase(m) /\ m \in Machine /\ m.fw.at \in {"hdd", "bot"} /\ ~m.fw.asleep
  BY <1>3, NowIs DEF Good, MachineInv, Running
<1> HIDE DEF m, n
<1>5. Awake(n, c)
  BY <1>1, <1>3 DEF Awake, DrivesOn
<1>7. Resting(m) \/ Between(m)
  BY <1>3, <1>6 DEF Phase, Off, Invalid, Waiting, Executing, Told, HostSide, Fresh, Busy
<1>8. Arrival(n)
  BY <1>1, <1>2, <1>3, <1>4, <1>5, <1>6 DEF Arrival, Fresh, Asked, b
<1>9. Resting(m) => Resting(n)
  <2>1. Resting(m) => Ints(m) = {}
    BY <1>3 DEF Resting, Ints
  <2> QED BY <1>1, <1>4, <1>8, <2>1 DEF Resting, QuietPipe, Ints, DriveQuiet
<1>10. Between(m) => Between(n)
  BY <1>1, <1>3, <1>4, <1>8 DEF Between, QuietPipe, Ints, DriveQuiet, LastEnds, LastEnded
<1> QED BY <1>1, <1>2, <1>4, <1>7, <1>9, <1>10, WireStep DEF Phase, n

LEMMA HostSendsDataKeeps == ASSUME Good(Now), HostSendsData PROVE Good(Now')
<1> DEFINE m == Now
           n == Now'
<1>1. /\ n.ctx = m.ctx /\ n.fw = m.fw /\ n.usb = m.usb /\ n.drive = m.drive /\ n.seg = m.seg
      /\ UNCHANGED <<ctx, fw, drive, seg>>
  BY NowIs, NextIs DEF HostSendsData
<1>2. /\ m.host.at = "busy" /\ ~m.host.done /\ m.usb.rx = "data" /\ "out" \notin m.usb.halts
      /\ m.host.moved < m.host.cmd.len
  BY NowIs DEF HostSendsData
<1> DEFINE b == host.moved + 1 = host.cmd.len
<1>0. host' = [host EXCEPT !.moved = @ + 1, !.done = b] /\ b \in BOOLEAN
  BY DEF HostSendsData
<1> HIDE DEF b
<1>12. n.host = host' /\ m.host = host /\ host \in Hosts /\ host.moved + 1 \in Nat /\ usb' \in Controllers
  BY NowIs, NextIs DEF Good, Machine, HostSendsData, Hosts
<1>3. /\ n.host.at = m.host.at /\ n.host.cmd = m.host.cmd /\ n.host.failed = m.host.failed
      /\ n.host.stalled = m.host.stalled /\ n.host.moved = m.host.moved + 1 /\ n.host.done = b
      /\ host' \in Hosts
  BY <1>0, <1>12, ZenonT(60) DEF Hosts
<1>11. b <=> n.host.moved = m.host.cmd.len
  BY <1>3, NowIs DEF b
<1>4. Phase(m) /\ m \in Machine
  BY DEF Good, MachineInv
<1> HIDE DEF m, n
<1>5. Executing(m)
  BY <1>2, <1>4 DEF Phase, Off, Resting, Between, Invalid, Waiting, Told, QuietUsb, QuietPipe, None, Busy
<1>6. CpuOut(m) \/ WriteData(m)
  BY <1>2, <1>5 DEF Executing, NoData, NoDataIn, NoDataOut, CpuIn, ReadData, DriveOnly, QuietPipe, None
<1>7. m.ctx.cmd = m.host.cmd /\ m.ctx.cmd.len \in Nat /\ m.ctx.cmd.dev \in Nat /\ ~Asked(m)
      /\ m.host.moved \in Nat /\ m.drive[0].tcnt \in Nat
  BY <1>2, <1>4, <1>5, CommandIs DEF Executing, HostSide, HostIdle, Busy, Machine, Hosts, Drives, Chs
<1>8. CpuOut(m) => CpuOut(n)
  BY <1>1, <1>2, <1>3, <1>7, <1>11 DEF CpuOut, Busy, Ints, DriveQuiet
<1>9. WriteData(m) => WriteData(n)
  <2> SUFFICES ASSUME WriteData(m) PROVE WriteData(n)
    OBVIOUS
  <2>1. WriteHost(m) /\ m.usb.halts = {}
    BY <1>2 DEF WriteData, Busy
  <2>2. m.ctx.status # "XFER_DONE" /\ m.ctx.status # "HALT" /\ ~m.host.stalled
    BY <1>2, <2>1 DEF WriteHost
  <2>3. WriteHost(n)
    BY <1>1, <1>2, <1>3, <1>7, <1>11, <2>1, <2>2 DEF WriteHost
  <2> QED BY <1>1, <2>3 DEF WriteData, Busy, Ints
<1>13. HostSide(n)
  BY <1>1, <1>3, <1>5 DEF Executing, HostSide, Busy, Asked, HostIdle
<1>10. Executing(n)
  BY <1>1, <1>5, <1>6, <1>8, <1>9, <1>13 DEF Executing
<1> QED BY <1>1, <1>3, <1>10, <1>12, WireStep DEF Phase, n

LEMMA HostStallsKeeps == ASSUME Good(Now), HostStalls PROVE Good(Now')
<1> DEFINE m == Now
           n == Now'
<1>1. /\ n.ctx = m.ctx /\ n.fw = m.fw /\ n.drive = m.drive /\ n.seg = m.seg
      /\ UNCHANGED <<ctx, fw, drive, seg>>
  BY NowIs, NextIs DEF HostStalls
<1>2. /\ m.host.at = "busy" /\ ~m.host.done /\ ~m.host.stalled /\ "out" \in m.usb.halts /\ m.fw.at # "badcbw"
  BY NowIs DEF HostStalls
<1>3. /\ n.host.at = m.host.at /\ n.host.cmd = m.host.cmd /\ n.host.failed = m.host.failed
      /\ n.host.stalled /\ n.host.moved = m.host.moved /\ n.host.done = m.host.done /\ host' \in Hosts
  BY NowIs, NextIs, ZenonT(60) DEF HostStalls, Hosts, Good, Machine
<1>4. /\ n.usb.avail = m.usb.avail /\ n.usb.ints = m.usb.ints \cup {"DOUT_HALT"} /\ n.usb.halts = m.usb.halts
      /\ n.usb.csw = m.usb.csw /\ n.usb.tx = m.usb.tx /\ n.usb.rx = m.usb.rx /\ usb' \in Controllers
  BY NowIs, NextIs DEF HostStalls, Controllers, Good, Machine
<1>5. Phase(m) /\ m \in Machine
  BY DEF Good, MachineInv
<1> HIDE DEF m, n
<1>6. Executing(m)
  BY <1>2, <1>5 DEF Phase, Off, Resting, Between, Invalid, Waiting, Told, QuietUsb, QuietPipe, Busy
<1>7. WriteData(m)
  BY <1>2, <1>6 DEF Executing, NoData, NoDataIn, NoDataOut, CpuIn, CpuOut, ReadData, ReadSends, ReadTaken, DriveOnly, QuietPipe, Busy, StallIn
<1>8. Asked(n) = Asked(m) /\ Ints(n) = Ints(m) \cup {"DOUT_HALT"}
  BY <1>4 DEF Asked, Ints, Resets
<1>9. WriteData(n)
  BY <1>1, <1>2, <1>3, <1>4, <1>7, <1>8, ZenonT(60) DEF WriteData, WriteHost, Busy
<1>10. Executing(n)
  BY <1>1, <1>2, <1>3, <1>4, <1>6, <1>8, <1>9 DEF Executing, HostSide, Busy, HostIdle
<1> QED BY <1>1, <1>3, <1>4, <1>10, WireStep DEF Phase, n

LEMMA HostClearsHaltKeeps == ASSUME Good(Now), HostClearsHalt PROVE Good(Now')
<1> DEFINE m == Now
           n == Now'
<1>1. /\ n.ctx = m.ctx /\ n.fw = m.fw /\ n.drive = m.drive /\ n.seg = m.seg
      /\ UNCHANGED <<ctx, fw, drive, seg>>
  BY NowIs, NextIs DEF HostClearsHalt
<1>2. m.host.at = "busy" /\ m.host.stalled /\ m.fw.at # "badcbw"
  BY NowIs DEF HostClearsHalt
<1>3. /\ n.host.at = m.host.at /\ n.host.cmd = m.host.cmd /\ n.host.failed = m.host.failed
      /\ ~n.host.stalled /\ n.host.moved = m.host.moved /\ n.host.done /\ host' \in Hosts
  <2>1. /\ host' = [host EXCEPT !.stalled = FALSE, !.done = TRUE] /\ host \in Hosts
        /\ n.host = host' /\ m.host = host
    BY NowIs, NextIs DEF HostClearsHalt, Good, Machine
  <2> QED BY <2>1 DEF Hosts
<1>4. /\ n.usb.avail = m.usb.avail /\ n.usb.ints = m.usb.ints /\ n.usb.halts = m.usb.halts \ {m.host.cmd.dir}
      /\ n.usb.csw = m.usb.csw /\ n.usb.tx = m.usb.tx /\ n.usb.rx = m.usb.rx /\ usb' \in Controllers
  BY NowIs, NextIs DEF HostClearsHalt, Controllers, Good, Machine
<1>5. Phase(m) /\ m \in Machine
  BY DEF Good, MachineInv
<1> HIDE DEF m, n
<1>6. Executing(m)
  BY <1>2, <1>5 DEF Phase, Off, Resting, Between, Invalid, Waiting, Told, QuietUsb, QuietPipe, Busy, Arrival, Fresh, HostIdle
<1>7. m.ctx.cmd = m.host.cmd /\ ~Asked(m) /\ HostSide(n) /\ Ints(n) = Ints(m)
  BY <1>1, <1>2, <1>3, <1>4, <1>6 DEF Executing, HostSide, Busy, HostIdle, Asked, Ints
<1>8. NoData(m) \/ CpuIn(m) \/ ReadData(m) \/ WriteData(m)
  BY <1>2, <1>6 DEF Executing, CpuOut, DriveOnly, Busy
<1>9. NoData(m) => NoData(n)
  <2> SUFFICES ASSUME NoData(m) PROVE NoData(n)
    OBVIOUS
  <2>1. m.ctx.status \in Final /\ (Wire!Truthful(m.host, m.ctx.status) => Wire!Truthful(n.host, n.ctx.status))
    BY <1>1, <1>3 DEF NoData, Wire!Truthful
  <2>2. NoDataIn(m) => NoDataIn(n)
    BY <1>1, <1>2, <1>3, <1>4, <1>7, <2>1 DEF NoDataIn, StallIn, Busy
  <2>3. NoDataOut(m) => NoDataOut(n)
    BY <1>1, <1>2, <1>3, <1>4, <1>7, <2>1 DEF NoDataOut, Busy
  <2> QED BY <1>1, <2>2, <2>3 DEF NoData, DriveQuiet
<1>10. CpuIn(m) => CpuIn(n)
  BY <1>1, <1>2, <1>3, <1>4, <1>7 DEF CpuIn, StallIn, Busy, DriveQuiet
<1>11. ReadData(m) => ReadData(n)
  <2>1. ReadHost(n) <=> ReadHost(m)
    BY <1>1, <1>3 DEF ReadHost
  <2>2. ~ReadSends(m)
    BY <1>2 DEF ReadSends, Busy
  <2>3. m.host.cmd.dir = "in" /\ ReadTaken(m) => ReadTaken(n)
    BY <1>1, <1>2, <1>3, <1>4, <1>7, <2>1 DEF ReadTaken, StallIn, Busy
  <2> QED BY <1>1, <1>4, <1>7, <2>2, <2>3 DEF ReadData
<1>12. WriteData(m) => WriteData(n)
  <2> SUFFICES ASSUME WriteData(m) PROVE WriteData(n)
    OBVIOUS
  <2>1. WriteHost(m) /\ m.host.cmd.dir = "out" /\ m.usb.halts \subseteq {"out"}
    BY <1>2, <1>7 DEF WriteData, Busy
  <2>2. WriteHost(n) /\ n.usb.halts = {}
    BY <1>1, <1>2, <1>3, <1>4, <2>1 DEF WriteHost
  <2> QED BY <1>1, <1>4, <1>7, <2>2 DEF WriteData
<1>13. Executing(n)
  BY <1>1, <1>4, <1>6, <1>7, <1>8, <1>9, <1>10, <1>11, <1>12 DEF Executing
<1> QED BY <1>1, <1>3, <1>4, <1>13, WireStep DEF Phase, n

LEMMA HostTakesCswKeeps == ASSUME Good(Now), HostTakesCsw PROVE Good(Now')
<1> DEFINE m == Now
           n == Now'
<1>1. /\ n.ctx = m.ctx /\ n.fw = m.fw /\ n.drive = m.drive /\ n.seg = m.seg
      /\ UNCHANGED <<ctx, fw, drive, seg>>
  BY NowIs, NextIs DEF HostTakesCsw
<1>2. m.host.at = "busy" /\ m.usb.csw # None
  BY NowIs DEF HostTakesCsw, HostWaitsCsw
<1>3. n.host.at = "idle" /\ ~n.host.failed /\ host' \in Hosts
  <2>1. host' = [Idle EXCEPT !.status = usb.csw] /\ usb.csw \in Final \cup {None} /\ n.host = host'
    BY NowIs, NextIs DEF HostTakesCsw, Good, Machine, Controllers
  <2>2. Idle \in Hosts /\ Idle.at = "idle" /\ ~Idle.failed
    BY DEF Idle, Hosts
  <2> QED BY <2>1, <2>2 DEF Hosts
<1>4. /\ n.usb.avail = m.usb.avail /\ n.usb.ints = m.usb.ints \cup {"CSW_DONE"} /\ n.usb.halts = m.usb.halts
      /\ n.usb.csw = None /\ n.usb.tx = None /\ n.usb.rx = None /\ usb' \in Controllers
  <2> DEFINE k == [usb EXCEPT !.ints = @ \cup {"CSW_DONE"}, !.csw = None, !.tx = None, !.rx = None]
  <2>1. usb \in Controllers
    BY NowIs DEF Good, Machine
  <2>2. /\ k.avail = usb.avail /\ k.ints = usb.ints \cup {"CSW_DONE"} /\ k.halts = usb.halts
        /\ k.csw = None /\ k.tx = None /\ k.rx = None /\ k \in Controllers
    BY <2>1 DEF Controllers
  <2>3. usb' = k
    BY DEF HostTakesCsw
  <2> HIDE DEF k
  <2> QED BY <2>2, <2>3, NowIs, NextIs
<1>5. Phase(m) /\ m \in Machine
  BY DEF Good, MachineInv
<1> HIDE DEF m, n
<1>6. Told(m)
  BY <1>2, <1>5 DEF Phase, Off, Resting, Between, Invalid, Waiting, Executing, QuietUsb, QuietPipe
<1>7. Between(n)
  BY <1>1, <1>2, <1>3, <1>4, <1>6 DEF Told, Between, QuietPipe, DriveQuiet, Arrival, HostIdle, LastEnds, Busy
<1> QED BY <1>1, <1>3, <1>4, <1>7, WireStep DEF Phase, n

LEMMA AskResetKeeps == ASSUME Good(Now), MayReset, NEW int \in Resets, AskReset(int) PROVE Good(Now')
<1> DEFINE m == Now
           n == Now'
<1>1. /\ n.ctx = m.ctx /\ n.fw = m.fw /\ n.drive = m.drive /\ n.seg = m.seg
      /\ UNCHANGED <<ctx, fw, drive, seg>>
  BY NowIs, NextIs DEF AskReset
<1>2. ~Asked(m) /\ ~m.usb.avail /\ ~m.fw.new /\ m.fw.at # "off" /\ ~m.drive[0].park
  BY NowIs DEF MayReset, ResetAsked, Asked, Resets, Running
<1>3. n.host.at = "idle" /\ ~n.host.failed /\ host' \in Hosts
  BY NextIs DEF AskReset, Idle, Hosts
<1>4. /\ n.usb.avail = m.usb.avail /\ n.usb.ints = m.usb.ints \cup {int} /\ n.usb.halts = m.usb.halts
      /\ n.usb.csw = m.usb.csw /\ n.usb.tx = m.usb.tx /\ n.usb.rx = m.usb.rx /\ usb' \in Controllers
  BY NowIs, NextIs DEF AskReset, Resets, Controllers, Good, Machine
<1>5. Phase(m) /\ m \in Machine
  BY DEF Good, MachineInv
<1> HIDE DEF m, n
<1>6. HostIdle(n) /\ Asked(n) /\ Ints(n) = Ints(m) /\ ~Busy(n)
      /\ \A x \in {"TX_DONE", "RX_DONE", "DIN_HALT", "DOUT_HALT", "CSW_DONE"} : x \in n.usb.ints <=> x \in m.usb.ints
  BY <1>3, <1>4 DEF HostIdle, Asked, Ints, Busy, Resets
<1>7. Resting(m) => Resting(n)
  BY <1>1, <1>2, <1>4, <1>6 DEF Resting, QuietPipe, DriveQuiet, Arrival
<1>8. Between(m) => Between(n)
  BY <1>1, <1>2, <1>4, <1>6 DEF Between, QuietPipe, DriveQuiet, Arrival, LastEnds, LastEnded
<1>9. Invalid(m) => Invalid(n)
  BY <1>1, <1>2, <1>4, <1>6 DEF Invalid, DriveQuiet
<1>10. Told(m) => Told(n)
  BY <1>1, <1>2, <1>4, <1>6 DEF Told, DriveQuiet, HostSide
<1>11. Executing(m) => Executing(n)
  <2> SUFFICES ASSUME Executing(m) PROVE Executing(n)
    OBVIOUS
  <2>1. NoData(m) => NoData(n)
    BY <1>1, <1>4, <1>6 DEF NoData, NoDataIn, NoDataOut, DriveQuiet
  <2>2. CpuIn(m) => CpuIn(n)
    BY <1>1, <1>4, <1>6 DEF CpuIn, DriveQuiet
  <2>3. CpuOut(m) => CpuOut(n)
    BY <1>1, <1>4, <1>6 DEF CpuOut, DriveQuiet
  <2>4. ReadData(m) => ReadData(n)
    BY <1>1, <1>4, <1>6 DEF ReadData, ReadSends, ReadTaken
  <2>5. WriteData(m) => WriteData(n)
    BY <1>1, <1>4, <1>6 DEF WriteData
  <2>6. DriveOnly(m) => DriveOnly(n)
    BY <1>1, <1>2, <1>4, <1>6 DEF DriveOnly, QuietPipe
  <2> QED BY <1>1, <1>4, <1>6, <2>1, <2>2, <2>3, <2>4, <2>5, <2>6 DEF Executing, HostSide
<1>12. Phase(n)
  BY <1>2, <1>5, <1>7, <1>8, <1>9, <1>10, <1>11 DEF Phase, Off, Waiting
<1> QED BY <1>1, <1>3, <1>4, <1>12, WireStep DEF n

(***************************************************************************)
(* The USB controller.                                                     *)
(***************************************************************************)
LEMMA DataInEndsKeeps == ASSUME Good(Now), DataInEnds PROVE Good(Now')
<1> DEFINE m == Now
           n == Now'
<1>1. /\ n.ctx = m.ctx /\ n.fw = m.fw /\ n.drive = m.drive /\ n.seg = m.seg
      /\ UNCHANGED <<ctx, fw, drive, seg>>
  BY NowIs, NextIs DEF DataInEnds
<1>2. m.host.at = "busy" /\ m.usb.tx = "data" /\ (U2B(m.ctx) \/ m.drive[0].end # "no")
  BY NowIs DEF DataInEnds
<1>3. Phase(m) /\ m \in Machine
  BY DEF Good, MachineInv
<1>4. Executing(m)
  BY <1>2, <1>3 DEF Phase, Off, Resting, Between, Invalid, Waiting, Told, QuietUsb, QuietPipe, None
<1>5. m.ctx.cmd = m.host.cmd /\ m.ctx.cmd \in Commands /\ ~Asked(m)
  BY <1>2, <1>4 DEF Executing, HostSide, HostIdle
<1>6. m.ctx.cmd.len \in Nat /\ m.ctx.cmd.dev \in Nat
  BY <1>5, CommandIs
<1>7. PICK x \in Sent :
        /\ host' = [host EXCEPT !.moved = x, !.stalled = x < host.cmd.len, !.done = ~(x < host.cmd.len)]
        /\ usb' = [usb EXCEPT !.tx = None,
                     !.ints = @ \cup IF x < host.cmd.len THEN {"TX_DONE", "DIN_HALT"} ELSE {"TX_DONE"},
                     !.halts = @ \cup IF x < host.cmd.len THEN {"in"} ELSE {}]
  BY DEF DataInEnds
<1>8. /\ x \in Nat
      /\ U2B(m.ctx) \/ m.drive[0].end = "ok" => x = Wire!Expected(m.ctx.cmd)
  <2>1. Wire!Expected(host.cmd) \in Nat /\ host.cmd = m.ctx.cmd /\ ctx = m.ctx /\ drive = m.drive
    BY <1>5, <1>6, NowIs DEF Wire!Expected
  <2> QED BY <2>1 DEF Sent
<1> DEFINE s == x < host.cmd.len
           d == ~s
           i == IF s THEN {"TX_DONE", "DIN_HALT"} ELSE {"TX_DONE"}
           t == IF s THEN {"in"} ELSE {}
           g == [host EXCEPT !.moved = x, !.stalled = s, !.done = d]
           v == [usb EXCEPT !.tx = None, !.ints = @ \cup i, !.halts = @ \cup t]
<1>9. host \in Hosts /\ usb \in Controllers /\ m.host = host /\ m.usb = usb
  BY <1>3, NowIs DEF Machine
<1>10. s \in BOOLEAN /\ d \in BOOLEAN /\ i \in SUBSET {"TX_DONE", "DIN_HALT"} /\ t \in SUBSET {"in"}
  OBVIOUS
<1>11. n.host = g /\ n.usb = v /\ host' = g /\ usb' = v
  BY <1>7, NextIs
<1> HIDE DEF s
<1>12. \/ s /\ ~d /\ i = {"TX_DONE", "DIN_HALT"} /\ t = {"in"}
       \/ ~s /\ d /\ i = {"TX_DONE"} /\ t = {}
  BY <1>10
<1> HIDE DEF d, i, t
<1>13. /\ g \in Hosts /\ g.at = host.at /\ g.cmd = host.cmd /\ g.failed = host.failed
       /\ g.moved = x /\ g.stalled = s /\ g.done = d
  BY <1>8, <1>9, <1>10 DEF Hosts
<1>14. /\ v \in Controllers /\ v.avail = usb.avail /\ v.ints = usb.ints \cup i /\ v.halts = usb.halts \cup t
       /\ v.csw = usb.csw /\ v.tx = None /\ v.rx = usb.rx
  BY <1>9, <1>10 DEF Controllers
<1> HIDE DEF g, v, m, n
<1>15. HostSide(n) /\ ~Asked(n) /\ Ints(n) = Ints(m) \cup i /\ Busy(n)
  BY <1>1, <1>2, <1>4, <1>5, <1>9, <1>10, <1>11, <1>13, <1>14 DEF Executing, HostSide, Busy, Asked, Ints, Resets
<1>16. CpuIn(m) => CpuIn(n)
  <2> SUFFICES ASSUME CpuIn(m) PROVE CpuIn(n)
    OBVIOUS
  <2>1. m.usb.tx # None /\ Busy(m) /\ U2B(m.ctx)
    BY <1>2 DEF CpuIn, Busy, None, U2B
  <2>2. n.host.moved = Wire!Expected(n.ctx.cmd)
    BY <1>1, <1>8, <1>11, <1>13, <2>1
  <2>3. Ints(m) = {} /\ m.usb.halts = {} /\ ~m.host.failed
    BY <2>1 DEF CpuIn
  <2>4. StallIn(n) /\ Ints(n) \in {{"TX_DONE"}, {"TX_DONE", "DIN_HALT"}}
    BY <1>9, <1>11, <1>12, <1>13, <1>14, <1>15, <2>3 DEF StallIn
  <2> QED BY <1>1, <1>9, <1>11, <1>13, <1>14, <2>2, <2>3, <2>4 DEF CpuIn, DriveQuiet
<1>17. ReadData(m) => ReadData(n)
  <2> SUFFICES ASSUME ReadData(m) PROVE ReadData(n)
    OBVIOUS
  <2>1. ReadSends(m) /\ Busy(m) /\ m.ctx.cmd.len >= m.ctx.cmd.dev /\ ~U2B(m.ctx)
    BY <1>2 DEF ReadData, ReadTaken, Busy, None, U2B
  <2>2. m.drive[0].end = "ok" => ~m.host.failed
    BY <2>1 DEF ReadSends
  <2>3. m.drive[0].end = "ok" => x >= m.ctx.cmd.dev
    BY <1>6, <1>8, <2>1 DEF Wire!Expected
  <2>4. n.ctx.ccm /\ n.host.failed = m.host.failed /\ n.host.moved = x
    BY <1>1, <1>9, <1>11, <1>13, <2>1 DEF ReadSends
  <2>5. ReadHost(n)
    BY <1>1, <2>2, <2>3, <2>4 DEF ReadHost
  <2>6. Ints(m) = {} /\ m.usb.halts = {}
    BY <2>1 DEF ReadSends
  <2>7. StallIn(n) /\ Ints(n) \in {{"TX_DONE"}, {"TX_DONE", "DIN_HALT"}}
    BY <1>9, <1>11, <1>12, <1>13, <1>14, <1>15, <2>6 DEF StallIn
  <2>8. ReadTaken(n)
    BY <1>1, <1>2, <1>11, <1>14, <2>1, <2>5, <2>7 DEF ReadTaken, ReadSends
  <2> QED BY <1>1, <1>9, <1>11, <1>14, <2>8 DEF ReadData
<1>18. CpuIn(m) \/ ReadData(m)
  BY <1>2, <1>4 DEF Executing, NoData, NoDataIn, NoDataOut, CpuOut, WriteData, DriveOnly, QuietPipe, None
<1>19. Executing(n)
  BY <1>1, <1>4, <1>9, <1>11, <1>14, <1>15, <1>16, <1>17, <1>18 DEF Executing
<1> QED BY <1>1, <1>11, <1>13, <1>14, <1>19, WireStep DEF Phase, n

LEMMA DataInRefusedKeeps == ASSUME Good(Now), DataInRefused PROVE Good(Now')
<1> DEFINE m == Now
           n == Now'
<1>1. /\ n.ctx = m.ctx /\ n.fw = m.fw /\ n.drive = m.drive /\ n.seg = m.seg
      /\ UNCHANGED <<ctx, fw, drive, seg>>
  BY NowIs, NextIs DEF DataInRefused
<1>2. m.host.at = "busy" /\ m.usb.tx = "nodata" /\ m.host.cmd.len > 0
  BY NowIs DEF DataInRefused
<1>3. /\ n.host.at = m.host.at /\ n.host.cmd = m.host.cmd /\ n.host.failed = m.host.failed
      /\ n.host.stalled /\ n.host.moved = m.host.moved /\ n.host.done = m.host.done /\ host' \in Hosts
  <2>1. host' = [host EXCEPT !.stalled = TRUE] /\ host \in Hosts /\ n.host = host' /\ m.host = host
    BY NowIs, NextIs DEF DataInRefused, Good, Machine
  <2> QED BY <2>1 DEF Hosts
<1>4. /\ n.usb.avail = m.usb.avail /\ n.usb.ints = m.usb.ints \cup {"DIN_HALT"} /\ n.usb.halts = m.usb.halts \cup {"in"}
      /\ n.usb.csw = m.usb.csw /\ n.usb.tx = None /\ n.usb.rx = m.usb.rx /\ usb' \in Controllers
  <2> DEFINE v == [usb EXCEPT !.tx = None, !.ints = @ \cup {"DIN_HALT"}, !.halts = @ \cup {"in"}]
  <2>1. usb \in Controllers
    BY NowIs DEF Good, Machine
  <2>2. /\ v \in Controllers /\ v.avail = usb.avail /\ v.ints = usb.ints \cup {"DIN_HALT"}
        /\ v.halts = usb.halts \cup {"in"} /\ v.csw = usb.csw /\ v.tx = None /\ v.rx = usb.rx
    BY <2>1 DEF Controllers
  <2>3. usb' = v
    BY DEF DataInRefused
  <2> HIDE DEF v
  <2> QED BY <2>2, <2>3, NowIs, NextIs
<1>5. Phase(m) /\ m \in Machine
  BY DEF Good, MachineInv
<1> HIDE DEF m, n
<1>6. Executing(m)
  BY <1>2, <1>5 DEF Phase, Off, Resting, Between, Invalid, Waiting, Told, QuietUsb, QuietPipe, HostSide, HostIdle, None
<1>7. HostSide(n) /\ ~Asked(n) /\ Ints(n) = Ints(m) \cup {"DIN_HALT"} /\ Busy(n)
  BY <1>1, <1>2, <1>3, <1>4, <1>6 DEF Executing, HostSide, HostIdle, Busy, Asked, Ints, Resets
<1>8. NoData(m)
  BY <1>2, <1>6 DEF Executing, CpuIn, CpuOut, ReadData, ReadSends, ReadTaken, WriteData, DriveOnly, QuietPipe, None
<1>9. NoDataIn(m)
  BY <1>2, <1>8 DEF NoData, NoDataOut, None
<1>10. Wire!Truthful(m.host, m.ctx.status) => Wire!Truthful(n.host, n.ctx.status)
  BY <1>1, <1>3 DEF Wire!Truthful
<1>11. Ints(m) = {} /\ m.usb.halts = {} /\ ~m.host.done /\ Wire!Truthful(m.host, m.ctx.status)
  BY <1>2, <1>9 DEF NoDataIn, Busy, None
<1>12. NoDataIn(n)
  BY <1>1, <1>2, <1>3, <1>4, <1>7, <1>9, <1>10, <1>11 DEF NoDataIn, StallIn
<1>13. Executing(n)
  BY <1>1, <1>4, <1>6, <1>7, <1>8, <1>12 DEF Executing, NoData, DriveQuiet
<1> QED BY <1>1, <1>3, <1>4, <1>13, WireStep DEF Phase, n

LEMMA DataOutRefusedKeeps == ASSUME Good(Now), DataOutRefused PROVE Good(Now')
<1> DEFINE m == Now
           n == Now'
<1>1. /\ n.ctx = m.ctx /\ n.fw = m.fw /\ n.drive = m.drive /\ n.seg = m.seg
      /\ UNCHANGED <<ctx, fw, drive, seg>>
  BY NowIs, NextIs DEF DataOutRefused
<1>2. m.host.at = "busy" /\ m.usb.rx = "nodata"
  BY NowIs DEF DataOutRefused
<1>3. /\ n.host.at = m.host.at /\ n.host.cmd = m.host.cmd /\ n.host.failed = m.host.failed
      /\ n.host.stalled /\ n.host.moved = m.host.moved /\ n.host.done = m.host.done /\ host' \in Hosts
  <2>1. host' = [host EXCEPT !.stalled = TRUE] /\ host \in Hosts /\ n.host = host' /\ m.host = host
    BY NowIs, NextIs DEF DataOutRefused, Good, Machine
  <2> QED BY <2>1 DEF Hosts
<1>4. /\ n.usb.avail = m.usb.avail /\ n.usb.ints = m.usb.ints \cup {"DOUT_HALT"} /\ n.usb.halts = m.usb.halts \cup {"out"}
      /\ n.usb.csw = m.usb.csw /\ n.usb.rx = None /\ n.usb.tx = m.usb.tx /\ usb' \in Controllers
  <2> DEFINE v == [usb EXCEPT !.rx = None, !.ints = @ \cup {"DOUT_HALT"}, !.halts = @ \cup {"out"}]
  <2>1. usb \in Controllers
    BY NowIs DEF Good, Machine
  <2>2. /\ v \in Controllers /\ v.avail = usb.avail /\ v.ints = usb.ints \cup {"DOUT_HALT"}
        /\ v.halts = usb.halts \cup {"out"} /\ v.csw = usb.csw /\ v.rx = None /\ v.tx = usb.tx
    BY <2>1 DEF Controllers
  <2>3. usb' = v
    BY DEF DataOutRefused
  <2> HIDE DEF v
  <2> QED BY <2>2, <2>3, NowIs, NextIs
<1>5. Phase(m) /\ m \in Machine
  BY DEF Good, MachineInv
<1> HIDE DEF m, n
<1>6. Executing(m)
  BY <1>2, <1>5 DEF Phase, Off, Resting, Between, Invalid, Waiting, Told, QuietUsb, QuietPipe, HostSide, HostIdle, None
<1>7. HostSide(n) /\ ~Asked(n) /\ Ints(n) = Ints(m) \cup {"DOUT_HALT"} /\ Busy(n)
  BY <1>1, <1>2, <1>3, <1>4, <1>6 DEF Executing, HostSide, HostIdle, Busy, Asked, Ints, Resets
<1>8. NoData(m)
  BY <1>2, <1>6 DEF Executing, CpuIn, CpuOut, ReadData, WriteData, DriveOnly, QuietPipe, None
<1>9. NoDataOut(m)
  BY <1>2, <1>8 DEF NoData, NoDataIn, None
<1>10. Wire!Truthful(m.host, m.ctx.status) => Wire!Truthful(n.host, n.ctx.status)
  BY <1>1, <1>3 DEF Wire!Truthful
<1>11. Ints(m) = {} /\ m.usb.halts = {} /\ ~m.host.done /\ Wire!Truthful(m.host, m.ctx.status)
  BY <1>2, <1>9 DEF NoDataOut, Busy, None
<1>12. NoDataOut(n)
  BY <1>1, <1>2, <1>3, <1>4, <1>7, <1>9, <1>10, <1>11 DEF NoDataOut
<1>13. Executing(n)
  BY <1>1, <1>4, <1>6, <1>7, <1>8, <1>12 DEF Executing, NoData, DriveQuiet
<1> QED BY <1>1, <1>3, <1>4, <1>13, WireStep DEF Phase, n

LEMMA DataOutEndsKeeps == ASSUME Good(Now), DataOutEnds PROVE Good(Now')
<1> DEFINE m == Now
           n == Now'
<1>1. /\ n.host = m.host /\ n.ctx = m.ctx /\ n.fw = m.fw /\ n.drive = m.drive /\ n.seg = m.seg
      /\ UNCHANGED <<ctx, fw, drive, seg>>
  BY NowIs, NextIs DEF DataOutEnds
<1>2. /\ m.host.at = "busy" /\ m.usb.rx = "data" /\ host' \in Hosts
      /\ m.host.moved = m.host.cmd.len \/ ~U2B(m.ctx)
  BY NowIs DEF DataOutEnds, Good, Machine
<1>4. /\ n.usb.avail = m.usb.avail /\ n.usb.ints = m.usb.ints \cup {"RX_DONE"} /\ n.usb.halts = m.usb.halts
      /\ n.usb.csw = m.usb.csw /\ n.usb.rx = None /\ n.usb.tx = m.usb.tx /\ usb' \in Controllers
  <2> DEFINE v == [usb EXCEPT !.rx = None, !.ints = @ \cup {"RX_DONE"}]
  <2>1. usb \in Controllers
    BY NowIs DEF Good, Machine
  <2>2. /\ v \in Controllers /\ v.avail = usb.avail /\ v.ints = usb.ints \cup {"RX_DONE"}
        /\ v.halts = usb.halts /\ v.csw = usb.csw /\ v.rx = None /\ v.tx = usb.tx
    BY <2>1 DEF Controllers
  <2>3. usb' = v
    BY DEF DataOutEnds
  <2> HIDE DEF v
  <2> QED BY <2>2, <2>3, NowIs, NextIs
<1>5. Phase(m) /\ m \in Machine
  BY DEF Good, MachineInv
<1> HIDE DEF m, n
<1>6. Executing(m) \/ Told(m)
  BY <1>2, <1>5 DEF Phase, Off, Resting, Between, Invalid, Waiting, QuietUsb, QuietPipe, None
<1>7. HostSide(n) /\ (Asked(n) <=> Asked(m)) /\ Ints(n) = Ints(m) \cup {"RX_DONE"} /\ Busy(n) /\ m.ctx.cmd = m.host.cmd
  BY <1>1, <1>2, <1>4, <1>6 DEF Executing, Told, HostSide, HostIdle, Busy, Asked, Ints, Resets
<1>8. CASE Told(m)
  <2>1. Told(n)
    BY <1>1, <1>2, <1>4, <1>7, <1>8 DEF Told, DriveQuiet, Busy, None
  <2> QED BY <1>1, <1>2, <1>4, <2>1, WireStep DEF Phase, n
<1>9. CASE Executing(m)
  <2>1. CpuOut(m) \/ WriteData(m)
    BY <1>2, <1>9 DEF Executing, NoData, NoDataIn, NoDataOut, CpuIn, ReadData, DriveOnly, QuietPipe, None
  <2>2. CpuOut(m) => CpuOut(n)
    BY <1>1, <1>2, <1>4, <1>7 DEF CpuOut, Busy, DriveQuiet, U2B, None
  <2>3. WriteData(m) => WriteData(n)
    <3>1. WriteHost(m) => WriteHost(n)
      BY <1>1, <1>4 DEF WriteHost
    <3> QED BY <1>1, <1>2, <1>4, <1>7, <3>1 DEF WriteData, Busy, None
  <2>4. Executing(n)
    BY <1>1, <1>4, <1>7, <1>9, <2>1, <2>2, <2>3 DEF Executing
  <2> QED BY <1>1, <1>2, <1>4, <2>4, WireStep DEF Phase, n
<1> QED BY <1>6, <1>8, <1>9

LEMMA HostResetsKeep ==
  ASSUME Good(Now), HostGivesUp \/ HostBulkReset \/ HostBusReset PROVE Good(Now')
BY AskResetKeeps DEF HostGivesUp, HostBulkReset, HostBusReset, Resets

(***************************************************************************)
(* The drives.                                                             *)
(***************************************************************************)
\* Some drives on their way have gone on, or start again.
Onward(dr, er) ==
  \A ch \in Chs : \/ er[ch] = dr[ch]
                  \/ /\ Coming(dr[ch]) /\ (Coming(er[ch]) \/ er[ch].st = "ready")
                     /\ ~er[ch].init /\ (er[ch].park <=> dr[ch].park)

SameFw(m, n) == /\ n.fw.at = m.fw.at /\ n.fw.new = m.fw.new /\ n.fw.que = m.fw.que /\ n.fw.cur = m.fw.cur
                /\ n.fw.cbw = m.fw.cbw /\ n.fw.wait = m.fw.wait /\ n.fw.post = m.fw.post
                /\ n.fw.asleep = m.fw.asleep

LEMMA OnwardPhase ==
  ASSUME NEW m, NEW n, Phase(m), DrivesInv(m), n.host = m.host, n.ctx = m.ctx, n.usb = m.usb, SameFw(m, n),
         Onward(m.drive, n.drive), \E ch \in Chs : Coming(m.drive[ch])
  PROVE Phase(n)
<1>1. (DriveQuiet(n) <=> DriveQuiet(m)) /\ (DrivesOn(n) <=> DrivesOn(m)) /\ (Initialised(n) => Initialised(m))
  BY DEF Onward, DriveQuiet, DrivesOn, Initialised, Coming, Chs
<1>2. /\ n.drive[0].st = "active" <=> m.drive[0].st = "active"
      /\ n.drive[0].st = "active" => n.drive[0] = m.drive[0]
      /\ n.drive[0].park <=> m.drive[0].park
      /\ \A ch \in Chs : m.drive[ch].st = "ready" => n.drive[ch].st = "ready"
  BY DEF Onward, Coming, Chs
<1>3. Asked(n) = Asked(m) /\ Ints(n) = Ints(m) /\ (Arrival(n) <=> Arrival(m)) /\ (QuietPipe(n) <=> QuietPipe(m))
      /\ (HostIdle(n) <=> HostIdle(m)) /\ (Busy(n) <=> Busy(m)) /\ (HostSide(n) <=> HostSide(m))
  BY <1>1 DEF Asked, Ints, Arrival, Awake, QuietPipe, HostIdle, Busy, HostSide, SameFw
<1>4. Waiting(m) => Waiting(n)
  <2> SUFFICES ASSUME Waiting(m) PROVE Waiting(n)
    OBVIOUS
  <2>1. Untouched(n)
    BY <1>1, <1>2 DEF Waiting, Untouched, SameFw
  <2> QED BY <1>1, <1>3, <2>1 DEF Waiting, Awake, LastEnds, LastEnded, SameFw
<1>5. ~Off(m)
  BY DEF Off, Coming, Chs
<1>6. Resting(m) => Resting(n)
  BY <1>1, <1>3 DEF Resting, SameFw
<1>7. Between(m) => Between(n)
  BY <1>1, <1>3 DEF Between, LastEnds, LastEnded, SameFw
<1>8. Invalid(m) => Invalid(n)
  BY <1>1, <1>3 DEF Invalid, SameFw
<1>9. Told(m) => Told(n)
  BY <1>1, <1>3 DEF Told, SameFw
<1>10. Executing(m) => Executing(n)
  <2> SUFFICES ASSUME Executing(m) PROVE Executing(n)
    OBVIOUS
  <2>1. NoData(m) => NoData(n)
    BY <1>1, <1>3 DEF NoData, NoDataIn, NoDataOut, StallIn, SameFw
  <2>2. CpuIn(m) => CpuIn(n)
    BY <1>1, <1>3 DEF CpuIn, StallIn, SameFw
  <2>3. CpuOut(m) => CpuOut(n)
    BY <1>1, <1>3 DEF CpuOut, SameFw
  <2>4. ReadData(m) => ReadData(n)
    <3> SUFFICES ASSUME ReadData(m) PROVE ReadData(n)
      OBVIOUS
    <3>1. m.ctx.ccm => n.drive[0] = m.drive[0]
      BY <1>2 DEF ReadData
    <3>2. ReadHost(m) => ReadHost(n)
      BY <3>1 DEF ReadHost
    <3> QED BY <1>2, <1>3, <3>1, <3>2 DEF ReadData, ReadSends, ReadTaken, StallIn, SameFw
  <2>5. WriteData(m) => WriteData(n)
    BY <1>2, <1>3 DEF WriteData, WriteHost, SameFw
  <2>6. DriveOnly(m) => DriveOnly(n)
    BY <1>2, <1>3 DEF DriveOnly, SameFw
  <2> QED BY <1>3, <2>1, <2>2, <2>3, <2>4, <2>5, <2>6 DEF Executing, SameFw
<1> QED BY <1>4, <1>5, <1>6, <1>7, <1>8, <1>9, <1>10 DEF Phase

LEMMA OnwardDrives ==
  ASSUME NEW m, NEW n, DrivesInv(m), SameFw(m, n), Onward(m.drive, n.drive), \E ch \in Chs : Coming(m.drive[ch]),
         n.fw.timer > 0 => \E ch \in Chs : Coming(n.drive[ch]),
         n.drive[0].park => Coming(n.drive[0]) /\ n.fw.timer = 0
  PROVE DrivesInv(n)
BY DEF DrivesInv, Onward, SameFw, Coming, Chs

LEMMA DriveSet ==
  ASSUME NEW d \in [Chs -> Drives], NEW c \in Chs, NEW e,
         NEW to \in {"down", "reset", "phy", "id", "setup", "ready", "active"}, e = [d EXCEPT ![c].st = to]
  PROVE /\ e \in [Chs -> Drives] /\ \A ch \in Chs : ch # c => e[ch] = d[ch]
        /\ e[c].st = to /\ e[c].end = d[c].end /\ e[c].tcnt = d[c].tcnt
        /\ e[c].init = d[c].init /\ e[c].park = d[c].park
<1>1. d[c] \in Drives /\ e[c] = [d[c] EXCEPT !.st = to]
  OBVIOUS
<1>2. [d[c] EXCEPT !.st = to] \in Drives
  BY <1>1 DEF Drives
<1> QED BY <1>1, <1>2 DEF Drives

\* A drive goes on to the next state before it is ready.
LEMMA MovesKeeps ==
  ASSUME Good(Now), NEW c \in Chs, NEW from \in {"reset", "phy", "id"}, NEW to \in {"phy", "id", "setup"},
         Moves(c, from, to), UNCHANGED <<host, ctx, fw, usb>>, SegInv(Now'), seg' \in Segments
  PROVE Good(Now')
<1> DEFINE m == Now
           n == Now'
<1>1. n.host = m.host /\ n.ctx = m.ctx /\ n.fw = m.fw /\ n.usb = m.usb
  BY NowIs, NextIs
<1>2. m.drive \in [Chs -> Drives] /\ m.drive[c].st = from /\ n.drive = [m.drive EXCEPT ![c].st = to]
  BY NowIs, NextIs DEF Good, Machine, Moves
<1>3. n.drive \in [Chs -> Drives] /\ n \in Machine
  <2>1. n.drive \in [Chs -> Drives]
    BY <1>2, DriveSet
  <2> QED BY <1>1, <2>1, NowIs, NextIs DEF Good, Machine, Now
<1>4. DrivesInv(m) /\ Phase(m)
  BY DEF Good, MachineInv
<1> HIDE DEF m, n
<1>5. /\ \A ch \in Chs : ch # c => n.drive[ch] = m.drive[ch]
      /\ n.drive[c].st = to /\ n.drive[c].init = m.drive[c].init /\ n.drive[c].park = m.drive[c].park
  BY <1>2, DriveSet
<1>6. Coming(m.drive[c]) /\ Coming(n.drive[c]) /\ ~m.drive[c].init
  BY <1>2, <1>4, <1>5 DEF Coming, DrivesInv
<1>7. Onward(m.drive, n.drive) /\ SameFw(m, n)
  BY <1>1, <1>5, <1>6 DEF Onward, SameFw
<1>8. DrivesInv(n)
  <2>1. n.drive[0].park => Coming(n.drive[0]) /\ n.fw.timer = 0
    BY <1>1, <1>4, <1>5, <1>6 DEF DrivesInv, Chs
  <2> QED BY <1>4, <1>6, <1>7, <2>1, OnwardDrives
<1>9. Phase(n)
  BY <1>1, <1>4, <1>6, <1>7, OnwardPhase
<1> QED BY <1>3, <1>8, <1>9 DEF Good, MachineInv, n

LEMMA PhyReadyKeeps == ASSUME Good(Now), NEW c \in Chs, PhyReady(c) PROVE Good(Now')
<1> DEFINE m == Now
           n == Now'
<1>1. Moves(c, "reset", "phy") /\ UNCHANGED <<host, ctx, fw, usb, seg>>
  BY DEF PhyReady
<1>2. n.seg = m.seg /\ n.ctx = m.ctx /\ n.fw = m.fw /\ seg' \in Segments
  BY <1>1, NowIs, NextIs DEF Good, Machine
<1>3. m.drive \in [Chs -> Drives] /\ m.drive[c].st = "reset" /\ n.drive = [m.drive EXCEPT ![c].st = "phy"]
  BY <1>1, NowIs, NextIs DEF Good, Machine, Moves
<1>4. SegInv(m)
  BY DEF Good, MachineInv
<1> HIDE DEF m, n
<1>5. \A ch \in Chs : n.drive[ch].st = m.drive[ch].st \/ m.drive[ch].st = "reset"
  BY <1>3, DriveSet
<1>6. SegInv(n)
  <2>1. Owned(m.seg, Holds(m), m.drive) /\ Holds(n) = Holds(m)
    BY <1>2, <1>4, SegInvIs DEF Holds, Held
  <2>2. 0 \in Chs
    BY DEF Chs
  <2> QED BY <1>2, <1>5, <2>1, <2>2, OwnedFrame, SegInvIs
<1> QED BY <1>1, <1>2, <1>6, MovesKeeps DEF n

LEMMA ReadIdStartsKeeps == ASSUME Good(Now), NEW c \in Chs, ReadIdStarts(c) PROVE Good(Now')
<1> DEFINE m == Now
           n == Now'
<1>1. /\ Moves(c, "phy", "id") /\ UNCHANGED <<host, ctx, fw, usb>>
  BY DEF ReadIdStarts
<1>2. /\ n.seg = set_dbufConnection(m.seg, ReadID(c)) /\ n.ctx = m.ctx /\ n.fw = m.fw
      /\ m.seg \in Segments /\ seg' = n.seg
  BY NowIs, NextIs DEF Good, Machine, ReadIdStarts
<1>3. m.drive \in [Chs -> Drives] /\ m.drive[c].st = "phy" /\ n.drive = [m.drive EXCEPT ![c].st = "id"]
  BY <1>1, NowIs, NextIs DEF Good, Machine, Moves
<1>4. SegInv(m) /\ m.ctx \in Contexts
  BY DEF Good, MachineInv, Machine
<1> HIDE DEF m, n
<1>5. n.drive[c].st = "id" /\ \A ch \in Chs : n.drive[ch].st = m.drive[ch].st \/ (m.drive[ch].st = "phy" /\ ch = c)
  BY <1>3, DriveSet
<1>6. Owned(m.seg, Holds(m), m.drive) /\ Holds(n) = Holds(m) /\ Holds(m) \in CtxSegs \cup {NoSeg}
  BY <1>2, <1>4, SegInvIs DEF Holds, Held, Contexts, CtxSegs
<1>7. n.seg \in Segments /\ Owned(n.seg, Holds(n), n.drive)
  <2>1. 0 \in Chs
    BY DEF Chs
  <2> QED BY <1>2, <1>5, <1>6, <2>1, IdStarts, ZenonT(60)
<1> QED BY <1>1, <1>2, <1>7, SegInvIs, MovesKeeps DEF n

LEMMA ReadIdEndsKeeps == ASSUME Good(Now), NEW c \in Chs, ReadIdEnds(c) PROVE Good(Now')
<1> DEFINE m == Now
           n == Now'
<1>1. /\ Moves(c, "id", "setup") /\ UNCHANGED <<host, ctx, fw, usb>>
  BY DEF ReadIdEnds
<1>2. /\ n.seg = free_dbufConnection(reset_dbuf_seg(m.seg, ReadID(c)), ReadID(c)) /\ n.ctx = m.ctx /\ n.fw = m.fw
      /\ m.seg \in Segments /\ seg' = n.seg
  BY NowIs, NextIs DEF Good, Machine, ReadIdEnds
<1>3. m.drive \in [Chs -> Drives] /\ m.drive[c].st = "id" /\ n.drive = [m.drive EXCEPT ![c].st = "setup"]
  BY <1>1, NowIs, NextIs DEF Good, Machine, Moves
<1>4. SegInv(m)
  BY DEF Good, MachineInv
<1> HIDE DEF m, n
<1>5. \A ch \in Chs : n.drive[ch].st = m.drive[ch].st \/ (m.drive[ch].st = "id" /\ ch = c)
  BY <1>3, DriveSet
<1>6. Owned(m.seg, Holds(m), m.drive) /\ Holds(n) = Holds(m)
  BY <1>2, <1>4, SegInvIs DEF Holds, Held
<1>7. n.seg \in Segments /\ Owned(n.seg, Holds(n), n.drive)
  <2>1. 0 \in Chs
    BY DEF Chs
  <2>2. n.seg = [s \in Segs |-> n.seg[s]] /\ Frees(m.seg, n.seg)
    BY <1>2, IdFreed
  <2> QED BY <1>2, <1>5, <1>6, <2>1, <2>2, FreesOwned, ZenonT(60)
<1> QED BY <1>1, <1>2, <1>7, SegInvIs, MovesKeeps DEF n

LEMMA ActiveIs ==
  ASSUME NEW m, Phase(m), m.drive[0].st = "active"
  PROVE /\ Executing(m) /\ m.fw.at = "bot" /\ m.ctx.ccm /\ ~m.ctx.nodata
        /\ ReadData(m) \/ WriteData(m) \/ DriveOnly(m)
<1>1. Executing(m)
  BY DEF Phase, Off, Resting, Between, Invalid, Waiting, Told, DriveQuiet, Chs
<1>2. ReadData(m) \/ WriteData(m) \/ DriveOnly(m)
  BY <1>1 DEF Executing, NoData, CpuIn, CpuOut, DriveQuiet
<1>3. m.fw.at = "bot" /\ m.ctx.ccm /\ ~m.ctx.nodata
  BY <1>1, <1>2 DEF Executing, ReadData, WriteData, DriveOnly
<1> QED BY <1>1, <1>2, <1>3

\* Drive 0 at work goes on with it.
LEMMA ActiveStep ==
  ASSUME Good(Now), UNCHANGED <<ctx, fw, usb, seg>>, host' \in Hosts, NEW x \in Drives, drive' = [drive EXCEPT ![0] = x],
         drive[0].st = "active", x.st = "active", x.init = drive[0].init, x.park = drive[0].park, Phase(Now')
  PROVE Good(Now')
<1> DEFINE m == Now
           n == Now'
<1>1. /\ n.ctx = m.ctx /\ n.fw = m.fw /\ n.seg = m.seg /\ m.drive \in [Chs -> Drives]
      /\ n.drive = [m.drive EXCEPT ![0] = x]
      /\ m.drive[0].st = "active" /\ x.init = m.drive[0].init /\ x.park = m.drive[0].park
  BY NowIs, NextIs DEF Good, Machine
<1>2. n.drive \in [Chs -> Drives] /\ n \in Machine
  <2>1. n.drive \in [Chs -> Drives]
    BY <1>1
  <2> QED BY <1>1, <2>1, NowIs, NextIs DEF Good, Machine, Now
<1>3. DrivesInv(m) /\ SegInv(m)
  BY DEF Good, MachineInv
<1> HIDE DEF m, n
<1>4. n.drive[0] = x /\ n.drive[1] = m.drive[1]
  BY <1>1 DEF Chs
<1>5. DrivesInv(n)
  BY <1>1, <1>3, <1>4 DEF DrivesInv, Coming, Chs
<1>6. SegInv(n)
  <2>1. Owned(m.seg, Holds(m), m.drive) /\ Holds(n) = Holds(m)
    BY <1>1, <1>3, SegInvIs DEF Holds, Held
  <2>2. \A ch \in Chs : m.drive[ch].st = n.drive[ch].st
    BY <1>1, <1>4 DEF Chs
  <2> QED BY <1>1, <2>1, <2>2, OwnedFrame, SegInvIs DEF Chs
<1> QED BY <1>2, <1>5, <1>6 DEF Good, MachineInv, n

LEMMA DriveTakesKeeps == ASSUME Good(Now), DriveTakes PROVE Good(Now')
<1> DEFINE m == Now
           n == Now'
           x == [drive[0] EXCEPT !.tcnt = @ - 1]
<1>1. /\ n.host = m.host /\ n.ctx = m.ctx /\ n.fw = m.fw /\ n.usb = m.usb
      /\ UNCHANGED <<ctx, fw, usb, seg>> /\ host' \in Hosts
  BY NowIs, NextIs DEF DriveTakes, Good, Machine
<1>2. m.drive[0].st = "active" /\ m.drive[0].end = "no" /\ m.drive[0].tcnt > 0 /\ m.host.moved > Taken
  BY NowIs DEF DriveTakes
<1>3. drive \in [Chs -> Drives] /\ drive[0] \in Drives /\ m.drive = drive /\ n.drive = drive' /\ drive[0].tcnt \in Nat
      /\ m.host \in Hosts
  BY NowIs, NextIs DEF Good, Machine, Chs, Drives
<1>4. drive' = [drive EXCEPT ![0] = x]
  BY DEF DriveTakes
<1>5. /\ x \in Drives /\ x.st = "active" /\ x.end = "no" /\ x.tcnt = drive[0].tcnt - 1
      /\ x.init = drive[0].init /\ x.park = drive[0].park
  BY <1>2, <1>3 DEF Drives
<1>6. m.ctx.cmd.op = "WRITE" /\ m.ctx.ccm => Taken = m.ctx.cmd.dev - m.drive[0].tcnt
  BY NowIs DEF Taken
<1>7. Phase(m)
  BY DEF Good, MachineInv
<1> HIDE DEF m, n, x
<1>8. n.drive[0] = x
  BY <1>3, <1>4 DEF Chs
<1>9. Executing(m) /\ (ReadData(m) \/ WriteData(m) \/ DriveOnly(m)) /\ m.ctx.ccm /\ m.ctx.cmd \in Commands
  BY <1>2, <1>7, ActiveIs DEF Executing, HostSide
<1>10. ReadData(m) => ReadData(n)
  BY <1>1, <1>2, <1>3, <1>5, <1>8 DEF ReadData, ReadSends, ReadTaken, ReadHost, StallIn, Busy, Ints
<1>11. DriveOnly(m) => DriveOnly(n)
  BY <1>1, <1>2, <1>3, <1>5, <1>8 DEF DriveOnly, Busy, Ints, QuietPipe
<1>12. WriteData(m) => WriteData(n)
  <2> SUFFICES ASSUME WriteData(m) PROVE WriteData(n)
    OBVIOUS
  <2>0. /\ m.host.moved \in Nat /\ m.ctx.cmd.dev \in Nat /\ m.drive[0].tcnt \in Nat
        /\ n.drive[0].tcnt = m.drive[0].tcnt - 1 /\ n.drive[0].end = m.drive[0].end
    BY <1>2, <1>3, <1>5, <1>8, <1>9, CommandIs DEF Hosts
  <2>3. Taken = m.ctx.cmd.dev - m.drive[0].tcnt
    BY <1>6, <1>9 DEF WriteData
  <2>1. WriteHost(m) => WriteHost(n)
    <3> SUFFICES ASSUME WriteHost(m) PROVE WriteHost(n)
      OBVIOUS
    <3>1. n.ctx.cmd.dev - n.drive[0].tcnt <= n.host.moved
      BY <1>1, <1>2, <2>0, <2>3
    <3> QED BY <1>1, <2>0, <3>1 DEF WriteHost
  <2>4. m.drive[0].tcnt <= m.ctx.cmd.dev
    BY DEF WriteData
  <2>2. n.drive[0].tcnt <= m.ctx.cmd.dev
    BY <2>0, <2>4
  <2> QED BY <1>1, <1>2, <1>3, <1>5, <1>8, <2>1, <2>2 DEF WriteData, Busy, Ints
<1>13. Phase(n)
  BY <1>1, <1>9, <1>10, <1>11, <1>12 DEF Phase, Executing, HostSide, HostIdle, Busy, Asked
<1> QED BY <1>1, <1>2, <1>3, <1>4, <1>5, <1>13, ActiveStep DEF n

LEMMA DriveEndsKeeps == ASSUME Good(Now), DriveEnds PROVE Good(Now')
<1> DEFINE m == Now
           n == Now'
<1>1. /\ n.ctx = m.ctx /\ n.fw = m.fw /\ n.usb = m.usb /\ UNCHANGED <<ctx, fw, usb, seg>>
  BY NowIs, NextIs DEF DriveEnds
<1>2. m.drive[0].st = "active" /\ m.drive[0].end = "no"
  BY NowIs DEF DriveEnds
<1>3. drive \in [Chs -> Drives] /\ drive[0] \in Drives /\ m.drive = drive /\ n.drive = drive'
      /\ host \in Hosts /\ m.host = host /\ n.host = host'
  BY NowIs, NextIs DEF Good, Machine, Chs
<1>4. PICK e \in {"ok", "err"} :
        /\ drive' = [drive EXCEPT ![0] = [@ EXCEPT !.end = e]]
        /\ e = "ok" => drive[0].tcnt = 0 /\ host' = host
        /\ e = "err" => host' = [host EXCEPT !.failed = host.at = "busy"]
  BY DEF DriveEnds
<1> DEFINE x == [drive[0] EXCEPT !.end = e]
<1>5. drive' = [drive EXCEPT ![0] = x]
  BY <1>4
<1>6. /\ x \in Drives /\ x.st = drive[0].st /\ x.end = e /\ x.tcnt = drive[0].tcnt
      /\ x.init = drive[0].init /\ x.park = drive[0].park
  BY <1>3, <1>4 DEF Drives
<1>7. /\ n.host.at = m.host.at /\ n.host.cmd = m.host.cmd /\ n.host.moved = m.host.moved
      /\ n.host.stalled = m.host.stalled /\ n.host.done = m.host.done /\ host' \in Hosts
      /\ e = "ok" => n.host.failed = m.host.failed
      /\ e = "err" => (n.host.failed <=> m.host.at = "busy")
  <2>1. CASE e = "ok"
    BY <1>3, <1>4, <2>1
  <2>2. CASE e = "err"
    <3> DEFINE b == host.at = "busy"
    <3>1. b \in BOOLEAN /\ host' = [host EXCEPT !.failed = b]
      BY <1>4, <2>2
    <3> HIDE DEF b
    <3>2. /\ n.host.at = m.host.at /\ n.host.cmd = m.host.cmd /\ n.host.moved = m.host.moved
          /\ n.host.stalled = m.host.stalled /\ n.host.done = m.host.done /\ host' \in Hosts
          /\ n.host.failed = b
      BY <1>3, <3>1 DEF Hosts
    <3> QED BY <1>3, <2>2, <3>2 DEF b
  <2> QED BY <2>1, <2>2
<1>8. Phase(m)
  BY DEF Good, MachineInv
<1>9. n.drive[0] = x
  BY <1>3, <1>5 DEF Chs
<1>14. m.drive[0].st = "active" /\ x.st = "active" /\ e \in {"ok", "err"} /\ (e = "ok" => m.drive[0].tcnt = 0)
       /\ x.tcnt = m.drive[0].tcnt /\ x.park = m.drive[0].park
  BY <1>2, <1>3, <1>4, <1>6
<1> HIDE DEF m, n, x
<1>10. Executing(m) /\ m.ctx.ccm /\ (ReadData(m) \/ WriteData(m) \/ DriveOnly(m))
  BY <1>2, <1>8, ActiveIs
<1>11. ReadData(m) => ReadData(n)
  <2> SUFFICES ASSUME ReadData(m) PROVE ReadData(n)
    OBVIOUS
  <2>2. ReadSends(m)
    BY <1>2, <1>10 DEF ReadData, ReadTaken
  <2>1. ReadSends(n)
    BY <1>1, <1>2, <1>6, <1>7, <1>9, <1>14, <2>2 DEF ReadSends, Busy, Ints
  <2> QED BY <1>1, <1>9, <1>14, <2>1 DEF ReadData
<1>12. DriveOnly(m) => DriveOnly(n)
  BY <1>1, <1>2, <1>6, <1>7, <1>9, <1>14 DEF DriveOnly, Busy, Ints, QuietPipe
<1>13. WriteData(m) => WriteData(n)
  <2> SUFFICES ASSUME WriteData(m) PROVE WriteData(n)
    OBVIOUS
  <2>1. WriteHost(m) => WriteHost(n)
    BY <1>1, <1>2, <1>6, <1>7, <1>9, <1>14 DEF WriteHost
  <2> QED BY <1>1, <1>6, <1>7, <1>9, <1>14, <2>1 DEF WriteData, Busy, Ints
<1>15. HostSide(n)
  BY <1>1, <1>7, <1>10, <1>14 DEF Executing, HostSide, HostIdle, Busy, Asked
<1>16. Phase(n)
  BY <1>1, <1>10, <1>11, <1>12, <1>13, <1>15 DEF Phase, Executing
<1> QED BY <1>1, <1>2, <1>3, <1>5, <1>6, <1>7, <1>16, ActiveStep DEF n

\* A handler of the firmware replaces the whole record.
LEMMA BecomeIs ==
  ASSUME NEW k \in Machine, Become(k) PROVE Now' = k
BY DEF Become, Now, Machine

LEMMA SetupEndsKeeps == ASSUME Good(Now), NEW c \in Chs, SetupEnds(c) PROVE Good(Now')
<1> DEFINE m == Now
           e == [m.drive EXCEPT ![c].st = "ready"]
           p == [m EXCEPT !.drive[c].st = "ready"]
           n == IF AllUp(p) THEN [p EXCEPT !.fw.timer = 0] ELSE p
<1>1. Running /\ m.drive[c].st = "setup" /\ Step(IF m.drive[c].park THEN sata_exec_scm(n) ELSE n)
  BY NowIs DEF SetupEnds
<1>2. m \in Machine /\ DrivesInv(m) /\ SegInv(m) /\ Phase(m)
  BY DEF Good, MachineInv
<1> HIDE DEF m
<1>3. /\ e \in [Chs -> Drives] /\ \A ch \in Chs : ch # c => e[ch] = m.drive[ch]
      /\ e[c].st = "ready" /\ e[c].end = m.drive[c].end /\ e[c].tcnt = m.drive[c].tcnt
      /\ e[c].init = m.drive[c].init /\ e[c].park = m.drive[c].park
  <2>1. m.drive \in [Chs -> Drives] /\ e = [m.drive EXCEPT ![c].st = "ready"]
    BY <1>2 DEF Machine
  <2> HIDE DEF e
  <2> QED BY <2>1, DriveSet
<1>4. p = [m EXCEPT !.drive = e] /\ p \in Machine /\ p.drive = e /\ p.fw = m.fw
      /\ p.host = m.host /\ p.ctx = m.ctx /\ p.usb = m.usb /\ p.seg = m.seg
  BY <1>2, <1>3 DEF Machine
<1> HIDE DEF e, p
<1>5. 0 \in 0..Spinup
  BY BotAssumption
<1>6. /\ n \in Machine /\ n.drive = e /\ n.host = m.host /\ n.ctx = m.ctx /\ n.usb = m.usb /\ n.seg = m.seg
      /\ SameFw(m, n) /\ n.fw.timer = IF AllUp(p) THEN 0 ELSE m.fw.timer
  BY <1>2, <1>4, <1>5 DEF Machine, SameFw, Firmwares
<1>7. Coming(m.drive[c]) /\ ~m.drive[c].init
  BY <1>1, <1>2 DEF Coming, DrivesInv
<1>8. AllUp(p) <=> \A ch \in Chs : ch # c => Up(m.drive[ch])
  BY <1>3, <1>4 DEF AllUp, Up
<1> HIDE DEF n
<1>9. Onward(m.drive, n.drive)
  BY <1>3, <1>6, <1>7 DEF Onward
<1>10. n.fw.timer > 0 => \E ch \in Chs : Coming(n.drive[ch])
  <2>1. SUFFICES ASSUME n.fw.timer > 0, NEW ch \in Chs, ch # c, ~Up(m.drive[ch]) PROVE Coming(n.drive[ch])
    BY <1>6, <1>8
  <2>2. m.drive[ch].st # "down" /\ m.drive[ch] \in Drives
    BY <1>2, <1>7 DEF DrivesInv, Coming, Machine
  <2> QED BY <1>3, <1>6, <2>1, <2>2 DEF Coming, Up, Drives
<1>11. SegInv(n)
  <2>1. Owned(m.seg, Holds(m), m.drive) /\ Holds(n) = Holds(m)
    BY <1>2, <1>6, SegInvIs DEF Holds, Held, SameFw
  <2>2. \A ch \in Chs : m.drive[ch].st = n.drive[ch].st \/ m.drive[ch].st = "setup"
    BY <1>1, <1>3, <1>6
  <2> QED BY <1>6, <2>1, <2>2, OwnedFrame, SegInvIs DEF Chs
<1>12. CASE ~m.drive[c].park
  <2>1. n.drive[0].park => Coming(n.drive[0]) /\ n.fw.timer = 0
    BY <1>2, <1>3, <1>6, <1>12 DEF DrivesInv, Chs
  <2>2. DrivesInv(n) /\ Phase(n)
    BY <1>2, <1>6, <1>7, <1>9, <1>10, <2>1, OnwardDrives, OnwardPhase
  <2>3. Now' = n
    BY <1>1, <1>6, <1>12, BecomeIs DEF Step
  <2> QED BY <1>6, <1>11, <2>2, <2>3 DEF Good, MachineInv
<1>13. CASE m.drive[c].park
  <2> DEFINE x == [n.drive[0] EXCEPT !.st = "active", !.end = "no", !.park = FALSE,
                                     !.tcnt = IF n.ctx.cmd.op = "WRITE" THEN n.ctx.cmd.dev ELSE 0]
             k == [n EXCEPT !.drive[0] = x]
  <2>1. c = 0 /\ ~DriveQuiet(m)
    BY <1>2, <1>13 DEF DrivesInv, Chs, DriveQuiet
  <2>2. Executing(m) /\ DriveOnly(m)
    BY <1>2, <1>1, <1>13, <2>1 DEF Phase, Off, Resting, Between, Invalid, Waiting, Told, Executing,
                      NoData, CpuIn, CpuOut, ReadData, WriteData, Chs
  <2>3. sata_exec_scm(n) = k
    BY <1>6, <2>2 DEF sata_exec_scm, DriveOnly
  <2>4. n.ctx.cmd.op # "WRITE"
    BY <1>6, <2>2 DEF DriveOnly
  <2>5. n.drive[0] \in Drives /\ n.drive \in [Chs -> Drives]
    BY <1>6 DEF Machine, Chs
  <2>6. x \in Drives /\ x.st = "active" /\ x.end = "no" /\ ~x.park /\ x.init = n.drive[0].init /\ x.tcnt = 0
    BY <2>4, <2>5 DEF Drives
  <2> HIDE DEF x
  <2>7. /\ k \in Machine /\ k.host = m.host /\ k.ctx = m.ctx /\ k.usb = m.usb /\ k.seg = m.seg /\ k.fw = n.fw
        /\ k.drive[0] = x /\ k.drive[1] = m.drive[1]
    BY <1>3, <1>6, <2>1, <2>5, <2>6 DEF Machine, Chs
  <2> HIDE DEF k
  <2>8. DrivesInv(k)
    BY <1>2, <1>3, <1>6, <1>7, <1>10, <1>13, <2>1, <2>6, <2>7 DEF DrivesInv, Coming, Chs, SameFw
  <2>9. SegInv(k)
    <3>1. Owned(n.seg, Holds(n), n.drive) /\ Holds(k) = Holds(n)
      BY <1>6, <1>11, <2>7, SegInvIs DEF Holds, Held
    <3>2. n.drive[0].st = "ready" /\ n.drive[1] = m.drive[1]
      BY <1>3, <1>6, <2>1 DEF Chs
    <3> QED BY <1>6, <2>6, <2>7, <3>1, <3>2, OwnedFrame, SegInvIs DEF Chs
  <2>10. DriveOnly(k)
    BY <1>1, <1>6, <2>1, <2>2, <2>6, <2>7 DEF DriveOnly, QuietPipe, Ints, Busy, SameFw
  <2>11. Executing(k)
    BY <1>6, <2>2, <2>7, <2>10 DEF Executing, HostSide, HostIdle, Asked, Busy, SameFw
  <2>12. Now' = k
    BY <1>1, <1>13, <2>3, <2>7, BecomeIs DEF Step
  <2> QED BY <2>7, <2>8, <2>9, <2>11, <2>12 DEF Good, MachineInv, Phase
<1> QED BY <1>12, <1>13

(***************************************************************************)
(* A command goes to the controller.                                       *)
(***************************************************************************)
\* It has been taken up, and nothing of it is with the controller or the drive.
Ready(m) ==
  /\ m \in Machine /\ DrivesInv(m) /\ SegInv(m)
  /\ m.fw.at = "bot" /\ m.fw.que /\ ~m.fw.new /\ ~m.fw.cur /\ m.fw.post = "no" /\ ~m.fw.asleep
  /\ ~m.usb.avail /\ QuietPipe(m) /\ Ints(m) = {} /\ DriveQuiet(m)
  /\ m.ctx.state \in {"SETUP_DONE", "CHK_CDB_FIELD_DONE"} /\ ~m.ctx.ccm /\ HostSide(m)
  /\ Busy(m) => m.host.moved = 0 /\ ~m.host.stalled /\ (m.host.done <=> m.host.cmd.len = 0)

\* The context may be filled in.
LEMMA ReadyFrame ==
  ASSUME NEW m, NEW n, Ready(m), n \in Machine, n.host = m.host, n.fw = m.fw, n.usb = m.usb, n.drive = m.drive,
         n.seg = m.seg, n.ctx.cmd = m.ctx.cmd, ~n.ctx.ccm, n.ctx.state \in {"SETUP_DONE", "CHK_CDB_FIELD_DONE"}
  PROVE Ready(n)
<1>1. DrivesInv(n)
  BY DrivesFrame DEF Ready
<1>2. Holds(m) = NoSeg
  BY DEF Ready, Holds, Held
<1>3. SegInv(n)
  BY <1>2, SegFrame DEF Ready
<1> QED BY <1>1, <1>3 DEF Ready, QuietPipe, Ints, DriveQuiet, HostSide, HostIdle, Asked, Busy

\* The context goes to the controller; the status too if there is no data to wait for.
LEMMA ExecIs ==
  ASSUME NEW m \in Machine, ~m.fw.cur, m.fw.que, m.ctx.state \in {"SETUP_DONE", "CHK_CDB_FIELD_DONE"},
         NEW n, n = usb_exec_que_ctxt(m), m.ctx.dir = "in" /\ m.ctx.cmd.len = 0 => m.ctx.status \in Final
  PROVE /\ n.host = m.host /\ n.ctx = m.ctx /\ n.drive = m.drive
        /\ n.fw.at = m.fw.at /\ n.fw.new = m.fw.new /\ n.fw.post = m.fw.post /\ n.fw.asleep = m.fw.asleep
        /\ n.fw.timer = m.fw.timer /\ n.fw.cur
        /\ n.fw.que <=> ~(m.ctx.dir = "in" /\ m.ctx.cmd.len = 0)
        /\ n.usb.avail = m.usb.avail /\ n.usb.ints = m.usb.ints /\ n.usb.halts = m.usb.halts
        /\ n.usb.tx = IF m.ctx.dir # "in" THEN m.usb.tx ELSE IF m.ctx.nodata THEN "nodata" ELSE "data"
        /\ n.usb.rx = IF m.ctx.dir = "in" THEN m.usb.rx ELSE IF m.ctx.nodata THEN "nodata" ELSE "data"
        /\ n.usb.csw = IF m.ctx.dir = "in" /\ m.ctx.cmd.len = 0 THEN m.ctx.status ELSE m.usb.csw
        /\ n.seg = IF m.ctx.seg = NoSeg THEN m.seg
                   ELSE IF m.ctx.dir = "in" THEN keep_sourceDbufConnection(m.seg, m.ctx.seg)
                   ELSE set_dbufConnection(m.seg, m.ctx.seg)
        /\ n.seg \in Segments => n \in Machine
<1>1. CASE m.ctx.dir = "in" /\ m.ctx.cmd.len = 0
  BY <1>1, ZenonT(60) DEF usb_exec_que_ctxt, usb_exec_tx_ctxt, usb_ctxt_send_status, Machine, Firmwares, Controllers, Final
<1>2. CASE m.ctx.dir = "in" /\ m.ctx.cmd.len # 0
  BY <1>2 DEF usb_exec_que_ctxt, usb_exec_tx_ctxt, Machine, Firmwares, Controllers
<1>3. CASE m.ctx.dir # "in"
  BY <1>3 DEF usb_exec_que_ctxt, usb_exec_rx_ctxt, Machine, Firmwares, Controllers
<1> QED BY <1>1, <1>2, <1>3

\* A command without data: refused to a host that moves some, or answered.
LEMMA NoDataGood ==
  ASSUME NEW m, Ready(m), m.ctx.status \in Final, Busy(m) => Wire!Truthful(m.host, m.ctx.status),
         m.ctx.seg = NoSeg, m.ctx.flag = "U2B", m.ctx.nodata,
         m.ctx.dir = (IF m.ctx.cmd.len = 0 THEN "in" ELSE m.ctx.cmd.dir),
         m.ctx.phase \in {10, 13} => m.ctx.status = "PHASE"
  PROVE Good(usb_exec_que_ctxt(m))
<1>1. m \in Machine /\ m.ctx.cmd.len \in Nat /\ m.ctx.cmd.dir \in {"in", "out"}
  BY CommandIs DEF Ready, HostSide
<1> DEFINE n == usb_exec_que_ctxt(m)
           to == m.ctx.dir = "in"
           told == m.ctx.cmd.len = 0
<1>2. /\ n.host = m.host /\ n.ctx = m.ctx /\ n.drive = m.drive /\ n.seg = m.seg
      /\ n.fw.at = m.fw.at /\ n.fw.new = m.fw.new /\ n.fw.post = m.fw.post /\ n.fw.asleep = m.fw.asleep
      /\ n.fw.timer = m.fw.timer /\ n.fw.cur /\ (n.fw.que <=> m.ctx.cmd.len # 0)
      /\ n.usb.avail = m.usb.avail /\ n.usb.ints = m.usb.ints /\ n.usb.halts = m.usb.halts
      /\ n.usb.tx = IF m.ctx.dir = "in" THEN "nodata" ELSE m.usb.tx
      /\ n.usb.rx = IF m.ctx.dir = "in" THEN m.usb.rx ELSE "nodata"
      /\ n.usb.csw = IF m.ctx.cmd.len = 0 THEN m.ctx.status ELSE m.usb.csw
      /\ n \in Machine
  <2> HIDE DEF n
  <2>1. n = usb_exec_que_ctxt(m) /\ m.seg \in Segments
    BY <1>1 DEF n, Machine
  <2> QED BY <1>1, <2>1, ExecIs DEF Ready
<1> HIDE DEF n
<1>3. Asked(n) = Asked(m) /\ Ints(n) = Ints(m) /\ Busy(n) = Busy(m) /\ HostSide(n)
  BY <1>2 DEF Ready, Asked, Ints, Busy, HostSide, HostIdle
<1>4. DrivesInv(n)
  BY <1>2, DrivesFrame DEF Ready
<1>5. SegInv(n)
  <2>1. Holds(m) = NoSeg
    BY DEF Ready, Holds, Held
  <2> QED BY <1>2, <2>1, SegFrame DEF Ready
<1>6. CASE m.ctx.cmd.len = 0
  <2>1. Busy(m) => m.host.done
    BY <1>6 DEF Ready, HostSide, HostIdle, Busy
  <2>2. Told(n)
    BY <1>2, <1>3, <1>6, <2>1 DEF Told, Ready, QuietPipe, DriveQuiet, Final, None, Busy
  <2> QED BY <1>2, <1>4, <1>5, <2>2 DEF Good, MachineInv, Phase, n
<1>7. CASE m.ctx.cmd.len # 0
  <2>1. Busy(m) => ~m.host.done
    BY <1>7 DEF Ready, HostSide, HostIdle, Busy
  <2>2. m.ctx.dir = "in" => NoDataIn(n)
    BY <1>2, <1>3, <1>7, <2>1 DEF NoDataIn, Ready, QuietPipe, Busy
  <2>3. m.ctx.dir = "out" => NoDataOut(n)
    BY <1>2, <1>3, <1>7, <2>1 DEF NoDataOut, Ready, QuietPipe, Busy
  <2>4. NoData(n)
    BY <1>1, <1>2, <1>7, <2>2, <2>3 DEF NoData, Ready, DriveQuiet
  <2>5. Executing(n)
    BY <1>2, <1>3, <1>7, <2>4 DEF Executing, Ready, QuietPipe
  <2> QED BY <1>2, <1>4, <1>5, <2>5 DEF Good, MachineInv, Phase, n
<1> QED BY <1>6, <1>7

\* Whatever the command, a status that tells the truth may be sent.
LEMMA AnswerGood ==
  ASSUME NEW m, Ready(m), m.ctx.status \in Final, Busy(m) => Wire!Truthful(m.host, m.ctx.status),
         m.ctx.dir = m.ctx.cmd.dir \/ m.ctx.cmd.len = 0
  PROVE Good(usb_device_no_data(m))
<1> DEFINE len == m.ctx.cmd.len
           to == IF len = 0 \/ m.ctx.dir = "in" THEN "in" ELSE "out"
           phase == IF len = 0 THEN 1 ELSE IF len = 0 \/ m.ctx.dir = "in" THEN 4 ELSE 9
           c == [m.ctx EXCEPT !.seg = NoSeg, !.flag = "U2B", !.dir = to, !.phase = phase, !.nodata = TRUE]
           n == [m EXCEPT !.ctx = c]
<1>1. usb_device_no_data(m) = usb_exec_que_ctxt(n)
  BY DEF usb_device_no_data
<1>2. m \in Machine /\ m.ctx \in Contexts /\ m.ctx.cmd.dir \in {"in", "out"}
  BY CommandIs DEF Ready, HostSide, Machine
<1>3. /\ to \in {"in", "out"} /\ phase \in {1, 4, 9}
      /\ to = IF m.ctx.cmd.len = 0 THEN "in" ELSE m.ctx.cmd.dir
  BY <1>2 DEF Contexts
<1> HIDE DEF to, phase
<1>4. /\ c \in Contexts /\ c.seg = NoSeg /\ c.flag = "U2B" /\ c.dir = to /\ c.phase = phase /\ c.nodata
      /\ c.cmd = m.ctx.cmd /\ c.ccm = m.ctx.ccm /\ c.state = m.ctx.state /\ c.status = m.ctx.status
  <2>1. m.ctx \in Contexts /\ to \in {"in", "out"} /\ phase \in 0..13
    <3>1. phase \in 0..13
      BY <1>3
    <3> QED BY <1>2, <1>3, <3>1
  <2> QED BY <2>1 DEF Contexts
<1> HIDE DEF c
<1>5. /\ n \in Machine /\ n.host = m.host /\ n.fw = m.fw /\ n.usb = m.usb /\ n.drive = m.drive
      /\ n.seg = m.seg /\ n.ctx = c
  BY <1>2, <1>4 DEF Machine
<1> HIDE DEF n
<1>6. Ready(n)
  BY <1>4, <1>5, ReadyFrame DEF Ready
<1>7. Busy(n) => Wire!Truthful(n.host, n.ctx.status)
  BY <1>4, <1>5 DEF Busy
<1> QED BY <1>1, <1>3, <1>4, <1>5, <1>6, <1>7, NoDataGood

(***************************************************************************)
(* A command begins: nothing of it has been decided but its case.          *)
(***************************************************************************)
Begun(m) ==
  /\ Ready(m) /\ Busy(m) /\ ~m.host.failed /\ m.ctx.dir = m.ctx.cmd.dir /\ m.ctx.seg = NoSeg /\ ~m.ctx.nodata

LEMMA CtxSet ==
  ASSUME NEW m \in Machine, NEW c \in Contexts, NEW n, n = [m EXCEPT !.ctx = c]
  PROVE /\ n \in Machine /\ n.host = m.host /\ n.fw = m.fw /\ n.usb = m.usb /\ n.drive = m.drive
        /\ n.seg = m.seg /\ n.ctx = c
BY DEF Machine

LEMMA BegunFrame ==
  ASSUME NEW m, Begun(m), NEW c \in Contexts, NEW n, n = [m EXCEPT !.ctx = c],
         c.cmd = m.ctx.cmd, ~c.ccm, c.dir = m.ctx.dir, c.seg = NoSeg, ~c.nodata,
         c.state \in {"SETUP_DONE", "CHK_CDB_FIELD_DONE"}
  PROVE Begun(n)
<1>1. /\ n \in Machine /\ n.host = m.host /\ n.fw = m.fw /\ n.usb = m.usb /\ n.drive = m.drive
      /\ n.seg = m.seg /\ n.ctx = c
  BY CtxSet DEF Begun, Ready
<1>2. Ready(n)
  BY <1>1, ReadyFrame DEF Begun
<1> QED BY <1>1, <1>2 DEF Begun, Busy

LEMMA BegunIs ==
  ASSUME NEW m, Begun(m)
  PROVE /\ m \in Machine /\ m.ctx \in Contexts /\ m.ctx.cmd \in Commands /\ m.host.cmd = m.ctx.cmd
        /\ m.ctx.cmd.len \in Nat /\ m.ctx.cmd.dev \in Nat /\ m.ctx.cmd.dir \in {"in", "out"}
        /\ m.ctx.cmd.op \notin DataOps => m.ctx.cmd.dev = 0
        /\ m.host.moved = 0 /\ ~m.host.stalled /\ (m.host.done <=> m.ctx.cmd.len = 0) /\ m.seg \in Segments
        /\ Holds(m) = NoSeg /\ Owned(m.seg, NoSeg, m.drive) /\ ~Asked(m)
<1>1. m \in Machine /\ m.ctx.cmd \in Commands /\ ~Asked(m) /\ m.host.cmd = m.ctx.cmd
  BY DEF Begun, Ready, HostSide, HostIdle, Busy
<1>2. Holds(m) = NoSeg
  BY DEF Begun, Ready, Holds, Held
<1> QED BY <1>1, <1>2, CommandIs, SegInvIs DEF Begun, Ready, Machine

\* What the host may be told then.
LEMMA TruthIs ==
  ASSUME NEW m, Begun(m)
  PROVE /\ Wire!Truthful(m.host, "ERROR")
        /\ m.ctx.cmd.dev = 0 => Wire!Truthful(m.host, "GOOD")
        /\ Wire!PhaseError(m.ctx.cmd) => Wire!Truthful(m.host, "PHASE")
<1>1. m.host.cmd = m.ctx.cmd /\ m.ctx.cmd.len \in Nat /\ m.host.moved = 0 /\ ~m.host.failed
  BY BegunIs DEF Begun
<1>2. m.ctx.cmd.dev = 0 => ~Wire!PhaseError(m.ctx.cmd) /\ Wire!Expected(m.ctx.cmd) = 0
  <2>1. m.ctx.cmd.dev = 0 => Case(m.ctx.cmd) \in {1, 4, 9}
    BY BegunIs, CaseIs
  <2> QED BY <1>1, <2>1, WireCase DEF Wire!PhaseError, Wire!Expected
<1> QED BY <1>1, <1>2 DEF Wire!Truthful, Wire!Statuses

LEMMA AnswerBegun ==
  ASSUME NEW m, Begun(m), NEW s \in Final, Wire!Truthful(m.host, s)
  PROVE Good(Answer(m, s))
<1> DEFINE c == [m.ctx EXCEPT !.status = s]
           n == [m EXCEPT !.ctx = c]
<1>1. m \in Machine /\ m.ctx \in Contexts
  BY BegunIs
<1>2. /\ c \in Contexts /\ c.cmd = m.ctx.cmd /\ c.ccm = m.ctx.ccm /\ c.dir = m.ctx.dir /\ c.seg = m.ctx.seg
      /\ c.nodata = m.ctx.nodata /\ c.state = m.ctx.state /\ c.status = s
  BY <1>1 DEF Contexts
<1>3. Answer(m, s) = usb_device_no_data(n)
  BY <1>1 DEF Answer, Machine
<1> HIDE DEF c
<1>4. Begun(n) /\ n.host = m.host /\ n.ctx = c
  <2>1. n = [m EXCEPT !.ctx = c]
    OBVIOUS
  <2> HIDE DEF n
  <2> QED BY <1>1, <1>2, <2>1, BegunFrame, CtxSet DEF Begun, Ready
<1> HIDE DEF n
<1> QED BY <1>2, <1>3, <1>4, AnswerGood DEF Begun

\* The host asked for none, or the other way round.
LEMMA RefuseGood ==
  ASSUME NEW m, Begun(m), m.ctx.flag = "U2B", Wire!PhaseError(m.ctx.cmd), NEW none \in 0..13, NEW wrong \in 0..13
  PROVE /\ Good(usb_exec_que_ctxt(Refuse(m, none, wrong)))
        /\ Good(usb_exec_que_ctxt([Refuse(m, none, wrong) EXCEPT !.ctx.seg = NoSeg]))
<1> DEFINE to == IF m.ctx.cmd.len = 0 THEN "in" ELSE m.ctx.dir
           phase == IF m.ctx.cmd.len = 0 THEN none ELSE wrong
           c == [m.ctx EXCEPT !.dir = to, !.phase = phase, !.status = "PHASE", !.nodata = TRUE]
           n == [m EXCEPT !.ctx = c]
<1>1. m \in Machine /\ m.ctx \in Contexts /\ m.ctx.cmd.dir \in {"in", "out"} /\ m.ctx.seg = NoSeg
  BY BegunIs DEF Begun
<1>2. to \in {"in", "out"} /\ phase \in 0..13 /\ to = IF m.ctx.cmd.len = 0 THEN "in" ELSE m.ctx.cmd.dir
  BY <1>1 DEF Begun
<1>3. Refuse(m, none, wrong) = n
  BY <1>1 DEF Refuse, Machine, Contexts
<1> HIDE DEF to, phase
<1>4. /\ c \in Contexts /\ c.dir = to /\ c.status = "PHASE" /\ c.nodata /\ c.cmd = m.ctx.cmd /\ c.ccm = m.ctx.ccm
      /\ c.state = m.ctx.state /\ c.seg = NoSeg /\ c.flag = "U2B" /\ [c EXCEPT !.seg = NoSeg] = c
  BY <1>1, <1>2 DEF Contexts, Final
<1>5. [n EXCEPT !.ctx.seg = NoSeg] = n
  BY <1>1, <1>4 DEF Machine
<1> HIDE DEF c
<1>6. /\ n \in Machine /\ n.host = m.host /\ n.fw = m.fw /\ n.usb = m.usb /\ n.drive = m.drive
      /\ n.seg = m.seg /\ n.ctx = c
  BY <1>1, <1>4 DEF Machine
<1> HIDE DEF n
<1>7. Ready(n)
  BY <1>4, <1>6, ReadyFrame DEF Begun, Ready
<1>8. Wire!Truthful(n.host, n.ctx.status) /\ n.ctx.status \in Final
  BY <1>4, <1>6, TruthIs DEF Final
<1>9. Good(usb_exec_que_ctxt(n))
  BY <1>2, <1>4, <1>6, <1>7, <1>8, NoDataGood
<1> QED BY <1>3, <1>5, <1>9

LEMMA DataInGood ==
  ASSUME NEW m, Begun(m), m.ctx.cmd.op = "INQ" PROVE Good(bot_device_data_in(m, m.ctx.cmd.dev))
<1> DEFINE c == [m.ctx EXCEPT !.flag = "U2B", !.status = "GOOD"]
           n == [m EXCEPT !.ctx = c]
           cmd == m.ctx.cmd
<1>1. /\ m \in Machine /\ m.ctx \in Contexts /\ cmd \in Commands /\ cmd.len \in Nat /\ cmd.dev \in Nat
      /\ cmd.dir \in {"in", "out"} /\ m.ctx.dir = cmd.dir
  BY BegunIs DEF Begun
<1>2. /\ c \in Contexts /\ c.cmd = m.ctx.cmd /\ c.ccm = m.ctx.ccm /\ c.dir = m.ctx.dir /\ c.seg = m.ctx.seg
      /\ c.nodata = m.ctx.nodata /\ c.state = m.ctx.state /\ c.status = "GOOD" /\ c.flag = "U2B"
  BY <1>1 DEF Contexts, Final
<1> HIDE DEF c
<1>3. Begun(n) /\ n.ctx = c /\ n.host = m.host
  <2>1. n = [m EXCEPT !.ctx = c]
    OBVIOUS
  <2> HIDE DEF n
  <2> QED BY <1>1, <1>2, <2>1, BegunFrame, CtxSet DEF Begun, Ready
<1> DEFINE len == m.ctx.cmd.len
           dev == m.ctx.cmd.dev
           to == [n EXCEPT !.ctx = [@ EXCEPT !.seg = U2BR, !.phase = IF len > dev THEN 5 ELSE 6,
                                             !.nodata = FALSE],
                           !.seg = set_dbufSource(@, U2BR)]
<1>4. bot_device_data_in(m, dev) =
        IF dev = 0 THEN usb_device_no_data(n)
        ELSE usb_exec_que_ctxt(IF len = 0 \/ m.ctx.dir = "out" THEN Refuse(n, 2, 10) ELSE to)
  BY DEF bot_device_data_in, c
<1> HIDE DEF n
<1>5. CASE dev = 0
  <2>1. Wire!Truthful(n.host, "GOOD")
    BY <1>2, <1>3, <1>5, TruthIs
  <2>2. Good(usb_device_no_data(n))
    BY <1>2, <1>3, <2>1, AnswerGood DEF Begun, Final
  <2> QED BY <1>4, <1>5, <2>2
<1>6. CASE dev # 0 /\ (len = 0 \/ m.ctx.dir = "out")
  <2>1. Case(cmd) \in {2, 10}
    BY <1>1, <1>6, CaseIs
  <2>2. Wire!PhaseError(n.ctx.cmd)
    BY <1>2, <1>3, <2>1, WireCase DEF Wire!PhaseError
  <2>4. 2 \in 0..13 /\ 10 \in 0..13
    OBVIOUS
  <2>3. Good(usb_exec_que_ctxt(Refuse(n, 2, 10)))
    BY <1>2, <1>3, <2>2, <2>4, RefuseGood
  <2> QED BY <1>4, <1>6, <2>3
<1>7. CASE dev # 0 /\ len # 0 /\ m.ctx.dir = "in"
  <2> DEFINE ph == IF len > dev THEN 5 ELSE 6
             d == [n.ctx EXCEPT !.seg = U2BR, !.phase = ph, !.nodata = FALSE]
             e == set_dbufSource(n.seg, U2BR)
             x == usb_exec_que_ctxt(to)
  <2>1. /\ n \in Machine /\ n.ctx \in Contexts /\ n.seg \in Segments /\ Owned(n.seg, NoSeg, n.drive)
        /\ n.host.moved = 0 /\ ~n.host.stalled /\ (n.host.done <=> len = 0) /\ ~n.host.failed
        /\ n.host.cmd = cmd /\ ~Asked(n)
    BY <1>2, <1>3, BegunIs DEF Begun
  <2>2. /\ d \in Contexts /\ d.cmd = cmd /\ ~d.ccm /\ d.dir = "in" /\ d.seg = U2BR
        /\ ~d.nodata /\ d.state = m.ctx.state /\ d.status = "GOOD" /\ d.flag = "U2B"
    <3>1. ph \in 0..13 /\ ~n.ctx.ccm
      BY <1>3 DEF Begun, Ready
    <3> HIDE DEF ph
    <3> QED BY <1>2, <1>3, <1>7, <2>1, <3>1 DEF Contexts
  <2>3. e \in Segments /\ Owned(e, U2BR, n.drive)
    BY <2>1, GivenSource DEF ReadSeg, U2BR, NoSeg
  <2>4. /\ to \in Machine /\ to.host = n.host /\ to.fw = n.fw /\ to.usb = n.usb /\ to.drive = n.drive
        /\ to.seg = e /\ to.ctx = d
    <3> HIDE DEF d, e
    <3>1. to = [n EXCEPT !.ctx = d, !.seg = e]
      BY DEF d, e
    <3> QED BY <2>1, <2>2, <2>3, <3>1 DEF Machine
  <2> HIDE DEF d, e, to
  <2>5. keep_sourceDbufConnection(e, U2BR) \in Segments /\ Owned(keep_sourceDbufConnection(e, U2BR), U2BR, n.drive)
    BY <2>3, GivenKeep DEF ReadSeg, U2BR, NoSeg
  <2> HIDE DEF x
  <2>6. U2BR # NoSeg
    BY DEF U2BR, NoSeg, None
  <2>7. /\ x.host = n.host /\ x.ctx = d /\ x.drive = n.drive
        /\ x.fw.at = n.fw.at /\ x.fw.new = n.fw.new /\ x.fw.post = n.fw.post /\ x.fw.asleep = n.fw.asleep
        /\ x.fw.timer = n.fw.timer /\ x.fw.cur /\ x.fw.que
        /\ x.usb.avail = n.usb.avail /\ x.usb.ints = n.usb.ints /\ x.usb.halts = n.usb.halts
        /\ x.usb.tx = "data" /\ x.usb.rx = n.usb.rx /\ x.usb.csw = n.usb.csw
        /\ x.seg = keep_sourceDbufConnection(e, U2BR) /\ x \in Machine
    <3>1. x = usb_exec_que_ctxt(to) /\ ~to.fw.cur /\ to.fw.que /\ to.ctx.state \in {"SETUP_DONE", "CHK_CDB_FIELD_DONE"}
      BY <1>2, <1>3, <2>2, <2>4 DEF x, Begun, Ready
    <3> QED BY <1>7, <2>2, <2>4, <2>5, <2>6, <3>1, ExecIs
  <2>8. DrivesInv(x)
    BY <1>3, <2>7, DrivesFrame DEF Begun, Ready
  <2>9. SegInv(x)
    BY <1>3, <2>2, <2>5, <2>7, SegInvIs DEF Holds, Held, Begun, Ready
  <2>10. HostSide(x) /\ Ints(x) = {} /\ ~Asked(x) /\ Busy(x)
    BY <1>1, <1>3, <2>1, <2>2, <2>7 DEF HostSide, Ints, Asked, Busy, Begun, Ready
  <2>14. cmd.dev > 0 /\ cmd.len > 0 /\ cmd.dir = "in" /\ cmd.op = "INQ" /\ ~n.host.done
    BY <1>1, <1>7, <2>1
  <2>15. n.fw.post = "no" /\ DriveQuiet(n) /\ n.usb.rx = None /\ n.usb.halts = {}
    BY <1>3 DEF Begun, Ready, QuietPipe
  <2>11. CpuIn(x)
    BY <2>1, <2>2, <2>7, <2>10, <2>14, <2>15 DEF CpuIn, DriveQuiet
  <2>12. Executing(x)
    BY <1>2, <1>3, <2>2, <2>7, <2>10, <2>11 DEF Executing, Begun, Ready, QuietPipe
  <2>13. Good(x)
    BY <2>7, <2>8, <2>9, <2>12 DEF Good, MachineInv, Phase
  <2> QED BY <1>4, <1>7, <2>13 DEF x
<1> QED BY <1>1, <1>5, <1>6, <1>7

LEMMA DataOutGood ==
  ASSUME NEW m, Begun(m), m.ctx.cmd.op = "SEL" PROVE Good(bot_device_data_out(m, m.ctx.cmd.dev))
<1> DEFINE c == [m.ctx EXCEPT !.flag = "U2B", !.status = "PENDING"]
           n == [m EXCEPT !.ctx = c]
           cmd == m.ctx.cmd
           len == m.ctx.cmd.len
           dev == m.ctx.cmd.dev
           from == [n EXCEPT !.ctx = [@ EXCEPT !.seg = U2BW, !.phase = 12, !.nodata = FALSE]]
           short == [n EXCEPT !.ctx = [@ EXCEPT !.seg = U2BW, !.phase = 13, !.status = "PHASE"]]
           none == [n EXCEPT !.ctx.status = "GOOD"]
<1>1. /\ m \in Machine /\ m.ctx \in Contexts /\ cmd \in Commands /\ cmd.len \in Nat /\ cmd.dev \in Nat
      /\ cmd.dir \in {"in", "out"} /\ m.ctx.dir = cmd.dir
  BY BegunIs DEF Begun
<1>2. /\ c \in Contexts /\ c.cmd = m.ctx.cmd /\ c.ccm = m.ctx.ccm /\ c.dir = m.ctx.dir /\ c.seg = m.ctx.seg
      /\ c.nodata = m.ctx.nodata /\ c.state = m.ctx.state /\ c.status = "PENDING" /\ c.flag = "U2B"
  BY <1>1 DEF Contexts
<1>3. /\ dev = 0 => bot_device_data_out(m, dev) = usb_device_no_data(none)
      /\ dev # 0 /\ (len = 0 \/ m.ctx.dir = "in") =>
           bot_device_data_out(m, dev) = usb_exec_que_ctxt([Refuse(n, 3, 8) EXCEPT !.ctx.seg = NoSeg])
      /\ dev # 0 /\ len # 0 /\ m.ctx.dir = "out" =>
           bot_device_data_out(m, dev) = IF len < dev THEN usb_device_no_data(short) ELSE usb_exec_que_ctxt(from)
  <2>1. CASE dev = 0
    BY <2>1 DEF bot_device_data_out
  <2>2. CASE dev # 0 /\ (len = 0 \/ m.ctx.dir = "in")
    BY <2>2 DEF bot_device_data_out
  <2>3. CASE dev # 0 /\ len # 0 /\ m.ctx.dir = "out"
    BY <2>3 DEF bot_device_data_out
  <2> QED BY <1>1, <2>1, <2>2, <2>3
<1>4. Begun(n) /\ n.ctx = c /\ n.host = m.host /\ n \in Machine
  <2>1. n = [m EXCEPT !.ctx = c]
    OBVIOUS
  <2> HIDE DEF n, c
  <2> QED BY <1>1, <1>2, <2>1, BegunFrame, CtxSet DEF Begun, Ready
<1> HIDE DEF c, n
<1>5. CASE dev = 0
  <2> DEFINE d == [c EXCEPT !.status = "GOOD"]
  <2>1. none = [n EXCEPT !.ctx = d]
    BY <1>4
  <2>2. /\ d \in Contexts /\ d.cmd = c.cmd /\ d.ccm = c.ccm /\ d.dir = c.dir /\ d.seg = c.seg
        /\ d.nodata = c.nodata /\ d.state = c.state /\ d.status = "GOOD"
    BY <1>2 DEF Contexts, Final
  <2> HIDE DEF d, none
  <2>3. Begun(none) /\ none.ctx = d
    BY <1>4, <2>1, <2>2, BegunFrame, CtxSet DEF Begun, Ready
  <2>4. Wire!Truthful(none.host, "GOOD")
    BY <1>2, <1>5, <2>2, <2>3, TruthIs
  <2> QED BY <1>3, <1>5, <2>2, <2>3, <2>4, AnswerGood DEF Begun, Final
<1>6. CASE dev # 0 /\ (len = 0 \/ m.ctx.dir = "in")
  <2>1. Case(cmd) \in {3, 8}
    BY <1>1, <1>6, CaseIs
  <2>2. Wire!PhaseError(n.ctx.cmd) /\ 3 \in 0..13 /\ 8 \in 0..13
    BY <1>2, <1>4, <2>1, WireCase DEF Wire!PhaseError
  <2>3. Good(usb_exec_que_ctxt([Refuse(n, 3, 8) EXCEPT !.ctx.seg = NoSeg]))
    BY <1>2, <1>4, <2>2, RefuseGood
  <2> QED BY <1>3, <1>6, <2>3
<1>7. CASE dev # 0 /\ len # 0 /\ m.ctx.dir = "out" /\ len < dev
  <2> DEFINE d == [c EXCEPT !.seg = U2BW, !.phase = 13, !.status = "PHASE"]
  <2>1. short = [n EXCEPT !.ctx = d]
    BY <1>4
  <2>2. /\ d \in Contexts /\ d.cmd = c.cmd /\ d.ccm = c.ccm /\ d.dir = c.dir
        /\ d.state = c.state /\ d.status = "PHASE"
    <3>1. 13 \in 0..13
      OBVIOUS
    <3> QED BY <1>2, <3>1 DEF Contexts, Final
  <2> HIDE DEF d, short
  <2>3. /\ short \in Machine /\ short.host = n.host /\ short.fw = n.fw /\ short.usb = n.usb /\ short.drive = n.drive
        /\ short.seg = n.seg /\ short.ctx = d
    BY <1>4, <2>1, <2>2, CtxSet
  <2>4. Ready(short)
    BY <1>2, <1>4, <2>2, <2>3, ReadyFrame DEF Begun, Ready
  <2>5. Case(cmd) = 13
    BY <1>1, <1>7, CaseIs
  <2>6. Wire!PhaseError(n.ctx.cmd)
    BY <1>2, <1>4, <2>5, WireCase DEF Wire!PhaseError
  <2>7. Wire!Truthful(short.host, "PHASE")
    BY <1>4, <2>3, <2>6, TruthIs
  <2>8. Good(usb_device_no_data(short))
    BY <1>1, <1>2, <2>2, <2>3, <2>4, <2>7, AnswerGood DEF Final
  <2> QED BY <1>3, <1>7, <2>8
<1>8. CASE dev # 0 /\ len # 0 /\ m.ctx.dir = "out" /\ ~(len < dev)
  <2> DEFINE d == [c EXCEPT !.seg = U2BW, !.phase = 12, !.nodata = FALSE]
             x == usb_exec_que_ctxt(from)
  <2>1. from = [n EXCEPT !.ctx = d]
    BY <1>4
  <2>2. /\ d \in Contexts /\ d.cmd = cmd /\ ~d.ccm /\ d.dir = "out" /\ d.seg = U2BW
        /\ ~d.nodata /\ d.state = c.state /\ d.status = "PENDING" /\ d.flag = "U2B"
    <3>1. ~c.ccm /\ 12 \in 0..13
      BY <1>4 DEF Begun, Ready
    <3> QED BY <1>2, <1>8, <3>1 DEF Contexts
  <2>3. /\ n.seg \in Segments /\ Owned(n.seg, NoSeg, n.drive)
        /\ n.host.moved = 0 /\ ~n.host.stalled /\ (n.host.done <=> len = 0) /\ ~n.host.failed
        /\ n.host.cmd = cmd /\ ~Asked(n)
    BY <1>2, <1>4, BegunIs DEF Begun
  <2> HIDE DEF d, from, x
  <2>4. /\ from \in Machine /\ from.host = n.host /\ from.fw = n.fw /\ from.usb = n.usb /\ from.drive = n.drive
        /\ from.seg = n.seg /\ from.ctx = d
    BY <1>4, <2>1, <2>2, CtxSet
  <2>5. set_dbufConnection(n.seg, U2BW) \in Segments /\ Owned(set_dbufConnection(n.seg, U2BW), U2BW, n.drive)
    BY <2>3, GivenSet
  <2>6. U2BW # NoSeg
    BY DEF U2BW, NoSeg, None
  <2>7. /\ x.host = n.host /\ x.ctx = d /\ x.drive = n.drive
        /\ x.fw.at = n.fw.at /\ x.fw.new = n.fw.new /\ x.fw.post = n.fw.post /\ x.fw.asleep = n.fw.asleep
        /\ x.fw.timer = n.fw.timer /\ x.fw.cur /\ x.fw.que
        /\ x.usb.avail = n.usb.avail /\ x.usb.ints = n.usb.ints /\ x.usb.halts = n.usb.halts
        /\ x.usb.rx = "data" /\ x.usb.tx = n.usb.tx /\ x.usb.csw = n.usb.csw
        /\ x.seg = set_dbufConnection(n.seg, U2BW) /\ x \in Machine
    <3>1. x = usb_exec_que_ctxt(from) /\ ~from.fw.cur /\ from.fw.que /\ from.ctx.state \in {"SETUP_DONE", "CHK_CDB_FIELD_DONE"}
      BY <1>2, <1>4, <2>2, <2>4 DEF x, Begun, Ready
    <3> QED BY <1>8, <2>2, <2>4, <2>5, <2>6, <3>1, ExecIs
  <2>8. DrivesInv(x)
    BY <1>4, <2>7, DrivesFrame DEF Begun, Ready
  <2>9. SegInv(x)
    BY <1>4, <2>2, <2>5, <2>7, SegInvIs DEF Holds, Held, Begun, Ready
  <2>10. HostSide(x) /\ Ints(x) = {} /\ ~Asked(x) /\ Busy(x)
    BY <1>1, <1>4, <2>2, <2>3, <2>7 DEF HostSide, Ints, Asked, Busy, Begun, Ready
  <2>11. /\ cmd.dev > 0 /\ cmd.len >= cmd.dev /\ cmd.len > 0 /\ 0 <= cmd.len /\ 0 # cmd.len
         /\ cmd.dir = "out" /\ cmd.op = "SEL" /\ ~n.host.done
    BY <1>1, <1>8, <2>3
  <2>12. n.fw.post = "no" /\ DriveQuiet(n) /\ n.usb.tx = None /\ n.usb.halts = {}
    BY <1>4 DEF Begun, Ready, QuietPipe
  <2>13. CpuOut(x)
    BY <2>2, <2>3, <2>7, <2>10, <2>11, <2>12 DEF CpuOut, DriveQuiet
  <2>14. Executing(x)
    BY <1>2, <1>4, <2>2, <2>7, <2>10, <2>13 DEF Executing, Begun, Ready, QuietPipe
  <2>15. Good(x)
    BY <2>7, <2>8, <2>9, <2>14 DEF Good, MachineInv, Phase
  <2> QED BY <1>3, <1>8, <2>15 DEF x
<1> QED BY <1>1, <1>5, <1>6, <1>7, <1>8

(***************************************************************************)
(* A command for the drives.                                               *)
(***************************************************************************)
\* A command that begins has the drives as usb_QEnum and Wake leave them.
Chosen(m) ==
  /\ Begun(m) /\ m.ctx.flag = "" /\ Awake(m, m.ctx.cmd)
  /\ m.ctx.phase = IF m.ctx.cmd.op \in {"READ", "WRITE"} THEN Case(m.ctx.cmd) ELSE 0
  /\ m.ctx.cmd.op \notin Proceeds => \A ch \in Chs : m.drive[ch].st \in {"ready", "down"}
  /\ m.ctx.state = "CHK_CDB_FIELD_DONE" =>
       /\ \A ch \in Chs : m.drive[ch].st = "ready"
       /\ m.ctx.cmd.op \in {"READ", "WRITE", "VERIFY"}
       /\ m.ctx.cmd.op \in {"READ", "WRITE"} => m.ctx.phase \in {5, 6, 11, 12}

LEMMA StartupIs ==
  ASSUME NEW m \in Machine, NEW n, n = ata_startup_hdd(m)
  PROVE /\ n \in Machine /\ n.host = m.host /\ n.ctx = m.ctx /\ n.usb = m.usb /\ n.seg = m.seg
        /\ \A ch \in Chs : n.drive[ch] = IF m.drive[ch].st = "down" THEN ResetDrive ELSE m.drive[ch]
        /\ n.fw \in Firmwares /\ n.fw.at = m.fw.at /\ n.fw.new = m.fw.new /\ n.fw.que = m.fw.que /\ n.fw.cur = m.fw.cur
        /\ n.fw.cbw = m.fw.cbw /\ n.fw.post = m.fw.post /\ n.fw.rsp = m.fw.rsp /\ n.fw.asleep = m.fw.asleep
        /\ n.fw.wait = m.fw.wait \cup {ch \in Chs : m.drive[ch].st = "down"} /\ n.fw.timer = Spinup
<1> DEFINE off == {ch \in Chs : m.drive[ch].st = "down"}
           d == [ch \in Chs |-> IF ch \notin off THEN m.drive[ch] ELSE ResetDrive]
           f == [m.fw EXCEPT !.wait = @ \cup off, !.timer = Spinup]
<1>1. m.drive \in [Chs -> Drives] /\ m.fw \in Firmwares /\ Spinup \in 0..Spinup
  BY BotAssumption DEF Machine
<1>2. ResetDrive \in Drives
  BY DEF ResetDrive, Drives
<1>3. d \in [Chs -> Drives] /\ \A ch \in Chs : d[ch] = IF m.drive[ch].st = "down" THEN ResetDrive ELSE m.drive[ch]
  BY <1>1, <1>2
<1>4. /\ f \in Firmwares /\ f.at = m.fw.at /\ f.new = m.fw.new /\ f.que = m.fw.que /\ f.cur = m.fw.cur
      /\ f.cbw = m.fw.cbw /\ f.post = m.fw.post /\ f.rsp = m.fw.rsp /\ f.asleep = m.fw.asleep
      /\ f.wait = m.fw.wait \cup off /\ f.timer = Spinup
  <2>1. off \in SUBSET Chs
    OBVIOUS
  <2> HIDE DEF off
  <2> QED BY <1>1, <2>1 DEF Firmwares
<1>5. n = [m EXCEPT !.drive = d, !.fw = f]
  <2> DEFINE p == set_hdd_power(m, off, TRUE)
             g == [p.fw EXCEPT !.wait = m.fw.wait \cup off, !.timer = Spinup]
  <2>1. p = [m EXCEPT !.drive = d]
    BY DEF set_hdd_power
  <2>2. n = [p EXCEPT !.fw = g]
    BY DEF ata_startup_hdd
  <2> HIDE DEF p, d
  <2>3. p.fw = m.fw
    BY <2>1 DEF Machine
  <2>4. g = f
    BY <2>3
  <2> HIDE DEF f, g
  <2> QED BY <2>1, <2>2, <2>4 DEF Machine
<1> HIDE DEF d, f
<1> QED BY <1>3, <1>4, <1>5 DEF Machine

LEMMA WakeGood ==
  ASSUME NEW m, Chosen(m), m.ctx.cmd.op \in {"READ", "WRITE", "VERIFY"}, ~DrivesOn(m) PROVE Good(Wake(m))
<1> DEFINE u == ata_startup_hdd(m)
           f == [u.fw EXCEPT !.cbw = FALSE, !.new = TRUE]
           c == [u.ctx EXCEPT !.state = "CHK_CDB_FIELD_DONE"]
           n == [u EXCEPT !.fw = f, !.ctx = c]
<1>1. Wake(m) = n
  BY DEF Wake
<1>2. /\ m \in Machine /\ m.ctx \in Contexts /\ m.ctx.cmd \in Commands /\ m.host.cmd = m.ctx.cmd /\ ~Asked(m)
      /\ m.host.moved = 0 /\ ~m.host.stalled /\ (m.host.done <=> m.ctx.cmd.len = 0)
  BY BegunIs DEF Chosen
<1>3. /\ u \in Machine /\ u.host = m.host /\ u.ctx = m.ctx /\ u.usb = m.usb /\ u.seg = m.seg
      /\ \A ch \in Chs : u.drive[ch] = IF m.drive[ch].st = "down" THEN ResetDrive ELSE m.drive[ch]
      /\ u.fw \in Firmwares /\ u.fw.at = m.fw.at /\ u.fw.que = m.fw.que /\ u.fw.cur = m.fw.cur
      /\ u.fw.post = m.fw.post /\ u.fw.asleep = m.fw.asleep
      /\ u.fw.wait = m.fw.wait \cup {ch \in Chs : m.drive[ch].st = "down"} /\ u.fw.timer = Spinup
  <2> HIDE DEF u
  <2>1. u = ata_startup_hdd(m)
    BY DEF u
  <2> QED BY <1>2, <2>1, StartupIs
<1> HIDE DEF u
<1>4. /\ f \in Firmwares /\ f.at = u.fw.at /\ f.new /\ f.que = u.fw.que /\ f.cur = u.fw.cur /\ f.post = u.fw.post
      /\ f.asleep = u.fw.asleep /\ f.wait = u.fw.wait /\ f.timer = u.fw.timer
  BY <1>3 DEF Firmwares
<1>5. /\ c \in Contexts /\ c.state = "CHK_CDB_FIELD_DONE" /\ c.cmd = m.ctx.cmd /\ c.dir = m.ctx.dir /\ c.ccm = m.ctx.ccm
      /\ c.nodata = m.ctx.nodata /\ c.seg = m.ctx.seg /\ c.flag = m.ctx.flag /\ c.phase = m.ctx.phase
  BY <1>2, <1>3 DEF Contexts
<1> HIDE DEF f, c
<1>6. /\ n \in Machine /\ n.host = m.host /\ n.ctx = c /\ n.fw = f /\ n.usb = m.usb /\ n.seg = m.seg /\ n.drive = u.drive
  BY <1>3, <1>4, <1>5 DEF Machine
<1> HIDE DEF n
<1>7. \A ch \in Chs : m.drive[ch].st \in {"ready", "down"}
  BY DEF Chosen, Begun, Ready, DrivesInv, DrivesOn
<1>8. /\ \A ch \in Chs : n.drive[ch].st = IF m.drive[ch].st = "down" THEN "reset" ELSE "ready"
      /\ \A ch \in Chs : ~n.drive[ch].park
      /\ \A ch \in Chs : n.drive[ch].init => n.drive[ch].st = "ready"
  <2>1. \A ch \in Chs : ~m.drive[ch].park
    BY <1>7 DEF Chosen, Begun, Ready, DrivesInv, Coming, Chs
  <2> QED BY <1>3, <1>6, <1>7, <2>1 DEF ResetDrive
<1>9. DrivesInv(n)
  BY <1>3, <1>4, <1>6, <1>8 DEF DrivesInv, Coming, Chosen, Begun, Ready, DrivesOn, Chs
<1>10. SegInv(n)
  <2>1. Owned(m.seg, NoSeg, m.drive) /\ Holds(n) = NoSeg
    BY <1>4, <1>6, BegunIs DEF Chosen, Holds, Held
  <2>2. \A ch \in Chs : m.drive[ch].st # "id" /\ m.drive[ch].st # "active"
    BY <1>7
  <2> QED BY <1>6, <2>1, <2>2, OwnedFrame, SegInvIs DEF Chs
<1>11. Untouched(n)
  <2>1. \A ch \in Chs \ n.fw.wait : n.drive[ch].st = "ready"
    BY <1>3, <1>4, <1>6, <1>8
  <2>2. m.ctx.cmd.op \in {"READ", "WRITE"} => m.ctx.phase \in {5, 6, 11, 12}
    BY DEF Chosen, Awake
  <2> QED BY <1>2, <1>5, <1>6, <2>1, <2>2, ZenonT(60) DEF Untouched, Chosen, Begun, Ready
<1>12. Waiting(n)
  <2>1. Awake(n, n.host.cmd) /\ DriveQuiet(n)
    BY <1>8 DEF Awake, DrivesOn, DriveQuiet, Chs
  <2>2. Fresh(n.host)
    BY <1>2, <1>6 DEF Fresh, Chosen, Begun, Busy
  <2> QED BY <1>2, <1>3, <1>4, <1>6, <1>11, <2>1, <2>2 DEF Waiting, Chosen, Begun, Ready, QuietPipe, Asked, LastEnded, Ints
<1> QED BY <1>1, <1>6, <1>9, <1>10, <1>12 DEF Good, MachineInv, Phase

\* A command of the drive without data goes to it, or waits on it.
LEMMA DriveOnlyGood ==
  ASSUME NEW m, Ready(m), Busy(m) => ~m.host.failed, m.ctx.seg = NoSeg, m.ctx.flag = "VERIFY", ~m.ctx.nodata,
         m.ctx.cmd.op \in {"VERIFY", "START"}, m.ctx.dir = m.ctx.cmd.dir \/ m.ctx.cmd.len = 0,
         (m.drive[0].st = "ready" /\ DrivesOn(m)) \/ (Coming(m.drive[0]) /\ m.fw.timer = 0 /\ Busy(m))
  PROVE Good(sata_exec_ctxt(m))
<1> DEFINE c == [m.ctx EXCEPT !.ccm = TRUE, !.status = "PENDING"]
           n == [m EXCEPT !.ctx = c]
           y == [n.drive[0] EXCEPT !.st = "active", !.end = "no", !.park = FALSE, !.tcnt = 0]
           z == [n.drive[0] EXCEPT !.park = TRUE]
           x == sata_exec_ctxt(m)
<1>1. /\ m \in Machine /\ m.ctx \in Contexts /\ m.drive \in [Chs -> Drives] /\ m.drive[0] \in Drives
      /\ m.ctx.cmd \in Commands /\ m.ctx.cmd.dev = 0
  BY CommandIs DEF Ready, Machine, HostSide, Chs, DataOps
<1>2. /\ c \in Contexts /\ c.cmd = m.ctx.cmd /\ c.ccm /\ c.dir = m.ctx.dir /\ c.seg = m.ctx.seg
      /\ c.nodata = m.ctx.nodata /\ c.state = m.ctx.state /\ c.status = "PENDING" /\ c.flag = "VERIFY"
  BY <1>1 DEF Contexts
<1>3. n = [m EXCEPT !.ctx.ccm = TRUE, !.ctx.status = "PENDING"]
  BY <1>1 DEF Machine
<1> HIDE DEF c
<1>4. /\ n \in Machine /\ n.host = m.host /\ n.fw = m.fw /\ n.usb = m.usb /\ n.drive = m.drive
      /\ n.seg = m.seg /\ n.ctx = c
  BY <1>1, <1>2 DEF Machine
<1> HIDE DEF n
<1>5. /\ y \in Drives /\ y.st = "active" /\ ~y.park /\ y.init = m.drive[0].init
      /\ z \in Drives /\ z.st = m.drive[0].st /\ z.park /\ z.init = m.drive[0].init
  BY <1>1, <1>4 DEF Drives
<1>6. x = IF m.drive[0].st = "ready" THEN [n EXCEPT !.drive[0] = y] ELSE [n EXCEPT !.drive[0] = z]
  <2>1. x = IF m.drive[0].st = "ready" THEN sata_exec_scm(n) ELSE [n EXCEPT !.drive[0].park = TRUE]
    BY <1>3 DEF sata_exec_ctxt
  <2>2. sata_exec_scm(n) = [n EXCEPT !.drive[0] = y]
    BY <1>2, <1>4 DEF sata_exec_scm
  <2>3. [n EXCEPT !.drive[0].park = TRUE] = [n EXCEPT !.drive[0] = z]
    OBVIOUS
  <2> HIDE DEF x, y, z
  <2> QED BY <2>1, <2>2, <2>3
<1> HIDE DEF y, z, x
<1>7. /\ x \in Machine /\ x.host = m.host /\ x.fw = m.fw /\ x.usb = m.usb /\ x.seg = m.seg /\ x.ctx = c
      /\ x.drive[1] = m.drive[1] /\ x.drive[0].init = m.drive[0].init
      /\ \/ x.drive[0].st = "active" /\ ~x.drive[0].park /\ m.drive[0].st = "ready"
         \/ x.drive[0].st = m.drive[0].st /\ x.drive[0].park /\ Coming(m.drive[0]) /\ m.fw.timer = 0 /\ Busy(m)
  <2>1. CASE m.drive[0].st = "ready"
    <3>1. /\ x \in Machine /\ x.host = m.host /\ x.fw = m.fw /\ x.usb = m.usb /\ x.seg = m.seg /\ x.ctx = c
          /\ x.drive[1] = m.drive[1] /\ x.drive[0] = y
      BY <1>1, <1>4, <1>5, <1>6, <2>1 DEF Machine, Chs
    <3> QED BY <1>5, <2>1, <3>1
  <2>2. CASE m.drive[0].st # "ready"
    <3>1. /\ x \in Machine /\ x.host = m.host /\ x.fw = m.fw /\ x.usb = m.usb /\ x.seg = m.seg /\ x.ctx = c
          /\ x.drive[1] = m.drive[1] /\ x.drive[0] = z
      BY <1>1, <1>4, <1>5, <1>6, <2>2 DEF Machine, Chs
    <3> QED BY <1>5, <2>2, <3>1
  <2> QED BY <2>1, <2>2
<1>8. DrivesInv(x)
  <2>1. DrivesInv(m) /\ ~m.fw.asleep
    BY DEF Ready
  <2>2. CASE x.drive[0].st = "active" /\ ~x.drive[0].park /\ m.drive[0].st = "ready"
    BY <1>7, <2>1, <2>2 DEF DrivesInv, DrivesOn, Coming, Chs
  <2>3. CASE x.drive[0].st = m.drive[0].st /\ x.drive[0].park /\ Coming(m.drive[0]) /\ m.fw.timer = 0
    BY <1>7, <2>1, <2>3 DEF DrivesInv, Coming, Chs
  <2> QED BY <1>7, <2>2, <2>3
<1>9. SegInv(x)
  <2>1. Owned(m.seg, NoSeg, m.drive) /\ Holds(x) = NoSeg
    BY <1>2, <1>7, SegInvIs DEF Ready, Holds, Held
  <2>2. \A ch \in Chs : m.drive[ch].st = "id" => x.drive[ch].st = "id"
    BY <1>7 DEF Chs
  <2> QED BY <1>7, <2>1, <2>2, OwnedFrame, SegInvIs DEF Coming
<1>10. DriveOnly(x)
  <2>1. x.drive[0].park => ~Asked(x)
    BY <1>7 DEF Ready, Asked, HostSide, HostIdle, Busy
  <2> QED BY <1>1, <1>2, <1>7, <2>1 DEF DriveOnly, Ready, QuietPipe, Ints, Busy, HostSide, HostIdle, Coming
<1>11. Executing(x)
  BY <1>2, <1>7, <1>10 DEF Executing, Ready, QuietPipe, HostSide, HostIdle, Asked, Busy
<1> QED BY <1>7, <1>8, <1>9, <1>11 DEF Good, MachineInv, Phase, x

LEMMA VerifyGood ==
  ASSUME NEW m, Chosen(m), m.ctx.cmd.op = "VERIFY" PROVE Good(Verify(m))
<1> DEFINE c == [m.ctx EXCEPT !.seg = NoSeg, !.flag = "VERIFY", !.phase = 1]
           n == [m EXCEPT !.ctx = c]
<1>1. m \in Machine /\ m.ctx \in Contexts
  BY BegunIs DEF Chosen
<1>2. /\ c \in Contexts /\ c.cmd = m.ctx.cmd /\ c.ccm = m.ctx.ccm /\ c.dir = m.ctx.dir /\ c.seg = NoSeg
      /\ c.nodata = m.ctx.nodata /\ c.state = m.ctx.state /\ c.flag = "VERIFY"
  <2>1. 1 \in 0..13
    OBVIOUS
  <2> QED BY <1>1, <2>1 DEF Contexts
<1>3. Verify(m) = IF m.ctx.state = "SETUP_DONE" /\ ~DrivesOn(m) THEN Wake(m) ELSE sata_exec_ctxt(n)
  BY DEF Verify
<1> HIDE DEF c
<1>4. Begun(n) /\ n.ctx = c /\ n.host = m.host /\ n.drive = m.drive
  <2>1. n = [m EXCEPT !.ctx = c]
    OBVIOUS
  <2>2. Begun(m)
    BY DEF Chosen
  <2> HIDE DEF n
  <2> QED BY <1>1, <1>2, <2>1, <2>2, BegunFrame, CtxSet DEF Begun, Ready
<1> HIDE DEF n
<1>5. CASE m.ctx.state = "SETUP_DONE" /\ ~DrivesOn(m)
  BY <1>3, <1>5, WakeGood
<1>6. CASE ~(m.ctx.state = "SETUP_DONE" /\ ~DrivesOn(m))
  <2>1. m.drive[0].st = "ready" /\ DrivesOn(n)
    BY <1>4, <1>6 DEF Chosen, Begun, Ready, DrivesOn, Proceeds, Chs
  <2> QED BY <1>2, <1>3, <1>4, <1>6, <2>1, DriveOnlyGood DEF Begun
<1> QED BY <1>5, <1>6

LEMMA StartUnitGood ==
  ASSUME NEW m, Chosen(m), m.ctx.cmd.op = "START" PROVE Good(StartUnit(m))
<1> DEFINE u == ata_startup_hdd(m)
           f == [u.fw EXCEPT !.timer = 0]
           c == [u.ctx EXCEPT !.seg = NoSeg, !.flag = "VERIFY", !.dir = "in"]
           n == [u EXCEPT !.fw = f, !.ctx = c]
<1>1. /\ m \in Machine /\ m.ctx \in Contexts /\ m.ctx.cmd \in Commands /\ m.ctx.cmd.dev = 0 /\ m.ctx.cmd.dir = "in"
      /\ m.ctx.dir = "in"
  BY BegunIs, CommandIs DEF Chosen, Begun, DataOps
<1>2. StartUnit(m) = IF m.drive[0].st # "down" THEN Answer(m, "GOOD") ELSE sata_exec_ctxt(n)
  BY DEF StartUnit
<1>3. CASE m.drive[0].st # "down"
  <2>1. Good(Answer(m, "GOOD"))
    BY <1>1, AnswerBegun, TruthIs DEF Chosen, Final
  <2> QED BY <1>2, <1>3, <2>1
<1>4. CASE m.drive[0].st = "down"
  <2>1. /\ u \in Machine /\ u.host = m.host /\ u.ctx = m.ctx /\ u.usb = m.usb /\ u.seg = m.seg
        /\ \A ch \in Chs : u.drive[ch] = IF m.drive[ch].st = "down" THEN ResetDrive ELSE m.drive[ch]
        /\ u.fw \in Firmwares /\ u.fw.at = m.fw.at /\ u.fw.new = m.fw.new /\ u.fw.que = m.fw.que /\ u.fw.cur = m.fw.cur
        /\ u.fw.post = m.fw.post /\ u.fw.asleep = m.fw.asleep
    <3> HIDE DEF u
    <3>1. u = ata_startup_hdd(m)
      BY DEF u
    <3> QED BY <1>1, <3>1, StartupIs
  <2> HIDE DEF u
  <2>2. /\ f \in Firmwares /\ f.at = u.fw.at /\ f.new = u.fw.new /\ f.que = u.fw.que /\ f.cur = u.fw.cur
        /\ f.post = u.fw.post /\ f.asleep = u.fw.asleep /\ f.timer = 0
    <3>1. 0 \in 0..Spinup
      BY BotAssumption
    <3> QED BY <2>1, <3>1 DEF Firmwares
  <2>3. /\ c \in Contexts /\ c.cmd = m.ctx.cmd /\ c.ccm = m.ctx.ccm /\ c.dir = m.ctx.dir /\ c.seg = NoSeg
        /\ c.nodata = m.ctx.nodata /\ c.state = m.ctx.state /\ c.flag = "VERIFY"
    BY <1>1, <2>1 DEF Contexts
  <2> HIDE DEF f, c
  <2>4. /\ n \in Machine /\ n.host = m.host /\ n.ctx = c /\ n.fw = f /\ n.usb = m.usb /\ n.seg = m.seg /\ n.drive = u.drive
    BY <2>1, <2>2, <2>3 DEF Machine
  <2> HIDE DEF n
  <2>5. \A ch \in Chs : m.drive[ch].st \in {"ready", "down"}
    BY DEF Chosen, Proceeds
  <2>6. /\ \A ch \in Chs : n.drive[ch].st = IF m.drive[ch].st = "down" THEN "reset" ELSE "ready"
        /\ \A ch \in Chs : ~n.drive[ch].park
        /\ \A ch \in Chs : n.drive[ch].init => n.drive[ch].st = "ready"
    <3>1. \A ch \in Chs : ~m.drive[ch].park
      BY <2>5 DEF Chosen, Begun, Ready, DrivesInv, Coming, Chs
    <3> QED BY <2>1, <2>4, <2>5, <3>1 DEF ResetDrive
  <2>7. DrivesInv(n)
    <3>1. ~n.fw.asleep /\ n.fw.timer = 0
      BY <2>1, <2>2, <2>4 DEF Chosen, Begun, Ready
    <3> QED BY <2>6, <3>1 DEF DrivesInv, Coming, Chs
  <2>8. SegInv(n)
    <3>1. Owned(m.seg, NoSeg, m.drive) /\ Holds(n) = NoSeg
      BY <2>1, <2>2, <2>4, BegunIs DEF Chosen, Begun, Ready, Holds, Held
    <3>2. \A ch \in Chs : m.drive[ch].st # "id" /\ m.drive[ch].st # "active"
      BY <2>5
    <3> QED BY <2>4, <3>1, <3>2, OwnedFrame, SegInvIs DEF Chs
  <2>9. Coming(n.drive[0]) /\ n.fw.timer = 0 /\ DriveQuiet(n)
    BY <1>4, <2>2, <2>4, <2>6 DEF Coming, DriveQuiet, Chs
  <2>10. Ready(n) /\ ~n.host.failed /\ Busy(n)
    BY <2>1, <2>2, <2>3, <2>4, <2>7, <2>8, <2>9, ZenonT(60) DEF Ready, Chosen, Begun, QuietPipe, Ints, HostSide, HostIdle, Asked, Busy
  <2>11. Good(sata_exec_ctxt(n))
    BY <1>1, <2>3, <2>4, <2>9, <2>10, DriveOnlyGood DEF Chosen, Begun
  <2> QED BY <1>2, <1>4, <2>11
<1> QED BY <1>3, <1>4

\* A READ or WRITE goes to drive 0, and then to the controller.
LEMMA RunIs ==
  ASSUME NEW m, Begun(m), m.drive[0].st = "ready", DrivesOn(m), NEW sg \in {ReadSeg, WriteSeg},
         m.ctx.dir = "in" => sg = ReadSeg
  PROVE \E p \in Machine :
          /\ RunRW(m, sg) = usb_exec_que_ctxt(p)
          /\ p.host = m.host /\ p.fw = m.fw /\ p.usb = m.usb /\ p.ctx.cmd = m.ctx.cmd
          /\ p.ctx.ccm /\ ~p.ctx.nodata /\ p.ctx.seg = sg /\ p.ctx.flag \in {"", "AES"} /\ p.ctx.dir = m.ctx.dir
          /\ p.ctx.state = m.ctx.state /\ p.ctx.status = "PENDING" /\ p.drive[0].st = "active" /\ ~p.drive[0].park
          /\ p.drive[0].end = "no" /\ p.drive[0].tcnt = IF m.ctx.cmd.op = "WRITE" THEN m.ctx.cmd.dev ELSE 0
          /\ DrivesInv(p) /\ Owned(p.seg, IF m.ctx.dir = "in" THEN sg ELSE NoSeg, p.drive)
<1> DEFINE fl == IF Cipher THEN "AES" ELSE ""
           b == [m.ctx EXCEPT !.seg = sg, !.flag = fl, !.nodata = FALSE]
           c == [b EXCEPT !.ccm = TRUE, !.status = "PENDING"]
           q == [m EXCEPT !.ctx = b]
           n == [m EXCEPT !.ctx = c]
           t == IF m.ctx.cmd.op = "WRITE" THEN m.ctx.cmd.dev ELSE 0
           y == [m.drive[0] EXCEPT !.st = "active", !.end = "no", !.park = FALSE, !.tcnt = t]
           e == [m.drive EXCEPT ![0] = y]
           g == IF m.ctx.dir = "in" THEN set_dbufSource(m.seg, sg) ELSE m.seg
           p == [n EXCEPT !.drive = e, !.seg = g]
<1>1. /\ m \in Machine /\ m.ctx \in Contexts /\ m.drive \in [Chs -> Drives] /\ m.drive[0] \in Drives
      /\ m.ctx.cmd \in Commands /\ m.ctx.cmd.dev \in Nat /\ m.seg \in Segments /\ Owned(m.seg, NoSeg, m.drive)
  BY BegunIs DEF Machine, Chs
<1>2. fl \in {"", "AES"} /\ t \in Nat /\ sg \in {NoSeg, U2BR, U2BW, ReadSeg, WriteSeg}
  BY <1>1
<1> HIDE DEF fl, t
<1>3. /\ b \in Contexts /\ b.cmd = m.ctx.cmd /\ b.dir = m.ctx.dir /\ b.seg = sg /\ ~b.nodata
      /\ b.state = m.ctx.state /\ b.flag = fl
  BY <1>1, <1>2 DEF Contexts
<1> HIDE DEF b
<1>4. /\ c \in Contexts /\ c.cmd = m.ctx.cmd /\ c.dir = m.ctx.dir /\ c.seg = sg /\ ~c.nodata /\ c.ccm
      /\ c.state = m.ctx.state /\ c.status = "PENDING" /\ c.flag = fl
  BY <1>3 DEF Contexts
<1>5. [q EXCEPT !.ctx.ccm = TRUE, !.ctx.status = "PENDING"] = n /\ q.drive = m.drive
  BY <1>1 DEF Machine
<1>6. RunRW(m, sg) = sata_exec_ctxt(q)
  BY DEF RunRW, b, fl
<1> HIDE DEF c, q
<1>7. sata_exec_ctxt(q) = sata_exec_scm(n)
  BY <1>5 DEF sata_exec_ctxt
<1>8. /\ n.ctx = c /\ n.drive = m.drive /\ n.seg = m.seg /\ n.host = m.host /\ n.fw = m.fw /\ n.usb = m.usb
      /\ n \in Machine
  BY <1>1, <1>4 DEF Machine
<1>9. sata_exec_scm(n) = usb_exec_que_ctxt(p)
  <2> HIDE DEF n
  <2>1. n.ctx.flag # "VERIFY"
    BY <1>2, <1>4, <1>8
  <2> DEFINE z == [n EXCEPT !.drive[0] = [@ EXCEPT !.st = "active", !.end = "no", !.park = FALSE,
                                            !.tcnt = IF n.ctx.cmd.op = "WRITE" THEN n.ctx.cmd.dev ELSE 0]]
  <2>2. z = [n EXCEPT !.drive = e]
    BY <1>4, <1>8 DEF t
  <2>3. sata_exec_scm(n) = usb_exec_que_ctxt([z EXCEPT !.seg = IF n.ctx.dir = "in" THEN set_dbufSource(@, n.ctx.seg) ELSE @])
    BY <2>1 DEF sata_exec_scm
  <2> HIDE DEF z, e
  <2>4. z.seg = m.seg /\ [z EXCEPT !.seg = g] = p
    BY <1>8, <2>2 DEF Machine
  <2> QED BY <1>4, <1>8, <2>3, <2>4
<1> HIDE DEF n
<1>10. /\ y \in Drives /\ y.st = "active" /\ y.end = "no" /\ ~y.park /\ y.tcnt = t /\ y.init = m.drive[0].init
  BY <1>1, <1>2 DEF Drives
<1> HIDE DEF y
<1>11. e \in [Chs -> Drives] /\ e[0] = y /\ e[1] = m.drive[1]
  BY <1>1, <1>10 DEF Chs
<1> HIDE DEF e
<1>12. g \in Segments /\ Owned(g, IF m.ctx.dir = "in" THEN sg ELSE NoSeg, e)
  <2>1. \A ch \in Chs : m.drive[ch].st = "id" => e[ch].st = "id"
    BY <1>11 DEF Chs
  <2>2. Owned(m.seg, NoSeg, e)
    BY <1>1, <1>10, <1>11, <2>1, OwnedFrame
  <2> QED BY <1>1, <1>10, <1>11, <2>2, GivenSource
<1> HIDE DEF g
<1>13. /\ p \in Machine /\ p.host = m.host /\ p.fw = m.fw /\ p.usb = m.usb /\ p.ctx = c /\ p.drive = e /\ p.seg = g
  BY <1>8, <1>11, <1>12 DEF Machine
<1> HIDE DEF p
<1>14. DrivesInv(p)
  BY <1>10, <1>11, <1>13 DEF DrivesInv, Coming, Chs, DrivesOn, Begun, Ready
<1> QED BY <1>2, <1>4, <1>6, <1>7, <1>9, <1>10, <1>11, <1>12, <1>13, <1>14 DEF t

LEMMA RunReadGood ==
  ASSUME NEW m, Begun(m), m.drive[0].st = "ready", DrivesOn(m), m.ctx.cmd.op = "READ", m.ctx.cmd.dir = "in",
         m.ctx.cmd.dev > 0, m.ctx.cmd.len >= m.ctx.cmd.dev
  PROVE Good(RunRW(m, ReadSeg))
<1>1. /\ m \in Machine /\ m.ctx.cmd \in Commands /\ m.host.cmd = m.ctx.cmd /\ m.ctx.cmd.len \in Nat /\ m.ctx.cmd.dev \in Nat
      /\ m.host.moved = 0 /\ ~m.host.stalled /\ (m.host.done <=> m.ctx.cmd.len = 0) /\ ~Asked(m)
      /\ m.ctx.dir = "in" /\ ~m.host.failed
  BY BegunIs DEF Begun
<1>2. PICK p \in Machine :
          /\ RunRW(m, ReadSeg) = usb_exec_que_ctxt(p)
          /\ p.host = m.host /\ p.fw = m.fw /\ p.usb = m.usb /\ p.ctx.cmd = m.ctx.cmd
          /\ p.ctx.ccm /\ ~p.ctx.nodata /\ p.ctx.seg = ReadSeg /\ p.ctx.flag \in {"", "AES"} /\ p.ctx.dir = "in"
          /\ p.ctx.state = m.ctx.state /\ p.ctx.status = "PENDING" /\ p.drive[0].st = "active" /\ ~p.drive[0].park
          /\ p.drive[0].end = "no"
          /\ DrivesInv(p) /\ Owned(p.seg, ReadSeg, p.drive)
  <2>1. ReadSeg \in {ReadSeg, WriteSeg} /\ (m.ctx.dir = "in" => ReadSeg = ReadSeg)
    BY <1>1
  <2>2. \E p \in Machine :
          /\ RunRW(m, ReadSeg) = usb_exec_que_ctxt(p)
          /\ p.host = m.host /\ p.fw = m.fw /\ p.usb = m.usb /\ p.ctx.cmd = m.ctx.cmd
          /\ p.ctx.ccm /\ ~p.ctx.nodata /\ p.ctx.seg = ReadSeg /\ p.ctx.flag \in {"", "AES"} /\ p.ctx.dir = m.ctx.dir
          /\ p.ctx.state = m.ctx.state /\ p.ctx.status = "PENDING" /\ p.drive[0].st = "active" /\ ~p.drive[0].park
          /\ p.drive[0].end = "no" /\ p.drive[0].tcnt = IF m.ctx.cmd.op = "WRITE" THEN m.ctx.cmd.dev ELSE 0
          /\ DrivesInv(p) /\ Owned(p.seg, IF m.ctx.dir = "in" THEN ReadSeg ELSE NoSeg, p.drive)
    BY <2>1, RunIs
  <2> QED BY <1>1, <2>2
<1> DEFINE x == usb_exec_que_ctxt(p)
<1>3. p.seg \in Segments /\ ReadSeg # NoSeg
  BY DEF Machine, ReadSeg, NoSeg, None
<1>4. keep_sourceDbufConnection(p.seg, ReadSeg) \in Segments /\ Owned(keep_sourceDbufConnection(p.seg, ReadSeg), ReadSeg, p.drive)
  BY <1>2, <1>3, GivenKeep
<1>5. m.ctx.cmd.len # 0 /\ 0 # m.ctx.cmd.len
  BY <1>1
<1> HIDE DEF x
<1>6. /\ x.host = m.host /\ x.ctx = p.ctx /\ x.drive = p.drive
      /\ x.fw.at = m.fw.at /\ x.fw.new = m.fw.new /\ x.fw.post = m.fw.post /\ x.fw.asleep = m.fw.asleep
      /\ x.fw.timer = m.fw.timer /\ x.fw.cur /\ x.fw.que
      /\ x.usb.avail = m.usb.avail /\ x.usb.ints = m.usb.ints /\ x.usb.halts = m.usb.halts
      /\ x.usb.tx = "data" /\ x.usb.rx = m.usb.rx /\ x.usb.csw = m.usb.csw
      /\ x.seg = keep_sourceDbufConnection(p.seg, ReadSeg) /\ x \in Machine
  <2>1. x = usb_exec_que_ctxt(p) /\ ~p.fw.cur /\ p.fw.que /\ p.ctx.state \in {"SETUP_DONE", "CHK_CDB_FIELD_DONE"}
    BY <1>2 DEF x, Begun, Ready
  <2>2. p.ctx.cmd.len # 0 /\ ~(p.ctx.dir = "in" /\ p.ctx.cmd.len = 0)
    BY <1>2, <1>5
  <2>3. /\ x.host = p.host /\ x.ctx = p.ctx /\ x.drive = p.drive
        /\ x.fw.at = p.fw.at /\ x.fw.new = p.fw.new /\ x.fw.post = p.fw.post /\ x.fw.asleep = p.fw.asleep
        /\ x.fw.timer = p.fw.timer /\ x.fw.cur /\ x.fw.que
        /\ x.usb.avail = p.usb.avail /\ x.usb.ints = p.usb.ints /\ x.usb.halts = p.usb.halts
        /\ x.usb.tx = (IF p.ctx.dir # "in" THEN p.usb.tx ELSE IF p.ctx.nodata THEN "nodata" ELSE "data")
        /\ x.usb.rx = (IF p.ctx.dir = "in" THEN p.usb.rx ELSE IF p.ctx.nodata THEN "nodata" ELSE "data")
        /\ x.usb.csw = p.usb.csw
        /\ x.seg = (IF p.ctx.seg = NoSeg THEN p.seg
                    ELSE IF p.ctx.dir = "in" THEN keep_sourceDbufConnection(p.seg, p.ctx.seg)
                    ELSE set_dbufConnection(p.seg, p.ctx.seg))
        /\ x.seg \in Segments => x \in Machine
    BY <2>1, <2>2, ExecIs
  <2> QED BY <1>2, <1>3, <1>4, <2>3
<1>7. DrivesInv(x)
  BY <1>2, <1>6, DrivesFrame
<1>8. SegInv(x)
  BY <1>2, <1>4, <1>6, SegInvIs DEF Holds, Held, Begun, Ready
<1>9. HostSide(x) /\ Ints(x) = {} /\ Busy(x)
  BY <1>1, <1>2, <1>6 DEF HostSide, Ints, Asked, Busy, Begun, Ready
<1>10. m.fw.post = "no" /\ m.usb.rx = None /\ m.usb.halts = {} /\ m.usb.csw = None
  BY DEF Begun, Ready, QuietPipe
<1>11. ReadData(x)
  <2>1. ReadSends(x)
    BY <1>1, <1>2, <1>5, <1>6, <1>9, <1>10 DEF ReadSends
  <2> QED BY <1>1, <1>2, <1>5, <1>6, <1>9, <1>10, <2>1, ZenonT(60) DEF ReadData
<1>12. Executing(x)
  BY <1>2, <1>6, <1>9, <1>10, <1>11 DEF Executing, Begun, Ready
<1> QED BY <1>2, <1>6, <1>7, <1>8, <1>12 DEF Good, MachineInv, Phase, x

LEMMA RunWriteGood ==
  ASSUME NEW m, Begun(m), m.drive[0].st = "ready", DrivesOn(m), m.ctx.cmd.op = "WRITE", m.ctx.cmd.dir = "out",
         m.ctx.cmd.dev > 0, m.ctx.cmd.len = m.ctx.cmd.dev
  PROVE Good(RunRW(m, WriteSeg))
<1>1. /\ m \in Machine /\ m.ctx.cmd \in Commands /\ m.host.cmd = m.ctx.cmd /\ m.ctx.cmd.len \in Nat /\ m.ctx.cmd.dev \in Nat
      /\ m.host.moved = 0 /\ ~m.host.stalled /\ (m.host.done <=> m.ctx.cmd.len = 0) /\ ~Asked(m)
      /\ m.ctx.dir = "out" /\ ~m.host.failed
  BY BegunIs DEF Begun
<1>2. PICK p \in Machine :
          /\ RunRW(m, WriteSeg) = usb_exec_que_ctxt(p)
          /\ p.host = m.host /\ p.fw = m.fw /\ p.usb = m.usb /\ p.ctx.cmd = m.ctx.cmd
          /\ p.ctx.ccm /\ ~p.ctx.nodata /\ p.ctx.seg = WriteSeg /\ p.ctx.flag \in {"", "AES"} /\ p.ctx.dir = "out"
          /\ p.ctx.state = m.ctx.state /\ p.ctx.status = "PENDING" /\ p.drive[0].st = "active" /\ ~p.drive[0].park
          /\ p.drive[0].end = "no" /\ p.drive[0].tcnt = m.ctx.cmd.dev
          /\ DrivesInv(p) /\ Owned(p.seg, NoSeg, p.drive)
  <2>1. WriteSeg \in {ReadSeg, WriteSeg} /\ (m.ctx.dir = "in" => WriteSeg = ReadSeg)
    BY <1>1
  <2>2. \E p \in Machine :
          /\ RunRW(m, WriteSeg) = usb_exec_que_ctxt(p)
          /\ p.host = m.host /\ p.fw = m.fw /\ p.usb = m.usb /\ p.ctx.cmd = m.ctx.cmd
          /\ p.ctx.ccm /\ ~p.ctx.nodata /\ p.ctx.seg = WriteSeg /\ p.ctx.flag \in {"", "AES"} /\ p.ctx.dir = m.ctx.dir
          /\ p.ctx.state = m.ctx.state /\ p.ctx.status = "PENDING" /\ p.drive[0].st = "active" /\ ~p.drive[0].park
          /\ p.drive[0].end = "no" /\ p.drive[0].tcnt = IF m.ctx.cmd.op = "WRITE" THEN m.ctx.cmd.dev ELSE 0
          /\ DrivesInv(p) /\ Owned(p.seg, IF m.ctx.dir = "in" THEN WriteSeg ELSE NoSeg, p.drive)
    BY <2>1, RunIs
  <2> QED BY <1>1, <2>2
<1> DEFINE x == usb_exec_que_ctxt(p)
<1>3. p.seg \in Segments /\ WriteSeg # NoSeg
  BY DEF Machine, WriteSeg, NoSeg, None
<1>4. set_dbufConnection(p.seg, WriteSeg) \in Segments /\ Owned(set_dbufConnection(p.seg, WriteSeg), WriteSeg, p.drive)
  BY <1>2, <1>3, GivenSet
<1>5. m.ctx.cmd.len # 0 /\ 0 # m.ctx.cmd.len /\ m.ctx.cmd.dev - m.ctx.cmd.dev <= 0 /\ 0 <= m.ctx.cmd.len
  BY <1>1
<1> HIDE DEF x
<1>6. /\ x.host = m.host /\ x.ctx = p.ctx /\ x.drive = p.drive
      /\ x.fw.at = m.fw.at /\ x.fw.new = m.fw.new /\ x.fw.post = m.fw.post /\ x.fw.asleep = m.fw.asleep
      /\ x.fw.timer = m.fw.timer /\ x.fw.cur /\ x.fw.que
      /\ x.usb.avail = m.usb.avail /\ x.usb.ints = m.usb.ints /\ x.usb.halts = m.usb.halts
      /\ x.usb.rx = "data" /\ x.usb.tx = m.usb.tx /\ x.usb.csw = m.usb.csw
      /\ x.seg = set_dbufConnection(p.seg, WriteSeg) /\ x \in Machine
  <2>1. x = usb_exec_que_ctxt(p) /\ ~p.fw.cur /\ p.fw.que /\ p.ctx.state \in {"SETUP_DONE", "CHK_CDB_FIELD_DONE"}
    BY <1>2 DEF x, Begun, Ready
  <2>2. p.ctx.cmd.len # 0 /\ ~(p.ctx.dir = "in" /\ p.ctx.cmd.len = 0)
    BY <1>2, <1>5
  <2>3. /\ x.host = p.host /\ x.ctx = p.ctx /\ x.drive = p.drive
        /\ x.fw.at = p.fw.at /\ x.fw.new = p.fw.new /\ x.fw.post = p.fw.post /\ x.fw.asleep = p.fw.asleep
        /\ x.fw.timer = p.fw.timer /\ x.fw.cur /\ x.fw.que
        /\ x.usb.avail = p.usb.avail /\ x.usb.ints = p.usb.ints /\ x.usb.halts = p.usb.halts
        /\ x.usb.tx = (IF p.ctx.dir # "in" THEN p.usb.tx ELSE IF p.ctx.nodata THEN "nodata" ELSE "data")
        /\ x.usb.rx = (IF p.ctx.dir = "in" THEN p.usb.rx ELSE IF p.ctx.nodata THEN "nodata" ELSE "data")
        /\ x.usb.csw = p.usb.csw
        /\ x.seg = (IF p.ctx.seg = NoSeg THEN p.seg
                    ELSE IF p.ctx.dir = "in" THEN keep_sourceDbufConnection(p.seg, p.ctx.seg)
                    ELSE set_dbufConnection(p.seg, p.ctx.seg))
        /\ x.seg \in Segments => x \in Machine
    BY <2>1, <2>2, ExecIs
  <2> QED BY <1>2, <1>3, <1>4, <2>3
<1>7. DrivesInv(x)
  BY <1>2, <1>6, DrivesFrame
<1>8. SegInv(x)
  BY <1>2, <1>4, <1>6, SegInvIs DEF Holds, Held, Begun, Ready
<1>9. HostSide(x) /\ Ints(x) = {} /\ Busy(x)
  BY <1>1, <1>2, <1>6 DEF HostSide, Ints, Asked, Busy, Begun, Ready
<1>10. m.fw.post = "no" /\ m.usb.tx = None /\ m.usb.halts = {} /\ m.usb.csw = None
  BY DEF Begun, Ready, QuietPipe
<1>11. WriteData(x)
  <2>1. WriteHost(x)
    BY <1>1, <1>2, <1>5, <1>6, <1>9, <1>10, ZenonT(60) DEF WriteHost
  <2>2. x.drive[0].tcnt <= m.ctx.cmd.dev /\ "DOUT_HALT" \notin x.usb.ints
    <3>1. "DOUT_HALT" \notin x.usb.ints
      BY <1>9 DEF Ints, Resets
    <3>2. x.drive = p.drive /\ p.drive[0].tcnt = m.ctx.cmd.dev
      BY <1>2, <1>6
    <3>3. m.ctx.cmd.dev \in Nat
      BY <1>1
    <3> QED BY <3>1, <3>2, <3>3
  <2> QED BY <1>1, <1>2, <1>5, <1>6, <1>9, <1>10, <2>1, <2>2, ZenonT(60) DEF WriteData
<1>12. Executing(x)
  BY <1>2, <1>6, <1>9, <1>10, <1>11 DEF Executing, Begun, Ready
<1> QED BY <1>2, <1>6, <1>7, <1>8, <1>12 DEF Good, MachineInv, Phase, x

\* The case of a READ or WRITE decides whether it reaches the drive.
LEMMA CaseOf ==
  ASSUME NEW c \in Commands, c.op \in {"READ", "WRITE"}
  PROVE /\ c.dev = 0 <=> Case(c) \in {1, 4, 9}
        /\ c.dev # 0 /\ c.op = "READ" /\ Case(c) \notin {2, 7, 10} => c.dir = "in" /\ c.len >= c.dev /\ c.dev > 0
        /\ c.dev # 0 /\ c.op = "WRITE" /\ Case(c) \notin {3, 8, 11, 13} => c.dir = "out" /\ c.len = c.dev /\ c.dev > 0
        /\ c.dev # 0 /\ c.op = "READ" /\ Case(c) \in {2, 7, 10} => Wire!PhaseError(c)
        /\ c.dev # 0 /\ c.op = "WRITE" /\ Case(c) \in {3, 8, 13} => Wire!PhaseError(c)
        /\ c.op = "READ" => Case(c) \notin {3, 8, 11, 12, 13}
        /\ c.op = "WRITE" => Case(c) \notin {2, 5, 6, 7, 10}
<1>1. c.len \in Nat /\ c.dev \in Nat /\ c.dir \in {"in", "out"}
  BY CommandIs
<1>2. CASE c.dev = 0
  <2>1. Case(c) \in {1, 4, 9}
    BY <1>2, CaseIs
  <2> QED BY <1>2, <2>1
<1>3. CASE c.dev # 0 /\ c.op = "READ"
  <2>1. Case(c) = IF c.len = 0 THEN 2 ELSE IF c.dir = "out" THEN 10
                  ELSE IF c.len < c.dev THEN 7 ELSE IF c.len = c.dev THEN 6 ELSE 5
    BY <1>1, <1>3, CaseIs
  <2>2. Case(c) \in {2, 7, 10} => Wire!PhaseError(c)
    BY <1>3, WireCase DEF Wire!PhaseError
  <2> QED BY <1>1, <1>3, <2>1, <2>2
<1>4. CASE c.dev # 0 /\ c.op = "WRITE"
  <2>1. Case(c) = IF c.len = 0 THEN 3 ELSE IF c.dir = "in" THEN 8
                  ELSE IF c.len < c.dev THEN 13 ELSE IF c.len = c.dev THEN 12 ELSE 11
    BY <1>1, <1>4, CaseIs
  <2>2. Case(c) \in {3, 8, 13} => Wire!PhaseError(c)
    BY <1>4, WireCase DEF Wire!PhaseError
  <2> QED BY <1>1, <1>4, <2>1, <2>2
<1> QED BY <1>2, <1>3, <1>4

\* A READ or WRITE that does not reach the drive.
LEMMA TurnAwayGood ==
  ASSUME NEW m, Chosen(m), m.ctx.cmd.op \in {"READ", "WRITE"}, m.ctx.cmd.dev # 0 => Wire!PhaseError(m.ctx.cmd) \/ ~DrivesOn(m)
  PROVE Good(TurnAway(m))
<1>1. CASE ~DrivesOn(m)
  BY <1>1, WakeGood DEF TurnAway
<1>2. CASE DrivesOn(m) /\ m.ctx.cmd.dev = 0
  <2> DEFINE s == IF m.ctx.phase = 4 THEN "ERROR" ELSE "GOOD"
  <2>1. s \in Final /\ Wire!Truthful(m.host, s)
    BY <1>2, TruthIs DEF Chosen, Final
  <2>2. TurnAway(m) = Answer(m, s)
    BY <1>2 DEF TurnAway, NoBlocks
  <2> HIDE DEF s
  <2>3. Good(Answer(m, s))
    BY <2>1, AnswerBegun DEF Chosen
  <2> QED BY <2>2, <2>3
<1>3. CASE DrivesOn(m) /\ m.ctx.cmd.dev # 0
  <2>1. Good(Answer(m, "PHASE"))
    BY <1>3, TruthIs, AnswerBegun DEF Chosen, Final
  <2> QED BY <1>3, <2>1 DEF TurnAway
<1> QED BY <1>1, <1>2, <1>3

LEMMA ReadGood == ASSUME NEW m, Chosen(m), m.ctx.cmd.op = "READ" PROVE Good(Read(m))
<1> DEFINE cmd == m.ctx.cmd
<1>1. m \in Machine /\ cmd \in Commands
  BY BegunIs DEF Chosen
<1>2. m.ctx.phase = Case(cmd) /\ (m.ctx.state = "CHK_CDB_FIELD_DONE" => m.ctx.phase \in {5, 6})
  <2>1. Case(cmd) \notin {11, 12}
    BY <1>1, CaseOf DEF Chosen
  <2> QED BY <2>1 DEF Chosen
<1>3. CASE PassesChecks(m, {2, 7, 10})
  <2>1. DrivesOn(m) /\ m.drive[0].st = "ready"
    <3>1. m.ctx.state \in {"SETUP_DONE", "CHK_CDB_FIELD_DONE"}
      BY DEF Chosen, Begun, Ready
    <3>2. DrivesOn(m)
      BY <1>3, <3>1 DEF PassesChecks, Chosen, DrivesOn
    <3> QED BY <3>2 DEF Chosen, DrivesOn, Proceeds, Chs
  <2>2. cmd.dev # 0 /\ Case(cmd) \notin {2, 7, 10}
    <3>1. m.ctx.state \in {"SETUP_DONE", "CHK_CDB_FIELD_DONE"}
      BY DEF Chosen, Begun, Ready
    <3>2. CASE m.ctx.state = "SETUP_DONE"
      BY <1>2, <1>3, <3>2 DEF PassesChecks
    <3>3. CASE m.ctx.state = "CHK_CDB_FIELD_DONE"
      <4>1. Case(cmd) \in {5, 6}
        BY <1>2, <3>3
      <4> QED BY <1>1, <4>1, CaseOf
    <3> QED BY <3>1, <3>2, <3>3
  <2>3. cmd.dir = "in" /\ cmd.len >= cmd.dev /\ cmd.dev > 0
    BY <1>1, <2>2, CaseOf
  <2>4. Good(RunRW(m, ReadSeg))
    BY <2>1, <2>3, RunReadGood DEF Chosen
  <2> QED BY <1>3, <2>4 DEF Read
<1>4. CASE ~PassesChecks(m, {2, 7, 10})
  <2>1. cmd.dev # 0 => Wire!PhaseError(cmd) \/ ~DrivesOn(m)
    BY <1>1, <1>2, <1>4, CaseOf DEF PassesChecks
  <2>2. Good(TurnAway(m))
    BY <2>1, TurnAwayGood
  <2> QED BY <1>4, <2>2 DEF Read
<1> QED BY <1>3, <1>4

LEMMA WriteGood == ASSUME NEW m, Chosen(m), m.ctx.cmd.op = "WRITE" PROVE Good(Write(m))
<1> DEFINE cmd == m.ctx.cmd
<1>1. m \in Machine /\ cmd \in Commands
  BY BegunIs DEF Chosen
<1>2. m.ctx.phase = Case(cmd) /\ (m.ctx.state = "CHK_CDB_FIELD_DONE" => m.ctx.phase \in {11, 12})
  <2>1. Case(cmd) \notin {5, 6}
    BY <1>1, CaseOf DEF Chosen
  <2> QED BY <2>1 DEF Chosen
<1>3. CASE PassesChecks(m, {3, 8, 13})
  <2>1. DrivesOn(m) /\ m.drive[0].st = "ready"
    <3>1. m.ctx.state \in {"SETUP_DONE", "CHK_CDB_FIELD_DONE"}
      BY DEF Chosen, Begun, Ready
    <3>2. DrivesOn(m)
      BY <1>3, <3>1 DEF PassesChecks, Chosen, DrivesOn
    <3> QED BY <3>2 DEF Chosen, DrivesOn, Proceeds, Chs
  <2>2. cmd.dev # 0 /\ Case(cmd) \notin {3, 8, 13}
    <3>1. m.ctx.state \in {"SETUP_DONE", "CHK_CDB_FIELD_DONE"}
      BY DEF Chosen, Begun, Ready
    <3>2. CASE m.ctx.state = "SETUP_DONE"
      BY <1>2, <1>3, <3>2 DEF PassesChecks
    <3>3. CASE m.ctx.state = "CHK_CDB_FIELD_DONE"
      <4>1. Case(cmd) \in {11, 12}
        BY <1>2, <3>3
      <4> QED BY <1>1, <4>1, CaseOf
    <3> QED BY <3>1, <3>2, <3>3
  <2>3. CASE m.ctx.phase = 11
    <3>1. Good(Answer(m, "ERROR"))
      BY TruthIs, AnswerBegun DEF Chosen, Final
    <3> QED BY <1>3, <2>3, <3>1 DEF Write
  <2>4. CASE m.ctx.phase # 11
    <3>1. cmd.dir = "out" /\ cmd.len = cmd.dev /\ cmd.dev > 0
      BY <1>1, <1>2, <2>2, <2>4, CaseOf
    <3>2. Good(RunRW(m, WriteSeg))
      BY <2>1, <3>1, RunWriteGood DEF Chosen
    <3> QED BY <1>3, <2>4, <3>2 DEF Write
  <2> QED BY <2>3, <2>4
<1>4. CASE ~PassesChecks(m, {3, 8, 13})
  <2>1. cmd.dev # 0 => Wire!PhaseError(cmd) \/ ~DrivesOn(m)
    BY <1>1, <1>2, <1>4, CaseOf DEF PassesChecks
  <2>2. Good(TurnAway(m))
    BY <2>1, TurnAwayGood
  <2> QED BY <1>4, <2>2 DEF Write
<1> QED BY <1>3, <1>4

\* The commands of one kind each.
LEMMA StopUnitGood ==
  ASSUME NEW m, Chosen(m), m.ctx.cmd.op = "STOP" PROVE Good(StopUnit(m))
<1> DEFINE e == [ch \in Chs |-> IF ch \notin {0} THEN m.drive[ch] ELSE [m.drive[ch] EXCEPT !.st = "down"]]
           n == [m EXCEPT !.drive = e]
<1>1. m \in Machine /\ m.drive \in [Chs -> Drives] /\ Owned(m.seg, NoSeg, m.drive) /\ m.ctx.cmd.dev = 0
  <2>1. Begun(m) /\ m.ctx.cmd.op \notin DataOps
    BY DEF Chosen, DataOps
  <2>2. m \in Machine
    BY <2>1, BegunIs
  <2>3. m.drive \in [Chs -> Drives]
    BY <2>2 DEF Machine
  <2> QED BY <2>1, <2>2, <2>3, BegunIs
<1>2. StopUnit(m) = Answer(n, "GOOD")
  BY DEF StopUnit, ata_shutdown_hdd, set_hdd_power
<1>3. /\ e \in [Chs -> Drives] /\ e[1] = m.drive[1] /\ e[0].st = "down" /\ e[0].park = m.drive[0].park
      /\ e[0].init = m.drive[0].init
  BY <1>1 DEF Chs, Drives
<1> HIDE DEF e
<1>4. /\ n \in Machine /\ n.host = m.host /\ n.fw = m.fw /\ n.usb = m.usb /\ n.drive = e
      /\ n.seg = m.seg /\ n.ctx = m.ctx
  BY <1>1, <1>3 DEF Machine
<1> HIDE DEF n
<1>5. \A ch \in Chs : m.drive[ch].st \in {"ready", "down"}
  BY DEF Chosen, Proceeds
<1>6. DrivesInv(n)
  BY <1>3, <1>4, <1>5 DEF DrivesInv, Coming, Chs, Chosen, Begun, Ready
<1>7. SegInv(n)
  <2>1. Holds(n) = NoSeg /\ \A ch \in Chs : m.drive[ch].st # "id" /\ m.drive[ch].st # "active"
    BY <1>4, <1>5 DEF Chosen, Begun, Ready, Holds, Held
  <2> QED BY <1>1, <1>4, <2>1, OwnedFrame, SegInvIs DEF Chs
<1>8. DriveQuiet(n)
  BY <1>3, <1>4 DEF DriveQuiet, Chosen, Begun, Ready
<1>9. Begun(n)
  BY <1>4, <1>6, <1>7, <1>8 DEF Chosen, Begun, Ready, QuietPipe, Ints, HostSide, HostIdle, Asked, Busy
<1>10. Good(Answer(n, "GOOD"))
  BY <1>1, <1>4, <1>9, TruthIs, AnswerBegun DEF Final
<1> QED BY <1>2, <1>10

LEMMA StartAtaCmdGood ==
  ASSUME NEW m, Chosen(m), m.ctx.cmd.op \notin {"READ", "WRITE"} PROVE Good(scsi_StartAtaCmd(m))
<1> DEFINE c == [m.ctx EXCEPT !.status = "GOOD", !.state = "SETUP_DONE"]
           n == [m EXCEPT !.ctx = c]
           op == m.ctx.cmd.op
<1>1. m \in Machine /\ m.ctx \in Contexts /\ m.ctx.cmd \in Commands
  BY BegunIs DEF Chosen
<1>2. /\ c \in Contexts /\ c.cmd = m.ctx.cmd /\ c.ccm = m.ctx.ccm /\ c.dir = m.ctx.dir /\ c.seg = m.ctx.seg
      /\ c.nodata = m.ctx.nodata /\ c.state = "SETUP_DONE" /\ c.flag = m.ctx.flag /\ c.phase = m.ctx.phase
  BY <1>1 DEF Contexts, Final
<1>3. n = [m EXCEPT !.ctx.status = "GOOD", !.ctx.state = "SETUP_DONE"]
  BY <1>1 DEF Machine
<1> HIDE DEF c
<1>4. n = [m EXCEPT !.ctx = c]
  OBVIOUS
<1> HIDE DEF n
<1>5. /\ n \in Machine /\ n.host = m.host /\ n.fw = m.fw /\ n.usb = m.usb /\ n.drive = m.drive
      /\ n.seg = m.seg /\ n.ctx = c
  BY <1>1, <1>2, <1>4, CtxSet
<1>6. Chosen(n)
  <2>1. Begun(n)
    <3>1. Begun(m) /\ ~m.ctx.ccm /\ m.ctx.seg = NoSeg /\ ~m.ctx.nodata
      BY DEF Chosen, Begun, Ready
    <3> QED BY <1>2, <1>4, <3>1, BegunFrame
  <2> QED BY <1>2, <1>5, <2>1 DEF Chosen, Awake, DrivesOn
<1>7. CASE op = "VERIFY"
  <2>1. Good(Verify(n))
    BY <1>2, <1>5, <1>6, <1>7, VerifyGood
  <2>2. scsi_StartAtaCmd(m) = Verify(n)
    BY <1>3, <1>7 DEF scsi_StartAtaCmd
  <2> QED BY <2>1, <2>2
<1>8. CASE op = "TUR"
  <2> DEFINE s == IF n.drive[0].st \in {"reset", "phy"} THEN "ERROR" ELSE "GOOD"
  <2>1. n.ctx.cmd.dev = 0
    BY <1>2, <1>5, <1>6, <1>8, BegunIs DEF Chosen, DataOps
  <2>2. s \in Final /\ Wire!Truthful(n.host, s)
    BY <1>6, <2>1, TruthIs DEF Chosen, Final
  <2>3. TestUnitReady(n) = Answer(n, s)
    BY DEF TestUnitReady
  <2> HIDE DEF s
  <2>4. Good(Answer(n, s))
    BY <1>6, <2>2, AnswerBegun DEF Chosen
  <2>5. scsi_StartAtaCmd(m) = TestUnitReady(n)
    BY <1>3, <1>8 DEF scsi_StartAtaCmd
  <2> QED BY <2>3, <2>4, <2>5
<1>9. CASE op = "START"
  <2>1. Good(StartUnit(n))
    BY <1>2, <1>5, <1>6, <1>9, StartUnitGood
  <2>2. scsi_StartAtaCmd(m) = StartUnit(n)
    BY <1>3, <1>9 DEF scsi_StartAtaCmd
  <2> QED BY <2>1, <2>2
<1>10. CASE op = "STOP"
  <2>1. Good(StopUnit(n))
    BY <1>2, <1>5, <1>6, <1>10, StopUnitGood
  <2>2. scsi_StartAtaCmd(m) = StopUnit(n)
    BY <1>3, <1>10 DEF scsi_StartAtaCmd
  <2> QED BY <2>1, <2>2
<1>11. CASE op = "INQ"
  <2>1. Good(bot_device_data_in(n, n.ctx.cmd.dev))
    BY <1>2, <1>5, <1>6, <1>11, DataInGood DEF Chosen
  <2>2. scsi_StartAtaCmd(m) = bot_device_data_in(n, n.ctx.cmd.dev)
    BY <1>2, <1>3, <1>5, <1>11 DEF scsi_StartAtaCmd
  <2> QED BY <2>1, <2>2
<1>12. CASE op = "SEL"
  <2>1. Good(bot_device_data_out(n, n.ctx.cmd.dev))
    BY <1>2, <1>5, <1>6, <1>12, DataOutGood DEF Chosen
  <2>2. scsi_StartAtaCmd(m) = bot_device_data_out(n, n.ctx.cmd.dev)
    BY <1>2, <1>3, <1>5, <1>12 DEF scsi_StartAtaCmd
  <2> QED BY <2>1, <2>2
<1>13. CASE op \in {"REFUSED", "BAD"}
  <2>1. Good(Answer(n, "ERROR"))
    BY <1>6, TruthIs, AnswerBegun DEF Chosen, Final
  <2>2. scsi_StartAtaCmd(m) = Answer(n, "ERROR")
    BY <1>3, <1>13 DEF scsi_StartAtaCmd
  <2> QED BY <2>1, <2>2
<1> QED BY <1>1, <1>7, <1>8, <1>9, <1>10, <1>11, <1>12, <1>13, CommandIs DEF DataOps

LEMMA ExecuteGood == ASSUME NEW m, Chosen(m) PROVE Good(Execute(m))
<1>1. CASE m.ctx.cmd.op = "READ"
  BY <1>1, ReadGood DEF Execute
<1>2. CASE m.ctx.cmd.op = "WRITE"
  BY <1>2, WriteGood DEF Execute
<1>3. CASE m.ctx.cmd.op \notin {"READ", "WRITE"}
  <2>1. Execute(m) = scsi_StartAtaCmd(m)
    BY <1>3 DEF Execute
  <2> QED BY <1>3, <2>1, StartAtaCmdGood
<1> QED BY <1>1, <1>2, <1>3

(***************************************************************************)
(* usb_bot takes a command up.                                             *)
(***************************************************************************)
\* The drives may change but for what they do.
LEMMA SegSame ==
  ASSUME NEW m, NEW n, SegInv(m), n.seg = m.seg, Holds(m) \in {NoSeg, Holds(n)},
         \A ch \in Chs : n.drive[ch].st = m.drive[ch].st
  PROVE SegInv(n)
<1>1. Owned(m.seg, Holds(m), m.drive)
  BY SegInvIs
<1>2. \A ch \in Chs : m.drive[ch].st = "id" => n.drive[ch].st = "id"
  OBVIOUS
<1>3. m.drive[0].st = "active" => n.drive[0].st = "active"
  BY DEF Chs
<1>4. Owned(m.seg, Holds(n), n.drive)
  BY <1>1, <1>2, <1>3, OwnedFrame
<1> QED BY <1>4, SegInvIs

\* One that waits, with the end of the last command seen.
Upcoming(m) == m \in Machine /\ DrivesInv(m) /\ SegInv(m) /\ Waiting(m) /\ LastEnded(m) /\ m.fw.wait = {}

LEMMA SetupIs ==
  ASSUME NEW m \in Machine, NEW n, n = Setup(m)
  PROVE /\ n \in Machine /\ n.host = m.host /\ n.fw = m.fw /\ n.usb = m.usb /\ n.drive = m.drive /\ n.seg = m.seg
        /\ n.ctx.cmd = m.ctx.cmd /\ n.ctx.dir = m.ctx.dir /\ ~n.ctx.ccm /\ n.ctx.nodata = m.ctx.nodata
        /\ n.ctx.seg = NoSeg /\ n.ctx.flag = m.ctx.flag /\ n.ctx.phase = m.ctx.phase
        /\ n.ctx.state = "SETUP_DONE" /\ n.ctx \in Contexts
<1> DEFINE c == [m.ctx EXCEPT !.ccm = FALSE, !.seg = NoSeg, !.status = "PENDING", !.state = "SETUP_DONE"]
<1>1. m.ctx \in Contexts
  BY DEF Machine
<1>2. /\ c \in Contexts /\ c.cmd = m.ctx.cmd /\ c.dir = m.ctx.dir /\ ~c.ccm /\ c.nodata = m.ctx.nodata
      /\ c.seg = NoSeg /\ c.flag = m.ctx.flag /\ c.phase = m.ctx.phase /\ c.state = "SETUP_DONE"
  BY <1>1 DEF Contexts
<1>3. n = [m EXCEPT !.ctx = c]
  BY DEF Setup
<1> HIDE DEF c
<1> QED BY <1>2, <1>3, CtxSet

\* The context, with another state.
LEMMA StateSet ==
  ASSUME NEW c \in Contexts, NEW s \in {"RECEIVE_CIU", "AWAIT_SATA_READY"}
  PROVE LET d == [c EXCEPT !.state = s]
        IN /\ d \in Contexts /\ d.cmd = c.cmd /\ d.dir = c.dir /\ d.ccm = c.ccm /\ d.nodata = c.nodata
           /\ d.seg = c.seg /\ d.flag = c.flag /\ d.phase = c.phase /\ d.state = s
BY DEF Contexts

LEMMA QEnumIs ==
  ASSUME NEW m, Upcoming(m), NEW q, q = usb_QEnum(m)
  PROVE /\ q \in Machine /\ q.host = m.host /\ q.fw = m.fw /\ q.usb = m.usb /\ q.seg = m.seg /\ DrivesInv(q)
        /\ \A ch \in Chs : q.drive[ch].st = m.drive[ch].st /\ q.drive[ch].park = m.drive[ch].park
        /\ q.ctx.cmd = m.ctx.cmd /\ q.ctx.dir = m.ctx.dir /\ ~q.ctx.ccm /\ ~q.ctx.nodata
        /\ q.ctx.seg = NoSeg /\ q.ctx.flag = "" /\ q.ctx.phase = m.ctx.phase
        /\ MustWait(m) => q.ctx.state = "AWAIT_SATA_READY" /\ ~Initialised(q)
        /\ ~MustWait(m) =>
             /\ q.ctx.state \in {"RECEIVE_CIU", "SETUP_DONE", "CHK_CDB_FIELD_DONE"}
             /\ q.ctx.state = "CHK_CDB_FIELD_DONE" => m.ctx.state = "CHK_CDB_FIELD_DONE"
             /\ m.ctx.cmd.op \notin Proceeds => \A ch \in Chs : m.drive[ch].st \in {"ready", "down"}
<1>1. /\ m \in Machine /\ m.ctx \in Contexts /\ m.drive \in [Chs -> Drives] /\ DrivesInv(m) /\ m.drive[0].st # "active"
  BY DEF Upcoming, Machine, Waiting, DriveQuiet
<1>2. /\ ~m.ctx.ccm /\ ~m.ctx.nodata /\ m.ctx.seg = NoSeg /\ m.ctx.flag = ""
      /\ m.ctx.state \in {"RECEIVE_CIU", "AWAIT_SATA_READY", "CHK_CDB_FIELD_DONE"}
      /\ m.ctx.state = "AWAIT_SATA_READY" => ~Initialised(m)
      /\ m.ctx.state = "CHK_CDB_FIELD_DONE" => \A ch \in Chs : m.drive[ch].st = "ready"
  BY DEF Upcoming, Waiting, Untouched
<1>3. \A ch \in Chs : m.drive[ch].st \in {"down", "reset", "phy", "id", "setup", "ready"}
  BY <1>1 DEF DrivesInv, Chs, Drives
<1>4. CASE Initialised(m)
  <2>1. q = m /\ ~MustWait(m)
    BY <1>4 DEF usb_QEnum, MustWait
  <2>2. \A ch \in Chs : m.drive[ch].st \in {"ready", "down"}
    BY <1>1, <1>3, <1>4 DEF DrivesInv, Initialised, Coming
  <2> QED BY <1>1, <1>2, <1>4, <2>1, <2>2
<1>5. CASE ~Initialised(m) /\ AllUp(m)
  <2> DEFINE e == [ch \in Chs |-> [m.drive[ch] EXCEPT !.init = TRUE]]
             c == IF m.ctx.state = "AWAIT_SATA_READY" THEN [m.ctx EXCEPT !.state = "RECEIVE_CIU"] ELSE m.ctx
  <2>1. /\ e \in [Chs -> Drives]
        /\ \A ch \in Chs : e[ch].st = m.drive[ch].st /\ e[ch].park = m.drive[ch].park
    BY <1>1 DEF Drives
  <2>2. /\ c \in Contexts /\ c.cmd = m.ctx.cmd /\ c.dir = m.ctx.dir /\ c.ccm = m.ctx.ccm /\ c.nodata = m.ctx.nodata
        /\ c.seg = m.ctx.seg /\ c.flag = m.ctx.flag /\ c.phase = m.ctx.phase
        /\ c.state = IF m.ctx.state = "AWAIT_SATA_READY" THEN "RECEIVE_CIU" ELSE m.ctx.state
    BY <1>1, StateSet, ZenonT(60)
  <2>3. q = [m EXCEPT !.drive = e, !.ctx = c] /\ ~MustWait(m)
    <3> DEFINE s == IF m.ctx.state = "AWAIT_SATA_READY" THEN "RECEIVE_CIU" ELSE m.ctx.state
    <3>1. q = [m EXCEPT !.drive = e, !.ctx = [@ EXCEPT !.state = s]] /\ ~MustWait(m)
      BY <1>5 DEF usb_QEnum, MustWait
    <3>2. [m.ctx EXCEPT !.state = s] = c
      BY <1>1 DEF Contexts
    <3> HIDE DEF s, c, e
    <3> QED BY <3>1, <3>2
  <2> HIDE DEF e, c
  <2>4. /\ q \in Machine /\ q.host = m.host /\ q.fw = m.fw /\ q.usb = m.usb /\ q.seg = m.seg
        /\ q.drive = e /\ q.ctx = c
    BY <1>1, <2>1, <2>2, <2>3 DEF Machine
  <2>5. \A ch \in Chs : m.drive[ch].st = "ready"
    BY <1>3, <1>5 DEF AllUp, Up
  <2>6. DrivesInv(q)
    BY <1>1, <2>1, <2>4, <2>5 DEF DrivesInv, Coming, Chs
  <2> QED BY <1>2, <2>1, <2>2, <2>3, <2>4, <2>5, <2>6
<1>6. CASE ~Initialised(m) /\ ~AllUp(m)
  <2> DEFINE p == Setup(m)
             c == [p.ctx EXCEPT !.state = "AWAIT_SATA_READY"]
  <2>1. /\ p \in Machine /\ p.host = m.host /\ p.fw = m.fw /\ p.usb = m.usb /\ p.drive = m.drive /\ p.seg = m.seg
        /\ p.ctx.cmd = m.ctx.cmd /\ p.ctx.dir = m.ctx.dir /\ ~p.ctx.ccm /\ p.ctx.nodata = m.ctx.nodata
        /\ p.ctx.seg = NoSeg /\ p.ctx.flag = m.ctx.flag /\ p.ctx.phase = m.ctx.phase
        /\ p.ctx.state = "SETUP_DONE" /\ p.ctx \in Contexts
    <3> HIDE DEF p
    <3>1. p = Setup(m)
      BY DEF p
    <3> QED BY <1>1, <3>1, SetupIs
  <2>2. q = IF MustWait(m) THEN [p EXCEPT !.ctx.state = "AWAIT_SATA_READY"] ELSE p
    BY <1>6 DEF usb_QEnum
  <2>3. MustWait(m) <=> m.ctx.cmd.op \notin Proceeds
    BY <1>6 DEF MustWait
  <2> HIDE DEF p
  <2>4. CASE MustWait(m)
    <3>1. /\ c \in Contexts /\ c.cmd = p.ctx.cmd /\ c.dir = p.ctx.dir /\ c.ccm = p.ctx.ccm /\ c.nodata = p.ctx.nodata
          /\ c.seg = p.ctx.seg /\ c.flag = p.ctx.flag /\ c.phase = p.ctx.phase /\ c.state = "AWAIT_SATA_READY"
      BY <2>1, StateSet
    <3>2. q = [p EXCEPT !.ctx = c]
      BY <2>2, <2>4
    <3> HIDE DEF c
    <3>3. /\ q \in Machine /\ q.host = p.host /\ q.fw = p.fw /\ q.usb = p.usb /\ q.seg = p.seg
          /\ q.drive = p.drive /\ q.ctx = c
      BY <2>1, <3>1, <3>2, CtxSet
    <3>4. DrivesInv(q) /\ ~Initialised(q)
      BY <1>1, <1>6, <2>1, <3>3, DrivesFrame DEF Initialised
    <3> QED BY <1>2, <2>1, <2>4, <3>1, <3>3, <3>4
  <2>5. CASE ~MustWait(m)
    <3>1. q = p /\ DrivesInv(q)
      BY <1>1, <2>1, <2>2, <2>5, DrivesFrame
    <3> QED BY <1>2, <2>1, <2>3, <2>5, <3>1
  <2> QED BY <2>4, <2>5
<1> QED BY <1>4, <1>5, <1>6

\* The command that is taken up.
LEMMA ChosenIs ==
  ASSUME NEW m, Upcoming(m), NEW n \in Machine, n.host = m.host, n.usb = m.usb, n.seg = m.seg, DrivesInv(n),
         \A ch \in Chs : n.drive[ch].st = m.drive[ch].st /\ n.drive[ch].park = m.drive[ch].park,
         n.fw.at = m.fw.at, n.fw.que = m.fw.que, n.fw.cur = m.fw.cur, n.fw.post = m.fw.post,
         n.fw.asleep = m.fw.asleep, ~n.fw.new,
         n.ctx.cmd = m.ctx.cmd, n.ctx.dir = m.ctx.dir, ~n.ctx.ccm, ~n.ctx.nodata, n.ctx.seg = NoSeg, n.ctx.flag = "",
         n.ctx.phase = m.ctx.phase, n.ctx.state \in {"SETUP_DONE", "CHK_CDB_FIELD_DONE"},
         n.ctx.state = "CHK_CDB_FIELD_DONE" => m.ctx.state = "CHK_CDB_FIELD_DONE",
         m.ctx.cmd.op \notin Proceeds => \A ch \in Chs : m.drive[ch].st \in {"ready", "down"}
  PROVE Chosen(n)
<1>1. Waiting(m) /\ Untouched(m) /\ LastEnded(m) /\ Fresh(m.host) /\ m.fw.wait = {}
  BY DEF Upcoming, Waiting
<1>2. SegInv(n)
  <2>1. Holds(m) = NoSeg /\ SegInv(m)
    BY <1>1 DEF Upcoming, Waiting, Holds, Held
  <2> QED BY <2>1, SegSame
<1>3. DriveQuiet(n)
  BY <1>1 DEF Waiting, DriveQuiet, Chs
<1>4. HostSide(n) /\ Busy(n) /\ ~n.host.failed /\ n.host.moved = 0 /\ ~n.host.stalled
      /\ (n.host.done <=> n.host.cmd.len = 0)
  BY <1>1, ZenonT(60) DEF Waiting, Untouched, Fresh, HostSide, Busy, Asked
<1>5. Ready(n)
  BY <1>1, <1>2, <1>3, <1>4 DEF Ready, Waiting, LastEnded, QuietPipe, Ints
<1>6. Begun(n)
  BY <1>1, <1>4, <1>5 DEF Begun, Untouched
<1>7. Awake(n, n.ctx.cmd)
  BY <1>1 DEF Waiting, Untouched, Awake, DrivesOn
<1>8. n.ctx.state = "CHK_CDB_FIELD_DONE" =>
       /\ \A ch \in Chs : n.drive[ch].st = "ready"
       /\ n.ctx.cmd.op \in {"READ", "WRITE", "VERIFY"}
       /\ n.ctx.cmd.op \in {"READ", "WRITE"} => n.ctx.phase \in {5, 6, 11, 12}
  BY <1>1 DEF Untouched
<1>9. n.ctx.phase = IF n.ctx.cmd.op \in {"READ", "WRITE"} THEN Case(n.ctx.cmd) ELSE 0
  BY <1>1 DEF Untouched
<1> QED BY <1>6, <1>7, <1>8, <1>9 DEF Chosen

LEMMA ProcessGood == ASSUME NEW m, Upcoming(m) PROVE Good(ProcessCBW(m))
<1> DEFINE p == [m EXCEPT !.usb.csw = None]
           q == usb_QEnum(m)
           f == [q.fw EXCEPT !.new = FALSE, !.cbw = TRUE]
           n == [q EXCEPT !.fw = f]
           s == Setup(n)
           x == StallBoth(n)
<1>1. m \in Machine /\ m.usb.csw = None /\ m.usb \in Controllers /\ m.fw \in Firmwares
  BY DEF Upcoming, Waiting, QuietPipe, Machine
<1>2. p = m
  BY <1>1 DEF Machine, Controllers
<1>3. ProcessCBW(m) = IF MustWait(m) THEN q ELSE IF q.ctx.state # "RECEIVE_CIU" THEN Execute(n)
                      ELSE IF m.ctx.cmd.op = "BAD" THEN x ELSE Execute(s)
  <2>1. [q EXCEPT !.fw.new = FALSE, !.fw.cbw = TRUE] = n
    OBVIOUS
  <2> DEFINE w == usb_QEnum(p)
             v == [w EXCEPT !.fw.new = FALSE, !.fw.cbw = TRUE]
  <2>2. ProcessCBW(m) = IF MustWait(m) THEN w ELSE IF w.ctx.state # "RECEIVE_CIU" THEN Execute(v)
                        ELSE IF m.ctx.cmd.op = "BAD" THEN StallBoth(v) ELSE Execute(Setup(v))
    BY DEF ProcessCBW
  <2>3. w = q
    BY <1>2
  <2> HIDE DEF w, q
  <2>4. v = n
    BY <2>1, <2>3
  <2> HIDE DEF n, v
  <2> QED BY <2>2, <2>3, <2>4
<1>4. /\ q \in Machine /\ q.host = m.host /\ q.fw = m.fw /\ q.usb = m.usb /\ q.seg = m.seg /\ DrivesInv(q)
      /\ \A ch \in Chs : q.drive[ch].st = m.drive[ch].st /\ q.drive[ch].park = m.drive[ch].park
      /\ q.ctx.cmd = m.ctx.cmd /\ q.ctx.dir = m.ctx.dir /\ ~q.ctx.ccm /\ ~q.ctx.nodata
      /\ q.ctx.seg = NoSeg /\ q.ctx.flag = "" /\ q.ctx.phase = m.ctx.phase
      /\ MustWait(m) => q.ctx.state = "AWAIT_SATA_READY" /\ ~Initialised(q)
      /\ ~MustWait(m) =>
           /\ q.ctx.state \in {"RECEIVE_CIU", "SETUP_DONE", "CHK_CDB_FIELD_DONE"}
           /\ q.ctx.state = "CHK_CDB_FIELD_DONE" => m.ctx.state = "CHK_CDB_FIELD_DONE"
           /\ m.ctx.cmd.op \notin Proceeds => \A ch \in Chs : m.drive[ch].st \in {"ready", "down"}
  <2> HIDE DEF q
  <2>1. q = usb_QEnum(m)
    BY DEF q
  <2> QED BY <2>1, QEnumIs, ZenonT(60)
<1> HIDE DEF q
<1>5. /\ f \in Firmwares /\ f.at = m.fw.at /\ f.que = m.fw.que /\ f.cur = m.fw.cur /\ f.post = m.fw.post
      /\ f.asleep = m.fw.asleep /\ f.timer = m.fw.timer /\ ~f.new
  BY <1>1, <1>4 DEF Firmwares
<1> HIDE DEF f
<1>6. /\ n \in Machine /\ n.host = m.host /\ n.fw = f /\ n.usb = m.usb /\ n.seg = m.seg /\ n.drive = q.drive /\ n.ctx = q.ctx
  BY <1>4, <1>5 DEF Machine
<1> HIDE DEF n
<1>7. DrivesInv(n)
  BY <1>4, <1>5, <1>6, DrivesFrame
<1>8. /\ s \in Machine /\ s.host = m.host /\ s.fw = f /\ s.usb = m.usb /\ s.drive = q.drive /\ s.seg = m.seg
      /\ s.ctx.cmd = m.ctx.cmd /\ s.ctx.dir = m.ctx.dir /\ ~s.ctx.ccm /\ ~s.ctx.nodata
      /\ s.ctx.seg = NoSeg /\ s.ctx.flag = "" /\ s.ctx.phase = m.ctx.phase /\ s.ctx.state = "SETUP_DONE"
  <2> HIDE DEF s
  <2>1. s = Setup(n)
    BY DEF s
  <2>2. /\ s \in Machine /\ s.host = n.host /\ s.fw = n.fw /\ s.usb = n.usb /\ s.drive = n.drive /\ s.seg = n.seg
        /\ s.ctx.cmd = n.ctx.cmd /\ s.ctx.dir = n.ctx.dir /\ ~s.ctx.ccm /\ s.ctx.nodata = n.ctx.nodata
        /\ s.ctx.seg = NoSeg /\ s.ctx.flag = n.ctx.flag /\ s.ctx.phase = n.ctx.phase /\ s.ctx.state = "SETUP_DONE"
    BY <1>6, <2>1, SetupIs
  <2> QED BY <1>4, <1>6, <2>2
<1> HIDE DEF s
<1>9. CASE MustWait(m)
  <2>1. SegInv(q)
    <3>1. Holds(m) = NoSeg /\ SegInv(m)
      BY DEF Upcoming, Waiting, Holds, Held
    <3> QED BY <1>4, <3>1, SegSame
  <2>2. Untouched(q)
    BY <1>4, <1>9 DEF Untouched, Upcoming, Waiting
  <2>3. Waiting(q)
    <3>1. DriveQuiet(q) /\ Awake(q, q.host.cmd)
      BY <1>4 DEF Upcoming, Waiting, DriveQuiet, Awake, DrivesOn, Chs
    <3> QED BY <1>4, <2>2, <3>1 DEF Waiting, Upcoming, Asked, QuietPipe, LastEnded, Ints
  <2> QED BY <1>3, <1>4, <1>9, <2>1, <2>3 DEF Good, MachineInv, Phase
<1>10. CASE ~MustWait(m) /\ q.ctx.state # "RECEIVE_CIU"
  <2>1. Chosen(n)
    <3>1. /\ n \in Machine /\ n.host = m.host /\ n.usb = m.usb /\ n.seg = m.seg
          /\ \A ch \in Chs : n.drive[ch].st = m.drive[ch].st /\ n.drive[ch].park = m.drive[ch].park
          /\ n.fw.at = m.fw.at /\ n.fw.que = m.fw.que /\ n.fw.cur = m.fw.cur /\ n.fw.post = m.fw.post
          /\ n.fw.asleep = m.fw.asleep /\ ~n.fw.new
          /\ n.ctx.cmd = m.ctx.cmd /\ n.ctx.dir = m.ctx.dir /\ ~n.ctx.ccm /\ ~n.ctx.nodata /\ n.ctx.seg = NoSeg
          /\ n.ctx.flag = "" /\ n.ctx.phase = m.ctx.phase
      BY <1>4, <1>5, <1>6
    <3>2. /\ n.ctx.state \in {"SETUP_DONE", "CHK_CDB_FIELD_DONE"}
          /\ n.ctx.state = "CHK_CDB_FIELD_DONE" => m.ctx.state = "CHK_CDB_FIELD_DONE"
          /\ m.ctx.cmd.op \notin Proceeds => \A ch \in Chs : m.drive[ch].st \in {"ready", "down"}
      BY <1>4, <1>6, <1>10
    <3> QED BY <1>7, <3>1, <3>2, ChosenIs
  <2> QED BY <1>3, <1>10, <2>1, ExecuteGood
<1>11. CASE ~MustWait(m) /\ q.ctx.state = "RECEIVE_CIU" /\ m.ctx.cmd.op # "BAD"
  <2>1. DrivesInv(s)
    BY <1>6, <1>7, <1>8, DrivesFrame
  <2>2. Chosen(s)
    <3>1. /\ s \in Machine /\ s.host = m.host /\ s.usb = m.usb /\ s.seg = m.seg
          /\ \A ch \in Chs : s.drive[ch].st = m.drive[ch].st /\ s.drive[ch].park = m.drive[ch].park
          /\ s.fw.at = m.fw.at /\ s.fw.que = m.fw.que /\ s.fw.cur = m.fw.cur /\ s.fw.post = m.fw.post
          /\ s.fw.asleep = m.fw.asleep /\ ~s.fw.new
          /\ s.ctx.cmd = m.ctx.cmd /\ s.ctx.dir = m.ctx.dir /\ ~s.ctx.ccm /\ ~s.ctx.nodata /\ s.ctx.seg = NoSeg
          /\ s.ctx.flag = "" /\ s.ctx.phase = m.ctx.phase
      BY <1>4, <1>5, <1>8
    <3>2. /\ s.ctx.state = "SETUP_DONE"
          /\ m.ctx.cmd.op \notin Proceeds => \A ch \in Chs : m.drive[ch].st \in {"ready", "down"}
      BY <1>4, <1>8, <1>11
    <3> QED BY <2>1, <3>1, <3>2, ChosenIs
  <2> QED BY <1>3, <1>11, <2>2, ExecuteGood
<1>12. CASE ~MustWait(m) /\ q.ctx.state = "RECEIVE_CIU" /\ m.ctx.cmd.op = "BAD"
  <2>1. /\ x \in Machine /\ x.host = m.host /\ x.drive = q.drive /\ x.seg = m.seg
        /\ x.fw.at = "badcbw" /\ x.fw.new = f.new /\ x.fw.cur = f.cur /\ x.fw.asleep = f.asleep /\ x.fw.timer = f.timer
        /\ x.usb.avail = m.usb.avail /\ x.usb.tx = m.usb.tx /\ x.usb.rx = m.usb.rx /\ x.usb.csw = m.usb.csw
        /\ x.usb.ints = m.usb.ints
    BY <1>5, <1>6 DEF StallBoth, Machine, Firmwares, Controllers
  <2> HIDE DEF x
  <2>2. DrivesInv(x)
    BY <1>6, <1>7, <2>1, DrivesFrame
  <2>3. SegInv(x)
    <3>1. Holds(m) = NoSeg /\ SegInv(m)
      BY DEF Upcoming, Waiting, Holds, Held
    <3>2. x.seg = m.seg /\ \A ch \in Chs : x.drive[ch].st = m.drive[ch].st
      BY <1>4, <2>1
    <3> QED BY <3>1, <3>2, SegSame
  <2>4. Invalid(x)
    <3>1. DriveQuiet(x) /\ x.host.at = "busy" /\ ~Asked(x)
      BY <1>4, <2>1 DEF Upcoming, Waiting, DriveQuiet, Chs, Fresh, Asked
    <3> QED BY <1>5, <2>1, <3>1 DEF Invalid, Upcoming, Waiting, QuietPipe, LastEnded, Ints
  <2> QED BY <1>3, <1>12, <2>1, <2>2, <2>3, <2>4 DEF Good, MachineInv, Phase
<1> QED BY <1>9, <1>10, <1>11, <1>12

LEMMA TakeUpCBWKeeps == ASSUME Good(Now), TakeUpCBW PROVE Good(Now')
<1> DEFINE m == Now
<1>1. m.fw.at = "bot" /\ m.fw.new /\ ~m.fw.cbw /\ m.fw.wait = {} /\ Step(ProcessCBW(m))
  BY NowIs DEF TakeUpCBW, InBot
<1>2. Phase(m) /\ m \in Machine /\ DrivesInv(m) /\ SegInv(m)
  BY DEF Good, MachineInv
<1> HIDE DEF m
<1>3. Waiting(m) /\ LastEnded(m)
  BY <1>1, <1>2 DEF Phase, Off, Resting, Between, Invalid, Waiting, Executing, Told, LastEnds
<1>4. Good(ProcessCBW(m))
  BY <1>1, <1>2, <1>3, ProcessGood DEF Upcoming
<1> QED BY <1>1, <1>4, BecomeIs DEF Step, Good

(***************************************************************************)
(* The main loop between two commands, and its timeouts.                   *)
(***************************************************************************)
LEMMA FwSet ==
  ASSUME NEW m \in Machine, NEW f \in Firmwares, NEW n, n = [m EXCEPT !.fw = f]
  PROVE /\ n \in Machine /\ n.host = m.host /\ n.fw = f /\ n.usb = m.usb /\ n.drive = m.drive
        /\ n.seg = m.seg /\ n.ctx = m.ctx
BY DEF Machine

LEMMA EnterBotKeeps == ASSUME Good(Now), EnterBot PROVE Good(Now')
<1> DEFINE m == Now
           f == [m.fw EXCEPT !.cur = FALSE, !.que = FALSE, !.post = "no", !.cbw = FALSE, !.wait = {}]
           g == [f EXCEPT !.at = "bot"]
           n == [m EXCEPT !.fw = g]
<1>1. m.fw.at = "hdd" /\ m.usb.avail /\ Step([bot_init(m) EXCEPT !.fw.at = "bot"])
  BY NowIs DEF EnterBot
<1>2. Phase(m) /\ m \in Machine /\ m.fw \in Firmwares /\ DrivesInv(m) /\ SegInv(m)
  BY DEF Good, MachineInv, Machine
<1> HIDE DEF m
<1>3. Resting(m)
  BY <1>1, <1>2 DEF Phase, Off, Between, Invalid, Waiting, Executing, Told
<1>4. f \in Firmwares /\ f.new = m.fw.new /\ f.timer = m.fw.timer /\ f.asleep = m.fw.asleep
      /\ ~f.cur /\ ~f.que /\ f.post = "no"
  BY <1>2 DEF Firmwares
<1>5. [bot_init(m) EXCEPT !.fw.at = "bot"] = n
  <2>1. bot_init(m) = [m EXCEPT !.fw = f]
    BY DEF bot_init
  <2> HIDE DEF f
  <2> QED BY <1>2, <2>1 DEF Machine
<1> HIDE DEF f
<1>6. /\ g \in Firmwares /\ g.new = f.new /\ g.timer = f.timer /\ g.asleep = f.asleep
      /\ ~g.cur /\ ~g.que /\ g.post = "no" /\ g.at = "bot"
  BY <1>4 DEF Firmwares
<1> HIDE DEF g
<1>7. n = [m EXCEPT !.fw = g]
  OBVIOUS
<1> HIDE DEF n
<1>8. /\ n \in Machine /\ n.host = m.host /\ n.fw = g /\ n.usb = m.usb /\ n.drive = m.drive
      /\ n.seg = m.seg /\ n.ctx = m.ctx
  BY <1>2, <1>6, <1>7, FwSet
<1>9. DrivesInv(n)
  BY <1>2, <1>4, <1>6, <1>8, DrivesFrame
<1>10. SegInv(n)
  <2>1. Holds(m) = NoSeg
    BY <1>1 DEF Holds, Held
  <2> QED BY <1>2, <1>8, <2>1, SegFrame
<1>11. Between(n)
  <2>1. Arrival(n) /\ QuietPipe(n) /\ DriveQuiet(n) /\ Ints(n) = {}
    BY <1>1, <1>3, <1>4, <1>6, <1>8 DEF Resting, Arrival, Awake, DrivesOn, QuietPipe, DriveQuiet, Ints, Asked, HostIdle
  <2> QED BY <1>3, <1>4, <1>6, <1>8, <2>1 DEF Resting, Between, LastEnded
<1> QED BY <1>1, <1>5, <1>8, <1>9, <1>10, <1>11, BecomeIs DEF Step, Good, MachineInv, Phase

LEMMA ReceiveCBWKeeps == ASSUME Good(Now), ReceiveCBW PROVE Good(Now')
<1> DEFINE m == Now
           cmd == m.host.cmd
           ph == IF cmd.op \in {"READ", "WRITE"} THEN Case(cmd) ELSE 0
           c == [NoCtx EXCEPT !.state = "RECEIVE_CIU", !.cmd = cmd, !.dir = cmd.dir, !.phase = ph]
           f == [m.fw EXCEPT !.que = TRUE, !.new = TRUE]
           u == [m.usb EXCEPT !.avail = FALSE]
           n == [m EXCEPT !.ctx = c, !.fw = f, !.usb = u]
<1>1. m.fw.at = "bot" /\ ~m.fw.asleep /\ m.usb.avail
  BY NowIs DEF ReceiveCBW, InBot
<1>14. Step(n)
  BY NowIs DEF ReceiveCBW
<1>2. Phase(m) /\ m \in Machine /\ m.fw \in Firmwares /\ m.usb \in Controllers /\ DrivesInv(m) /\ SegInv(m)
  BY DEF Good, MachineInv, Machine
<1> HIDE DEF m
<1>3. Between(m) /\ Fresh(m.host) /\ ~Asked(m) /\ Awake(m, cmd) /\ cmd \in Commands
  <2>1. Between(m)
    BY <1>1, <1>2 DEF Phase, Off, QuietUsb, Resting, Invalid, Waiting, Executing, Told
  <2> QED BY <1>1, <2>1 DEF Between, Arrival, Fresh
<1>4. cmd.dir \in {"in", "out"} /\ ph \in 0..13
  BY <1>3, CommandIs, CaseIs
<1>5. /\ c \in Contexts /\ c.state = "RECEIVE_CIU" /\ c.cmd = cmd /\ c.dir = cmd.dir /\ c.phase = ph
      /\ ~c.ccm /\ ~c.nodata /\ c.seg = NoSeg /\ c.flag = ""
  <2> HIDE DEF ph, cmd
  <2>1. NoCtx = [state |-> "free", cmd |-> NoCommand, phase |-> 0, status |-> None, nodata |-> FALSE,
                 ccm |-> FALSE, seg |-> NoSeg, flag |-> "", dir |-> "in"]
    BY DEF NoCtx
  <2> QED BY <1>3, <1>4, <2>1 DEF Contexts
<1>6. /\ f \in Firmwares /\ f.que /\ f.new /\ f.at = m.fw.at /\ f.cur = m.fw.cur /\ f.cbw = m.fw.cbw
      /\ f.post = m.fw.post /\ f.timer = m.fw.timer /\ f.asleep = m.fw.asleep
  BY <1>2 DEF Firmwares
<1>7. /\ u \in Controllers /\ ~u.avail /\ u.ints = m.usb.ints /\ u.halts = m.usb.halts /\ u.tx = m.usb.tx
      /\ u.rx = m.usb.rx /\ u.csw = m.usb.csw
  BY <1>2 DEF Controllers
<1> HIDE DEF c, f, u
<1>8. /\ n \in Machine /\ n.host = m.host /\ n.fw = f /\ n.usb = u /\ n.drive = m.drive
      /\ n.seg = m.seg /\ n.ctx = c
  BY <1>2, <1>5, <1>6, <1>7 DEF Machine
<1> HIDE DEF n
<1>9. DrivesInv(n)
  BY <1>2, <1>6, <1>8, DrivesFrame
<1>10. SegInv(n)
  <2>1. Holds(m) = NoSeg
    BY <1>3 DEF Between, Holds, Held
  <2> QED BY <1>2, <1>8, <2>1, SegFrame
<1>11. Waiting(n)
  <2>1. Untouched(n)
    BY <1>5, <1>8 DEF Untouched
  <2>2. QuietPipe(n) /\ DriveQuiet(n) /\ ~Asked(n) /\ Awake(n, n.host.cmd) /\ (LastEnds(n) \/ LastEnded(n))
    BY <1>1, <1>3, <1>6, <1>7, <1>8
      DEF Between, QuietPipe, DriveQuiet, Asked, Awake, DrivesOn, LastEnds, LastEnded, Ints
  <2> QED BY <1>1, <1>3, <1>6, <1>7, <1>8, <2>1, <2>2 DEF Waiting, Between
<1> QED BY <1>8, <1>9, <1>10, <1>11, <1>14, BecomeIs DEF Step, Good, MachineInv, Phase

LEMMA WaitForReadyKeeps == ASSUME Good(Now), WaitForReady PROVE Good(Now')
<1> DEFINE m == Now
           w == {ch \in m.fw.wait : m.drive[ch].st # "ready"}
           f == [m.fw EXCEPT !.wait = w]
           n == [m EXCEPT !.fw = f]
<1>1. Step(n)
  BY NowIs DEF WaitForReady
<1>2. Phase(m) /\ m \in Machine /\ m.fw \in Firmwares /\ DrivesInv(m) /\ SegInv(m)
  BY DEF Good, MachineInv, Machine
<1> HIDE DEF m
<1>3. w \in SUBSET Chs
  BY <1>2 DEF Firmwares
<1>4. \A ch \in Chs \ w : ch \in m.fw.wait => m.drive[ch].st = "ready"
  OBVIOUS
<1> HIDE DEF w
<1>5. /\ f \in Firmwares /\ f.at = m.fw.at /\ f.new = m.fw.new /\ f.que = m.fw.que /\ f.cur = m.fw.cur
      /\ f.cbw = m.fw.cbw /\ f.wait = w /\ f.post = m.fw.post /\ f.timer = m.fw.timer /\ f.asleep = m.fw.asleep
  BY <1>2, <1>3 DEF Firmwares
<1> HIDE DEF f
<1>6. n = [m EXCEPT !.fw = f]
  OBVIOUS
<1> HIDE DEF n
<1>7. /\ n \in Machine /\ n.host = m.host /\ n.fw = f /\ n.usb = m.usb /\ n.drive = m.drive
      /\ n.seg = m.seg /\ n.ctx = m.ctx
  BY <1>2, <1>5, <1>6, FwSet
<1>8. DrivesInv(n) /\ SegInv(n)
  <2>1. Holds(n) = Holds(m)
    BY <1>5, <1>7 DEF Holds, Held
  <2> QED BY <1>2, <1>5, <1>7, <2>1, DrivesFrame, SegFrame
<1>9. /\ Ints(n) = Ints(m) /\ (Asked(n) <=> Asked(m)) /\ (HostIdle(n) <=> HostIdle(m)) /\ (DriveQuiet(n) <=> DriveQuiet(m))
      /\ (Busy(n) <=> Busy(m)) /\ (QuietPipe(n) <=> QuietPipe(m)) /\ (Arrival(n) <=> Arrival(m))
      /\ (LastEnds(n) <=> LastEnds(m)) /\ (LastEnded(n) <=> LastEnded(m)) /\ (HostSide(n) <=> HostSide(m))
      /\ (Awake(n, n.host.cmd) <=> Awake(m, m.host.cmd)) /\ (StallIn(n) <=> StallIn(m))
  BY <1>5, <1>7 DEF Ints, Asked, HostIdle, DriveQuiet, Busy, QuietPipe, Arrival, LastEnds, LastEnded, HostSide,
                    Awake, DrivesOn, StallIn
<1>10. Untouched(m) => Untouched(n)
  <2>1. \A ch \in Chs \ n.fw.wait : ch \in m.fw.wait => n.drive[ch].st = "ready"
    BY <1>4, <1>5, <1>7
  <2> QED BY <1>7, <2>1 DEF Untouched, Initialised
<1>11. Executing(m) => Executing(n)
  <2>1. NoData(m) \/ CpuIn(m) \/ CpuOut(m) => NoData(n) \/ CpuIn(n) \/ CpuOut(n)
    BY <1>5, <1>7, <1>9 DEF NoData, NoDataIn, NoDataOut, CpuIn, CpuOut
  <2>2. ReadData(m) => ReadData(n)
    BY <1>5, <1>7, <1>9 DEF ReadData, ReadSends, ReadTaken, ReadHost
  <2>3. WriteData(m) \/ DriveOnly(m) => WriteData(n) \/ DriveOnly(n)
    BY <1>5, <1>7, <1>9, ZenonT(60) DEF WriteData, WriteHost, DriveOnly
  <2> QED BY <1>5, <1>7, <1>9, <2>1, <2>2, <2>3 DEF Executing
<1>12. Phase(n)
  BY <1>2, <1>5, <1>7, <1>9, <1>10, <1>11 DEF Phase, Off, Resting, Between, Invalid, Waiting, Told
<1> QED BY <1>1, <1>7, <1>8, <1>12, BecomeIs DEF Step, Good, MachineInv

LEMMA HandleCswKeeps == ASSUME Good(Now), HandleCsw PROVE Good(Now')
<1> DEFINE m == Now
           u == [m.usb EXCEPT !.ints = @ \cap {"BUS_RST"}, !.csw = None]
           f == [m.fw EXCEPT !.cur = FALSE, !.cbw = FALSE]
           c == IF m.fw.que THEN m.ctx ELSE NoCtx
           n == [m EXCEPT !.usb = u, !.fw = f, !.ctx = c]
<1>1. m.fw.at = "bot" /\ ~m.fw.asleep /\ "CSW_DONE" \in m.usb.ints /\ Step(CswDone(m))
  BY NowIs DEF HandleCsw, InBot
<1>2. Phase(m) /\ m \in Machine /\ m.fw \in Firmwares /\ m.usb \in Controllers /\ m.ctx \in Contexts
      /\ DrivesInv(m) /\ SegInv(m)
  BY DEF Good, MachineInv, Machine
<1> HIDE DEF m
<1>3. CswDone(m) = n
  BY <1>2 DEF CswDone, Machine
<1>4. /\ u \in Controllers /\ u.avail = m.usb.avail /\ u.ints = m.usb.ints \cap {"BUS_RST"} /\ u.halts = m.usb.halts
      /\ u.tx = m.usb.tx /\ u.rx = m.usb.rx /\ u.csw = None
  BY <1>2 DEF Controllers
<1>5. /\ f \in Firmwares /\ f.at = m.fw.at /\ f.new = m.fw.new /\ f.que = m.fw.que /\ ~f.cur /\ ~f.cbw
      /\ f.wait = m.fw.wait /\ f.post = m.fw.post /\ f.timer = m.fw.timer /\ f.asleep = m.fw.asleep
  BY <1>2 DEF Firmwares
<1>6. c \in Contexts /\ (m.fw.que => c = m.ctx) /\ (~m.fw.que => c = NoCtx)
  <2>1. NoCtx \in Contexts
    <3>1. 0 \in 0..13
      OBVIOUS
    <3> QED BY <3>1 DEF NoCtx, Contexts, None
  <2> QED BY <1>2, <2>1
<1> HIDE DEF u, f, c
<1>7. /\ n \in Machine /\ n.host = m.host /\ n.fw = f /\ n.usb = u /\ n.drive = m.drive
      /\ n.seg = m.seg /\ n.ctx = c
  BY <1>2, <1>4, <1>5, <1>6 DEF Machine
<1> HIDE DEF n
<1>8. ~f.cur /\ (Ints(n) = {}) /\ LastEnded(n)
  BY <1>4, <1>5, <1>7 DEF Ints, Resets, LastEnded
<1>9. Between(m) \/ Waiting(m)
  <2>1. "CSW_DONE" \in Ints(m)
    BY <1>1 DEF Ints, Resets
  <2>2. ~Executing(m)
    <3>1. ~NoData(m) /\ ~CpuIn(m)
      BY <2>1 DEF NoData, NoDataIn, NoDataOut, CpuIn
    <3>2. ~CpuOut(m) /\ ~WriteData(m)
      BY <2>1 DEF CpuOut, WriteData
    <3>3. ~ReadSends(m)
      BY <2>1 DEF ReadSends
    <3>4. ~ReadTaken(m)
      BY <2>1 DEF ReadTaken
    <3>5. ~DriveOnly(m)
      BY <2>1 DEF DriveOnly
    <3> QED BY <3>1, <3>2, <3>3, <3>4, <3>5 DEF Executing, ReadData
  <2> QED BY <1>1, <1>2, <2>1, <2>2 DEF Phase, Off, Resting, Invalid, Told
<1>10. Between(m) => Between(n)
  <2> SUFFICES ASSUME Between(m) PROVE Between(n)
    OBVIOUS
  <2>1. Arrival(n)
    BY <1>4, <1>5, <1>7 DEF Between, Arrival, Asked, Awake, DrivesOn, HostIdle, Resets
  <2> QED BY <1>4, <1>5, <1>6, <1>7, <1>8, <2>1 DEF Between, QuietPipe, DriveQuiet
<1>11. Waiting(m) => Waiting(n)
  <2> SUFFICES ASSUME Waiting(m) PROVE Waiting(n)
    OBVIOUS
  <2>1. Untouched(n) /\ ~Asked(n) /\ Awake(n, n.host.cmd)
    <3>1. n.ctx = m.ctx /\ n.host = m.host /\ n.drive = m.drive /\ n.fw.wait = m.fw.wait /\ n.usb.ints \subseteq m.usb.ints
      BY <1>4, <1>5, <1>6, <1>7 DEF Waiting
    <3>2. Untouched(n)
      BY <3>1 DEF Waiting, Untouched, Initialised
    <3>3. ~Asked(n)
      BY <3>1 DEF Waiting, Asked
    <3> QED BY <3>1, <3>2, <3>3 DEF Waiting, Awake, DrivesOn
  <2> QED BY <1>4, <1>5, <1>7, <1>8, <2>1 DEF Waiting, QuietPipe, DriveQuiet
<1>12. DrivesInv(n) /\ SegInv(n)
  <2>1. Holds(m) = NoSeg
    BY <1>9 DEF Between, Waiting, Holds, Held
  <2> QED BY <1>2, <1>5, <1>7, <2>1, DrivesFrame, SegFrame
<1> QED BY <1>1, <1>3, <1>7, <1>9, <1>10, <1>11, <1>12, BecomeIs DEF Step, Good, MachineInv, Phase

LEMMA RspUnitKeeps == ASSUME Good(Now), RspUnit PROVE Good(Now')
<1> DEFINE m == Now
           c == [m.ctx EXCEPT !.state = "SETUP_DONE"]
           f == [m.fw EXCEPT !.new = FALSE, !.rsp = FALSE]
           n == [m EXCEPT !.ctx = c, !.fw = f]
<1>1. /\ m.fw.at = "bot" /\ ~m.fw.asleep /\ m.fw.new /\ "CSW_DONE" \notin m.usb.ints
  BY NowIs DEF RspUnit, InBot
<1>2. Step(Answer(n, "ERROR"))
  <2>1. n = [m EXCEPT !.ctx.state = "SETUP_DONE", !.fw.new = FALSE, !.fw.rsp = FALSE]
    BY DEF Good, Machine
  <2> QED BY <2>1 DEF RspUnit
<1>3. Phase(m) /\ m \in Machine /\ m.fw \in Firmwares /\ m.ctx \in Contexts /\ DrivesInv(m) /\ SegInv(m)
  BY DEF Good, MachineInv, Machine
<1> HIDE DEF m
<1>4. Waiting(m) /\ LastEnded(m) /\ Untouched(m) /\ Fresh(m.host)
  BY <1>1, <1>3 DEF Phase, Off, Resting, Between, Invalid, Waiting, Executing, Told, LastEnds
<1>5. /\ c \in Contexts /\ c.state = "SETUP_DONE" /\ c.cmd = m.ctx.cmd /\ c.dir = m.ctx.dir /\ c.seg = m.ctx.seg
      /\ c.ccm = m.ctx.ccm /\ c.nodata = m.ctx.nodata
  BY <1>3 DEF Contexts
<1>6. /\ f \in Firmwares /\ f.at = m.fw.at /\ ~f.new /\ f.que = m.fw.que /\ f.cur = m.fw.cur
      /\ f.post = m.fw.post /\ f.timer = m.fw.timer /\ f.asleep = m.fw.asleep
  BY <1>3 DEF Firmwares
<1> HIDE DEF c, f
<1>7. /\ n \in Machine /\ n.host = m.host /\ n.fw = f /\ n.usb = m.usb /\ n.drive = m.drive
      /\ n.seg = m.seg /\ n.ctx = c
  BY <1>3, <1>5, <1>6 DEF Machine
<1> HIDE DEF n
<1>8. DrivesInv(n) /\ SegInv(n)
  <2>1. Holds(m) = NoSeg
    BY <1>4 DEF Waiting, Holds, Held
  <2> QED BY <1>3, <1>6, <1>7, <2>1, DrivesFrame, SegFrame
<1>9. HostSide(n) /\ Busy(n) /\ ~n.host.failed /\ n.host.moved = 0 /\ ~n.host.stalled
      /\ (n.host.done <=> n.host.cmd.len = 0)
  BY <1>4, <1>5, <1>7 DEF Waiting, Untouched, Fresh, HostSide, Busy, Asked
<1>10. Ready(n)
  BY <1>4, <1>5, <1>6, <1>7, <1>8, <1>9 DEF Ready, Waiting, Untouched, LastEnded, QuietPipe, Ints, DriveQuiet
<1>11. Begun(n)
  BY <1>4, <1>5, <1>7, <1>9, <1>10 DEF Begun, Untouched
<1>12. Good(Answer(n, "ERROR"))
  BY <1>11, TruthIs, AnswerBegun DEF Final
<1> QED BY <1>2, <1>12, BecomeIs DEF Step, Good

\* The segments of a command are given back: nobody has them.
LEMMA ReleaseGives ==
  ASSUME NEW m \in Machine, SegInv(m), Held(m), m.ctx.seg \in CtxSegs, NEW n, n = ReleaseSeg(m)
  PROVE /\ n \in Machine /\ n.host = m.host /\ n.fw = m.fw /\ n.usb = m.usb /\ n.drive = m.drive /\ n.ctx = m.ctx
        /\ Owned(n.seg, NoSeg, m.drive)
<1> DEFINE e == free_dbufConnection(reset_dbuf_seg(m.seg, m.ctx.seg), m.ctx.seg)
<1>1. m.ctx.seg # NoSeg
  BY UseIs
<1>2. n = [m EXCEPT !.seg = e]
  BY <1>1 DEF ReleaseSeg
<1>3. m.seg \in Segments /\ Owned(m.seg, m.ctx.seg, m.drive)
  BY SegInvIs DEF Holds, Machine
<1>4. e \in Segments /\ Owned(e, NoSeg, m.drive)
  BY <1>3, GivenBack
<1> HIDE DEF e
<1> QED BY <1>2, <1>4 DEF Machine

LEMMA SendIs ==
  ASSUME NEW m \in Machine, m.ctx.status \in Final, NEW n, n = usb_ctxt_send_status(m)
  PROVE /\ n \in Machine /\ n.host = m.host /\ n.ctx = m.ctx /\ n.drive = m.drive /\ n.seg = m.seg
        /\ n.fw.at = m.fw.at /\ n.fw.new = m.fw.new /\ ~n.fw.que /\ n.fw.cur = m.fw.cur /\ n.fw.post = m.fw.post
        /\ n.fw.asleep = m.fw.asleep /\ n.fw.timer = m.fw.timer
        /\ n.usb.avail = m.usb.avail /\ n.usb.ints = m.usb.ints /\ n.usb.halts = m.usb.halts
        /\ n.usb.tx = m.usb.tx /\ n.usb.rx = m.usb.rx /\ n.usb.csw = m.ctx.status
<1> DEFINE f == [m.fw EXCEPT !.que = FALSE]
           u == [m.usb EXCEPT !.csw = m.ctx.status]
<1>1. n = [m EXCEPT !.fw = f, !.usb = u]
  BY DEF usb_ctxt_send_status
<1>2. /\ f \in Firmwares /\ f.at = m.fw.at /\ f.new = m.fw.new /\ ~f.que /\ f.cur = m.fw.cur /\ f.post = m.fw.post
      /\ f.asleep = m.fw.asleep /\ f.timer = m.fw.timer
  BY DEF Machine, Firmwares
<1>3. /\ u \in Controllers /\ u.avail = m.usb.avail /\ u.ints = m.usb.ints /\ u.halts = m.usb.halts
      /\ u.tx = m.usb.tx /\ u.rx = m.usb.rx /\ u.csw = m.ctx.status
  BY DEF Machine, Controllers
<1> HIDE DEF f, u
<1> QED BY <1>1, <1>2, <1>3 DEF Machine

\* A host that has moved the data of a command whose case is right.
LEMMA MovedIs ==
  ASSUME NEW h, h.cmd \in Commands, h.moved \in Nat, NEW s \in {"GOOD", "ERROR"},
         s = "GOOD" => ~h.failed /\ h.moved >= h.cmd.dev,
         s = "GOOD" => Case(h.cmd) \in {1, 4, 5, 6, 9, 11, 12}
  PROVE Wire!Truthful(h, s)
<1>1. s = "GOOD" => ~Wire!PhaseError(h.cmd)
  BY WireCase DEF Wire!PhaseError
<1>2. s = "GOOD" => h.moved >= Wire!Expected(h.cmd)
  BY CommandIs DEF Wire!Expected
<1> QED BY <1>1, <1>2 DEF Wire!Truthful, Wire!Statuses

LEMMA PostDataOutKeeps == ASSUME Good(Now), PostDataOut PROVE Good(Now')
<1> DEFINE m == Now
<1>1. m.fw.at = "bot" /\ ~m.fw.asleep /\ m.fw.cur /\ m.fw.post \in {"unread", "read"}
  BY NowIs DEF PostDataOut, InBot
<1>2. \/ m.fw.post = "unread" /\ Step([m EXCEPT !.fw.post = "read"])
      \/ m.fw.post = "read"
         /\ \E result \in {"GOOD", "ERROR"} :
              LET k == [ReleaseSeg(m) EXCEPT !.fw.post = "no", !.ctx.status = result]
              IN Step(IF "BUS_RST" \in m.usb.ints THEN k ELSE usb_ctxt_send_status(k))
  BY NowIs DEF PostDataOut
<1>3. /\ Phase(m) /\ m \in Machine /\ m.fw \in Firmwares /\ m.ctx \in Contexts /\ m.usb \in Controllers
      /\ m.host \in Hosts /\ DrivesInv(m) /\ SegInv(m)
  BY DEF Good, MachineInv, Machine
<1> HIDE DEF m
<1>4. Executing(m)
  BY <1>1, <1>3 DEF Phase, Off, Resting, Between, Invalid, Waiting, Told
<1>5. CpuOut(m) /\ m.ctx.cmd \in Commands
  BY <1>1, <1>4 DEF Executing, NoData, CpuIn, ReadData, WriteData, DriveOnly, HostSide
<1>6. CASE Step([m EXCEPT !.fw.post = "read"])
  <2> DEFINE f == [m.fw EXCEPT !.post = "read"]
             n == [m EXCEPT !.fw = f]
  <2>1. /\ f \in Firmwares /\ f.at = m.fw.at /\ f.new = m.fw.new /\ f.que = m.fw.que /\ f.cur = m.fw.cur
        /\ f.post = "read" /\ f.timer = m.fw.timer /\ f.asleep = m.fw.asleep
    BY <1>3 DEF Firmwares
  <2>2. Step(n)
    BY <1>6
  <2> HIDE DEF f
  <2>3. n = [m EXCEPT !.fw = f]
    OBVIOUS
  <2> HIDE DEF n
  <2>4. /\ n \in Machine /\ n.host = m.host /\ n.fw = f /\ n.usb = m.usb /\ n.drive = m.drive
        /\ n.seg = m.seg /\ n.ctx = m.ctx
    BY <1>3, <2>1, <2>3, FwSet
  <2>5. DrivesInv(n) /\ SegInv(n)
    <3>1. Holds(n) = Holds(m)
      BY <2>1, <2>4 DEF Holds, Held
    <3> QED BY <1>3, <2>1, <2>4, <3>1, DrivesFrame, SegFrame
  <2>8. m.fw.post \in {"unread", "read"} => m.fw.post # "no"
    OBVIOUS
  <2>6. CpuOut(n)
    BY <1>1, <1>5, <2>1, <2>4, <2>8, ZenonT(60) DEF CpuOut, Busy, Ints, DriveQuiet
  <2>7. Executing(n)
    BY <1>4, <2>1, <2>4, <2>6 DEF Executing, HostSide, HostIdle, Busy, Asked
  <2> QED BY <2>2, <2>4, <2>5, <2>7, BecomeIs DEF Step, Good, MachineInv, Phase
<1>7. CASE \E result \in {"GOOD", "ERROR"} :
              LET k == [ReleaseSeg(m) EXCEPT !.fw.post = "no", !.ctx.status = result]
              IN Step(IF "BUS_RST" \in m.usb.ints THEN k ELSE usb_ctxt_send_status(k))
  <2>1. PICK result \in {"GOOD", "ERROR"} :
              LET k == [ReleaseSeg(m) EXCEPT !.fw.post = "no", !.ctx.status = result]
              IN Step(IF "BUS_RST" \in m.usb.ints THEN k ELSE usb_ctxt_send_status(k))
    BY <1>7
  <2> DEFINE p == ReleaseSeg(m)
             f == [p.fw EXCEPT !.post = "no"]
             c == [p.ctx EXCEPT !.status = result]
             k == [p EXCEPT !.fw = f, !.ctx = c]
  <2>2. Step(IF "BUS_RST" \in m.usb.ints THEN k ELSE usb_ctxt_send_status(k))
    BY <2>1
  <2>3. Held(m) /\ m.ctx.seg \in CtxSegs /\ m.ctx.seg = U2BW
    BY <1>4, <1>5 DEF Executing, CpuOut, Held, CtxSegs
  <2>4. /\ p \in Machine /\ p.host = m.host /\ p.fw = m.fw /\ p.usb = m.usb /\ p.drive = m.drive /\ p.ctx = m.ctx
        /\ Owned(p.seg, NoSeg, m.drive)
    <3> HIDE DEF p
    <3>1. p = ReleaseSeg(m)
      BY DEF p
    <3> QED BY <1>3, <2>3, <3>1, ReleaseGives
  <2> HIDE DEF p
  <2>5. /\ f \in Firmwares /\ f.at = m.fw.at /\ f.new = m.fw.new /\ f.que = m.fw.que /\ f.cur = m.fw.cur
        /\ f.post = "no" /\ f.timer = m.fw.timer /\ f.asleep = m.fw.asleep
    BY <1>3, <2>4 DEF Firmwares
  <2>6. /\ c \in Contexts /\ c.state = m.ctx.state /\ c.cmd = m.ctx.cmd /\ c.dir = m.ctx.dir /\ c.seg = m.ctx.seg
        /\ c.ccm = m.ctx.ccm /\ c.nodata = m.ctx.nodata /\ c.flag = m.ctx.flag /\ c.status = result
    BY <1>3, <2>4 DEF Contexts, Final
  <2> HIDE DEF f, c
  <2>7. /\ k \in Machine /\ k.host = m.host /\ k.fw = f /\ k.usb = m.usb /\ k.drive = m.drive
        /\ k.seg = p.seg /\ k.ctx = c
    BY <2>4, <2>5, <2>6 DEF Machine
  <2> HIDE DEF k
  <2>8. DrivesInv(k)
    BY <1>3, <2>5, <2>7, DrivesFrame
  <2>9. CASE "BUS_RST" \in m.usb.ints
    <3>1. SegInv(k)
      <4>1. Owned(p.seg, Holds(k), m.drive)
        BY <2>4, OwnedFrame
      <4> QED BY <2>7, <4>1, SegInvIs
    <3>2. Asked(m) /\ ~Busy(m)
      BY <1>4, <2>9 DEF Asked, Resets, Executing, HostSide, HostIdle, Busy
    <3>3. CpuOut(k)
      BY <1>5, <2>5, <2>6, <2>7, <3>2 DEF CpuOut, Busy, Ints, DriveQuiet
    <3>4. Executing(k)
      BY <1>4, <2>5, <2>6, <2>7, <3>3 DEF Executing, HostSide, HostIdle, Busy, Asked
    <3> QED BY <2>2, <2>7, <2>8, <2>9, <3>1, <3>4, BecomeIs DEF Step, Good, MachineInv, Phase
  <2>10. CASE "BUS_RST" \notin m.usb.ints
    <3> DEFINE n == usb_ctxt_send_status(k)
    <3>1. k.ctx.status \in Final /\ k.ctx.status = result
      BY <2>6, <2>7 DEF Final
    <3> HIDE DEF n
    <3>2. /\ n \in Machine /\ n.host = k.host /\ n.ctx = k.ctx /\ n.drive = k.drive /\ n.seg = k.seg
          /\ n.fw.at = k.fw.at /\ n.fw.new = k.fw.new /\ ~n.fw.que /\ n.fw.cur = k.fw.cur /\ n.fw.post = k.fw.post
          /\ n.fw.asleep = k.fw.asleep /\ n.fw.timer = k.fw.timer
          /\ n.usb.avail = k.usb.avail /\ n.usb.ints = k.usb.ints /\ n.usb.halts = k.usb.halts
          /\ n.usb.tx = k.usb.tx /\ n.usb.rx = k.usb.rx /\ n.usb.csw = k.ctx.status
      BY <2>7, <3>1, SendIs DEF n
    <3>3. DrivesInv(n)
      BY <2>8, <3>2, DrivesFrame
    <3>4. SegInv(n)
      <4>1. Holds(n) = NoSeg
        BY <3>2 DEF Holds, Held
      <4> QED BY <2>4, <2>7, <3>2, <4>1, SegInvIs
    <3>5. Busy(m) => Wire!Truthful(m.host, result)
      <4> SUFFICES ASSUME Busy(m) PROVE Wire!Truthful(m.host, result)
        OBVIOUS
      <4>1. m.host.cmd = m.ctx.cmd /\ m.host.moved \in Nat
        BY <1>3, <1>4 DEF Executing, HostSide, HostIdle, Busy, Hosts
      <4>2. ~m.host.failed /\ m.host.moved >= m.ctx.cmd.dev
        <5>1. m.host.done /\ (m.host.done <=> m.host.moved = m.host.cmd.len) /\ m.ctx.cmd.len >= m.ctx.cmd.dev /\ ~m.host.failed
          BY <1>1, <1>5 DEF CpuOut
        <5> QED BY <4>1, <5>1
      <4>3. Case(m.ctx.cmd) \in {11, 12}
        <5>1. /\ m.ctx.cmd.op = "SEL" /\ m.ctx.cmd.dir = "out" /\ m.ctx.cmd.dev > 0 /\ m.ctx.cmd.len >= m.ctx.cmd.dev
          BY <1>5 DEF CpuOut
        <5> QED BY <1>5, <5>1, CommandIs, CaseIs
      <4> QED BY <1>5, <4>1, <4>2, <4>3, MovedIs
    <3>6. HostSide(n) /\ Ints(n) = Ints(m) /\ (Busy(n) <=> Busy(m)) /\ DriveQuiet(n)
      BY <1>4, <1>5, <2>6, <2>7, <3>2 DEF Executing, CpuOut, HostSide, HostIdle, Ints, Busy, Asked, DriveQuiet
    <3>7. Told(n)
      <4>1. n.usb.tx # "data" /\ n.usb.tx # "nodata" /\ n.usb.rx # "nodata" /\ ~n.ctx.ccm
        BY <1>5, <2>6, <2>7, <3>2 DEF CpuOut, None
      <4>2. Busy(m) => m.usb.halts = {} /\ m.host.done /\ ~m.host.stalled
        BY <1>1, <1>5 DEF CpuOut
      <4> QED BY <1>1, <1>4, <1>5, <2>5, <2>7, <3>1, <3>2, <3>5, <3>6, <4>1, <4>2 DEF Told, Executing, CpuOut
    <3> QED BY <2>2, <2>10, <3>2, <3>3, <3>4, <3>7, BecomeIs DEF Step, Good, MachineInv, Phase, n
  <2> QED BY <2>9, <2>10
<1> QED BY <1>2, <1>6, <1>7

\* The drives are switched off between two commands, or after the data of one.
LEMMA DrivesOff ==
  ASSUME NEW m \in Machine, DrivesInv(m), SegInv(m), NEW n, n = ata_shutdown_hdd(m, Chs),
         \A ch \in Chs : m.drive[ch].st \in {"ready", "down"}
  PROVE /\ n \in Machine /\ n.host = m.host /\ n.ctx = m.ctx /\ n.fw = m.fw /\ n.usb = m.usb /\ n.seg = m.seg
        /\ \A ch \in Chs : n.drive[ch].st = "down" /\ ~n.drive[ch].park
        /\ m.fw.timer = 0 /\ DrivesInv(n) /\ SegInv(n)
<1> DEFINE e == [ch \in Chs |-> [m.drive[ch] EXCEPT !.st = "down"]]
<1>1. m.drive \in [Chs -> Drives] /\ m.fw.timer \in Nat
  BY BotAssumption DEF Machine, Firmwares
<1>2. n = [m EXCEPT !.drive = e]
  <2>1. e = [ch \in Chs |-> IF ch \notin Chs THEN m.drive[ch] ELSE [m.drive[ch] EXCEPT !.st = "down"]]
    OBVIOUS
  <2>2. n = [m EXCEPT !.drive = [ch \in Chs |-> IF ch \notin Chs THEN m.drive[ch] ELSE [m.drive[ch] EXCEPT !.st = "down"]]]
    BY DEF ata_shutdown_hdd, set_hdd_power
  <2> HIDE DEF e
  <2> QED BY <2>1, <2>2
<1>3. e \in [Chs -> Drives] /\ \A ch \in Chs : e[ch].st = "down" /\ e[ch].park = m.drive[ch].park
  BY <1>1 DEF Drives
<1> HIDE DEF e
<1>4. /\ n \in Machine /\ n.host = m.host /\ n.ctx = m.ctx /\ n.fw = m.fw /\ n.usb = m.usb /\ n.seg = m.seg
      /\ n.drive = e
  BY <1>2, <1>3 DEF Machine
<1>5. m.fw.timer = 0 /\ \A ch \in Chs : ~m.drive[ch].park
  BY <1>1 DEF DrivesInv, Coming, Chs
<1>6. DrivesInv(n)
  BY <1>1, <1>3, <1>4, <1>5 DEF DrivesInv, Coming, Chs
<1>7. SegInv(n)
  <2>1. Owned(m.seg, Holds(m), m.drive) /\ Holds(n) = Holds(m)
    BY <1>4, SegInvIs DEF Holds, Held
  <2>2. \A ch \in Chs : m.drive[ch].st # "id" /\ m.drive[ch].st # "active"
    OBVIOUS
  <2>3. Owned(m.seg, Holds(m), n.drive)
    BY <2>1, <2>2, OwnedFrame DEF Chs
  <2> QED BY <1>4, <2>1, <2>3, SegInvIs
<1> QED BY <1>3, <1>4, <1>5, <1>6, <1>7

LEMMA StandbyKeeps == ASSUME Good(Now), Standby PROVE Good(Now')
<1> DEFINE m == Now
           n == ata_shutdown_hdd(m, Chs)
<1>1. /\ m.fw.at = "bot" /\ ~m.fw.asleep /\ ~m.usb.avail /\ ~m.fw.new /\ \A ch \in Chs : m.drive[ch].st = "ready"
      /\ Become(n)
  BY NowIs DEF Standby, InBot
<1>2. /\ Phase(m) /\ m \in Machine /\ DrivesInv(m) /\ SegInv(m)
  BY DEF Good, MachineInv
<1> HIDE DEF m
<1>3. /\ n \in Machine /\ n.host = m.host /\ n.ctx = m.ctx /\ n.fw = m.fw /\ n.usb = m.usb /\ n.seg = m.seg
      /\ \A ch \in Chs : n.drive[ch].st = "down" /\ ~n.drive[ch].park
      /\ DrivesInv(n) /\ SegInv(n)
  <2> HIDE DEF n
  <2>1. n = ata_shutdown_hdd(m, Chs)
    BY DEF n
  <2> QED BY <1>1, <1>2, <2>1, DrivesOff
<1> HIDE DEF n
<1>4. DriveQuiet(n) /\ m.drive[0].st = "ready" /\ ~m.drive[0].park
  BY <1>1, <1>2, <1>3 DEF DriveQuiet, Chs, DrivesInv, Coming
<1>5. Between(m) => Between(n)
  BY <1>1, <1>3, <1>4 DEF Between, QuietPipe, Arrival, Awake, HostIdle, LastEnds, LastEnded, Ints
<1>6. Told(m) => Told(n)
  BY <1>3, <1>4 DEF Told, Ints, HostSide, HostIdle, Asked, Busy
<1>7. Executing(m) => Executing(n)
  <2> SUFFICES ASSUME Executing(m) PROVE Executing(n)
    OBVIOUS
  <2>1. NoData(m) => NoData(n)
    BY <1>3, <1>4 DEF NoData, NoDataIn, NoDataOut, Ints, Busy, StallIn
  <2>2. CpuIn(m) \/ CpuOut(m) => CpuIn(n) \/ CpuOut(n)
    BY <1>3, <1>4 DEF CpuIn, CpuOut, Ints, Busy, StallIn
  <2>3. ~WriteData(m) /\ ~DriveOnly(m)
    BY <1>4 DEF WriteData, DriveOnly
  <2>4. ReadData(m) => ReadData(n)
    <3> SUFFICES ASSUME ReadData(m) PROVE ReadData(n)
      OBVIOUS
    <3>1. ~m.ctx.ccm /\ ~ReadSends(m) /\ ReadTaken(m)
      BY <1>4 DEF ReadData, ReadSends
    <3>2. ReadTaken(n)
      BY <1>3, <3>1 DEF ReadTaken, ReadHost, StallIn, Busy, Ints
    <3>3. n.drive[0].st = "down" /\ ~n.drive[0].park
      BY <1>3 DEF Chs
    <3> QED BY <1>3, <3>1, <3>2, <3>3 DEF ReadData
  <2> QED BY <1>3, <2>1, <2>2, <2>3, <2>4 DEF Executing, HostSide, HostIdle, Asked, Busy
<1>8. Phase(n)
  BY <1>1, <1>2, <1>5, <1>6, <1>7 DEF Phase, Off, Resting, Invalid, Waiting
<1> QED BY <1>1, <1>3, <1>8, BecomeIs DEF Good, MachineInv

LEMMA usb_suspendKeeps == ASSUME Good(Now), usb_suspend PROVE Good(Now')
<1> DEFINE m == Now
           p == ata_shutdown_hdd(m, Chs)
           f == [p.fw EXCEPT !.asleep = TRUE]
           n == [p EXCEPT !.fw = f]
<1>1. /\ m.fw.at \in {"hdd", "bot"} /\ ~m.fw.asleep /\ m.host.at = "idle" /\ ~Asked(m) /\ ~m.usb.avail /\ ~m.fw.new
      /\ \A ch \in Chs : m.drive[ch].st \in {"ready", "down"}
  BY NowIs DEF usb_suspend, Running, ResetAsked, Asked, Resets
<1>2. Become(n)
  <2>1. n = [ata_shutdown_hdd(Now, Chs) EXCEPT !.fw.asleep = TRUE]
    OBVIOUS
  <2> QED BY <2>1 DEF usb_suspend
<1>3. /\ Phase(m) /\ m \in Machine /\ m.fw \in Firmwares /\ DrivesInv(m) /\ SegInv(m)
  BY DEF Good, MachineInv, Machine
<1> HIDE DEF m
<1>4. /\ p \in Machine /\ p.host = m.host /\ p.ctx = m.ctx /\ p.fw = m.fw /\ p.usb = m.usb /\ p.seg = m.seg
      /\ \A ch \in Chs : p.drive[ch].st = "down" /\ ~p.drive[ch].park
      /\ m.fw.timer = 0 /\ DrivesInv(p) /\ SegInv(p)
  <2> HIDE DEF p
  <2>1. p = ata_shutdown_hdd(m, Chs)
    BY DEF p
  <2> QED BY <1>1, <1>3, <2>1, DrivesOff
<1> HIDE DEF p
<1>5. /\ f \in Firmwares /\ f.at = m.fw.at /\ f.new = m.fw.new /\ f.que = m.fw.que /\ f.cur = m.fw.cur
      /\ f.cbw = m.fw.cbw /\ f.post = m.fw.post /\ f.timer = m.fw.timer /\ f.asleep
  BY <1>3, <1>4 DEF Firmwares
<1> HIDE DEF f
<1>6. n = [p EXCEPT !.fw = f]
  OBVIOUS
<1> HIDE DEF n
<1>7. /\ n \in Machine /\ n.host = m.host /\ n.fw = f /\ n.usb = m.usb /\ n.drive = p.drive
      /\ n.seg = m.seg /\ n.ctx = m.ctx
  BY <1>4, <1>5, <1>6, FwSet
<1>8. Resting(m) \/ Between(m)
  <2>1. ~Executing(m) /\ ~Told(m)
    BY <1>1 DEF Executing, Told, HostSide, Busy
  <2> QED BY <1>1, <1>3, <2>1 DEF Phase, Off, Waiting, Invalid
<1>9. DriveQuiet(n)
  BY <1>4, <1>7 DEF DriveQuiet, Chs
<1>10. DrivesInv(n)
  BY <1>4, <1>5, <1>7 DEF DrivesInv, Coming, Chs
<1>11. SegInv(n)
  <2>1. Holds(p) = NoSeg
    BY <1>4, <1>8 DEF Resting, Between, Holds, Held
  <2> QED BY <1>4, <1>7, <2>1, SegFrame
<1>12. Resting(m) => Resting(n)
  BY <1>1, <1>5, <1>7, <1>9 DEF Resting, QuietPipe, Ints, Arrival, HostIdle
<1>13. Between(m) => Between(n)
  BY <1>1, <1>5, <1>7, <1>9 DEF Between, QuietPipe, Ints, Arrival, HostIdle, LastEnds, LastEnded
<1> QED BY <1>2, <1>7, <1>8, <1>10, <1>11, <1>12, <1>13, BecomeIs DEF Good, MachineInv, Phase

LEMMA ResumeKeeps == ASSUME Good(Now), Resume PROVE Good(Now')
<1> DEFINE m == Now
           e == [ch \in Chs |-> ResetDrive]
           f == [m.fw EXCEPT !.asleep = FALSE, !.timer = Spinup]
           n == [m EXCEPT !.drive = e, !.fw = f]
<1>1. m.fw.asleep
  BY NowIs DEF Resume
<1>3. /\ Phase(m) /\ m \in Machine /\ m.fw \in Firmwares /\ DrivesInv(m) /\ SegInv(m)
  BY DEF Good, MachineInv, Machine
<1>2. Step(n)
  <2> DEFINE p == set_hdd_power(Now, Chs, TRUE)
             g == [p.fw EXCEPT !.asleep = FALSE, !.timer = Spinup]
  <2>1. p = [m EXCEPT !.drive = e]
    <3>1. e = [ch \in Chs |-> IF ch \notin Chs THEN m.drive[ch] ELSE ResetDrive]
      OBVIOUS
    <3>2. p = [m EXCEPT !.drive = [ch \in Chs |-> IF ch \notin Chs THEN m.drive[ch] ELSE ResetDrive]]
      BY DEF set_hdd_power
    <3> HIDE DEF e, m, p
    <3> QED BY <3>1, <3>2
  <2>2. Step([p EXCEPT !.fw = g])
    BY DEF Resume
  <2> HIDE DEF p, e, m
  <2>3. p.fw = m.fw
    BY <1>3, <2>1 DEF Machine
  <2>4. g = f
    BY <2>3
  <2> HIDE DEF f, g
  <2>5. [p EXCEPT !.fw = g] = n
    BY <2>1, <2>4, <1>3 DEF Machine
  <2> QED BY <2>2, <2>5
<1> HIDE DEF m
<1>4. e \in [Chs -> Drives] /\ \A ch \in Chs : e[ch].st = "reset" /\ ~e[ch].init /\ ~e[ch].park
  BY DEF ResetDrive, Drives
<1>5. /\ f \in Firmwares /\ f.at = m.fw.at /\ f.new = m.fw.new /\ f.que = m.fw.que /\ f.cur = m.fw.cur
      /\ f.cbw = m.fw.cbw /\ f.post = m.fw.post /\ f.timer = Spinup /\ ~f.asleep
  <2>1. Spinup \in 0..Spinup
    BY BotAssumption
  <2> QED BY <1>3, <2>1 DEF Firmwares
<1> HIDE DEF e, f
<1>6. /\ n \in Machine /\ n.host = m.host /\ n.fw = f /\ n.usb = m.usb /\ n.drive = e
      /\ n.seg = m.seg /\ n.ctx = m.ctx
  BY <1>3, <1>4, <1>5 DEF Machine
<1> HIDE DEF n
<1>7. (Resting(m) \/ Between(m)) /\ ~m.usb.avail
  <2>1. Resting(m) \/ Between(m)
    BY <1>1, <1>3 DEF Phase, Off, Waiting, Invalid, Executing, Told
  <2> QED BY <1>1, <2>1 DEF Resting, Between, Arrival
<1>8. \A ch \in Chs : m.drive[ch].st = "down"
  BY <1>1, <1>3 DEF DrivesInv
<1>9. DriveQuiet(n)
  BY <1>4, <1>6 DEF DriveQuiet, Chs
<1>10. DrivesInv(n)
  BY <1>4, <1>5, <1>6 DEF DrivesInv, Coming, Chs
<1>11. SegInv(n)
  <2>1. Holds(m) = NoSeg
    BY <1>7 DEF Resting, Between, Holds, Held
  <2>2. Owned(m.seg, NoSeg, m.drive)
    BY <1>3, <2>1, SegInvIs
  <2>3. \A ch \in Chs : m.drive[ch].st # "id" /\ m.drive[ch].st # "active"
    BY <1>8
  <2>4. NoSeg \in {NoSeg, Holds(n)} /\ m.drive[0].st # "active"
    BY <2>3 DEF Chs
  <2>5. Owned(m.seg, Holds(n), n.drive)
    BY <2>2, <2>3, <2>4, OwnedFrame
  <2> QED BY <1>6, <2>5, SegInvIs
<1>12. Resting(m) => Resting(n)
  BY <1>5, <1>6, <1>7, <1>9 DEF Resting, QuietPipe, Ints, Arrival, HostIdle
<1>13. Between(m) => Between(n)
  BY <1>5, <1>6, <1>7, <1>9 DEF Between, QuietPipe, Ints, Arrival, HostIdle, LastEnds, LastEnded
<1> QED BY <1>2, <1>6, <1>7, <1>10, <1>11, <1>12, <1>13, BecomeIs DEF Step, Good, MachineInv, Phase

\* Without a command the drive is not active, and no segment is for it.
LEMMA IdleSegs ==
  ASSUME NEW m \in Machine, Phase(m), ~Working(m) \/ m.fw.at = "hdd"
  PROVE Holds(m) = NoSeg /\ m.drive[0].st # "active"
<1>1. CASE ~Working(m)
  BY <1>1 DEF Working, Holds, Held, Chs
<1>2. CASE m.fw.at = "hdd"
  BY <1>2 DEF Phase, Off, Resting, Between, Invalid, Waiting, Executing, Told, DriveQuiet, Holds, Held
<1> QED BY <1>1, <1>2

LEMMA UnplugKeeps == ASSUME Good(Now), Unplug PROVE Good(Now')
<1> DEFINE m == Now
           n == Now'
           e == [ch \in Chs |-> DownDrive]
           f == [m.fw EXCEPT !.at = "off", !.timer = 0, !.asleep = FALSE]
<1>1. /\ n.host = Idle /\ n.usb = QuietUsb /\ n.ctx = NoCtx /\ n.drive = e /\ n.fw = f
      /\ ~m.fw.new /\ (\A ch \in Chs : m.drive[ch].st # "id")
      /\ n.seg = (IF m.fw.at # "hdd" /\ Working(m) THEN rst_all_seg ELSE m.seg)
  BY NowIs, NextIs DEF Unplug
<1>2. n = [host |-> n.host, ctx |-> n.ctx, fw |-> n.fw, usb |-> n.usb, drive |-> n.drive, seg |-> n.seg]
  BY NextIs DEF Now
<1>3. /\ Phase(m) /\ m \in Machine /\ m.fw \in Firmwares /\ m.seg \in Segments /\ SegInv(m)
  BY DEF Good, MachineInv, Machine
<1> HIDE DEF m, n
<1>4. e \in [Chs -> Drives] /\ \A ch \in Chs : e[ch].st = "down" /\ ~e[ch].init /\ ~e[ch].park
  BY DEF DownDrive, ResetDrive, Drives
<1>5. /\ f \in Firmwares /\ f.at = "off" /\ ~f.new /\ f.timer = 0 /\ ~f.asleep
  <2>1. 0 \in 0..Spinup
    BY BotAssumption
  <2> QED BY <1>1, <1>3, <2>1 DEF Firmwares
<1>6. Idle \in Hosts /\ Idle.at = "idle" /\ ~Idle.failed
  BY DEF Idle, Hosts
<1>7. QuietUsb \in Controllers
  BY DEF QuietUsb, Controllers
<1>8. NoCtx \in Contexts
  <2>1. 0 \in 0..13
    OBVIOUS
  <2> QED BY <2>1 DEF NoCtx, Contexts
<1> HIDE DEF e, f
<1>9. n.seg \in Segments /\ Owned(n.seg, NoSeg, n.drive)
  <2>1. CASE m.fw.at # "hdd" /\ Working(m)
    BY <1>1, <2>1, FreshSegs
  <2>2. CASE ~(m.fw.at # "hdd" /\ Working(m))
    <3>1. Holds(m) = NoSeg /\ m.drive[0].st # "active"
      BY <1>3, <2>2, IdleSegs
    <3>2. Owned(m.seg, NoSeg, m.drive)
      BY <1>3, <3>1, SegInvIs
    <3>3. Owned(m.seg, NoSeg, n.drive)
      BY <1>1, <3>1, <3>2, OwnedFrame
    <3> QED BY <1>1, <1>3, <2>2, <3>3
  <2> QED BY <2>1, <2>2
<1>10. n \in Machine
  BY <1>1, <1>2, <1>4, <1>5, <1>6, <1>7, <1>8, <1>9 DEF Machine
<1>11. DrivesInv(n)
  BY <1>1, <1>4, <1>5 DEF DrivesInv, Coming, Chs
<1>12. SegInv(n)
  <2>1. Holds(n) = NoSeg
    BY <1>1, <1>5 DEF Holds, Held
  <2> QED BY <1>9, <2>1, SegInvIs
<1>13. Off(n)
  BY <1>1, <1>4, <1>5, <1>6 DEF Off, HostIdle
<1> QED BY <1>10, <1>11, <1>12, <1>13 DEF Good, MachineInv, Phase, n

LEMMA PlugKeeps == ASSUME Good(Now), Plug PROVE Good(Now')
<1> DEFINE m == Now
           n == Now'
           e == [ch \in Chs |-> ResetDrive]
           f == [m.fw EXCEPT !.at = "hdd", !.timer = Spinup]
<1>1. /\ n.host = m.host /\ n.usb = m.usb /\ n.ctx = m.ctx /\ n.drive = e /\ n.fw = f /\ n.seg = m.seg
      /\ m.fw.at = "off"
  BY NowIs, NextIs DEF Plug
<1>2. n = [host |-> n.host, ctx |-> n.ctx, fw |-> n.fw, usb |-> n.usb, drive |-> n.drive, seg |-> n.seg]
  BY NextIs DEF Now
<1>3. /\ Phase(m) /\ m \in Machine /\ m.fw \in Firmwares /\ SegInv(m)
  BY DEF Good, MachineInv, Machine
<1> HIDE DEF m, n
<1>4. e \in [Chs -> Drives] /\ \A ch \in Chs : e[ch].st = "reset" /\ ~e[ch].init /\ ~e[ch].park
  BY DEF ResetDrive, Drives
<1>5. /\ f \in Firmwares /\ f.at = "hdd" /\ f.new = m.fw.new /\ f.timer = Spinup /\ f.asleep = m.fw.asleep
  <2>1. Spinup \in 0..Spinup
    BY BotAssumption
  <2> QED BY <1>1, <1>3, <2>1 DEF Firmwares
<1> HIDE DEF e, f
<1>6. Off(m)
  BY <1>1, <1>3 DEF Phase, Resting, Between, Waiting, Invalid, Executing, Told
<1>7. n \in Machine
  BY <1>1, <1>2, <1>3, <1>4, <1>5 DEF Machine
<1>8. DrivesInv(n)
  BY <1>1, <1>4, <1>5, <1>6 DEF DrivesInv, Coming, Chs, Off
<1>9. SegInv(n)
  <2>1. Holds(m) = NoSeg
    BY <1>1 DEF Holds, Held
  <2>2. Owned(m.seg, NoSeg, m.drive)
    BY <1>3, <2>1, SegInvIs
  <2>3. \A ch \in Chs : m.drive[ch].st # "id" /\ m.drive[ch].st # "active"
    BY <1>6 DEF Off
  <2>4. NoSeg \in {NoSeg, Holds(n)} /\ m.drive[0].st # "active"
    BY <2>3 DEF Chs
  <2>5. Owned(m.seg, Holds(n), n.drive)
    BY <2>2, <2>3, <2>4, OwnedFrame
  <2> QED BY <1>1, <2>5, SegInvIs
<1>10. Resting(n)
  <2>1. m.usb = QuietUsb /\ HostIdle(m) /\ m.ctx = NoCtx /\ ~m.fw.new
    BY <1>6 DEF Off
  <2>2. n.usb = QuietUsb /\ HostIdle(n) /\ DriveQuiet(n)
    BY <1>1, <1>4, <2>1 DEF HostIdle, DriveQuiet, Chs
  <2> QED BY <1>1, <1>5, <2>1, <2>2 DEF Resting, QuietPipe, Ints, Arrival, QuietUsb
<1> QED BY <1>7, <1>8, <1>9, <1>10 DEF Good, MachineInv, Phase, n

\* Once a reset is asked for, the host has nothing to do with the command.
LEMMA AskedIs ==
  ASSUME NEW m, Phase(m), Asked(m)
  PROVE HostIdle(m) /\ ~m.fw.new /\ ~m.drive[0].park /\ ~m.usb.avail /\ m.fw.at # "off"
<1>1. ~Off(m) /\ ~Waiting(m)
  BY DEF Off, Waiting, Asked, Resets, QuietUsb
<1>2. Resting(m) \/ Between(m) => HostIdle(m) /\ ~m.fw.new /\ ~m.drive[0].park /\ ~m.usb.avail /\ m.fw.at # "off"
  BY DEF Resting, Between, Arrival, DriveQuiet
<1>3. Invalid(m) \/ Told(m) => HostIdle(m) /\ ~m.fw.new /\ ~m.drive[0].park /\ ~m.usb.avail /\ m.fw.at # "off"
  BY DEF Invalid, Told, DriveQuiet, HostSide
<1>4. Executing(m) => HostIdle(m) /\ ~m.fw.new /\ ~m.drive[0].park /\ ~m.usb.avail /\ m.fw.at # "off"
  <2> SUFFICES ASSUME Executing(m) PROVE HostIdle(m) /\ ~m.fw.new /\ ~m.drive[0].park /\ ~m.usb.avail /\ m.fw.at # "off"
    OBVIOUS
  <2>1. HostIdle(m) /\ ~m.fw.new /\ ~m.usb.avail /\ m.fw.at # "off"
    BY DEF Executing, HostSide
  <2>2. ~m.drive[0].park
    BY DEF Executing, NoData, CpuIn, CpuOut, ReadData, WriteData, DriveOnly, DriveQuiet
  <2> QED BY <2>1, <2>2
<1> QED BY <1>1, <1>2, <1>3, <1>4 DEF Phase

\* The drives after a reset: only one with a command starts again.
Restarted(dr) == [ch \in Chs |-> IF dr[ch].st = "active" THEN ResetDrive ELSE dr[ch]]

LEMMA RestartedIs ==
  ASSUME NEW m \in Machine, DrivesInv(m), ~m.drive[0].park, NEW n, n.drive = Restarted(m.drive),
         n.fw.timer > 0 => \E ch \in Chs : Coming(n.drive[ch]), n.fw.asleep = m.fw.asleep
  PROVE /\ n.drive \in [Chs -> Drives] /\ DrivesInv(n) /\ DriveQuiet(n)
        /\ \A ch \in Chs : m.drive[ch].st = "id" => n.drive[ch].st = "id"
        /\ \A ch \in Chs : Coming(m.drive[ch]) => Coming(n.drive[ch])
<1>1. m.drive \in [Chs -> Drives]
  BY DEF Machine
<1>2. n.drive \in [Chs -> Drives]
  <2>1. ResetDrive \in Drives
    BY DEF ResetDrive, Drives
  <2> QED BY <1>1, <2>1 DEF Restarted
<1>3. \A ch \in Chs : n.drive[ch] = IF m.drive[ch].st = "active" THEN ResetDrive ELSE m.drive[ch]
  BY DEF Restarted
<1>4. \A ch \in Chs : /\ n.drive[ch].st = (IF m.drive[ch].st = "active" THEN "reset" ELSE m.drive[ch].st)
                      /\ (n.drive[ch].init <=> m.drive[ch].st # "active" /\ m.drive[ch].init)
                      /\ (n.drive[ch].park <=> m.drive[ch].st # "active" /\ m.drive[ch].park)
  BY <1>1, <1>3 DEF ResetDrive, Drives
<1>5. DriveQuiet(n)
  BY <1>4 DEF DriveQuiet, Chs
<1>6. DrivesInv(n)
  BY <1>4 DEF DrivesInv, Coming, Chs
<1> QED BY <1>2, <1>4, <1>5, <1>6 DEF Coming

LEMMA NoCtxIs == NoCtx \in Contexts
<1>1. 0 \in 0..13
  OBVIOUS
<1> QED BY <1>1 DEF NoCtx, Contexts

LEMMA BulkResetKeeps == ASSUME Good(Now), BulkReset PROVE Good(Now')
<1> DEFINE m == Now
<1>1. /\ Phase(m) /\ m \in Machine /\ m.fw \in Firmwares /\ m.usb \in Controllers /\ DrivesInv(m) /\ SegInv(m)
  BY DEF Good, MachineInv, Machine
<1>2. /\ "BOT_RST" \in m.usb.ints /\ "BUS_RST" \notin m.usb.ints
      /\ \/ m.fw.at \in {"bot", "badcbw"} /\ Step(bot_bulk_reset(m))
         \/ m.fw.at = "hdd" /\ Step([m EXCEPT !.usb = [@ EXCEPT !.ints = m.usb.ints \ {"BOT_RST"}, !.halts = {}, !.csw = None]])
  BY NowIs DEF BulkReset
<1> HIDE DEF m
<1>3. HostIdle(m) /\ ~m.fw.new /\ ~m.drive[0].park /\ ~m.usb.avail /\ Asked(m)
  <2>1. Asked(m)
    BY <1>2 DEF Asked, Resets
  <2> QED BY <1>1, <2>1, AskedIs
<1>4. CASE m.fw.at \in {"bot", "badcbw"} /\ Step(bot_bulk_reset(m))
  <2> DEFINE u == [m.usb EXCEPT !.ints = m.usb.ints \ {"BOT_RST", "DIN_HALT", "DOUT_HALT", "TX_DONE", "RX_DONE"},
                                !.halts = {}, !.tx = None, !.rx = None, !.csw = None]
             e == Restarted(m.drive)
             f == [m.fw EXCEPT !.at = "bot", !.cur = FALSE, !.que = FALSE, !.post = "no", !.cbw = FALSE, !.wait = {}]
             n == [m EXCEPT !.ctx = NoCtx, !.fw = f, !.usb = u, !.drive = e, !.seg = rst_all_seg]
  <2>1. bot_bulk_reset(m) = n
    <3> DEFINE p == ClearPipes(m, {"BOT_RST", "DIN_HALT", "DOUT_HALT"} \cup TransferEnds)
               q == ResetActive(p)
               g == [q.fw EXCEPT !.at = "bot"]
               r == [q EXCEPT !.seg = rst_all_seg, !.fw = g, !.ctx = NoCtx]
               h == [r.fw EXCEPT !.cur = FALSE, !.que = FALSE, !.post = "no", !.cbw = FALSE, !.wait = {}]
    <3>1. p = [m EXCEPT !.usb = u]
      <4>1. m.usb.ints \ {"BOT_RST", "DIN_HALT", "DOUT_HALT", "TX_DONE", "RX_DONE"}
              = m.usb.ints \ ({"BOT_RST", "DIN_HALT", "DOUT_HALT"} \cup {"TX_DONE", "RX_DONE"})
        OBVIOUS
      <4> QED BY <4>1 DEF ClearPipes, TransferEnds
    <3> HIDE DEF u, p
    <3>2. p.drive = m.drive /\ p.fw = m.fw
      BY <1>1, <3>1 DEF Machine
    <3>3. q = [p EXCEPT !.drive = e]
      <4>1. q = [p EXCEPT !.drive = Restarted(p.drive)]
        BY DEF ResetActive, Restarted
      <4> HIDE DEF e, q
      <4> QED BY <3>2, <4>1 DEF e
    <3> HIDE DEF q, e
    <3>4. q.fw = m.fw
      BY <1>1, <3>1, <3>3 DEF Machine
    <3>5. bot_bulk_reset(m) = [r EXCEPT !.fw = h]
      BY DEF bot_bulk_reset, bot_init, p, q
    <3>6. h = f
      <4>1. r.fw = g
        BY <1>1, <3>1, <3>3 DEF Machine
      <4>2. g = [m.fw EXCEPT !.at = "bot"]
        BY <3>4
      <4> HIDE DEF r, g
      <4>3. h = [g EXCEPT !.cur = FALSE, !.que = FALSE, !.post = "no", !.cbw = FALSE, !.wait = {}]
        BY <4>1
      <4> QED BY <1>1, <4>2, <4>3 DEF Firmwares
    <3> HIDE DEF h, f, g
    <3>7. [r EXCEPT !.fw = h] = n
      BY <1>1, <3>1, <3>3, <3>6 DEF Machine
    <3> QED BY <3>5, <3>7
  <2>2. /\ u \in Controllers /\ u.avail = m.usb.avail /\ u.halts = {} /\ u.tx = None /\ u.rx = None /\ u.csw = None
        /\ u.ints = m.usb.ints \ {"BOT_RST", "DIN_HALT", "DOUT_HALT", "TX_DONE", "RX_DONE"}
    BY <1>1 DEF Controllers
  <2>3. /\ f \in Firmwares /\ f.at = "bot" /\ f.new = m.fw.new /\ ~f.que /\ ~f.cur /\ f.post = "no"
        /\ f.timer = m.fw.timer /\ f.asleep = m.fw.asleep
    BY <1>1 DEF Firmwares
  <2>4. e = Restarted(m.drive) /\ e \in [Chs -> Drives]
    <3>1. ResetDrive \in Drives
      BY DEF ResetDrive, Drives
    <3> QED BY <1>1, <3>1 DEF Restarted, Machine
  <2> HIDE DEF u, f, e
  <2>5. /\ n \in Machine /\ n.host = m.host /\ n.ctx = NoCtx /\ n.fw = f /\ n.usb = u /\ n.drive = e /\ n.seg = rst_all_seg
    <3>1. rst_all_seg \in Segments
      BY FreshSegs
    <3> QED BY <1>1, <2>2, <2>3, <2>4, <3>1, NoCtxIs DEF Machine
  <2> HIDE DEF n
  <2>6. /\ DrivesInv(n) /\ DriveQuiet(n)
    <3>1. m.fw.timer > 0 => \E ch \in Chs : Coming(m.drive[ch])
      BY <1>1 DEF DrivesInv
    <3>2. n.drive = Restarted(m.drive) /\ n.fw.timer = m.fw.timer /\ n.fw.asleep = m.fw.asleep
      BY <2>3, <2>4, <2>5
    <3>3. n.fw.timer > 0 => \E ch \in Chs : Coming(n.drive[ch])
      BY <3>1, <3>2 DEF Restarted, Coming
    <3> QED BY <1>1, <1>3, <3>2, <3>3, RestartedIs
  <2>7. SegInv(n)
    BY <2>5, FreshSegs, SegInvIs
  <2>8. Between(n)
    <3>1. QuietPipe(n) /\ Arrival(n) /\ n.ctx = NoCtx
      BY <1>3, <2>2, <2>5 DEF QuietPipe, Arrival, HostIdle
    <3>2. LastEnds(n) \/ LastEnded(n)
      <4>1. CASE "CSW_DONE" \in n.usb.ints
        BY <1>3, <2>2, <2>3, <2>5, <4>1 DEF LastEnds
      <4>2. CASE "CSW_DONE" \notin n.usb.ints
        <5>1. m.usb.ints \subseteq {"TX_DONE", "RX_DONE", "DIN_HALT", "DOUT_HALT", "CSW_DONE", "BOT_RST", "BUS_RST"}
          BY <1>1 DEF Controllers
        <5>2. Ints(n) = {}
          BY <2>2, <2>5, <4>2, <5>1 DEF Ints, Resets
        <5> QED BY <2>3, <2>5, <5>2 DEF LastEnded
      <4> QED BY <4>1, <4>2
    <3> QED BY <1>3, <2>3, <2>5, <2>6, <3>1, <3>2 DEF Between
  <2>9. Step(n)
    BY <1>4, <2>1
  <2> QED BY <2>5, <2>6, <2>7, <2>8, <2>9, BecomeIs DEF Step, Good, MachineInv, Phase
<1>5. CASE m.fw.at = "hdd" /\ Step([m EXCEPT !.usb = [@ EXCEPT !.ints = m.usb.ints \ {"BOT_RST"}, !.halts = {}, !.csw = None]])
  <2> DEFINE u == [m.usb EXCEPT !.ints = m.usb.ints \ {"BOT_RST"}, !.halts = {}, !.csw = None]
             n == [m EXCEPT !.usb = u]
  <2>1. Step(n)
    BY <1>5
  <2>2. /\ u \in Controllers /\ u.avail = m.usb.avail /\ u.halts = {} /\ u.tx = m.usb.tx /\ u.rx = m.usb.rx /\ u.csw = None
        /\ u.ints = m.usb.ints \ {"BOT_RST"}
    BY <1>1 DEF Controllers
  <2> HIDE DEF u
  <2>3. /\ n \in Machine /\ n.host = m.host /\ n.ctx = m.ctx /\ n.fw = m.fw /\ n.usb = u /\ n.drive = m.drive /\ n.seg = m.seg
    BY <1>1, <2>2 DEF Machine
  <2> HIDE DEF n
  <2>4. Resting(m)
    BY <1>1, <1>5 DEF Phase, Off, Between, Invalid, Waiting, Executing, Told
  <2>5. DrivesInv(n)
    BY <1>1, <2>3, DrivesFrame
  <2>6. SegInv(n)
    <3>1. Holds(n) = Holds(m)
      BY <2>3 DEF Holds, Held
    <3> QED BY <1>1, <2>3, <3>1, SegFrame
  <2>7. Ints(n) = Ints(m)
    BY <2>2, <2>3 DEF Ints, Resets
  <2>8. Resting(n)
    BY <1>3, <2>2, <2>3, <2>4, <2>7 DEF Resting, QuietPipe, DriveQuiet, Arrival, HostIdle
  <2> QED BY <2>1, <2>3, <2>5, <2>6, <2>8, BecomeIs DEF Step, Good, MachineInv, Phase
<1> QED BY <1>2, <1>4, <1>5

LEMMA BusResetKeeps == ASSUME Good(Now), BusReset PROVE Good(Now')
<1> DEFINE m == Now
           u == [m.usb EXCEPT !.ints = m.usb.ints \ BusResetClears, !.avail = FALSE, !.halts = {}, !.tx = None, !.rx = None, !.csw = None]
           e == Restarted(m.drive)
           g == IF m.fw.at # "hdd" /\ Working(m) THEN rst_all_seg ELSE m.seg
           coming == \E ch \in Chs : e[ch].st \in {"reset", "phy"}
           f == [m.fw EXCEPT !.at = "hdd", !.timer = IF coming \/ m.fw.timer > 0 THEN Spinup ELSE m.fw.timer]
           n == [m EXCEPT !.ctx = NoCtx, !.fw = f, !.usb = u, !.drive = e, !.seg = g]
<1>1. /\ Phase(m) /\ m \in Machine /\ m.fw \in Firmwares /\ m.usb \in Controllers /\ m.seg \in Segments
      /\ DrivesInv(m) /\ SegInv(m)
  BY DEF Good, MachineInv, Machine
<1>2. "BUS_RST" \in m.usb.ints /\ Step(usb_host_rst(m))
  BY NowIs DEF BusReset
<1> HIDE DEF m
<1>3. HostIdle(m) /\ ~m.fw.new /\ ~m.drive[0].park /\ m.fw.at # "off"
  <2>1. Asked(m)
    BY <1>2 DEF Asked, Resets
  <2> QED BY <1>1, <2>1, AskedIs
<1>4. usb_host_rst(m) = n
  <2> DEFINE v == [m.usb EXCEPT !.ints = m.usb.ints \ BusResetClears,
                                !.halts = {}, !.tx = None, !.rx = None, !.csw = None]
             p == [m EXCEPT !.usb = v]
             q == [p EXCEPT !.usb.avail = FALSE, !.ctx = NoCtx,
                            !.seg = IF m.fw.at # "hdd" /\ Working(m) THEN rst_all_seg ELSE @]
             r == [m EXCEPT !.usb = u, !.ctx = NoCtx, !.seg = g]
             s == ResetActive(q)
             c == \E ch \in Chs : s.drive[ch].st \in {"reset", "phy"}
             h == [s.fw EXCEPT !.at = "hdd", !.timer = IF c \/ @ > 0 THEN Spinup ELSE @]
  <2>1. q = r
    <3>1. [v EXCEPT !.avail = FALSE] = u
      BY <1>1 DEF Controllers
    <3>2. q = [m EXCEPT !.usb = [v EXCEPT !.avail = FALSE], !.ctx = NoCtx, !.seg = g]
      <4> HIDE DEF v
      <4> QED BY <1>1 DEF Machine
    <3> HIDE DEF q, u, v, g
    <3> QED BY <3>1, <3>2
  <2>2. usb_host_rst(m) = [s EXCEPT !.fw.at = "hdd", !.fw.timer = IF c \/ @ > 0 THEN Spinup ELSE @]
    BY DEF usb_host_rst, ClearPipes
  <2> HIDE DEF q, u, g
  <2>3. r.drive = m.drive /\ r.fw = m.fw
    BY <1>1 DEF Machine
  <2>4. s = [r EXCEPT !.drive = e]
    <3>1. s = [q EXCEPT !.drive = Restarted(q.drive)]
      BY DEF ResetActive, Restarted
    <3> HIDE DEF r, s, e
    <3> QED BY <2>1, <2>3, <3>1 DEF e
  <2> HIDE DEF s, e
  <2>5. s.fw = m.fw /\ s.drive = e
    BY <1>1, <2>4 DEF Machine
  <2>6. c <=> coming
    BY <2>5
  <2>7. [s EXCEPT !.fw.at = "hdd", !.fw.timer = IF c \/ @ > 0 THEN Spinup ELSE @] = [s EXCEPT !.fw = h]
    BY <1>1, <2>5 DEF Firmwares
  <2>8. h = f
    <3> HIDE DEF c, coming
    <3> QED BY <1>1, <2>5, <2>6
  <2> HIDE DEF h, f, c, coming
  <2>9. [s EXCEPT !.fw = h] = n
    BY <1>1, <2>4, <2>8 DEF Machine
  <2> QED BY <2>2, <2>7, <2>9
<1>5. /\ u \in Controllers /\ ~u.avail /\ u.halts = {} /\ u.tx = None /\ u.rx = None /\ u.csw = None
      /\ u.ints \subseteq {"CSW_DONE"}
  BY <1>1 DEF Controllers, BusResetClears
<1>6. /\ f \in Firmwares /\ f.at = "hdd" /\ f.new = m.fw.new /\ f.asleep = m.fw.asleep
      /\ f.timer = IF coming \/ m.fw.timer > 0 THEN Spinup ELSE m.fw.timer
  <2>1. Spinup \in 0..Spinup
    BY BotAssumption
  <2> HIDE DEF coming
  <2> QED BY <1>1, <2>1 DEF Firmwares
<1>7. e = Restarted(m.drive) /\ e \in [Chs -> Drives]
  <2>1. ResetDrive \in Drives
    BY DEF ResetDrive, Drives
  <2> QED BY <1>1, <2>1 DEF Restarted, Machine
<1>8. g \in Segments
  BY <1>1, FreshSegs
<1>9. coming => \E ch \in Chs : Coming(e[ch])
  BY DEF Coming
<1> HIDE DEF u, f, e, coming
<1>10. /\ n \in Machine /\ n.host = m.host /\ n.ctx = NoCtx /\ n.fw = f /\ n.usb = u /\ n.drive = e /\ n.seg = g
  <2> HIDE DEF g
  <2> QED BY <1>1, <1>5, <1>6, <1>7, <1>8, NoCtxIs DEF Machine
<1> HIDE DEF n
<1>11. n.drive = Restarted(m.drive) /\ n.fw.asleep = m.fw.asleep
  BY <1>6, <1>7, <1>10
<1>12. n.fw.timer > 0 => \E ch \in Chs : Coming(n.drive[ch])
  <2>1. m.fw.timer > 0 => \E ch \in Chs : Coming(m.drive[ch])
    BY <1>1 DEF DrivesInv
  <2>2. \A ch \in Chs : Coming(m.drive[ch]) => Coming(n.drive[ch])
    BY <1>11 DEF Restarted, Coming
  <2> QED BY <1>6, <1>9, <1>10, <2>1, <2>2
<1>13. /\ DrivesInv(n) /\ DriveQuiet(n) /\ \A ch \in Chs : m.drive[ch].st = "id" => n.drive[ch].st = "id"
  BY <1>1, <1>3, <1>11, <1>12, RestartedIs
<1>14. SegInv(n)
  <2>1. Holds(n) = NoSeg
    BY <1>6, <1>10 DEF Holds, Held
  <2>2. CASE m.fw.at # "hdd" /\ Working(m)
    BY <1>10, <2>1, <2>2, FreshSegs, SegInvIs
  <2>3. CASE ~(m.fw.at # "hdd" /\ Working(m))
    <3>1. Holds(m) = NoSeg /\ m.drive[0].st # "active"
      BY <1>1, <2>3, IdleSegs
    <3>2. Owned(m.seg, NoSeg, m.drive)
      BY <1>1, <3>1, SegInvIs
    <3>3. Owned(m.seg, NoSeg, n.drive)
      BY <1>13, <3>1, <3>2, OwnedFrame
    <3> QED BY <1>10, <2>1, <2>3, <3>3, SegInvIs
  <2> QED BY <2>2, <2>3
<1>15. Resting(n)
  <2>1. Ints(n) \in {{}, {"CSW_DONE"}} /\ n.usb.ints \cap Resets = {}
    BY <1>5, <1>10 DEF Ints, Resets
  <2> QED BY <1>3, <1>5, <1>6, <1>10, <1>13, <2>1 DEF Resting, QuietPipe, Arrival, HostIdle
<1> QED BY <1>2, <1>4, <1>10, <1>13, <1>14, <1>15, BecomeIs DEF Step, Good, MachineInv, Phase

(***************************************************************************)
(* The start-up timer.                                                     *)
(***************************************************************************)
Late(m, ch) == IF Up(m.drive[ch]) THEN m ELSE sata_timeout_reset(m, ch)

LEMMA LateIs ==
  ASSUME NEW m \in Machine, NEW ch \in Chs, NEW i, Owned(m.seg, i, m.drive), NEW n, n = Late(m, ch)
  PROVE /\ n \in Machine /\ n.host = m.host /\ n.ctx = m.ctx /\ n.fw = m.fw /\ n.usb = m.usb
        /\ \A c \in Chs : n.drive[c] = IF c = ch /\ ~Up(m.drive[ch]) THEN ResetDrive ELSE m.drive[c]
        /\ Owned(n.seg, i, n.drive)
<1>1. CASE Up(m.drive[ch])
  <2>1. n = m
    BY <1>1 DEF Late
  <2> QED BY <1>1, <2>1
<1>2. CASE ~Up(m.drive[ch])
  <2> DEFINE e == [m.drive EXCEPT ![ch] = ResetDrive]
             g == IF m.drive[ch].st = "id" THEN free_dbufConnection(m.seg, ReadID(ch)) ELSE m.seg
  <2>1. n = [m EXCEPT !.drive = e, !.seg = g]
    <3>1. n = [m EXCEPT !.drive[ch] = ResetDrive,
                        !.seg = IF m.drive[ch].st = "id" THEN free_dbufConnection(@, ReadID(ch)) ELSE @]
      BY <1>2 DEF Late, sata_timeout_reset
    <3> QED BY <3>1 DEF Machine
  <2>2. m.drive \in [Chs -> Drives] /\ m.seg \in Segments
    BY DEF Machine
  <2>3. e \in [Chs -> Drives] /\ \A c \in Chs : e[c] = IF c = ch THEN ResetDrive ELSE m.drive[c]
    <3>1. ResetDrive \in Drives
      BY DEF ResetDrive, Drives
    <3> QED BY <2>2, <3>1
  <2> HIDE DEF e
  <2>4. m.drive[0].st = "active" => e[0].st = "active"
    BY <1>2, <2>3 DEF Up, Chs
  <2>5. g \in Segments /\ Owned(g, i, e)
    <3>1. CASE m.drive[ch].st = "id"
      <4> DEFINE d == free_dbufConnection(m.seg, ReadID(ch))
      <4>1. d = [s \in Segs |-> d[s]] /\ Frees(m.seg, d)
        BY <2>2, IdFreed
      <4> HIDE DEF d
      <4>2. d \in Segments /\ Owned(d, i, e)
        BY <2>2, <2>4, <4>1, FreesOwned
      <4> QED BY <3>1, <4>2 DEF d
    <3>2. CASE m.drive[ch].st # "id"
      <4>1. \A c \in Chs : m.drive[c].st = "id" => e[c].st = "id"
        BY <2>3, <3>2
      <4>2. Owned(m.seg, i, e)
        BY <2>4, <4>1, OwnedFrame
      <4> QED BY <2>2, <3>2, <4>2
    <3> QED BY <3>1, <3>2
  <2> HIDE DEF g
  <2>6. /\ n \in Machine /\ n.host = m.host /\ n.ctx = m.ctx /\ n.fw = m.fw /\ n.usb = m.usb
        /\ n.drive = e /\ n.seg = g
    BY <2>1, <2>3, <2>5 DEF Machine
  <2> QED BY <1>2, <2>3, <2>5, <2>6
<1> QED BY <1>1, <1>2

LEMMA FisTimerGood ==
  ASSUME NEW m, Good(m), m.fw.timer > 0
  PROVE Good(FisTimer(m))
<1> DEFINE p == Late(m, 0)
           q == Late(p, 1)
           f == IF m.fw.timer = 1 THEN [q.fw EXCEPT !.timer = Spinup, !.rsp = TRUE] ELSE [q.fw EXCEPT !.timer = m.fw.timer - 1]
           n == [q EXCEPT !.fw = f]
<1>1. /\ Phase(m) /\ m \in Machine /\ m.fw \in Firmwares /\ m.fw.timer \in 0..Spinup /\ Spinup \in Nat /\ Spinup > 0
      /\ DrivesInv(m) /\ SegInv(m) /\ m.drive \in [Chs -> Drives]
  BY BotAssumption DEF Good, MachineInv, Machine, Firmwares
<1>2. ~AllUp(m) /\ (\E ch \in Chs : Coming(m.drive[ch])) /\ ~m.drive[0].park /\ ~m.drive[1].park
      /\ \A ch \in Chs : m.drive[ch].st # "down"
  <2>1. \E ch \in Chs : Coming(m.drive[ch])
    BY <1>1 DEF DrivesInv
  <2>2. ~AllUp(m)
    BY <2>1 DEF AllUp, Up, Coming
  <2>3. \A ch \in Chs : m.drive[ch].st # "down"
    BY <1>1, <2>1 DEF DrivesInv, Coming
  <2>4. ~m.drive[0].park /\ ~m.drive[1].park
    BY <1>1 DEF DrivesInv
  <2> QED BY <2>1, <2>2, <2>3, <2>4
<1>3. Owned(m.seg, Holds(m), m.drive)
  BY <1>1, SegInvIs
<1>4. /\ p \in Machine /\ p.host = m.host /\ p.ctx = m.ctx /\ p.fw = m.fw /\ p.usb = m.usb
      /\ \A c \in Chs : p.drive[c] = IF c = 0 /\ ~Up(m.drive[0]) THEN ResetDrive ELSE m.drive[c]
      /\ Owned(p.seg, Holds(m), p.drive)
  <2>1. 0 \in Chs
    BY DEF Chs
  <2> HIDE DEF p
  <2>2. p = Late(m, 0)
    BY DEF p
  <2> QED BY <1>1, <1>3, <2>1, <2>2, LateIs
<1>5. FisTimer(m) = n
  <2>1. FisTimer(m) = IF m.fw.timer = 1 THEN [q EXCEPT !.fw.timer = Spinup, !.fw.rsp = TRUE]
                      ELSE [q EXCEPT !.fw.timer = @ - 1]
    BY <1>2 DEF FisTimer, Late
  <2>2. q.fw = m.fw
    <3>1. q = p \/ q = sata_timeout_reset(p, 1)
      BY DEF Late
    <3> HIDE DEF p, q
    <3> QED BY <1>4, <3>1 DEF sata_timeout_reset, Machine
  <2> HIDE DEF p, q
  <2> QED BY <2>1, <2>2
<1>6. /\ q \in Machine /\ q.host = m.host /\ q.ctx = m.ctx /\ q.fw = m.fw /\ q.usb = m.usb
      /\ \A c \in Chs : q.drive[c] = IF ~Up(m.drive[c]) THEN ResetDrive ELSE m.drive[c]
      /\ Owned(q.seg, Holds(m), q.drive)
  <2>1. 1 \in Chs
    BY DEF Chs
  <2> HIDE DEF p, q
  <2>2. q = Late(p, 1)
    BY DEF q
  <2>3. /\ q \in Machine /\ q.host = p.host /\ q.ctx = p.ctx /\ q.fw = p.fw /\ q.usb = p.usb
        /\ \A c \in Chs : q.drive[c] = IF c = 1 /\ ~Up(p.drive[1]) THEN ResetDrive ELSE p.drive[c]
        /\ Owned(q.seg, Holds(m), q.drive)
    BY <1>4, <2>1, <2>2, LateIs
  <2> QED BY <1>4, <2>3 DEF Chs
<1> HIDE DEF p, q
<1>7. /\ f \in Firmwares /\ f.at = m.fw.at /\ f.new = m.fw.new /\ f.que = m.fw.que /\ f.cur = m.fw.cur /\ f.cbw = m.fw.cbw
      /\ f.wait = m.fw.wait /\ f.post = m.fw.post /\ f.asleep = m.fw.asleep
  <2>1. CASE m.fw.timer = 1
    <3>1. Spinup \in 0..Spinup
      BY <1>1
    <3> QED BY <1>1, <1>6, <2>1, <3>1 DEF Firmwares
  <2>2. CASE m.fw.timer # 1
    <3>1. m.fw.timer - 1 \in 0..Spinup
      BY <1>1
    <3> QED BY <1>1, <1>6, <2>2, <3>1 DEF Firmwares
  <2> QED BY <2>1, <2>2
<1> HIDE DEF f
<1>8. n = [q EXCEPT !.fw = f]
  OBVIOUS
<1> HIDE DEF n
<1>9. /\ n \in Machine /\ n.host = m.host /\ n.fw = f /\ n.usb = m.usb /\ n.drive = q.drive /\ n.seg = q.seg /\ n.ctx = m.ctx
  BY <1>6, <1>7, <1>8, FwSet
<1>10. SameFw(m, n)
  BY <1>7, <1>9 DEF SameFw
<1>11. Onward(m.drive, n.drive) /\ ~n.drive[0].park
  <2>1. \A c \in Chs : n.drive[c] = m.drive[c] \/ (n.drive[c] = ResetDrive /\ ~Up(m.drive[c]))
    BY <1>6, <1>9
  <2>2. \A c \in Chs : ~Up(m.drive[c]) => Coming(m.drive[c])
    BY <1>1, <1>2 DEF Up, Coming, Drives
  <2>3. Coming(ResetDrive) /\ ~ResetDrive.init /\ ~ResetDrive.park
    BY DEF Coming, ResetDrive
  <2>4. \A c \in Chs : ~m.drive[c].park
    BY <1>2 DEF Chs
  <2>5. 0 \in Chs
    BY DEF Chs
  <2>6. ~n.drive[0].park
    BY <2>1, <2>3, <2>4, <2>5
  <2> QED BY <2>1, <2>2, <2>3, <2>4, <2>6 DEF Onward
<1>12. \E ch \in Chs : Coming(n.drive[ch])
  <2>1. PICK ch \in Chs : Coming(m.drive[ch])
    BY <1>2
  <2>2. n.drive[ch] = ResetDrive
    BY <1>6, <1>9, <2>1 DEF Up, Coming
  <2> QED BY <2>1, <2>2 DEF Coming, ResetDrive
<1>13. DrivesInv(n)
  BY <1>1, <1>2, <1>10, <1>11, <1>12, OnwardDrives
<1>14. Phase(n)
  BY <1>1, <1>2, <1>9, <1>10, <1>11, OnwardPhase
<1>15. SegInv(n)
  <2>1. Holds(n) = Holds(m)
    BY <1>7, <1>9 DEF Holds, Held
  <2> QED BY <1>6, <1>9, <2>1, SegInvIs
<1> QED BY <1>5, <1>9, <1>13, <1>14, <1>15 DEF Good, MachineInv

LEMMA FisTimerKeeps == ASSUME Good(Now), FisTimerEarly \/ FisTimerDue PROVE Good(Now')
<1>1. Now.fw.timer > 0 /\ Become(FisTimer(Now))
  BY NowIs DEF FisTimerEarly, FisTimerDue, Step
<1>2. Good(FisTimer(Now))
  BY <1>1, FisTimerGood
<1>3. Now' = FisTimer(Now)
  BY <1>1, <1>2, BecomeIs DEF Good
<1> QED BY <1>2, <1>3

(***************************************************************************)
(* The end of a command on the drive.                                      *)
(***************************************************************************)
\* Only a READ joins TX 1 to the drive.
LEMMA OwnedIdle ==
  ASSUME NEW d, NEW i \in {NoSeg, U2BR, U2BW, WriteSeg}, NEW dr, NEW er, Owned(d, i, dr),
         \A ch \in Chs : dr[ch].st = "id" => er[ch].st = "id"
  PROVE Owned(d, i, er)
<1>1. <<"tx", 1>> \in Segs /\ <<"tx", 1>> # <<"tx", 4>>
  BY DEF Segs
<1>2. i # NoSeg => i \in CtxSegs /\ i # ReadSeg
  <2>1. \A x \in {U2BR, U2BW, WriteSeg} : x # ReadSeg
    BY DEF U2BR, U2BW, WriteSeg, ReadSeg, NoSeg
  <2> QED BY <2>1 DEF CtxSegs
<1>3. ~Serving(d[<<"tx", 1>>], i, <<"tx", 1>>)
  BY <1>1, <1>2, CtxRoute DEF Serving
<1>4. ~Identifying(d[<<"tx", 1>>], <<"tx", 1>>, dr)
  BY <1>1 DEF Identifying
<1>5. d[<<"tx", 1>>].in # "SATA0"
  BY <1>1, <1>3, <1>4 DEF Owned, OwnedSeg, None
<1>6. \A s \in Segs : OwnedSeg(d[s], i, s, er)
  BY DEF Owned, OwnedSeg, Identifying
<1> QED BY <1>5, <1>6 DEF Owned

LEMMA ResultIs ==
  ASSUME NEW m \in Machine, DrivesInv(m), m.drive[0].st = "active", NEW n, n = Result(m)
  PROVE /\ n \in Machine /\ n.host = m.host /\ n.fw = m.fw /\ n.usb = m.usb /\ n.seg = m.seg /\ DrivesInv(n)
        /\ n.ctx \in Contexts /\ n.ctx.cmd = m.ctx.cmd /\ n.ctx.dir = m.ctx.dir /\ n.ctx.seg = m.ctx.seg
        /\ n.ctx.flag = m.ctx.flag /\ n.ctx.nodata = m.ctx.nodata /\ n.ctx.state = m.ctx.state /\ ~n.ctx.ccm
        /\ n.ctx.phase = m.ctx.phase
        /\ n.ctx.status = IF m.drive[0].end = "ok" THEN "GOOD" ELSE "ERROR"
        /\ n.drive[0].st = "ready" /\ ~n.drive[0].park /\ DriveQuiet(n)
        /\ \A ch \in Chs : m.drive[ch].st = "id" => n.drive[ch].st = "id"
<1> DEFINE s == IF m.drive[0].end = "ok" THEN "GOOD" ELSE "ERROR"
           c == [m.ctx EXCEPT !.status = s, !.ccm = FALSE]
           x == [m.drive[0] EXCEPT !.st = "ready", !.end = "no", !.tcnt = 0]
           e == [m.drive EXCEPT ![0] = x]
<1>1. m.ctx \in Contexts /\ m.drive \in [Chs -> Drives] /\ m.drive[0] \in Drives
  BY DEF Machine, Chs
<1>2. n = [m EXCEPT !.ctx = c, !.drive = e]
  BY <1>1 DEF Result, Machine
<1>3. s \in {"GOOD", "ERROR"}
  OBVIOUS
<1> HIDE DEF s
<1>4. /\ c \in Contexts /\ c.cmd = m.ctx.cmd /\ c.dir = m.ctx.dir /\ c.seg = m.ctx.seg /\ c.flag = m.ctx.flag
      /\ c.nodata = m.ctx.nodata /\ c.state = m.ctx.state /\ ~c.ccm /\ c.status = s /\ c.phase = m.ctx.phase
  BY <1>1, <1>3 DEF Contexts, Final
<1>5. x \in Drives /\ x.st = "ready" /\ x.init = m.drive[0].init /\ x.park = m.drive[0].park
  BY <1>1 DEF Drives
<1> HIDE DEF c, x
<1>6. e \in [Chs -> Drives] /\ e[0] = x /\ e[1] = m.drive[1]
  BY <1>1, <1>5 DEF Chs
<1> HIDE DEF e
<1>7. /\ n \in Machine /\ n.host = m.host /\ n.fw = m.fw /\ n.usb = m.usb /\ n.seg = m.seg /\ n.ctx = c /\ n.drive = e
  BY <1>2, <1>4, <1>6 DEF Machine
<1>8. ~m.drive[0].park
  BY DEF DrivesInv, Coming
<1>9. DrivesInv(n)
  BY <1>5, <1>6, <1>7, <1>8 DEF DrivesInv, Coming, Chs
<1>10. \A ch \in Chs : m.drive[ch].st = "id" => n.drive[ch].st = "id"
  BY <1>6, <1>7 DEF Chs
<1> QED BY <1>4, <1>5, <1>6, <1>7, <1>8, <1>9, <1>10 DEF DriveQuiet, s

LEMMA NoDataEnds ==
  ASSUME NEW m, Good(m), m.drive[0].st = "active", m.drive[0].end # "no", DriveOnly(m), Executing(m)
  PROVE Good(ProcessDMAStatusFis(m))
<1> DEFINE n == Result(m)
<1>1. m \in Machine /\ DrivesInv(m) /\ SegInv(m)
  BY DEF Good, MachineInv
<1> HIDE DEF n
<1>2. /\ n \in Machine /\ n.host = m.host /\ n.fw = m.fw /\ n.usb = m.usb /\ n.seg = m.seg /\ DrivesInv(n)
      /\ n.ctx \in Contexts /\ n.ctx.cmd = m.ctx.cmd /\ n.ctx.dir = m.ctx.dir /\ ~n.ctx.ccm /\ n.ctx.state = m.ctx.state
      /\ n.ctx.status = (IF m.drive[0].end = "ok" THEN "GOOD" ELSE "ERROR") /\ DriveQuiet(n)
      /\ \A ch \in Chs : m.drive[ch].st = "id" => n.drive[ch].st = "id"
  BY <1>1, ResultIs DEF n
<1>3. SegInv(n)
  <2>1. Holds(m) = NoSeg /\ Holds(n) = NoSeg
    BY <1>2 DEF DriveOnly, Holds, Held
  <2>2. Owned(m.seg, NoSeg, n.drive)
    BY <1>1, <1>2, <2>1, SegInvIs, OwnedIdle
  <2> QED BY <1>2, <2>1, <2>2, SegInvIs
<1>4. /\ m.ctx.cmd \in Commands /\ m.ctx.cmd.dev = 0 /\ m.ctx.cmd.len \in Nat
      /\ (Busy(m) => m.host.cmd = m.ctx.cmd /\ m.host.moved = 0 /\ ~m.host.stalled /\ (m.host.done <=> m.host.cmd.len = 0))
      /\ (Busy(m) /\ m.host.failed => m.drive[0].end = "err")
  BY CommandIs DEF Executing, HostSide, HostIdle, Busy, DriveOnly
<1>5. HostSide(n) /\ (Busy(n) <=> Busy(m)) /\ Ints(n) = Ints(m) /\ QuietPipe(n)
  BY <1>2 DEF Executing, DriveOnly, HostSide, HostIdle, Asked, Busy, Ints, QuietPipe
<1>6. Ready(n)
  BY <1>2, <1>3, <1>4, <1>5 DEF Ready, Executing, DriveOnly
<1>7. Busy(n) => Wire!Truthful(n.host, n.ctx.status)
  <2> SUFFICES ASSUME Busy(m) PROVE Wire!Truthful(m.host, n.ctx.status)
    BY <1>2, <1>5
  <2>1. n.ctx.status \in {"GOOD", "ERROR"} /\ (n.ctx.status = "GOOD" => ~m.host.failed)
    BY <1>2, <1>4
  <2>2. Case(m.ctx.cmd) \in {1, 4, 9}
    BY <1>4, CaseIs
  <2> QED BY <1>4, <2>1, <2>2, MovedIs
<1>8. n.ctx.dir = n.ctx.cmd.dir \/ n.ctx.cmd.len = 0
  BY <1>2 DEF DriveOnly
<1>9. n.ctx.status \in Final
  BY <1>2 DEF Final
<1>10. Good(usb_device_no_data(n))
  BY <1>6, <1>7, <1>8, <1>9, AnswerGood
<1> QED BY <1>10 DEF ProcessDMAStatusFis, n

LEMMA ReadEnds ==
  ASSUME NEW m, Good(m), m.drive[0].st = "active", m.drive[0].end # "no", ReadData(m), Executing(m)
  PROVE Good(ProcessDMADATARXDONE(m))
<1>1. CASE m.ctx.status # "XFER_DONE"
  BY <1>1 DEF ProcessDMADATARXDONE
<1>2. CASE m.ctx.status = "XFER_DONE"
  <2> DEFINE p == Result(m)
             g == free_SourcedbufConnection(m.seg, ReadSeg)
             n == [p EXCEPT !.seg = g]
  <2>1. m \in Machine /\ DrivesInv(m) /\ SegInv(m) /\ m.seg \in Segments
    BY DEF Good, MachineInv, Machine
  <2> HIDE DEF p
  <2>2. /\ p \in Machine /\ p.host = m.host /\ p.fw = m.fw /\ p.usb = m.usb /\ p.seg = m.seg /\ DrivesInv(p)
        /\ p.ctx \in Contexts /\ p.ctx.cmd = m.ctx.cmd /\ p.ctx.dir = m.ctx.dir /\ p.ctx.seg = m.ctx.seg
        /\ p.ctx.flag = m.ctx.flag /\ p.ctx.nodata = m.ctx.nodata /\ p.ctx.state = m.ctx.state /\ ~p.ctx.ccm
        /\ p.ctx.status = (IF m.drive[0].end = "ok" THEN "GOOD" ELSE "ERROR")
        /\ p.drive[0].st = "ready" /\ ~p.drive[0].park
        /\ \A ch \in Chs : m.drive[ch].st = "id" => p.drive[ch].st = "id"
    BY <2>1, ResultIs DEF p
  <2>3. m.ctx.seg = ReadSeg /\ ReadTaken(m) /\ Held(m) /\ ReadSeg # NoSeg
    BY <1>2 DEF ReadData, ReadSends, Executing, Held, ReadSeg, NoSeg, None
  <2>4. ProcessDMADATARXDONE(m) = n
    <3>1. ProcessDMADATARXDONE(m) = [p EXCEPT !.seg = free_SourcedbufConnection(p.seg, m.ctx.seg)]
      BY <1>2 DEF ProcessDMADATARXDONE, p
    <3> QED BY <2>2, <2>3, <3>1
  <2>5. g \in Segments /\ Owned(g, ReadSeg, p.drive)
    <3>1. Owned(m.seg, ReadSeg, m.drive)
      BY <2>1, <2>3, SegInvIs DEF Holds
    <3> QED BY <2>1, <2>2, <3>1, LastDataOwned
  <2> HIDE DEF g
  <2>6. /\ n \in Machine /\ n.host = m.host /\ n.fw = m.fw /\ n.usb = m.usb /\ n.ctx = p.ctx /\ n.drive = p.drive /\ n.seg = g
    BY <2>2, <2>5 DEF Machine
  <2> HIDE DEF n
  <2>7. DrivesInv(n)
    BY <2>2, <2>6, DrivesFrame
  <2>8. SegInv(n)
    <3>1. Holds(n) = ReadSeg
      BY <2>2, <2>3, <2>6 DEF Holds, Held
    <3> QED BY <2>5, <2>6, <3>1, SegInvIs
  <2>9. ReadTaken(n)
    BY <1>2, <2>2, <2>3, <2>6 DEF ReadData, ReadTaken, ReadHost, StallIn, Busy, Ints
  <2>10. ReadData(n)
    BY <2>2, <2>6, <2>9 DEF ReadData
  <2>11. Executing(n)
    BY <2>2, <2>6, <2>10 DEF Executing, HostSide, HostIdle, Asked, Busy
  <2> QED BY <2>4, <2>6, <2>7, <2>8, <2>11 DEF Good, MachineInv, Phase
<1> QED BY <1>1, <1>2

\* The stall of a pipe the host writes to.
LEMMA StallOutIs ==
  ASSUME NEW m \in Machine, NEW n, n = StallOut(m)
  PROVE /\ n \in Machine /\ n.host = m.host /\ n.fw = m.fw /\ n.drive = m.drive /\ n.seg = m.seg
        /\ n.usb.avail = m.usb.avail /\ n.usb.ints = m.usb.ints /\ n.usb.halts = m.usb.halts \cup {"out"}
        /\ n.usb.tx = m.usb.tx /\ n.usb.rx = m.usb.rx /\ n.usb.csw = m.usb.csw
        /\ n.ctx.status = "HALT" /\ n.ctx.cmd = m.ctx.cmd /\ n.ctx.dir = m.ctx.dir /\ n.ctx.seg = m.ctx.seg
        /\ n.ctx.flag = m.ctx.flag /\ n.ctx.nodata = m.ctx.nodata /\ n.ctx.state = m.ctx.state /\ n.ctx.ccm = m.ctx.ccm
        /\ n.ctx.phase = m.ctx.phase
<1> DEFINE u == [m.usb EXCEPT !.halts = m.usb.halts \cup {"out"}]
           c == [m.ctx EXCEPT !.status = "HALT"]
<1>1. n = [m EXCEPT !.usb = u, !.ctx = c]
  BY DEF StallOut, Machine
<1>2. m.usb \in Controllers /\ m.ctx \in Contexts
  BY DEF Machine
<1>3. /\ u \in Controllers /\ u.avail = m.usb.avail /\ u.ints = m.usb.ints /\ u.halts = m.usb.halts \cup {"out"}
      /\ u.tx = m.usb.tx /\ u.rx = m.usb.rx /\ u.csw = m.usb.csw
  BY <1>2 DEF Controllers
<1>4. /\ c \in Contexts /\ c.cmd = m.ctx.cmd /\ c.dir = m.ctx.dir /\ c.seg = m.ctx.seg /\ c.flag = m.ctx.flag
      /\ c.nodata = m.ctx.nodata /\ c.state = m.ctx.state /\ c.ccm = m.ctx.ccm /\ c.status = "HALT" /\ c.phase = m.ctx.phase
  BY <1>2 DEF Contexts
<1> HIDE DEF u, c
<1>5. /\ n \in Machine /\ n.host = m.host /\ n.fw = m.fw /\ n.drive = m.drive /\ n.seg = m.seg /\ n.usb = u /\ n.ctx = c
  BY <1>1, <1>3, <1>4 DEF Machine
<1> QED BY <1>3, <1>4, <1>5

LEMMA WriteEnds ==
  ASSUME NEW m, Good(m), m.drive[0].st = "active", m.drive[0].end # "no", WriteData(m), Executing(m)
  PROVE Good(ProcessDMADATATXDONE(m))
<1>1. /\ m \in Machine /\ DrivesInv(m) /\ SegInv(m) /\ m.seg \in Segments /\ m.host \in Hosts
      /\ m.drive[0] \in Drives
  BY DEF Good, MachineInv, Machine, Chs
<1>2. CASE m.ctx.status = "XFER_DONE"
  <2> DEFINE p == Result(m)
             k == ReleaseSeg(p)
             n == usb_ctxt_send_status(k)
  <2>1. ProcessDMADATATXDONE(m) = n
    BY <1>2 DEF ProcessDMADATATXDONE
  <2> HIDE DEF p
  <2>2. /\ p \in Machine /\ p.host = m.host /\ p.fw = m.fw /\ p.usb = m.usb /\ p.seg = m.seg /\ DrivesInv(p)
        /\ p.ctx.cmd = m.ctx.cmd /\ p.ctx.dir = m.ctx.dir /\ p.ctx.seg = m.ctx.seg /\ ~p.ctx.ccm
        /\ p.ctx.status = (IF m.drive[0].end = "ok" THEN "GOOD" ELSE "ERROR") /\ DriveQuiet(p)
        /\ \A ch \in Chs : m.drive[ch].st = "id" => p.drive[ch].st = "id"
    BY <1>1, ResultIs DEF p
  <2>3. m.ctx.seg = WriteSeg /\ Held(m) /\ WriteSeg \in CtxSegs
    BY DEF WriteData, Executing, Held, CtxSegs
  <2>4. SegInv(p) /\ Held(p)
    <3>1. Holds(m) = WriteSeg /\ Holds(p) = WriteSeg /\ Held(p)
      BY <2>2, <2>3 DEF Holds, Held
    <3>2. Owned(m.seg, WriteSeg, p.drive)
      BY <1>1, <2>2, <3>1, SegInvIs, OwnedIdle
    <3> QED BY <2>2, <3>1, <3>2, SegInvIs
  <2> HIDE DEF k
  <2>5. /\ k \in Machine /\ k.host = m.host /\ k.fw = m.fw /\ k.usb = m.usb /\ k.drive = p.drive /\ k.ctx = p.ctx
        /\ Owned(k.seg, NoSeg, p.drive)
    BY <2>2, <2>3, <2>4, ReleaseGives DEF k
  <2>6. k.ctx.status \in Final /\ k.ctx.status \in {"GOOD", "ERROR"}
    BY <2>2, <2>5 DEF Final
  <2> HIDE DEF n
  <2>7. /\ n \in Machine /\ n.host = k.host /\ n.ctx = k.ctx /\ n.drive = k.drive /\ n.seg = k.seg
        /\ n.fw.at = k.fw.at /\ n.fw.new = k.fw.new /\ ~n.fw.que /\ n.fw.cur = k.fw.cur /\ n.fw.post = k.fw.post
        /\ n.fw.asleep = k.fw.asleep /\ n.fw.timer = k.fw.timer
        /\ n.usb.avail = k.usb.avail /\ n.usb.ints = k.usb.ints /\ n.usb.halts = k.usb.halts
        /\ n.usb.tx = k.usb.tx /\ n.usb.rx = k.usb.rx /\ n.usb.csw = k.ctx.status
    BY <2>5, <2>6, SendIs DEF n
  <2>8. DrivesInv(n)
    BY <2>2, <2>5, <2>7, DrivesFrame
  <2>9. SegInv(n)
    <3>1. Holds(n) = NoSeg
      BY <2>7 DEF Holds, Held
    <3> QED BY <2>5, <2>7, <3>1, SegInvIs
  <2>10. Busy(m) => /\ Wire!Truthful(m.host, n.usb.csw) /\ m.usb.halts = {} /\ m.host.done /\ ~m.host.stalled
    <3> SUFFICES ASSUME Busy(m) PROVE Wire!Truthful(m.host, n.usb.csw) /\ m.usb.halts = {} /\ m.host.done /\ ~m.host.stalled
      OBVIOUS
    <3>1. /\ m.ctx.cmd \in Commands /\ m.host.cmd = m.ctx.cmd /\ m.ctx.cmd.op = "WRITE" /\ m.ctx.cmd.dir = "out"
          /\ m.ctx.cmd.dev \in Nat /\ m.ctx.cmd.dev > 0 /\ m.ctx.cmd.len = m.ctx.cmd.dev /\ m.host.moved \in Nat
      BY <1>1, CommandIs DEF Executing, HostSide, HostIdle, Busy, WriteData, Hosts
    <3>2. WriteHost(m) /\ m.usb.halts = {} /\ (m.drive[0].end = "ok" => m.drive[0].tcnt = 0)
      BY <1>2 DEF WriteData
    <3>3. m.host.done /\ ~m.host.stalled /\ (m.host.failed => m.drive[0].end = "err")
      BY <1>2, <3>2 DEF WriteHost
    <3>4. m.drive[0].end = "ok" => m.host.moved >= m.ctx.cmd.dev
      <4>1. m.ctx.cmd.dev - m.drive[0].tcnt <= m.host.moved
        BY <3>2 DEF WriteHost
      <4> QED BY <3>1, <3>2, <4>1
    <3>5. Case(m.ctx.cmd) = 12
      BY <3>1, CaseIs
    <3>6. n.usb.csw \in {"GOOD", "ERROR"} /\ (n.usb.csw = "GOOD" => m.drive[0].end = "ok")
      BY <2>2, <2>5, <2>7
    <3> QED BY <3>1, <3>2, <3>3, <3>4, <3>5, <3>6, MovedIs
  <2>11. HostSide(n) /\ Ints(n) = Ints(m) /\ (Busy(n) <=> Busy(m)) /\ DriveQuiet(n)
    BY <2>2, <2>5, <2>7 DEF Executing, HostSide, HostIdle, Ints, Busy, Asked, DriveQuiet
  <2>12. Ints(m) \subseteq {"RX_DONE"}
    BY <1>2 DEF WriteData, Ints
  <2>13. Told(n)
    <3>1. n.usb.tx # "data" /\ n.usb.tx # "nodata" /\ n.usb.rx # "nodata" /\ ~n.ctx.ccm /\ n.fw.cur /\ n.fw.post = "no"
      BY <2>2, <2>5, <2>7, ZenonT(60) DEF WriteData, None
    <3> QED BY <2>5, <2>6, <2>7, <2>10, <2>11, <2>12, <3>1 DEF Told, Executing
  <2> QED BY <2>1, <2>7, <2>8, <2>9, <2>13 DEF Good, MachineInv, Phase
<1>3. CASE m.ctx.status # "XFER_DONE" /\ m.drive[0].tcnt # 0 /\ m.ctx.status # "HALT"
  <2> DEFINE n == StallOut(m)
  <2>1. ProcessDMADATATXDONE(m) = n
    BY <1>3 DEF ProcessDMADATATXDONE
  <2> HIDE DEF n
  <2>2. /\ n \in Machine /\ n.host = m.host /\ n.fw = m.fw /\ n.drive = m.drive /\ n.seg = m.seg
        /\ n.usb.avail = m.usb.avail /\ n.usb.ints = m.usb.ints /\ n.usb.halts = m.usb.halts \cup {"out"}
        /\ n.usb.tx = m.usb.tx /\ n.usb.rx = m.usb.rx /\ n.usb.csw = m.usb.csw
        /\ n.ctx.status = "HALT" /\ n.ctx.cmd = m.ctx.cmd /\ n.ctx.dir = m.ctx.dir /\ n.ctx.seg = m.ctx.seg
        /\ n.ctx.flag = m.ctx.flag /\ n.ctx.nodata = m.ctx.nodata /\ n.ctx.state = m.ctx.state /\ n.ctx.ccm = m.ctx.ccm
    BY <1>1, StallOutIs DEF n
  <2>3. DrivesInv(n)
    BY <1>1, <2>2, DrivesFrame
  <2>4. SegInv(n)
    <3>1. Holds(n) = Holds(m)
      BY <2>2 DEF Holds, Held
    <3> QED BY <1>1, <2>2, <3>1, SegFrame
  <2>5. n.usb.halts = {"out"}
    BY <1>3, <2>2 DEF WriteData
  <2>6. Busy(m) => WriteHost(n)
    <3>1. Busy(m) => WriteHost(m)
      BY DEF WriteData
    <3> QED BY <2>2, <2>5, <3>1 DEF WriteHost
  <2>7. WriteData(n)
    BY <2>2, <2>5, <2>6 DEF WriteData, Ints, Busy
  <2>8. Executing(n)
    BY <2>2, <2>7 DEF Executing, HostSide, HostIdle, Asked, Busy
  <2> QED BY <2>1, <2>2, <2>3, <2>4, <2>8 DEF Good, MachineInv, Phase
<1>4. CASE m.ctx.status # "XFER_DONE" /\ ~(m.drive[0].tcnt # 0 /\ m.ctx.status # "HALT")
  BY <1>4 DEF ProcessDMADATATXDONE
<1> QED BY <1>2, <1>3, <1>4

LEMMA HandleSataKeeps == ASSUME Good(Now), HandleSata PROVE Good(Now')
<1> DEFINE m == Now
<1>1. m.drive[0].st = "active" /\ m.drive[0].end # "no" /\ Step(sata_isr(m))
  BY NowIs DEF HandleSata
<1>2. Good(m) /\ Phase(m)
  BY DEF Good, MachineInv
<1> HIDE DEF m
<1>3. Executing(m) /\ (ReadData(m) \/ WriteData(m) \/ DriveOnly(m))
  BY <1>1, <1>2, ActiveIs
<1>4. Good(sata_isr(m))
  <2>1. CASE DriveOnly(m)
    <3>1. sata_isr(m) = ProcessDMAStatusFis(m)
      BY <2>1 DEF DriveOnly, sata_isr
    <3> QED BY <1>1, <1>2, <1>3, <2>1, <3>1, NoDataEnds
  <2>2. CASE ReadData(m)
    <3>1. m.ctx.flag # "VERIFY" /\ m.ctx.dir = "in"
      BY <2>2 DEF ReadData
    <3>2. sata_isr(m) = ProcessDMADATARXDONE(m)
      BY <3>1 DEF sata_isr
    <3> QED BY <1>1, <1>2, <1>3, <2>2, <3>2, ReadEnds
  <2>3. CASE WriteData(m)
    <3>1. m.ctx.flag # "VERIFY" /\ m.ctx.dir = "out"
      BY <2>3 DEF WriteData
    <3>2. sata_isr(m) = ProcessDMADATATXDONE(m)
      BY <3>1 DEF sata_isr
    <3> QED BY <1>1, <1>2, <1>3, <2>3, <3>2, WriteEnds
  <2> QED BY <1>3, <2>1, <2>2, <2>3
<1> QED BY <1>1, <1>4, BecomeIs DEF Step, Good

(***************************************************************************)
(* The interrupts of the pipes, for each kind of command.                  *)
(***************************************************************************)
Pipes == {"TX_DONE", "RX_DONE", "DIN_HALT", "DOUT_HALT"}

LEMMA IntIs == ASSUME NEW m, NEW x \in Pipes \cup {"CSW_DONE"} PROVE x \in m.usb.ints <=> x \in Ints(m)
BY DEF Ints, Resets, Pipes

LEMMA NoInt == ASSUME NEW m, Ints(m) = {} PROVE usb_msc_isr(m) = m
<1>1. "TX_DONE" \notin m.usb.ints /\ "DIN_HALT" \notin m.usb.ints /\ "RX_DONE" \notin m.usb.ints /\ "DOUT_HALT" \notin m.usb.ints
  BY IntIs DEF Pipes
<1> QED BY <1>1 DEF usb_msc_isr, msc_isr_check_rx

LEMMA ClearedIs ==
  ASSUME NEW m \in Machine, NEW S, NEW n, n = Cleared(m, S)
  PROVE /\ n \in Machine /\ n.host = m.host /\ n.fw = m.fw /\ n.drive = m.drive /\ n.seg = m.seg /\ n.ctx = m.ctx
        /\ n.usb.avail = m.usb.avail /\ n.usb.ints = m.usb.ints \ S /\ n.usb.halts = m.usb.halts
        /\ n.usb.tx = m.usb.tx /\ n.usb.rx = m.usb.rx /\ n.usb.csw = m.usb.csw
<1> DEFINE u == [m.usb EXCEPT !.ints = m.usb.ints \ S]
<1>1. n = [m EXCEPT !.usb = u]
  BY DEF Cleared, Machine
<1>2. m.usb \in Controllers
  BY DEF Machine
<1>3. /\ u \in Controllers /\ u.avail = m.usb.avail /\ u.ints = m.usb.ints \ S /\ u.halts = m.usb.halts
      /\ u.tx = m.usb.tx /\ u.rx = m.usb.rx /\ u.csw = m.usb.csw
  BY <1>2 DEF Controllers
<1> HIDE DEF u
<1> QED BY <1>1, <1>3 DEF Machine

LEMMA StatusIs ==
  ASSUME NEW m \in Machine, NEW s \in Final \cup {"PENDING", "HALT", "XFER_DONE"}, NEW n, n = [m EXCEPT !.ctx.status = s]
  PROVE /\ n \in Machine /\ n.host = m.host /\ n.fw = m.fw /\ n.drive = m.drive /\ n.seg = m.seg /\ n.usb = m.usb
        /\ n.ctx.status = s /\ n.ctx.cmd = m.ctx.cmd /\ n.ctx.dir = m.ctx.dir /\ n.ctx.seg = m.ctx.seg
        /\ n.ctx.flag = m.ctx.flag /\ n.ctx.nodata = m.ctx.nodata /\ n.ctx.state = m.ctx.state /\ n.ctx.ccm = m.ctx.ccm
        /\ n.ctx.phase = m.ctx.phase
<1> DEFINE c == [m.ctx EXCEPT !.status = s]
<1>1. n = [m EXCEPT !.ctx = c]
  BY DEF Machine
<1>2. m.ctx \in Contexts
  BY DEF Machine
<1>3. /\ c \in Contexts /\ c.cmd = m.ctx.cmd /\ c.dir = m.ctx.dir /\ c.seg = m.ctx.seg /\ c.flag = m.ctx.flag
      /\ c.nodata = m.ctx.nodata /\ c.state = m.ctx.state /\ c.ccm = m.ctx.ccm /\ c.status = s /\ c.phase = m.ctx.phase
  BY <1>2 DEF Contexts
<1> HIDE DEF c
<1> QED BY <1>1, <1>3 DEF Machine

\* A command that is over on every side may be told.
Over(k) ==
  /\ k \in Machine /\ DrivesInv(k) /\ Owned(k.seg, NoSeg, k.drive)
  /\ k.fw.at = "bot" /\ ~k.fw.new /\ k.fw.cur /\ k.fw.post = "no" /\ ~k.fw.asleep
  /\ ~k.usb.avail /\ k.ctx.status \in Final /\ Ints(k) \subseteq {"RX_DONE"} /\ k.usb.rx # "nodata"
  /\ k.usb.tx = None /\ ~k.ctx.ccm /\ DriveQuiet(k) /\ HostSide(k)
  /\ Busy(k) => Wire!Truthful(k.host, k.ctx.status) /\ k.usb.halts = {} /\ k.host.done /\ ~k.host.stalled

LEMMA OverGood == ASSUME NEW k, Over(k) PROVE Good(usb_ctxt_send_status(k))
<1> DEFINE n == usb_ctxt_send_status(k)
<1> HIDE DEF n
<1>1. /\ n \in Machine /\ n.host = k.host /\ n.ctx = k.ctx /\ n.drive = k.drive /\ n.seg = k.seg
      /\ n.fw.at = k.fw.at /\ n.fw.new = k.fw.new /\ ~n.fw.que /\ n.fw.cur = k.fw.cur /\ n.fw.post = k.fw.post
      /\ n.fw.asleep = k.fw.asleep /\ n.fw.timer = k.fw.timer
      /\ n.usb.avail = k.usb.avail /\ n.usb.ints = k.usb.ints /\ n.usb.halts = k.usb.halts
      /\ n.usb.tx = k.usb.tx /\ n.usb.rx = k.usb.rx /\ n.usb.csw = k.ctx.status
  BY SendIs DEF n, Over
<1>2. DrivesInv(n)
  BY <1>1, DrivesFrame DEF Over
<1>3. SegInv(n)
  <2>1. Holds(n) = NoSeg
    BY <1>1 DEF Holds, Held
  <2> QED BY <1>1, <2>1, SegInvIs DEF Over
<1>4. HostSide(n) /\ Ints(n) = Ints(k) /\ (Busy(n) <=> Busy(k)) /\ DriveQuiet(n)
  BY <1>1 DEF Over, HostSide, HostIdle, Ints, Busy, Asked, DriveQuiet
<1>5. n.usb.tx # "data" /\ n.usb.tx # "nodata"
  BY <1>1 DEF Over, None
<1>6. Told(n)
  BY <1>1, <1>4, <1>5 DEF Told, Over
<1> QED BY <1>1, <1>2, <1>3, <1>6 DEF Good, MachineInv, Phase, n

LEMMA MscTold == ASSUME NEW m, Good(m), Told(m) PROVE Good(usb_msc_isr(m))
<1>1. m \in Machine /\ DrivesInv(m) /\ SegInv(m) /\ Ints(m) \subseteq {"RX_DONE"}
  BY DEF Good, MachineInv, Told
<1>2. CASE Ints(m) = {}
  BY <1>2, NoInt
<1>3. CASE "RX_DONE" \in Ints(m)
  <2> DEFINE n == Cleared(m, {"RX_DONE", "DOUT_HALT"})
  <2>1. "TX_DONE" \notin m.usb.ints /\ "DIN_HALT" \notin m.usb.ints /\ "RX_DONE" \in m.usb.ints
    BY <1>1, <1>3, IntIs DEF Pipes
  <2>2. m.ctx.status \notin {"PENDING", "HALT"}
    BY DEF Told, Final
  <2>3. usb_msc_isr(m) = n
    <3>1. usb_msc_isr(m) = RxDone(m)
      BY <2>1 DEF usb_msc_isr, msc_isr_check_rx
    <3> QED BY <2>2, <3>1 DEF RxDone
  <2> HIDE DEF n
  <2>4. /\ n \in Machine /\ n.host = m.host /\ n.fw = m.fw /\ n.drive = m.drive /\ n.seg = m.seg /\ n.ctx = m.ctx
        /\ n.usb.avail = m.usb.avail /\ n.usb.ints = m.usb.ints \ {"RX_DONE", "DOUT_HALT"} /\ n.usb.halts = m.usb.halts
        /\ n.usb.tx = m.usb.tx /\ n.usb.rx = m.usb.rx /\ n.usb.csw = m.usb.csw
    BY <1>1, ClearedIs DEF n
  <2>5. DrivesInv(n) /\ SegInv(n)
    <3>1. Holds(n) = Holds(m)
      BY <2>4 DEF Holds, Held
    <3> QED BY <1>1, <2>4, <3>1, DrivesFrame, SegFrame
  <2>6. Ints(n) \subseteq {"RX_DONE"} /\ (Asked(n) <=> Asked(m))
    BY <1>1, <2>4 DEF Ints, Asked, Resets
  <2>7. Told(n)
    BY <2>4, <2>6 DEF Told, DriveQuiet, HostSide, HostIdle, Busy
  <2> QED BY <2>3, <2>4, <2>5, <2>7 DEF Good, MachineInv, Phase
<1> QED BY <1>1, <1>2, <1>3

LEMMA MscNoDataIn == ASSUME NEW m, Good(m), Executing(m), NoData(m), NoDataIn(m) PROVE Good(usb_msc_isr(m))
<1>1. m \in Machine /\ DrivesInv(m) /\ SegInv(m)
  BY DEF Good, MachineInv
<1>2. CASE Ints(m) = {}
  BY <1>2, NoInt
<1>3. CASE Ints(m) = {"DIN_HALT"}
  <2>1. "TX_DONE" \notin m.usb.ints /\ "DIN_HALT" \in m.usb.ints /\ "RX_DONE" \notin m.usb.ints /\ "DOUT_HALT" \notin m.usb.ints
    BY <1>3, IntIs DEF Pipes
  <2>2. CASE "in" \in m.usb.halts
    BY <2>1, <2>2 DEF usb_msc_isr, msc_isr_check_rx, Halted
  <2>3. CASE "in" \notin m.usb.halts
    <3> DEFINE n == Cleared(m, {"DIN_HALT"})
    <3>1. m.fw.cur /\ m.ctx.nodata /\ m.ctx.status # "PENDING"
      BY DEF NoData, NoDataIn, Final
    <3>2. usb_msc_isr(m) = usb_ctxt_send_status(n)
      BY <2>1, <2>3, <3>1 DEF usb_msc_isr, msc_isr_check_rx, Halted, DinHalt
    <3> HIDE DEF n
    <3>3. /\ n \in Machine /\ n.host = m.host /\ n.fw = m.fw /\ n.drive = m.drive /\ n.seg = m.seg /\ n.ctx = m.ctx
          /\ n.usb.avail = m.usb.avail /\ n.usb.ints = m.usb.ints \ {"DIN_HALT"} /\ n.usb.halts = m.usb.halts
          /\ n.usb.tx = m.usb.tx /\ n.usb.rx = m.usb.rx /\ n.usb.csw = m.usb.csw
      BY <1>1, ClearedIs DEF n
    <3>4. DrivesInv(n)
      BY <1>1, <3>3, DrivesFrame
    <3>5. Owned(n.seg, NoSeg, n.drive)
      <4>1. Holds(m) = NoSeg
        BY DEF NoData, Holds
      <4> QED BY <1>1, <3>3, <4>1, SegInvIs
    <3>6. Ints(n) = {} /\ (Asked(n) <=> Asked(m))
      BY <1>3, <3>3 DEF Ints, Asked, Resets
    <3>7. Busy(m) => Wire!Truthful(m.host, m.ctx.status) /\ m.usb.halts = {} /\ m.host.done /\ ~m.host.stalled
      BY <1>3, <2>3 DEF NoDataIn, StallIn
    <3>8. m.usb.tx = None /\ m.usb.rx = None /\ None # "nodata"
      BY <1>3 DEF NoDataIn, None
    <3>9. HostSide(n) /\ DriveQuiet(n) /\ (Busy(n) <=> Busy(m))
      BY <3>3, <3>6 DEF Executing, NoData, HostSide, HostIdle, Busy, DriveQuiet
    <3>10. Over(n)
      BY <3>3, <3>4, <3>5, <3>6, <3>7, <3>8, <3>9 DEF Over, Executing, NoData
    <3> QED BY <3>2, <3>10, OverGood
  <2> QED BY <2>2, <2>3
<1> QED BY <1>2, <1>3 DEF NoDataIn

LEMMA MscNoDataOut == ASSUME NEW m, Good(m), Executing(m), NoData(m), NoDataOut(m) PROVE Good(usb_msc_isr(m))
<1>1. m \in Machine /\ DrivesInv(m) /\ SegInv(m)
  BY DEF Good, MachineInv
<1>2. CASE Ints(m) = {}
  BY <1>2, NoInt
<1>3. CASE Ints(m) = {"DOUT_HALT"}
  <2>1. "TX_DONE" \notin m.usb.ints /\ "DIN_HALT" \notin m.usb.ints /\ "RX_DONE" \notin m.usb.ints /\ "DOUT_HALT" \in m.usb.ints
    BY <1>3, IntIs DEF Pipes
  <2>2. CASE "out" \in m.usb.halts
    BY <2>1, <2>2 DEF usb_msc_isr, msc_isr_check_rx, Halted
  <2>3. CASE "out" \notin m.usb.halts
    <3> DEFINE n == Cleared(m, {"DOUT_HALT"})
               s == IF m.ctx.phase \in {10, 13} THEN "PHASE" ELSE IF n.ctx.status \notin Final THEN "GOOD" ELSE n.ctx.status
    <3>1. m.fw.cur /\ m.ctx.nodata /\ m.ctx.status \in Final /\ U2B(m.ctx) /\ (m.ctx.phase \in {10, 13} => m.ctx.status = "PHASE")
      BY DEF NoData, NoDataOut, U2B
    <3>2. usb_msc_isr(m) = usb_ctxt_send_status([n EXCEPT !.ctx.status = s])
      <4>1. usb_msc_isr(m) = DoutHalt(m)
        BY <2>1, <2>3 DEF usb_msc_isr, msc_isr_check_rx, Halted
      <4>2. [n EXCEPT !.ctx.status = IF m.ctx.phase \in {10, 13} THEN "PHASE" ELSE IF @ \notin Final THEN "GOOD" ELSE @]
              = [n EXCEPT !.ctx.status = s]
        OBVIOUS
      <4>3. DoutHalt(m) = usb_ctxt_send_status([n EXCEPT !.ctx.status = IF m.ctx.phase \in {10, 13} THEN "PHASE"
                                                                        ELSE IF @ \notin Final THEN "GOOD" ELSE @])
        BY <3>1 DEF DoutHalt
      <4> QED BY <4>1, <4>2, <4>3
    <3> HIDE DEF n
    <3>3. /\ n \in Machine /\ n.host = m.host /\ n.fw = m.fw /\ n.drive = m.drive /\ n.seg = m.seg /\ n.ctx = m.ctx
          /\ n.usb.avail = m.usb.avail /\ n.usb.ints = m.usb.ints \ {"DOUT_HALT"} /\ n.usb.halts = m.usb.halts
          /\ n.usb.tx = m.usb.tx /\ n.usb.rx = m.usb.rx /\ n.usb.csw = m.usb.csw
      BY <1>1, ClearedIs DEF n
    <3>11. [n EXCEPT !.ctx.status = s] = n
      <4>1. s = n.ctx.status
        BY <3>1, <3>3
      <4> HIDE DEF s
      <4> QED BY <3>3, <4>1 DEF Machine, Contexts
    <3>4. DrivesInv(n)
      BY <1>1, <3>3, DrivesFrame
    <3>5. Owned(n.seg, NoSeg, n.drive)
      <4>1. Holds(m) = NoSeg
        BY DEF NoData, Holds
      <4> QED BY <1>1, <3>3, <4>1, SegInvIs
    <3>6. Ints(n) = {} /\ (Asked(n) <=> Asked(m))
      BY <1>3, <3>3 DEF Ints, Asked, Resets
    <3>7. Busy(m) => Wire!Truthful(m.host, m.ctx.status) /\ m.usb.halts = {} /\ m.host.done /\ ~m.host.stalled
      BY <1>3, <2>3 DEF NoDataOut
    <3>8. m.usb.tx = None /\ m.usb.rx = None /\ None # "nodata"
      BY <1>3 DEF NoDataOut, None
    <3>9. HostSide(n) /\ DriveQuiet(n) /\ (Busy(n) <=> Busy(m))
      BY <3>3, <3>6 DEF Executing, NoData, HostSide, HostIdle, Busy, DriveQuiet
    <3>10. Over(n)
      BY <3>3, <3>4, <3>5, <3>6, <3>7, <3>8, <3>9 DEF Over, Executing, NoData
    <3> QED BY <3>2, <3>10, <3>11, OverGood
  <2> QED BY <2>2, <2>3
<1> QED BY <1>2, <1>3 DEF NoDataOut

\* The host has the data of a command that is over.
LEMMA TxDoneGood ==
  ASSUME NEW m, Good(m), Executing(m), Ints(m) \in {{"TX_DONE"}, {"TX_DONE", "DIN_HALT"}},
         ~("DIN_HALT" \in m.usb.ints /\ "in" \in m.usb.halts), ~m.ctx.ccm, m.ctx.status \in {"GOOD", "ERROR"}, m.ctx.seg \in CtxSegs, m.fw.cur, m.fw.post = "no",
         DriveQuiet(m), m.usb.tx = None, m.usb.rx = None,
         Busy(m) => StallIn(m) /\ Wire!Truthful(m.host, m.ctx.status)
  PROVE Good(usb_msc_isr(m))
<1> DEFINE p == Cleared(m, {"TX_DONE", "DIN_HALT"})
           k == ReleaseSeg(p)
<1>1. m \in Machine /\ DrivesInv(m) /\ SegInv(m) /\ Held(m)
  BY DEF Good, MachineInv, Executing, Held
<1>2. usb_msc_isr(m) = usb_ctxt_send_status(k)
  <2>1. "TX_DONE" \in m.usb.ints
    BY IntIs DEF Pipes
  <2>2. usb_msc_isr(m) = TxDone(m)
    BY <2>1 DEF usb_msc_isr, Halted
  <2> QED BY <2>2 DEF TxDone
<1> HIDE DEF p
<1>3. /\ p \in Machine /\ p.host = m.host /\ p.fw = m.fw /\ p.drive = m.drive /\ p.seg = m.seg /\ p.ctx = m.ctx
      /\ p.usb.avail = m.usb.avail /\ p.usb.ints = m.usb.ints \ {"TX_DONE", "DIN_HALT"} /\ p.usb.halts = m.usb.halts
      /\ p.usb.tx = m.usb.tx /\ p.usb.rx = m.usb.rx /\ p.usb.csw = m.usb.csw
  BY <1>1, ClearedIs DEF p
<1>4. SegInv(p) /\ Held(p)
  <2>1. Holds(p) = Holds(m) /\ Held(p)
    BY <1>1, <1>3 DEF Holds, Held
  <2> QED BY <1>1, <1>3, <2>1, SegFrame
<1> HIDE DEF k
<1>5. /\ k \in Machine /\ k.host = p.host /\ k.fw = p.fw /\ k.usb = p.usb /\ k.drive = p.drive /\ k.ctx = p.ctx
      /\ Owned(k.seg, NoSeg, p.drive)
  BY <1>3, <1>4, ReleaseGives DEF k
<1>6. DrivesInv(k)
  BY <1>1, <1>3, <1>5, DrivesFrame
<1>7. Ints(k) = {} /\ (Asked(k) <=> Asked(m))
  BY <1>3, <1>5 DEF Ints, Asked, Resets
<1>8. HostSide(k) /\ DriveQuiet(k) /\ (Busy(k) <=> Busy(m))
  BY <1>3, <1>5, <1>7 DEF Executing, HostSide, HostIdle, Busy, DriveQuiet
<1>9. Busy(m) => Wire!Truthful(m.host, m.ctx.status) /\ m.usb.halts = {} /\ m.host.done /\ ~m.host.stalled
  BY DEF StallIn
<1>10. k.ctx.status \in Final /\ k.usb.rx # "nodata"
  BY <1>3, <1>5 DEF Final, None
<1>11. Over(k)
  BY <1>3, <1>5, <1>6, <1>7, <1>8, <1>9, <1>10 DEF Over, Executing
<1> QED BY <1>2, <1>11, OverGood

\* The host has run into a stall and has not cleared it yet.
LEMMA StalledIn ==
  ASSUME NEW m, Ints(m) \in {{"TX_DONE"}, {"TX_DONE", "DIN_HALT"}}, "DIN_HALT" \in m.usb.ints, "in" \in m.usb.halts
  PROVE usb_msc_isr(m) = m
<1>1. "RX_DONE" \notin m.usb.ints /\ "DOUT_HALT" \notin m.usb.ints
  BY IntIs DEF Pipes
<1> QED BY <1>1 DEF usb_msc_isr, msc_isr_check_rx, Halted

LEMMA MscCpuIn == ASSUME NEW m, Good(m), Executing(m), CpuIn(m) PROVE Good(usb_msc_isr(m))
<1>1. CASE Ints(m) = {}
  BY <1>1, NoInt
<1>2. CASE Ints(m) # {}
  <2>1. /\ m.usb.tx = None /\ Ints(m) \in {{"TX_DONE"}, {"TX_DONE", "DIN_HALT"}}
        /\ Busy(m) => m.host.moved = Wire!Expected(m.ctx.cmd) /\ StallIn(m)
    BY <1>2 DEF CpuIn
  <2>2. CASE "DIN_HALT" \in m.usb.ints /\ "in" \in m.usb.halts
    BY <2>1, <2>2, StalledIn
  <2>3. CASE ~("DIN_HALT" \in m.usb.ints /\ "in" \in m.usb.halts)
    <3>1. /\ m.ctx.cmd \in Commands /\ m.ctx.cmd.op = "INQ" /\ m.ctx.cmd.dir = "in" /\ m.ctx.cmd.len \in Nat
          /\ m.ctx.cmd.len # 0 /\ m.ctx.cmd.dev # 0 /\ m.ctx.cmd.dev \in Nat /\ m.host \in Hosts
      BY CommandIs DEF Good, Machine, Executing, HostSide, CpuIn
    <3>2. Busy(m) => Wire!Truthful(m.host, "GOOD")
      <4> SUFFICES ASSUME Busy(m) PROVE Wire!Truthful(m.host, "GOOD")
        OBVIOUS
      <4>1. m.host.cmd = m.ctx.cmd /\ ~m.host.failed /\ m.host.moved = Wire!Expected(m.host.cmd) /\ m.host.moved \in Nat
        BY <2>1, <3>1 DEF Executing, HostSide, HostIdle, Busy, CpuIn, Hosts
      <4>2. Case(m.ctx.cmd) \in {5, 6, 7}
        BY <3>1, CaseIs
      <4>3. ~Wire!PhaseError(m.host.cmd)
        BY <3>1, <4>1, <4>2, WireCase DEF Wire!PhaseError
      <4> QED BY <4>1, <4>3 DEF Wire!Truthful, Wire!Statuses
    <3>3. /\ ~m.ctx.ccm /\ m.ctx.status = "GOOD" /\ m.ctx.seg \in CtxSegs /\ m.fw.cur /\ m.fw.post = "no"
          /\ DriveQuiet(m) /\ m.usb.rx = None
      BY DEF CpuIn, CtxSegs
    <3> QED BY <2>1, <2>3, <3>2, <3>3, TxDoneGood
  <2> QED BY <2>2, <2>3
<1> QED BY <1>1, <1>2

LEMMA MscRead == ASSUME NEW m, Good(m), Executing(m), ReadData(m) PROVE Good(usb_msc_isr(m))
<1>1. CASE Ints(m) = {}
  BY <1>1, NoInt
<1>2. CASE Ints(m) # {}
  <2>1. ReadTaken(m) /\ m \in Machine /\ DrivesInv(m) /\ SegInv(m)
    BY <1>2 DEF ReadData, ReadSends, Good, MachineInv
  <2>2. m.usb.tx = None /\ Ints(m) \in {{"TX_DONE"}, {"TX_DONE", "DIN_HALT"}} /\ (Busy(m) => StallIn(m) /\ ReadHost(m))
    BY <2>1 DEF ReadTaken
  <2>3. CASE "DIN_HALT" \in m.usb.ints /\ "in" \in m.usb.halts
    BY <2>2, <2>3, StalledIn
  <2>4. CASE ~("DIN_HALT" \in m.usb.ints /\ "in" \in m.usb.halts) /\ ~m.ctx.ccm
    <3>1. /\ m.ctx.cmd \in Commands /\ m.ctx.cmd.op = "READ" /\ m.ctx.cmd.dir = "in" /\ m.ctx.cmd.len \in Nat
          /\ m.ctx.cmd.dev > 0 /\ m.ctx.cmd.dev \in Nat /\ m.ctx.cmd.len >= m.ctx.cmd.dev /\ m.host \in Hosts
      BY CommandIs DEF Good, Machine, Executing, HostSide, ReadData
    <3>2. /\ m.ctx.status \in {"GOOD", "ERROR"} /\ m.ctx.seg \in CtxSegs /\ m.fw.cur /\ m.fw.post = "no"
          /\ DriveQuiet(m) /\ m.usb.rx = None
      BY <2>1, <2>4 DEF ReadData, ReadTaken, CtxSegs, DriveQuiet
    <3>3. Busy(m) => Wire!Truthful(m.host, m.ctx.status)
      <4> SUFFICES ASSUME Busy(m) PROVE Wire!Truthful(m.host, m.ctx.status)
        OBVIOUS
      <4>1. m.host.cmd = m.ctx.cmd /\ m.host.moved \in Nat
        BY <3>1 DEF Executing, HostSide, HostIdle, Busy, Hosts
      <4>2. m.ctx.status = "GOOD" => ~m.host.failed /\ m.host.moved >= m.host.cmd.dev
        BY <2>2, <2>4, <4>1 DEF ReadHost
      <4>3. Case(m.ctx.cmd) \in {5, 6}
        BY <3>1, CaseIs
      <4> QED BY <3>1, <3>2, <4>1, <4>2, <4>3, MovedIs
    <3> QED BY <2>2, <2>4, <3>2, <3>3, TxDoneGood
  <2>5. CASE ~("DIN_HALT" \in m.usb.ints /\ "in" \in m.usb.halts) /\ m.ctx.ccm
    <3> DEFINE n == [m EXCEPT !.ctx.status = "XFER_DONE"]
    <3>1. usb_msc_isr(m) = n
      <4>1. "TX_DONE" \in m.usb.ints /\ "RX_DONE" \notin m.usb.ints /\ "DOUT_HALT" \notin m.usb.ints
        BY <2>2, IntIs DEF Pipes
      <4>2. m.fw.cur
        BY DEF ReadData
      <4>3. msc_isr_check_rx(n, m.usb.ints) = n
        BY <4>1 DEF msc_isr_check_rx
      <4>4. usb_msc_isr(m) = TxDone(m)
        BY <2>5, <4>1 DEF usb_msc_isr, Halted
      <4>5. TxDone(m) = IF m.usb.ints = {"TX_DONE"} THEN n ELSE msc_isr_check_rx(n, m.usb.ints)
        BY <2>5, <4>2 DEF TxDone
      <4> QED BY <4>3, <4>4, <4>5
    <3> HIDE DEF n
    <3>2. /\ n \in Machine /\ n.host = m.host /\ n.fw = m.fw /\ n.drive = m.drive /\ n.seg = m.seg /\ n.usb = m.usb
          /\ n.ctx.status = "XFER_DONE" /\ n.ctx.cmd = m.ctx.cmd /\ n.ctx.dir = m.ctx.dir /\ n.ctx.seg = m.ctx.seg
          /\ n.ctx.flag = m.ctx.flag /\ n.ctx.nodata = m.ctx.nodata /\ n.ctx.state = m.ctx.state /\ n.ctx.ccm = m.ctx.ccm
      BY <2>1, StatusIs DEF n
    <3>3. DrivesInv(n) /\ SegInv(n)
      <4>1. Holds(n) = Holds(m)
        BY <3>2 DEF Holds, Held
      <4> QED BY <2>1, <3>2, <4>1, DrivesFrame, SegFrame
    <3>4. ReadTaken(n)
      BY <2>1, <2>5, <3>2 DEF ReadTaken, ReadHost, StallIn, Busy, Ints
    <3>5. ReadData(n)
      BY <3>2, <3>4 DEF ReadData
    <3>6. Executing(n)
      BY <3>2, <3>5 DEF Executing, HostSide, HostIdle, Asked, Busy
    <3> QED BY <3>1, <3>2, <3>3, <3>6 DEF Good, MachineInv, Phase
  <2> QED BY <2>3, <2>4, <2>5
<1> QED BY <1>1, <1>2

\* Only the status, the interrupts, the stalls and post_dout differ.
Alike(m, n) ==
  /\ n \in Machine /\ n.host = m.host /\ n.drive = m.drive /\ n.seg = m.seg
  /\ n.fw.at = m.fw.at /\ n.fw.new = m.fw.new /\ n.fw.que = m.fw.que /\ n.fw.cur = m.fw.cur
  /\ n.fw.asleep = m.fw.asleep /\ n.fw.timer = m.fw.timer
  /\ n.usb.avail = m.usb.avail /\ n.usb.tx = m.usb.tx /\ n.usb.rx = m.usb.rx /\ n.usb.csw = m.usb.csw
  /\ n.ctx.cmd = m.ctx.cmd /\ n.ctx.dir = m.ctx.dir /\ n.ctx.seg = m.ctx.seg /\ n.ctx.flag = m.ctx.flag
  /\ n.ctx.nodata = m.ctx.nodata /\ n.ctx.state = m.ctx.state /\ n.ctx.ccm = m.ctx.ccm
  /\ n.usb.ints \cap Resets = m.usb.ints \cap Resets

LEMMA AlikeGood ==
  ASSUME NEW m, Good(m), Executing(m), NEW n, Alike(m, n), CpuOut(n) \/ WriteData(n)
  PROVE Good(n)
<1>1. DrivesInv(m) /\ SegInv(m) /\ n \in Machine
  BY DEF Good, MachineInv, Alike
<1>2. DrivesInv(n) /\ SegInv(n)
  <2>1. Holds(n) = Holds(m)
    BY DEF Holds, Held, Alike
  <2> QED BY <1>1, <2>1, DrivesFrame, SegFrame DEF Alike
<1>3. Executing(n)
  BY DEF Executing, HostSide, HostIdle, Asked, Busy, Alike
<1> QED BY <1>1, <1>2, <1>3 DEF Good, MachineInv, Phase

LEMMA ClearedAlike ==
  ASSUME NEW m \in Machine, NEW n, n = Cleared(m, {"RX_DONE", "DOUT_HALT"})
  PROVE /\ Alike(m, n) /\ n.ctx.status = m.ctx.status /\ n.usb.halts = m.usb.halts /\ n.fw.post = m.fw.post
        /\ Ints(n) = Ints(m) \ {"RX_DONE", "DOUT_HALT"}
<1>1. /\ n \in Machine /\ n.host = m.host /\ n.fw = m.fw /\ n.drive = m.drive /\ n.seg = m.seg /\ n.ctx = m.ctx
      /\ n.usb.avail = m.usb.avail /\ n.usb.ints = m.usb.ints \ {"RX_DONE", "DOUT_HALT"} /\ n.usb.halts = m.usb.halts
      /\ n.usb.tx = m.usb.tx /\ n.usb.rx = m.usb.rx /\ n.usb.csw = m.usb.csw
  BY ClearedIs
<1>2. n.usb.ints \cap Resets = m.usb.ints \cap Resets /\ Ints(n) = Ints(m) \ {"RX_DONE", "DOUT_HALT"}
  BY <1>1 DEF Resets, Ints
<1> QED BY <1>1, <1>2 DEF Alike

LEMMA StatusAlike ==
  ASSUME NEW m \in Machine, NEW s \in {"HALT", "XFER_DONE"}, NEW n, n = [m EXCEPT !.ctx.status = s]
  PROVE /\ Alike(m, n) /\ n.ctx.status = s /\ n.usb.halts = m.usb.halts /\ n.fw.post = m.fw.post /\ n.usb.ints = m.usb.ints
<1>1. /\ n \in Machine /\ n.host = m.host /\ n.fw = m.fw /\ n.drive = m.drive /\ n.seg = m.seg /\ n.usb = m.usb
      /\ n.ctx.status = s /\ n.ctx.cmd = m.ctx.cmd /\ n.ctx.dir = m.ctx.dir /\ n.ctx.seg = m.ctx.seg
      /\ n.ctx.flag = m.ctx.flag /\ n.ctx.nodata = m.ctx.nodata /\ n.ctx.state = m.ctx.state /\ n.ctx.ccm = m.ctx.ccm
  BY StatusIs
<1> QED BY <1>1 DEF Alike

LEMMA StallAlike ==
  ASSUME NEW m \in Machine, NEW n, n = StallOut(m)
  PROVE /\ Alike(m, n) /\ n.ctx.status = "HALT" /\ n.usb.halts = m.usb.halts \cup {"out"} /\ n.fw.post = m.fw.post
        /\ n.usb.ints = m.usb.ints
<1>1. /\ n \in Machine /\ n.host = m.host /\ n.fw = m.fw /\ n.drive = m.drive /\ n.seg = m.seg
      /\ n.usb.avail = m.usb.avail /\ n.usb.ints = m.usb.ints /\ n.usb.halts = m.usb.halts \cup {"out"}
      /\ n.usb.tx = m.usb.tx /\ n.usb.rx = m.usb.rx /\ n.usb.csw = m.usb.csw
      /\ n.ctx.status = "HALT" /\ n.ctx.cmd = m.ctx.cmd /\ n.ctx.dir = m.ctx.dir /\ n.ctx.seg = m.ctx.seg
      /\ n.ctx.flag = m.ctx.flag /\ n.ctx.nodata = m.ctx.nodata /\ n.ctx.state = m.ctx.state /\ n.ctx.ccm = m.ctx.ccm
  BY StallOutIs
<1> QED BY <1>1 DEF Alike

LEMMA AlikeTwice ==
  ASSUME NEW m, NEW p, NEW n, Alike(m, p), Alike(p, n) PROVE Alike(m, n)
BY DEF Alike

LEMMA RxDoneOk ==
  ASSUME NEW m \in Machine, U2B(m.ctx) \/ m.ctx.ccm, NEW n, n = rx_done_ok(m)
  PROVE /\ Alike(m, n) /\ n.ctx.status = "XFER_DONE" /\ n.usb.halts = m.usb.halts
        /\ n.fw.post = (IF U2B(m.ctx) THEN "unread" ELSE m.fw.post) /\ Ints(n) = Ints(m) \ {"RX_DONE", "DOUT_HALT"}
<1> DEFINE p == Cleared(m, {"RX_DONE", "DOUT_HALT"})
           q == [p EXCEPT !.ctx.status = "XFER_DONE"]
<1>1. n = IF U2B(m.ctx) THEN [q EXCEPT !.fw.post = "unread"] ELSE q
  BY DEF rx_done_ok
<1> HIDE DEF p
<1>2. /\ p \in Machine /\ Alike(m, p) /\ p.usb.halts = m.usb.halts /\ p.fw.post = m.fw.post
      /\ Ints(p) = Ints(m) \ {"RX_DONE", "DOUT_HALT"}
  BY ClearedAlike DEF p, Alike
<1> HIDE DEF q
<1>3. /\ q \in Machine /\ Alike(p, q) /\ q.ctx.status = "XFER_DONE" /\ q.usb.halts = p.usb.halts /\ q.fw.post = p.fw.post
      /\ q.usb.ints = p.usb.ints
  <2>1. q = [p EXCEPT !.ctx.status = "XFER_DONE"]
    BY DEF q
  <2>2. /\ Alike(p, q) /\ q.ctx.status = "XFER_DONE" /\ q.usb.halts = p.usb.halts /\ q.fw.post = p.fw.post
        /\ q.usb.ints = p.usb.ints
    BY <1>2, <2>1, StatusAlike
  <2> QED BY <2>2 DEF Alike
<1>4. Alike(m, q) /\ Ints(q) = Ints(m) \ {"RX_DONE", "DOUT_HALT"}
  BY <1>2, <1>3, AlikeTwice DEF Ints
<1>5. CASE ~U2B(m.ctx)
  BY <1>1, <1>2, <1>3, <1>4, <1>5
<1>6. CASE U2B(m.ctx)
  <2> DEFINE f == [q.fw EXCEPT !.post = "unread"]
  <2>1. n = [q EXCEPT !.fw = f] /\ q.fw \in Firmwares
    BY <1>1, <1>3, <1>6 DEF Machine
  <2>2. /\ f \in Firmwares /\ f.at = q.fw.at /\ f.new = q.fw.new /\ f.que = q.fw.que /\ f.cur = q.fw.cur
        /\ f.post = "unread" /\ f.timer = q.fw.timer /\ f.asleep = q.fw.asleep
    BY <2>1 DEF Firmwares
  <2> HIDE DEF f
  <2>3. /\ n \in Machine /\ n.host = q.host /\ n.fw = f /\ n.usb = q.usb /\ n.drive = q.drive /\ n.seg = q.seg /\ n.ctx = q.ctx
    BY <1>3, <2>1, <2>2, FwSet
  <2>4. Alike(q, n)
    BY <2>2, <2>3 DEF Alike
  <2> QED BY <1>2, <1>3, <1>4, <1>6, <2>2, <2>3, <2>4, AlikeTwice DEF Ints
<1> QED BY <1>5, <1>6

LEMMA MscCpuOut == ASSUME NEW m, Good(m), Executing(m), CpuOut(m) PROVE Good(usb_msc_isr(m))
<1>1. CASE Ints(m) = {}
  BY <1>1, NoInt
<1>2. CASE Ints(m) # {}
  <2>1. /\ Ints(m) = {"RX_DONE"} /\ m \in Machine /\ U2B(m.ctx) /\ m.fw.cur
    BY <1>2 DEF CpuOut, Good, U2B
  <2>2. /\ Busy(m) => /\ ~m.host.failed /\ ~m.host.stalled /\ m.usb.halts = {} /\ m.host.moved <= m.host.cmd.len
                      /\ m.host.done /\ m.host.moved = m.host.cmd.len /\ m.usb.rx = None
                      /\ m.fw.post = "no" /\ m.ctx.status = "PENDING" /\ m.host.cmd = m.ctx.cmd /\ m.host.moved \in Nat
        /\ m.fw.post # "no" => m.ctx.status = "XFER_DONE"
    <3>1. m.host \in Hosts
      BY <2>1 DEF Machine
    <3>2. m.fw.post # "no" => m.ctx.status = "XFER_DONE"
      BY DEF CpuOut
    <3>3. Busy(m) => m.host.cmd = m.ctx.cmd /\ m.host.moved \in Nat
      BY <3>1 DEF Executing, HostSide, HostIdle, Busy, Hosts
    <3>4. Busy(m) => /\ ~m.host.failed /\ ~m.host.stalled /\ m.usb.halts = {} /\ m.host.moved <= m.host.cmd.len
                     /\ m.host.done /\ m.host.moved = m.host.cmd.len /\ m.usb.rx = None
                     /\ m.fw.post = "no" /\ m.ctx.status = "PENDING"
      BY <2>1 DEF CpuOut
    <3> QED BY <3>2, <3>3, <3>4
  <2>3. usb_msc_isr(m) = RxDone(m)
    <3>1. "TX_DONE" \notin m.usb.ints /\ "DIN_HALT" \notin m.usb.ints /\ "RX_DONE" \in m.usb.ints
      BY <2>1, IntIs DEF Pipes
    <3> QED BY <3>1 DEF usb_msc_isr, msc_isr_check_rx
  <2>4. ASSUME NEW n, Alike(m, n), Ints(n) \subseteq {"RX_DONE"}, n.fw.post # "no" => n.ctx.status = "XFER_DONE",
               Busy(m) => n.usb.halts = {} /\ n.fw.post # "no" /\ Ints(n) = {}
        PROVE Good(n)
    <3>1. CpuOut(n)
      BY <2>2, <2>4 DEF CpuOut, Alike, DriveQuiet, Busy
    <3> QED BY <2>4, <3>1, AlikeGood
  <2>5. CASE m.ctx.status \notin {"PENDING", "HALT"}
    <3> DEFINE n == Cleared(m, {"RX_DONE", "DOUT_HALT"})
    <3>1. RxDone(m) = n
      BY <2>5 DEF RxDone
    <3> HIDE DEF n
    <3>2. /\ Alike(m, n) /\ n.ctx.status = m.ctx.status /\ n.usb.halts = m.usb.halts /\ n.fw.post = m.fw.post
          /\ Ints(n) = Ints(m) \ {"RX_DONE", "DOUT_HALT"}
      BY <2>1, ClearedAlike DEF n
    <3>3. ~Busy(m)
      BY <2>2, <2>5
    <3> QED BY <2>1, <2>2, <2>3, <2>4, <3>1, <3>2, <3>3
  <2>6. CASE m.ctx.status = "PENDING" /\ "out" \in m.usb.halts
    <3> DEFINE n == [m EXCEPT !.ctx.status = "HALT"]
    <3>1. RxDone(m) = n
      BY <2>1, <2>6 DEF RxDone, Halted
    <3> HIDE DEF n
    <3>2. /\ Alike(m, n) /\ n.ctx.status = "HALT" /\ n.fw.post = m.fw.post /\ n.usb.ints = m.usb.ints
      BY <2>1, StatusAlike DEF n
    <3>3. ~Busy(m) /\ m.fw.post = "no" /\ Ints(n) = Ints(m)
      BY <2>2, <2>6, <3>2 DEF Ints
    <3> QED BY <2>1, <2>3, <2>4, <3>1, <3>2, <3>3
  <2>7. CASE m.ctx.status = "PENDING" /\ "out" \notin m.usb.halts /\ FlowControlled(m)
    <3> DEFINE n == StallOut(m)
    <3>1. RxDone(m) = n
      BY <2>1, <2>7 DEF RxDone, Halted
    <3> HIDE DEF n
    <3>2. /\ Alike(m, n) /\ n.ctx.status = "HALT" /\ n.fw.post = m.fw.post /\ n.usb.ints = m.usb.ints
      BY <2>1, StallAlike DEF n
    <3>3. ~Busy(m)
      BY <2>2, <2>7 DEF FlowControlled
    <3>4. m.fw.post = "no" /\ Ints(n) = Ints(m)
      BY <2>2, <2>7, <3>2 DEF Ints
    <3> QED BY <2>1, <2>3, <2>4, <3>1, <3>2, <3>3, <3>4
  <2>8. CASE \/ m.ctx.status = "PENDING" /\ "out" \notin m.usb.halts /\ ~FlowControlled(m)
             \/ m.ctx.status = "HALT" /\ "out" \notin m.usb.halts
    <3> DEFINE n == rx_done_ok(m)
    <3>1. RxDone(m) = n
      BY <2>1, <2>8 DEF RxDone, Halted
    <3> HIDE DEF n
    <3>2. /\ Alike(m, n) /\ n.ctx.status = "XFER_DONE" /\ n.usb.halts = m.usb.halts /\ n.fw.post = "unread"
          /\ Ints(n) = Ints(m) \ {"RX_DONE", "DOUT_HALT"}
      BY <2>1, RxDoneOk DEF n
    <3> QED BY <2>1, <2>2, <2>3, <2>4, <3>1, <3>2
  <2>9. CASE m.ctx.status = "HALT" /\ "out" \in m.usb.halts
    <3>1. ~HostWaitsCsw(m)
      BY <2>2, <2>9 DEF HostWaitsCsw, Busy
    <3>2. RxDone(m) = m
      BY <2>1, <2>9, <3>1 DEF RxDone, Halted
    <3> QED BY <2>3, <3>2
  <2> QED BY <2>5, <2>6, <2>7, <2>8, <2>9
<1> QED BY <1>1, <1>2

LEMMA MscWrite == ASSUME NEW m, Good(m), Executing(m), WriteData(m) PROVE Good(usb_msc_isr(m))
<1>1. CASE Ints(m) = {}
  BY <1>1, NoInt
<1>2. CASE Ints(m) # {}
  <2>1. /\ Ints(m) \subseteq {"RX_DONE", "DOUT_HALT"} /\ m \in Machine /\ ~U2B(m.ctx) /\ m.ctx.ccm /\ m.fw.cur
        /\ m.fw.post = "no" /\ m.usb.halts \subseteq {"out"} /\ ("DOUT_HALT" \in Ints(m) => m.ctx.status = "HALT")
        /\ m.ctx.status \in {"PENDING", "HALT", "XFER_DONE"} /\ (m.ctx.status # "HALT" => m.usb.halts = {})
        /\ (Busy(m) => WriteHost(m))
    <3>1. "DOUT_HALT" \in m.usb.ints <=> "DOUT_HALT" \in Ints(m)
      BY IntIs DEF Pipes
    <3> QED BY <1>2, <3>1 DEF WriteData, Good, U2B
  <2>2. "TX_DONE" \notin m.usb.ints /\ "DIN_HALT" \notin m.usb.ints
        /\ ("RX_DONE" \in m.usb.ints <=> "RX_DONE" \in Ints(m)) /\ ("DOUT_HALT" \in m.usb.ints <=> "DOUT_HALT" \in Ints(m))
    BY <2>1, IntIs DEF Pipes
  <2>3. Busy(m) => /\ m.host.cmd = m.ctx.cmd /\ m.host.moved \in Nat /\ m.ctx.cmd.len \in Nat /\ m.host.moved <= m.ctx.cmd.len
                   /\ m.host.moved = m.ctx.cmd.len => m.host.done
    <3>1. m.host \in Hosts /\ m.ctx.cmd \in Commands
      BY <2>1 DEF Machine, Executing, HostSide
    <3> QED BY <2>1, <3>1, CommandIs DEF Executing, HostSide, HostIdle, Busy, Hosts, WriteHost
  <2>4. ASSUME NEW n, Alike(m, n), n.fw.post = "no", Ints(n) \subseteq Ints(m),
               "DOUT_HALT" \in Ints(n) => n.ctx.status = "HALT", n.usb.halts \subseteq {"out"},
               n.ctx.status \in {"HALT", "XFER_DONE"}, n.ctx.status = "XFER_DONE" => n.usb.halts = {},
               Busy(m) /\ m.host.stalled => n.usb.halts = {"out"},
               Busy(m) /\ (n.ctx.status = "XFER_DONE" \/ n.usb.halts = {}) => m.host.done
        PROVE Good(n)
    <3>1. "DOUT_HALT" \in n.usb.ints <=> "DOUT_HALT" \in Ints(n)
      BY IntIs DEF Pipes
    <3>2. Busy(m) => WriteHost(n)
      BY <2>1, <2>4 DEF WriteHost, Alike
    <3>3. WriteData(n)
      BY <2>1, <2>4, <3>1, <3>2 DEF WriteData, Alike, Busy
    <3> QED BY <2>4, <3>3, AlikeGood
  <2>5. CASE "RX_DONE" \in Ints(m)
    <3>1. usb_msc_isr(m) = RxDone(m)
      BY <2>2, <2>5 DEF usb_msc_isr, msc_isr_check_rx
    <3>2. CASE m.ctx.status = "XFER_DONE"
      <4> DEFINE n == Cleared(m, {"RX_DONE", "DOUT_HALT"})
      <4>1. RxDone(m) = n
        BY <3>2 DEF RxDone
      <4> HIDE DEF n
      <4>2. /\ Alike(m, n) /\ n.ctx.status = m.ctx.status /\ n.usb.halts = m.usb.halts /\ n.fw.post = m.fw.post
            /\ Ints(n) = Ints(m) \ {"RX_DONE", "DOUT_HALT"}
        BY <2>1, ClearedAlike DEF n
      <4>3. Busy(m) => m.host.done /\ ~m.host.stalled
        BY <2>1, <3>2 DEF WriteHost
      <4>4. n.usb.halts = {} /\ Ints(n) \subseteq Ints(m) /\ "DOUT_HALT" \notin Ints(n)
        BY <2>1, <3>2, <4>2
      <4> QED BY <2>1, <2>4, <3>1, <3>2, <4>1, <4>2, <4>3, <4>4
    <3>3. CASE m.ctx.status = "PENDING" /\ FlowControlled(m)
      <4> DEFINE n == StallOut(m)
      <4>1. RxDone(m) = n
        BY <2>1, <3>3 DEF RxDone, Halted
      <4> HIDE DEF n
      <4>2. /\ Alike(m, n) /\ n.ctx.status = "HALT" /\ n.usb.halts = m.usb.halts \cup {"out"} /\ n.fw.post = m.fw.post
            /\ n.usb.ints = m.usb.ints
        BY <2>1, StallAlike DEF n
      <4>3. n.usb.halts = {"out"} /\ Ints(n) = Ints(m)
        BY <2>1, <4>2 DEF Ints
      <4> QED BY <2>1, <2>4, <3>1, <4>1, <4>2, <4>3
    <3>4. CASE (m.ctx.status = "PENDING" /\ ~FlowControlled(m)) \/ (m.ctx.status = "HALT" /\ "out" \notin m.usb.halts)
      <4> DEFINE n == rx_done_ok(m)
      <4>1. RxDone(m) = n
        BY <2>1, <3>4 DEF RxDone, Halted
      <4> HIDE DEF n
      <4>2. /\ Alike(m, n) /\ n.ctx.status = "XFER_DONE" /\ n.usb.halts = m.usb.halts /\ n.fw.post = "no"
            /\ Ints(n) = Ints(m) \ {"RX_DONE", "DOUT_HALT"}
        BY <2>1, RxDoneOk DEF n
      <4>3. m.usb.halts = {}
        BY <2>1, <3>4
      <4>4. Busy(m) => m.host.done
        <5>1. CASE m.ctx.status = "PENDING" /\ ~FlowControlled(m)
          BY <2>3, <5>1 DEF FlowControlled
        <5>2. CASE m.ctx.status = "HALT"
          BY <2>1, <4>3, <5>2 DEF WriteHost
        <5> QED BY <3>4, <5>1, <5>2
      <4>5. Busy(m) => ~m.host.stalled
        BY <2>1, <4>3, <4>4 DEF WriteHost
      <4> QED BY <2>1, <2>4, <3>1, <4>1, <4>2, <4>3, <4>4, <4>5
    <3>5. CASE m.ctx.status = "HALT" /\ "out" \in m.usb.halts /\ ~HostWaitsCsw(m)
      <4>1. RxDone(m) = m
        BY <2>1, <3>5 DEF RxDone, Halted
      <4> QED BY <3>1, <4>1
    <3>6. CASE m.ctx.status = "HALT" /\ "out" \in m.usb.halts /\ HostWaitsCsw(m)
      <4> DEFINE u == [m.usb EXCEPT !.halts = m.usb.halts \ {"out"}]
                 n == [m EXCEPT !.usb = u]
      <4>1. RxDone(m) = n
        <5>1. [m EXCEPT !.usb.halts = @ \ {"out"}] = n
          BY <2>1 DEF Machine
        <5> HIDE DEF n
        <5> QED BY <2>1, <3>6, <5>1 DEF RxDone, Halted
      <4>2. /\ u \in Controllers /\ u.avail = m.usb.avail /\ u.ints = m.usb.ints /\ u.halts = m.usb.halts \ {"out"}
            /\ u.tx = m.usb.tx /\ u.rx = m.usb.rx /\ u.csw = m.usb.csw
        BY <2>1 DEF Machine, Controllers
      <4> HIDE DEF u
      <4>3. /\ n \in Machine /\ n.host = m.host /\ n.ctx = m.ctx /\ n.fw = m.fw /\ n.usb = u /\ n.drive = m.drive /\ n.seg = m.seg
        BY <2>1, <4>2 DEF Machine
      <4> HIDE DEF n
      <4>4. Alike(m, n) /\ Ints(n) = Ints(m) /\ n.usb.halts = {}
        BY <2>1, <4>2, <4>3 DEF Alike, Ints
      <4>5. m.host.done /\ (Busy(m) => ~m.host.stalled)
        BY <2>1, <3>6 DEF HostWaitsCsw, WriteHost
      <4> QED BY <2>1, <2>4, <3>1, <3>6, <4>1, <4>3, <4>4, <4>5
    <3> QED BY <2>1, <3>2, <3>3, <3>4, <3>5, <3>6
  <2>6. CASE "RX_DONE" \notin Ints(m)
    <3>1. "DOUT_HALT" \in m.usb.ints /\ "RX_DONE" \notin m.usb.ints /\ m.ctx.status = "HALT"
      BY <1>2, <2>1, <2>2, <2>6
    <3>2. CASE "out" \in m.usb.halts
      BY <2>2, <3>1, <3>2 DEF usb_msc_isr, msc_isr_check_rx, Halted
    <3>3. CASE "out" \notin m.usb.halts
      <4> DEFINE p == Cleared(m, {"DOUT_HALT"})
                 n == [p EXCEPT !.ctx.status = "XFER_DONE"]
      <4>1. usb_msc_isr(m) = n
        <5>1. usb_msc_isr(m) = DoutHalt(m)
          BY <2>2, <3>1, <3>3 DEF usb_msc_isr, msc_isr_check_rx, Halted
        <5> QED BY <2>1, <5>1 DEF DoutHalt
      <4> HIDE DEF p
      <4>2. /\ p \in Machine /\ p.host = m.host /\ p.fw = m.fw /\ p.drive = m.drive /\ p.seg = m.seg /\ p.ctx = m.ctx
            /\ p.usb.avail = m.usb.avail /\ p.usb.ints = m.usb.ints \ {"DOUT_HALT"} /\ p.usb.halts = m.usb.halts
            /\ p.usb.tx = m.usb.tx /\ p.usb.rx = m.usb.rx /\ p.usb.csw = m.usb.csw
        BY <2>1, ClearedIs DEF p
      <4>3. Alike(m, p)
        BY <4>2 DEF Alike, Resets
      <4> HIDE DEF n
      <4>4. /\ Alike(p, n) /\ n.ctx.status = "XFER_DONE" /\ n.usb.halts = p.usb.halts /\ n.fw.post = p.fw.post
            /\ n.usb.ints = p.usb.ints
        <5>1. n = [p EXCEPT !.ctx.status = "XFER_DONE"]
          BY DEF n
        <5> QED BY <4>2, <5>1, StatusAlike
      <4>5. Alike(m, n)
        BY <4>3, <4>4, AlikeTwice
      <4>6. n.usb.halts = {} /\ Ints(n) = Ints(m) \ {"DOUT_HALT"}
        BY <2>1, <3>3, <4>2, <4>4 DEF Ints
      <4>7. Busy(m) => m.host.done /\ ~m.host.stalled
        BY <2>1, <3>1, <3>3 DEF WriteHost
      <4> QED BY <2>1, <2>4, <4>1, <4>2, <4>4, <4>5, <4>6, <4>7
    <3> QED BY <3>2, <3>3
  <2> QED BY <2>5, <2>6
<1> QED BY <1>1, <1>2

LEMMA HandleMscKeeps == ASSUME Good(Now), HandleMsc PROVE Good(Now')
<1> DEFINE m == Now
<1>1. m.fw.at = "bot" /\ ~m.fw.asleep /\ "CSW_DONE" \notin m.usb.ints /\ Step(usb_msc_isr(m))
  BY NowIs DEF HandleMsc, InBot
<1>2. Good(m) /\ Phase(m)
  BY DEF Good, MachineInv
<1> HIDE DEF m
<1>3. Good(usb_msc_isr(m))
  <2>1. CASE Between(m) \/ Waiting(m)
    <3>1. Ints(m) = {}
      BY <1>1, <2>1 DEF Between, Waiting, LastEnds, LastEnded
    <3> QED BY <1>2, <3>1, NoInt
  <2>2. CASE Told(m)
    BY <1>2, <2>2, MscTold
  <2>3. CASE Executing(m)
    <3>1. NoData(m) => Good(usb_msc_isr(m))
      BY <1>2, <2>3, MscNoDataIn, MscNoDataOut DEF NoData
    <3>2. DriveOnly(m) => Good(usb_msc_isr(m))
      <4>1. DriveOnly(m) => Ints(m) = {}
        BY DEF DriveOnly
      <4> QED BY <1>2, <4>1, NoInt
    <3>3. NoData(m) \/ CpuIn(m) \/ CpuOut(m) \/ ReadData(m) \/ WriteData(m) \/ DriveOnly(m)
      BY <2>3 DEF Executing
    <3> QED BY <1>2, <2>3, <3>1, <3>2, <3>3, MscCpuIn, MscCpuOut, MscRead, MscWrite
  <2> QED BY <1>1, <1>2, <2>1, <2>2, <2>3 DEF Phase, Off, Resting, Invalid
<1> QED BY <1>1, <1>3, BecomeIs DEF Step, Good

(***************************************************************************)
(* The invariant.                                                          *)
(***************************************************************************)
LEMMA InitGood == ASSUME Init PROVE Good(Now)
<1> DEFINE m == Now
           e == [ch \in Chs |-> DownDrive]
<1>1. /\ m.host = Idle /\ m.ctx = NoCtx /\ m.fw = ResetFw /\ m.usb = QuietUsb /\ m.drive = e /\ m.seg = rst_all_seg
      /\ m = [host |-> m.host, ctx |-> m.ctx, fw |-> m.fw, usb |-> m.usb, drive |-> m.drive, seg |-> m.seg]
  BY DEF Init, Now
<1> HIDE DEF m
<1>2. e \in [Chs -> Drives] /\ \A ch \in Chs : e[ch].st = "down" /\ ~e[ch].init /\ ~e[ch].park
  BY DEF DownDrive, ResetDrive, Drives
<1> HIDE DEF e
<1>3. Idle \in Hosts /\ Idle.at = "idle" /\ ~Idle.failed
  BY DEF Idle, Hosts
<1>4. /\ ResetFw \in Firmwares /\ ResetFw.at = "off" /\ ~ResetFw.new /\ ResetFw.timer = 0 /\ ~ResetFw.asleep
  <2>1. 0 \in 0..Spinup
    BY BotAssumption
  <2> QED BY <2>1 DEF ResetFw, Firmwares
<1>5. QuietUsb \in Controllers
  BY DEF QuietUsb, Controllers
<1>6. m \in Machine
  <2>1. rst_all_seg \in Segments
    BY FreshSegs
  <2> QED BY <1>1, <1>2, <1>3, <1>4, <1>5, <2>1, NoCtxIs DEF Machine
<1>7. DrivesInv(m)
  BY <1>1, <1>2, <1>4 DEF DrivesInv, Coming, Chs
<1>8. SegInv(m)
  BY <1>1, FreshSegs, SegInvIs
<1>9. Off(m)
  BY <1>1, <1>2, <1>3, <1>4 DEF Off, HostIdle
<1> QED BY <1>6, <1>7, <1>8, <1>9 DEF Good, MachineInv, Phase, m

LEMMA NextGood == ASSUME Good(Now), NoMismatch, [Next]_vars PROVE Good(Now')
<1>1. CASE Firmware
  BY <1>1, EnterBotKeeps, ReceiveCBWKeeps, TakeUpCBWKeeps, WaitForReadyKeeps, HandleCswKeeps, HandleMscKeeps,
     HandleSataKeeps, RspUnitKeeps, PostDataOutKeeps, BulkResetKeeps, BusResetKeeps, FisTimerKeeps DEF Firmware
<1>2. CASE Hardware
  <2>1. CASE \E ch \in Chs : PhyReady(ch) \/ ReadIdStarts(ch) \/ ReadIdEnds(ch) \/ SetupEnds(ch)
    BY <2>1, PhyReadyKeeps, ReadIdStartsKeeps, ReadIdEndsKeeps, SetupEndsKeeps
  <2>2. CASE DataInEnds \/ DataInRefused \/ DataOutRefused \/ DataOutEnds \/ DriveTakes \/ DriveEnds
    BY <2>2, DataInEndsKeeps, DataInRefusedKeeps, DataOutRefusedKeeps, DataOutEndsKeeps, DriveTakesKeeps, DriveEndsKeeps
  <2> QED BY <1>2, <2>1, <2>2 DEF Hardware
<1>3. CASE HostGoesOn
  BY <1>3, HostSendsDataKeeps, HostStallsKeeps, HostClearsHaltKeeps, HostTakesCswKeeps, HostResetsKeep DEF HostGoesOn
<1>4. CASE Rare
  BY <1>4, HostResetsKeep, StandbyKeeps, FisTimerKeeps, usb_suspendKeeps, ResumeKeeps, UnplugKeeps, PlugKeeps DEF Rare
<1>5. CASE \E c \in Commands : HostSends(c)
  BY <1>5, HostSendsKeeps
<1>6. CASE UNCHANGED vars
  <2>1. Now' = Now
    BY <1>6 DEF vars, Now
  <2> QED BY <2>1
<1> QED BY <1>1, <1>2, <1>3, <1>4, <1>5, <1>6 DEF Next, Progress

LEMMA LeftIs == ASSUME [Next]_vars, left \in 0..Budget PROVE left' \in 0..Budget
<1>1. left' = left \/ (left > 0 /\ left' = left - 1)
  <2>1. CASE Firmware
    BY <2>1 DEF Firmware, EnterBot, ReceiveCBW, TakeUpCBW, WaitForReady, HandleCsw, HandleMsc, HandleSata, RspUnit,
       PostDataOut, BulkReset, BusReset, FisTimerDue, Step
  <2>2. CASE Hardware
    <3>1. \A ch \in Chs : SetupEnds(ch) => left' = left
      BY DEF SetupEnds, Step
    <3> QED BY <2>2, <3>1 DEF Hardware, PhyReady, ReadIdStarts, ReadIdEnds, DataInEnds, DataInRefused, DataOutRefused,
       DataOutEnds, DriveTakes, DriveEnds
  <2>3. CASE HostGoesOn
    BY <2>3 DEF HostGoesOn, HostSendsData, HostStalls, HostClearsHalt, HostTakesCsw, HostGivesUp
  <2>4. CASE Rare
    BY <2>4 DEF Rare, HostBulkReset, HostBusReset, Standby, FisTimerEarly, usb_suspend, Resume, Unplug, Plug, Spend, Step
  <2>5. CASE \E c \in Commands : HostSends(c)
    BY <2>5 DEF HostSends
  <2>6. CASE UNCHANGED vars
    BY <2>6 DEF vars
  <2> QED BY <2>1, <2>2, <2>3, <2>4, <2>5, <2>6 DEF Next, Progress
<1> QED BY <1>1, BotAssumption

\* The bridge is always in one of its phases, with the drives and the segments
\* in order.  (UsbInvariant: what each handler of bot.c, usb.c, scsi.c and sata.c
\* relies on of the others.)
THEOREM InvHolds == ASSUME NoMismatch PROVE Spec => []Inv
<1>1. Init => Inv
  <2>1. Budget \in 0..Budget
    BY BotAssumption
  <2> QED BY <2>1, InitGood DEF Init, Inv, TypeOK, Good
<1>2. Inv /\ [Next]_vars => Inv'
  <2> SUFFICES ASSUME Inv, [Next]_vars PROVE Inv'
    OBVIOUS
  <2>1. Good(Now') /\ left \in 0..Budget
    BY NextGood DEF Inv, TypeOK, Good
  <2>2. left' \in 0..Budget
    BY <2>1, LeftIs
  <2> QED BY <2>1, <2>2 DEF Good, Inv, TypeOK, Now
<1> QED BY <1>1, <1>2, PTL DEF Spec

\* Towards the host a command uses neither the CPU as the last port nor, but
\* for TX 1 of a READ, the drive as the first.
LEMMA TxRoute ==
  ASSUME NEW i \in CtxSegs, NEW r \in Route(i), r.seg[1] = "tx"
  PROVE r.out # "CPU" /\ r.in # "SATA1" /\ (r.in = "SATA0" => r.seg = <<"tx", 1>>)
<1>1. CASE i = U2BR
  BY <1>1 DEF U2BR, NoSeg, Route, CpuRoute, Copies, Tx
<1>2. CASE i = U2BW
  BY <1>2 DEF U2BW, NoSeg, Route, CpuRoute, Copies, Rx
<1>3. CASE i = ReadSeg
  BY <1>3, ReadRoute DEF Tx
<1>4. CASE i = WriteSeg
  BY <1>4, BotAssumption DEF WriteSeg, NoSeg, Route, HostRoute, Copies, Sata, Rx
<1> QED BY <1>1, <1>2, <1>3, <1>4 DEF CtxSegs

LEMMA OwnedApart ==
  ASSUME NEW d, NEW i \in CtxSegs \cup {NoSeg}, NEW dr, Owned(d, i, dr)
  PROVE PortsApart(d)
<1> SUFFICES ASSUME NEW s \in Segs, NEW t \in Segs, s # t, s[1] = t[1]
             PROVE /\ d[s].in # None => d[s].in # d[t].in
                   /\ d[s].out # None => d[s].out # d[t].out
  BY DEF PortsApart
<1>1. \A x \in {s, t} : /\ d[x].busy \/ (d[x].in = None /\ d[x].out = None)
                        /\ d[x].busy => Serving(d[x], i, x) \/ Identifying(d[x], x, dr)
  BY DEF Owned, OwnedSeg
<1>2. CASE ~d[s].busy \/ ~d[t].busy
  BY <1>1, <1>2
<1>3. CASE Serving(d[s], i, s) /\ Serving(d[t], i, t)
  <2>1. PICK r \in Route(i) : r.seg = s /\ d[s].in \in {None, r.in} /\ d[s].out \in {None, r.out}
    BY <1>3 DEF Serving
  <2>2. PICK q \in Route(i) : q.seg = t /\ d[t].in \in {None, q.in} /\ d[t].out \in {None, q.out}
    BY <1>3 DEF Serving
  <2>3. i \in CtxSegs
    BY <1>3 DEF Serving
  <2>4. r.in # q.in /\ r.out # q.out
    BY <2>1, <2>2, <2>3, UseIs, RouteApart
  <2> QED BY <2>1, <2>2, <2>4
<1>4. ASSUME NEW x \in Segs, NEW y \in Segs, x[1] = y[1], Serving(d[x], i, x), Identifying(d[y], y, dr)
      PROVE /\ d[x].in # None => d[x].in # d[y].in
            /\ d[x].out # None => d[x].out # d[y].out
            /\ d[y].in # d[x].in /\ d[y].out # d[x].out
  <2>1. PICK r \in Route(i) : r.seg = x /\ d[x].in \in {None, r.in} /\ d[x].out \in {None, r.out}
    BY <1>4 DEF Serving
  <2>2. y = <<"tx", 4>> /\ d[y].out = "CPU" /\ \E ch \in Chs : dr[ch].st = "id" /\ d[y].in = Sata(ch)
    BY <1>4 DEF Identifying
  <2>3. i \in CtxSegs /\ r.seg[1] = "tx"
    BY <1>4, <2>1, <2>2 DEF Serving
  <2>4. r.out # "CPU" /\ r.in # "SATA1" /\ (r.in = "SATA0" => r.seg = <<"tx", 1>>)
    BY <2>1, <2>3, TxRoute
  <2>5. d[x].out # "CPU"
    BY <2>1, <2>4 DEF None
  <2>6. d[x].in # d[y].in
    <3>1. d[y].in \in {"SATA0", "SATA1"} /\ (d[y].in = "SATA0" => dr[0].st = "id")
      BY <2>2 DEF Sata, Chs
    <3>2. d[x].in = "SATA0" => x = <<"tx", 1>>
      BY <2>1, <2>4 DEF None
    <3>3. d[x].in = "SATA0" => dr[0].st = "active"
      BY <3>2 DEF Owned
    <3>4. d[x].in # "SATA1"
      BY <2>1, <2>4 DEF None
    <3> QED BY <3>1, <3>3, <3>4
  <2> QED BY <2>2, <2>5, <2>6
<1>5. ~(Identifying(d[s], s, dr) /\ Identifying(d[t], t, dr))
  BY DEF Identifying
<1>6. Serving(d[s], i, s) /\ Identifying(d[t], t, dr) => (d[s].in # None => d[s].in # d[t].in) /\ (d[s].out # None => d[s].out # d[t].out)
  BY <1>4
<1>7. Identifying(d[s], s, dr) /\ Serving(d[t], i, t) => (d[s].in # None => d[s].in # d[t].in) /\ (d[s].out # None => d[s].out # d[t].out)
  BY <1>4
<1> QED BY <1>1, <1>2, <1>3, <1>5, <1>6, <1>7

(***************************************************************************)
(* What follows from the invariant.                                        *)
(***************************************************************************)
\* The variables keep their types.  (The records of bot.c, usb.c, sata.c.)
THEOREM TypesHold == ASSUME NoMismatch PROVE Spec => []TypeOK
<1>1. Inv => TypeOK
  BY DEF Inv
<1> QED BY <1>1, InvHolds, PTL

\* The drive is done with a command before its status can be fetched.
\* (set_csw_run, after sata_isr and every early end of a command.)
THEOREM DriveDone == ASSUME NoMismatch PROVE Spec => []DriveDoneBeforeStatus
<1>1. Inv => DriveDoneBeforeStatus
  <2> DEFINE m == Now
  <2> SUFFICES ASSUME Inv, m.usb.csw # None PROVE DriveQuiet(m)
    BY NowIs DEF DriveDoneBeforeStatus, DriveQuiet
  <2>1. Phase(m)
    BY DEF Inv, MachineInv
  <2> HIDE DEF m
  <2>2. Told(m)
    BY <2>1 DEF Phase, Off, QuietUsb, Resting, Between, Waiting, Invalid, Executing, QuietPipe
  <2> QED BY <2>2 DEF Told
<1> QED BY <1>1, InvHolds, PTL

\* Every busy segment has its owner, and no port serves two of them.  (dbuf.c.)
THEOREM SegmentsOwned == ASSUME NoMismatch PROVE Spec => []SegmentOwner
<1>1. Inv => SegmentOwner
  <2> SUFFICES ASSUME Inv PROVE SegmentOwner
    OBVIOUS
  <2>1. Owned(seg, Holds(Now), drive) /\ ctx \in Contexts
    BY SegInvIs, NowIs DEF Inv, MachineInv, TypeOK, Machine
  <2>2. Holds(Now) \in {NoSeg, ctx.seg} /\ Holds(Now) \in CtxSegs \cup {NoSeg}
    BY <2>1, NowIs DEF Holds, Contexts, CtxSegs
  <2>3. PortsApart(seg)
    BY <2>1, <2>2, OwnedApart
  <2>4. ASSUME NEW s \in Segs, seg[s].busy
        PROVE \/ ctx.seg # NoSeg /\ s \in SegsOf(ctx.seg)
              \/ \E ch \in Chs : drive[ch].st = "id" /\ s \in SegsOf(ReadID(ch))
    <3>1. Serving(seg[s], Holds(Now), s) \/ Identifying(seg[s], s, drive)
      BY <2>1, <2>4 DEF Owned, OwnedSeg
    <3>2. Serving(seg[s], Holds(Now), s) => ctx.seg # NoSeg /\ s \in SegsOf(ctx.seg)
      BY <2>2 DEF Serving, SegsOf
    <3>3. Identifying(seg[s], s, drive) => \E ch \in Chs : drive[ch].st = "id" /\ s \in SegsOf(ReadID(ch))
      BY IdRoute DEF Identifying
    <3> QED BY <3>1, <3>2, <3>3
  <2> QED BY <2>3, <2>4 DEF SegmentOwner
<1> QED BY <1>1, InvHolds, PTL

\* Between two commands nothing of the last one is left.  (CSW_DONE, bot.c.)
THEOREM NothingIsLeft == ASSUME NoMismatch PROVE Spec => []NothingLeft
<1>1. Inv => NothingLeft
  <2> DEFINE m == Now
  <2> SUFFICES ASSUME Inv, BetweenCommands
               PROVE /\ m.usb.halts = {} /\ m.usb.ints = {} /\ m.usb.tx = None /\ m.usb.rx = None /\ m.usb.csw = None
                     /\ ~m.fw.new /\ ~m.fw.que /\ ~m.fw.cur /\ m.fw.post = "no" /\ DriveQuiet(m)
                     /\ \A s \in Segs : m.seg[s].busy =>
                          \E ch \in Chs : m.drive[ch].st = "id" /\ s \in SegsOf(ReadID(ch))
    BY NowIs DEF NothingLeft, DriveQuiet
  <2>1. Phase(m) /\ SegInv(m) /\ m \in Machine
    BY DEF Inv, MachineInv, TypeOK
  <2>2. m.fw.at = "bot" /\ m.host.at = "idle" /\ ~m.usb.avail /\ ~Asked(m) /\ "CSW_DONE" \notin m.usb.ints
    BY NowIs DEF BetweenCommands, InBot, ResetAsked, Asked, Resets
  <2> HIDE DEF m
  <2>3. Between(m) /\ LastEnded(m)
    <3>1. ~Waiting(m) /\ ~Executing(m) /\ ~Told(m)
      BY <2>2 DEF Waiting, Fresh, Executing, Told, HostSide, Busy
    <3>2. Between(m)
      BY <2>1, <2>2, <3>1 DEF Phase, Off, Resting, Invalid
    <3> QED BY <2>2, <3>2 DEF Between, LastEnds
  <2>4. m.usb.ints = {}
    BY <2>2, <2>3 DEF LastEnded, Ints, Asked
  <2>5. \A s \in Segs : m.seg[s].busy => \E ch \in Chs : m.drive[ch].st = "id" /\ s \in SegsOf(ReadID(ch))
    <3>1. Owned(m.seg, NoSeg, m.drive)
      <4>1. Holds(m) = NoSeg
        BY <2>3 DEF LastEnded, Holds, Held
      <4> QED BY <2>1, <4>1, SegInvIs
    <3>2. \A s \in Segs : m.seg[s].busy => Identifying(m.seg[s], s, m.drive)
      BY <3>1 DEF Owned, OwnedSeg, Serving
    <3> QED BY <3>2, IdRoute DEF Identifying
  <2> QED BY <2>3, <2>4, <2>5 DEF Between, LastEnded, QuietPipe
<1> QED BY <1>1, InvHolds, PTL

(***************************************************************************)
(* Handlers of the firmware leave the host alone.                          *)
(***************************************************************************)
HasHost(m) == "host" \in DOMAIN m
\* n came of m in the firmware.
SameHost(m, n) == HasHost(n) /\ n.host = m.host

LEMMA QueHost == ASSUME NEW m, HasHost(m) PROVE SameHost(m, usb_exec_que_ctxt(m))
<1>1. ASSUME NEW k, HasHost(k) PROVE SameHost(k, usb_ctxt_send_status(k))
  BY <1>1 DEF usb_ctxt_send_status, HasHost, SameHost
<1>2. SameHost(m, usb_exec_tx_ctxt(m))
  BY <1>1 DEF usb_exec_tx_ctxt, HasHost, SameHost
<1>3. SameHost(m, usb_exec_rx_ctxt(m))
  BY DEF usb_exec_rx_ctxt, HasHost, SameHost
<1> QED BY <1>2, <1>3 DEF usb_exec_que_ctxt, HasHost, SameHost

LEMMA NoDataHost == ASSUME NEW m, HasHost(m) PROVE SameHost(m, usb_device_no_data(m))
BY QueHost DEF usb_device_no_data, HasHost, SameHost

LEMMA AnswerHost == ASSUME NEW m, HasHost(m), NEW s PROVE SameHost(m, Answer(m, s))
BY NoDataHost DEF Answer, HasHost, SameHost

\* Setting a field other than the host.
LEMMA SetHost == ASSUME NEW m, HasHost(m), NEW v
                 PROVE /\ SameHost(m, [m EXCEPT !.ctx = v]) /\ SameHost(m, [m EXCEPT !.seg = v])
                       /\ SameHost(m, [m EXCEPT !.drive = v]) /\ SameHost(m, [m EXCEPT !.fw = v])
                       /\ SameHost(m, [m EXCEPT !.usb = v])
BY DEF HasHost, SameHost

LEMMA DataInHost == ASSUME NEW m, HasHost(m), NEW b PROVE SameHost(m, bot_device_data_in(m, b))
<1> DEFINE n == [m EXCEPT !.ctx = [@ EXCEPT !.flag = "U2B", !.status = "GOOD"]]
           len == m.ctx.cmd.len
           to == [n EXCEPT !.ctx = [@ EXCEPT !.seg = U2BR, !.phase = IF len > b THEN 5 ELSE 6, !.nodata = FALSE],
                           !.seg = set_dbufSource(@, U2BR)]
<1>1. SameHost(m, n)
  BY DEF HasHost, SameHost
<1>2. bot_device_data_in(m, b) =
        IF b = 0 THEN usb_device_no_data(n)
        ELSE usb_exec_que_ctxt(IF len = 0 \/ m.ctx.dir = "out" THEN Refuse(n, 2, 10) ELSE to)
  BY Zenon DEF bot_device_data_in
<1> HIDE DEF n
<1>3. SameHost(n, to) /\ SameHost(n, Refuse(n, 2, 10))
  BY <1>1 DEF HasHost, SameHost, Refuse
<1> HIDE DEF to
<1> QED BY <1>1, <1>2, <1>3, NoDataHost, QueHost DEF SameHost

LEMMA DataOutHost == ASSUME NEW m, HasHost(m), NEW b, m.ctx.dir \in {"in", "out"}
                     PROVE SameHost(m, bot_device_data_out(m, b))
<1> DEFINE n == [m EXCEPT !.ctx = [@ EXCEPT !.flag = "U2B", !.status = "PENDING"]]
           len == m.ctx.cmd.len
           from == [n EXCEPT !.ctx = [@ EXCEPT !.seg = U2BW, !.phase = 12, !.nodata = FALSE]]
           short == [n EXCEPT !.ctx = [@ EXCEPT !.seg = U2BW, !.phase = 13, !.status = "PHASE"]]
           good == [n EXCEPT !.ctx.status = "GOOD"]
           refused == [Refuse(n, 3, 8) EXCEPT !.ctx.seg = NoSeg]
<1>1. SameHost(m, n)
  BY DEF HasHost, SameHost
<1>2. bot_device_data_out(m, b) =
        CASE b = 0 -> usb_device_no_data(good)
          [] b # 0 /\ (len = 0 \/ m.ctx.dir = "in") -> usb_exec_que_ctxt(refused)
          [] b # 0 /\ len # 0 /\ m.ctx.dir = "out" ->
               IF len < b THEN usb_device_no_data(short) ELSE usb_exec_que_ctxt(from)
  BY DEF bot_device_data_out
<1> HIDE DEF n
<1>3. SameHost(n, from) /\ SameHost(n, short) /\ SameHost(n, good)
  BY <1>1 DEF HasHost, SameHost
<1>4. SameHost(n, refused)
  BY <1>1 DEF HasHost, SameHost, Refuse
<1> HIDE DEF from, short, good, refused
<1>5. /\ SameHost(n, usb_device_no_data(good)) /\ SameHost(n, usb_exec_que_ctxt(refused))
      /\ SameHost(n, usb_device_no_data(short)) /\ SameHost(n, usb_exec_que_ctxt(from))
  BY <1>3, <1>4, NoDataHost, QueHost DEF SameHost
<1> QED BY <1>1, <1>2, <1>5 DEF SameHost

LEMMA ExecHost == ASSUME NEW m, HasHost(m) PROVE SameHost(m, sata_exec_scm(m)) /\ SameHost(m, sata_exec_ctxt(m))
<1>1. ASSUME NEW k, HasHost(k) PROVE SameHost(k, sata_exec_scm(k))
  <2> DEFINE d == [k.drive EXCEPT ![0] = [@ EXCEPT !.st = "active", !.end = "no", !.park = FALSE,
                                              !.tcnt = IF k.ctx.cmd.op = "WRITE" THEN k.ctx.cmd.dev ELSE 0]]
             n == [k EXCEPT !.drive = d]
             s == IF k.ctx.dir = "in" THEN set_dbufSource(n.seg, k.ctx.seg) ELSE n.seg
             q == [n EXCEPT !.seg = s]
  <2>1. sata_exec_scm(k) = IF k.ctx.flag = "VERIFY" THEN n ELSE usb_exec_que_ctxt(q)
    BY DEF sata_exec_scm
  <2> HIDE DEF d, s
  <2>2. SameHost(k, n) /\ SameHost(k, q)
    BY <1>1 DEF HasHost, SameHost
  <2> HIDE DEF n, q
  <2> QED BY <2>1, <2>2, QueHost DEF SameHost
<1>2. SameHost(m, sata_exec_ctxt(m))
  <2> DEFINE n == [m EXCEPT !.ctx.ccm = TRUE, !.ctx.status = "PENDING"]
             p == [n EXCEPT !.drive[0].park = TRUE]
  <2>1. sata_exec_ctxt(m) = IF m.drive[0].st = "ready" THEN sata_exec_scm(n) ELSE p
    BY DEF sata_exec_ctxt
  <2>2. SameHost(m, n)
    BY DEF HasHost, SameHost
  <2> HIDE DEF n
  <2>3. SameHost(n, p)
    BY <2>2 DEF HasHost, SameHost
  <2> HIDE DEF p
  <2> QED BY <1>1, <2>1, <2>2, <2>3 DEF SameHost
<1> QED BY <1>1, <1>2

LEMMA StartupHost == ASSUME NEW m, HasHost(m)
                     PROVE SameHost(m, ata_startup_hdd(m)) /\ SameHost(m, Wake(m))
<1>1. SameHost(m, ata_startup_hdd(m))
  BY DEF ata_startup_hdd, set_hdd_power, HasHost, SameHost
<1>2. SameHost(m, Wake(m))
  BY <1>1 DEF Wake, HasHost, SameHost
<1> QED BY <1>1, <1>2

LEMMA AtaHost ==
  ASSUME NEW m \in Machine
  PROVE /\ SameHost(m, Verify(m)) /\ SameHost(m, TestUnitReady(m))
        /\ SameHost(m, StartUnit(m)) /\ SameHost(m, StopUnit(m))
<1>1. HasHost(m)
  BY DEF Machine, HasHost
<1>2. SameHost(m, Verify(m))
  <2> DEFINE v == [m EXCEPT !.ctx = [@ EXCEPT !.seg = NoSeg, !.flag = "VERIFY", !.phase = 1]]
  <2>1. SameHost(m, v)
    BY <1>1, SetHost
  <2>2. Verify(m) = IF m.ctx.state = "SETUP_DONE" /\ ~DrivesOn(m) THEN Wake(m) ELSE sata_exec_ctxt(v)
    BY DEF Verify
  <2> HIDE DEF v
  <2> QED BY <1>1, <2>1, <2>2, StartupHost, ExecHost DEF SameHost
<1>3. SameHost(m, TestUnitReady(m))
  BY <1>1, AnswerHost DEF TestUnitReady
<1>4. SameHost(m, StartUnit(m))
  <2> DEFINE a == ata_startup_hdd(m)
             v == [a EXCEPT !.fw.timer = 0, !.ctx = [@ EXCEPT !.seg = NoSeg, !.flag = "VERIFY", !.dir = "in"]]
  <2>1. SameHost(m, a)
    BY <1>1, StartupHost
  <2>2. StartUnit(m) = IF m.drive[0].st # "down" THEN Answer(m, "GOOD") ELSE sata_exec_ctxt(v)
    BY DEF StartUnit
  <2> HIDE DEF a
  <2>3. SameHost(a, v)
    BY <2>1 DEF HasHost, SameHost
  <2> HIDE DEF v
  <2> QED BY <1>1, <2>1, <2>2, <2>3, AnswerHost, ExecHost DEF SameHost
<1>5. SameHost(m, StopUnit(m))
  <2> DEFINE a == ata_shutdown_hdd(m, {0})
  <2>1. SameHost(m, a)
    BY <1>1 DEF ata_shutdown_hdd, set_hdd_power, HasHost, SameHost
  <2>2. StopUnit(m) = Answer(a, "GOOD")
    BY DEF StopUnit
  <2> HIDE DEF a
  <2> QED BY <2>1, <2>2, AnswerHost DEF SameHost
<1> QED BY <1>2, <1>3, <1>4, <1>5

LEMMA ExecuteHost == ASSUME NEW m \in Machine PROVE SameHost(m, Execute(m))
<1>1. HasHost(m) /\ m.ctx \in Contexts
  BY DEF Machine, HasHost
<1>2. SameHost(m, TurnAway(m))
  BY <1>1, StartupHost, AnswerHost DEF TurnAway, NoBlocks
<1>3. ASSUME NEW s PROVE SameHost(m, RunRW(m, s))
  <2> DEFINE c == [m.ctx EXCEPT !.seg = s, !.flag = IF Cipher THEN "AES" ELSE "", !.nodata = FALSE]
             v == [m EXCEPT !.ctx = c]
  <2>1. RunRW(m, s) = sata_exec_ctxt(v)
    BY DEF RunRW
  <2> HIDE DEF c
  <2>2. SameHost(m, v)
    BY <1>1, SetHost
  <2> HIDE DEF v
  <2> QED BY <2>1, <2>2, ExecHost DEF SameHost
<1>4. SameHost(m, Read(m))
  BY <1>2, <1>3 DEF Read
<1>5. SameHost(m, Write(m))
  BY <1>1, <1>2, <1>3, AnswerHost DEF Write
<1>6. SameHost(m, scsi_StartAtaCmd(m))
  <2> DEFINE c == [m.ctx EXCEPT !.status = "GOOD", !.state = "SETUP_DONE"]
             n == [m EXCEPT !.ctx = c]
             b == m.ctx.cmd.dev
  <2>1. c \in Contexts
    BY <1>1 DEF Contexts, Final
  <2>2. scsi_StartAtaCmd(m) =
          CASE m.ctx.cmd.op = "VERIFY" -> Verify(n)
            [] m.ctx.cmd.op = "TUR" -> TestUnitReady(n)
            [] m.ctx.cmd.op = "START" -> StartUnit(n)
            [] m.ctx.cmd.op = "STOP" -> StopUnit(n)
            [] m.ctx.cmd.op = "INQ" -> bot_device_data_in(n, b)
            [] m.ctx.cmd.op = "SEL" -> bot_device_data_out(n, b)
            [] OTHER -> Answer(n, "ERROR")
    <3>1. n = [m EXCEPT !.ctx.status = "GOOD", !.ctx.state = "SETUP_DONE"]
      OBVIOUS
    <3> HIDE DEF n
    <3> QED BY <3>1 DEF scsi_StartAtaCmd
  <2> HIDE DEF c
  <2>3. n \in Machine /\ n.ctx = c
    BY <2>1 DEF Machine
  <2>4. SameHost(m, n)
    BY <1>1, SetHost
  <2>5. n.ctx.dir \in {"in", "out"}
    BY <2>1, <2>3 DEF Contexts
  <2> HIDE DEF n, b
  <2>6. /\ SameHost(n, Verify(n)) /\ SameHost(n, TestUnitReady(n)) /\ SameHost(n, StartUnit(n))
        /\ SameHost(n, StopUnit(n)) /\ SameHost(n, bot_device_data_in(n, b))
        /\ SameHost(n, bot_device_data_out(n, b)) /\ SameHost(n, Answer(n, "ERROR"))
    <3>1. HasHost(n)
      BY <2>4 DEF SameHost
    <3> QED BY <2>3, <2>5, <3>1, AtaHost, DataInHost, DataOutHost, AnswerHost
  <2> QED BY <2>2, <2>4, <2>6 DEF SameHost
<1> QED BY <1>4, <1>5, <1>6 DEF Execute

LEMMA ProcessHost == ASSUME NEW m, Upcoming(m) PROVE ProcessCBW(m).host = m.host
<1> DEFINE p == [m EXCEPT !.usb.csw = None]
           q == usb_QEnum(m)
           n == [q EXCEPT !.fw.new = FALSE, !.fw.cbw = TRUE]
           s == Setup(n)
           x == StallBoth(n)
<1>1. p = m
  BY DEF Upcoming, Waiting, QuietPipe, Machine, Controllers
<1>2. ProcessCBW(m) = IF MustWait(m) THEN q ELSE IF q.ctx.state # "RECEIVE_CIU" THEN Execute(n)
                      ELSE IF m.ctx.cmd.op = "BAD" THEN x ELSE Execute(s)
  <2> DEFINE w == usb_QEnum(p)
             v == [w EXCEPT !.fw.new = FALSE, !.fw.cbw = TRUE]
  <2>1. ProcessCBW(m) = IF MustWait(m) THEN w ELSE IF w.ctx.state # "RECEIVE_CIU" THEN Execute(v)
                        ELSE IF m.ctx.cmd.op = "BAD" THEN StallBoth(v) ELSE Execute(Setup(v))
    BY DEF ProcessCBW
  <2>2. w = q
    BY <1>1
  <2> HIDE DEF w, q
  <2>3. v = n
    BY <2>2
  <2> HIDE DEF n, v
  <2> QED BY <2>1, <2>2, <2>3
<1>3. q \in Machine /\ q.host = m.host
  <2> HIDE DEF q
  <2>1. q = usb_QEnum(m)
    BY DEF q
  <2> QED BY <2>1, QEnumIs
<1> HIDE DEF q
<1>4. n \in Machine /\ n.host = m.host
  BY <1>3 DEF Machine, Firmwares
<1> HIDE DEF n
<1>5. s \in Machine /\ s.host = m.host
  <2> HIDE DEF s
  <2>1. s = Setup(n)
    BY DEF s
  <2> QED BY <1>4, <2>1, SetupIs
<1>6. x.host = m.host
  BY <1>4 DEF StallBoth, Machine
<1> HIDE DEF s, x
<1> QED BY <1>2, <1>3, <1>4, <1>5, <1>6, ExecuteHost DEF SameHost

\* The interrupts of the pipes and of the drive.
LEMMA MscHost == ASSUME NEW m \in Machine PROVE usb_msc_isr(m).host = m.host
<1>1. HasHost(m) /\ m.ctx.status \in Final \cup {None, "PENDING", "HALT", "XFER_DONE"}
  BY DEF Machine, HasHost, Contexts
<1>2. ASSUME NEW k, HasHost(k) PROVE SameHost(k, usb_ctxt_send_status(k))
  BY <1>2 DEF usb_ctxt_send_status, HasHost, SameHost
<1>3. ASSUME NEW k, HasHost(k), NEW ints PROVE SameHost(k, Cleared(k, ints))
  BY <1>3 DEF Cleared, HasHost, SameHost
<1>4. ASSUME NEW k, HasHost(k) PROVE SameHost(k, StallOut(k)) /\ SameHost(k, ReleaseSeg(k))
  BY <1>4 DEF StallOut, ReleaseSeg, HasHost, SameHost
<1>5. ASSUME NEW k, HasHost(k), NEW s PROVE SameHost(k, [k EXCEPT !.ctx.status = s]) /\ SameHost(k, [k EXCEPT !.fw.post = s])
  BY <1>5 DEF HasHost, SameHost
<1>6. ASSUME NEW k, HasHost(k) PROVE SameHost(k, rx_done_ok(k))
  <2> DEFINE n == Cleared(k, {"RX_DONE", "DOUT_HALT"})
             done == [n EXCEPT !.ctx.status = "XFER_DONE"]
             post == [done EXCEPT !.fw.post = "unread"]
  <2>1. SameHost(k, n)
    BY <1>3, <1>6
  <2>2. rx_done_ok(k) = CASE U2B(k.ctx) -> post [] ~U2B(k.ctx) /\ k.ctx.ccm -> done [] OTHER -> n
    BY DEF rx_done_ok
  <2> HIDE DEF n
  <2>3. SameHost(k, done)
    BY <1>5, <2>1 DEF SameHost
  <2> HIDE DEF done
  <2>4. SameHost(k, post)
    BY <1>5, <2>3 DEF SameHost
  <2> HIDE DEF post
  <2> QED BY <2>1, <2>2, <2>3, <2>4
<1>7. ASSUME NEW k, HasHost(k) PROVE SameHost(k, RxDone(k))
  <2> DEFINE a == Cleared(k, {"RX_DONE", "DOUT_HALT"})
             b == [k EXCEPT !.ctx.status = "HALT"]
             c == [k EXCEPT !.usb.halts = @ \ {"out"}]
  <2>1. SameHost(k, a) /\ SameHost(k, b) /\ SameHost(k, StallOut(k)) /\ SameHost(k, rx_done_ok(k)) /\ SameHost(k, k)
    BY <1>3, <1>4, <1>5, <1>6, <1>7 DEF SameHost
  <2>2. SameHost(k, c)
    BY <1>7 DEF SameHost, HasHost
  <2>3. RxDone(k) \in {a, b, c, StallOut(k), rx_done_ok(k), k}
    BY DEF RxDone
  <2> HIDE DEF a, b, c
  <2> QED BY <2>1, <2>2, <2>3
<1>8. ASSUME NEW k, HasHost(k) PROVE SameHost(k, DoutHalt(k))
  <2> DEFINE n == Cleared(k, {"DOUT_HALT"})
             told == [n EXCEPT !.ctx.status = IF k.ctx.phase \in {10, 13} THEN "PHASE"
                                              ELSE IF @ \notin Final THEN "GOOD" ELSE @]
             post == [n EXCEPT !.fw.post = "unread"]
             done == [n EXCEPT !.ctx.status = "XFER_DONE"]
  <2>1. SameHost(k, n)
    BY <1>3, <1>8
  <2>2. DoutHalt(k) \in {n, usb_ctxt_send_status(told), post, done, usb_ctxt_send_status(n)}
    BY DEF DoutHalt
  <2> HIDE DEF n
  <2>3. SameHost(k, told) /\ SameHost(k, post) /\ SameHost(k, done)
    BY <1>5, <2>1 DEF SameHost
  <2> HIDE DEF told, post, done
  <2> QED BY <1>2, <2>1, <2>2, <2>3 DEF SameHost
<1>9. ASSUME NEW k, HasHost(k), NEW ints PROVE SameHost(k, msc_isr_check_rx(k, ints))
  BY <1>7, <1>8, <1>9 DEF msc_isr_check_rx, SameHost
<1>10. SameHost(m, TxDone(m))
  <2> DEFINE a == Cleared(m, {"TX_DONE", "DIN_HALT"})
             n == ReleaseSeg(a)
             done == [m EXCEPT !.ctx.status = "XFER_DONE"]
             x == msc_isr_check_rx(done, m.usb.ints)
             y == usb_ctxt_send_status(n)
  <2>1. TxDone(m) \in {m, done, x, n, y}
    BY DEF TxDone
  <2>2. SameHost(m, a) /\ SameHost(m, done)
    BY <1>1, <1>3, <1>5
  <2> HIDE DEF a, done
  <2>3. SameHost(m, n) /\ SameHost(m, x)
    BY <1>4, <1>9, <2>2 DEF SameHost
  <2> HIDE DEF n, x
  <2>4. SameHost(m, y)
    BY <1>2, <2>3 DEF SameHost
  <2> HIDE DEF y
  <2> QED BY <1>1, <2>1, <2>2, <2>3, <2>4 DEF SameHost
<1>11. SameHost(m, DinHalt(m))
  BY <1>1, <1>2, <1>3 DEF DinHalt, SameHost
<1> QED BY <1>1, <1>9, <1>10, <1>11 DEF usb_msc_isr, SameHost

LEMMA SataHost == ASSUME NEW m \in Machine PROVE sata_isr(m).host = m.host
<1>1. HasHost(m)
  BY DEF Machine, HasHost
<1>2. SameHost(m, Result(m))
  BY <1>1 DEF Result, HasHost, SameHost
<1>3. SameHost(m, ProcessDMAStatusFis(m))
  BY <1>2, NoDataHost DEF ProcessDMAStatusFis, SameHost
<1>4. SameHost(m, ProcessDMADATARXDONE(m))
  <2> DEFINE r == Result(m)
             x == [r EXCEPT !.seg = free_SourcedbufConnection(@, m.ctx.seg)]
  <2>1. ProcessDMADATARXDONE(m) \in {m, x}
    BY DEF ProcessDMADATARXDONE
  <2>2. SameHost(m, r)
    BY <1>2
  <2> HIDE DEF r
  <2>3. SameHost(m, x)
    BY <2>2, SetHost DEF SameHost
  <2> QED BY <1>1, <2>1, <2>3 DEF SameHost
<1>5. SameHost(m, ProcessDMADATATXDONE(m))
  <2>1. SameHost(m, StallOut(m))
    BY <1>1 DEF StallOut, HasHost, SameHost
  <2>2. SameHost(m, ReleaseSeg(Result(m)))
    BY <1>2, SetHost DEF ReleaseSeg, SameHost
  <2>3. SameHost(m, usb_ctxt_send_status(ReleaseSeg(Result(m))))
    BY <2>2 DEF usb_ctxt_send_status, HasHost, SameHost
  <2> QED BY <1>1, <2>1, <2>3 DEF ProcessDMADATATXDONE, SameHost
<1> QED BY <1>3, <1>4, <1>5 DEF sata_isr, SameHost

(***************************************************************************)
(* The bridge implements the transport: what each step is on the cable.    *)
(***************************************************************************)
Seen(h) == [at |-> h.at, cmd |-> h.cmd, moved |-> h.moved, failed |-> h.failed, status |-> h.status]
\* A step of the transport, or none.
Abides == Wire!Next \/ Seen(host)' = Seen(host)

LEMMA SeenWith ==
  ASSUME NEW h, NEW v, NEW c
  PROVE /\ [Seen(h) EXCEPT !.failed = v] =
             [at |-> h.at, cmd |-> h.cmd, moved |-> h.moved, failed |-> v, status |-> h.status]
        /\ [Seen(h) EXCEPT !.at = "busy", !.cmd = c] =
             [at |-> "busy", cmd |-> c, moved |-> h.moved, failed |-> h.failed, status |-> h.status]
<1> DEFINE r == Seen(h)
           q == [at |-> "busy", cmd |-> h.cmd, moved |-> h.moved, failed |-> h.failed, status |-> h.status]
<1>1. [r EXCEPT !.failed = v] =
        [at |-> h.at, cmd |-> h.cmd, moved |-> h.moved, failed |-> v, status |-> h.status]
  BY DEF Seen
<1>2. [r EXCEPT !.at = "busy"] = q
  BY DEF Seen
<1>3. [q EXCEPT !.cmd = c] =
        [at |-> "busy", cmd |-> c, moved |-> h.moved, failed |-> h.failed, status |-> h.status]
  OBVIOUS
<1>4. [r EXCEPT !.at = "busy", !.cmd = c] = [[r EXCEPT !.at = "busy"] EXCEPT !.cmd = c]
  <2> HIDE DEF r
  <2> QED OBVIOUS
<1> HIDE DEF q
<1> QED BY <1>1, <1>2, <1>3, <1>4

LEMMA WireQuiet == Wire!Quiet = Seen(Idle)
BY DEF Wire!Quiet, Wire!NoCommand, NoCommand, Seen, Idle, None

LEMMA ResetAbides == ASSUME host' = Idle PROVE Abides
BY WireQuiet DEF Abides, Wire!Next, Wire!Reset, Seen

LEMMA TakeAbides == ASSUME NEW c \in Commands, HostSends(c) PROVE Abides
<1>1. host.at = "idle" /\ host' = [Idle EXCEPT !.at = "busy", !.cmd = c, !.done = c.len = 0]
  BY DEF HostSends
<1>2. Seen(host)' = [Seen(Idle) EXCEPT !.at = "busy", !.cmd = c]
  <2>1. /\ host'.at = "busy" /\ host'.cmd = c /\ host'.moved = Idle.moved
        /\ host'.failed = Idle.failed /\ host'.status = Idle.status
    BY <1>1 DEF Idle
  <2>2. [Seen(Idle) EXCEPT !.at = "busy", !.cmd = c] =
          [at |-> "busy", cmd |-> c, moved |-> Idle.moved, failed |-> Idle.failed, status |-> Idle.status]
    BY SeenWith
  <2> QED BY <2>1, <2>2 DEF Seen
<1>3. Wire!Take
  BY <1>1, <1>2, WireQuiet DEF Wire!Take, Seen
<1> QED BY <1>3 DEF Abides, Wire!Next

\* Data moves on, and nothing else is seen of it.
LEMMA MoveAbides ==
  ASSUME host \in Hosts, host.at = "busy", host.cmd \in Commands, NEW n \in Nat, host.moved <= n, n <= host.cmd.len,
         host'.at = host.at, host'.cmd = host.cmd, host'.moved = n, host'.failed = host.failed, host'.status = host.status
  PROVE Abides
<1>1. host.moved \in Nat /\ host.cmd.len \in Nat
  BY CommandIs DEF Hosts
<1>2. Seen(host)' = [Seen(host) EXCEPT !.moved = n]
  BY DEF Seen
<1>3. CASE n = host.moved
  BY <1>2, <1>3 DEF Abides, Seen
<1>4. CASE n # host.moved
  <2>1. n \in host.moved + 1..host.cmd.len /\ host.moved < host.cmd.len
    BY <1>1, <1>4
  <2>2. Wire!Move
    BY <1>2, <2>1 DEF Wire!Move, Seen
  <2> QED BY <2>2 DEF Abides, Wire!Next
<1> QED BY <1>3, <1>4

LEMMA HostSendsDataAbides == ASSUME Good(Now), HostSendsData PROVE Abides
<1>1. host \in Hosts /\ Phase(Now)
  BY NowIs DEF Good, Machine, MachineInv
<1>2. host.at = "busy" /\ usb.rx = "data" /\ host.moved < host.cmd.len /\ ~host.done
      /\ host' = [host EXCEPT !.moved = @ + 1, !.done = host.moved + 1 = host.cmd.len]
  BY DEF HostSendsData
<1>3. host.cmd \in Commands
  <2>1. Executing(Now) \/ Told(Now)
    BY <1>1, <1>2, NowIs DEF Phase, Off, Resting, Between, Invalid, Waiting, QuietUsb, QuietPipe, None
  <2> QED BY <1>2, <2>1, NowIs DEF Executing, Told, HostSide, HostIdle
<1>4. host.cmd.len \in Nat /\ host.moved \in Nat
  BY <1>1, <1>3, CommandIs DEF Hosts
<1>5. /\ host'.at = host.at /\ host'.cmd = host.cmd /\ host'.moved = host.moved + 1
      /\ host'.failed = host.failed /\ host'.status = host.status
  BY <1>1, <1>2 DEF Hosts
<1> QED BY <1>1, <1>2, <1>3, <1>4, <1>5, MoveAbides

LEMMA DataInEndsAbides == ASSUME Good(Now), DataInEnds PROVE Abides
<1>1. host \in Hosts /\ Phase(Now)
  BY NowIs DEF Good, Machine, MachineInv
<1>2. PICK n \in Sent :
        host' = [host EXCEPT !.moved = n, !.stalled = n < host.cmd.len, !.done = ~(n < host.cmd.len)]
  BY DEF DataInEnds
<1>3. host.at = "busy" /\ usb.tx = "data"
  BY DEF DataInEnds
<1>4. host.cmd \in Commands /\ host.moved = 0
  <2>1. Executing(Now)
    BY <1>1, <1>3, NowIs DEF Phase, Off, Resting, Between, Invalid, Waiting, Told, QuietUsb, QuietPipe, None
  <2>2. host.cmd = ctx.cmd /\ ctx.cmd \in Commands
    BY <1>3, <2>1, NowIs DEF Executing, HostSide, HostIdle
  <2>3. CpuIn(Now) \/ ReadData(Now)
    BY <1>3, <2>1, NowIs DEF Executing, NoData, NoDataIn, NoDataOut, CpuOut, WriteData, DriveOnly, QuietPipe, None
  <2> QED BY <1>3, <2>2, <2>3, NowIs DEF CpuIn, ReadData, ReadSends, ReadTaken, Busy, None
<1>5. host.cmd.len \in Nat /\ host.cmd.dev \in Nat
  BY <1>4, CommandIs
<1>6. n \in Nat /\ n <= host.cmd.len
  <2>1. Wire!Expected(host.cmd) \in Nat /\ Wire!Expected(host.cmd) <= host.cmd.len
    BY <1>5 DEF Wire!Expected
  <2> QED BY <1>5, <2>1 DEF Sent
<1>7. /\ host'.at = host.at /\ host'.cmd = host.cmd /\ host'.moved = n
      /\ host'.failed = host.failed /\ host'.status = host.status
  BY <1>1, <1>2 DEF Hosts
<1> QED BY <1>1, <1>3, <1>4, <1>6, <1>7, MoveAbides

\* The status is the truth about the command.
LEMMA HostTakesCswAbides == ASSUME Good(Now), HostTakesCsw PROVE Abides
<1>1. Phase(Now)
  BY DEF Good, MachineInv
<1>2. host.at = "busy" /\ usb.csw # None /\ host' = [Idle EXCEPT !.status = usb.csw]
  BY NowIs DEF HostTakesCsw, HostWaitsCsw
<1>3. Told(Now)
  BY <1>1, <1>2, NowIs DEF Phase, Off, Resting, Between, Invalid, Waiting, Executing, QuietUsb, QuietPipe
<1>4. Wire!Truthful(host, usb.csw)
  BY <1>2, <1>3, NowIs DEF Told, Busy
<1>5. Wire!Truthful(Seen(host), usb.csw)
  BY <1>4 DEF Wire!Truthful, Seen
<1>6. Seen(host)' = [Seen(Idle) EXCEPT !.status = usb.csw]
  <2>1. /\ host'.at = Idle.at /\ host'.cmd = Idle.cmd /\ host'.moved = Idle.moved
        /\ host'.failed = Idle.failed /\ host'.status = usb.csw
    BY <1>2 DEF Idle
  <2> QED BY <2>1 DEF Seen
<1>7. Wire!Answer
  <2>1. usb.csw \in Wire!Statuses
    BY <1>4 DEF Wire!Truthful
  <2> QED BY <1>2, <1>5, <1>6, <2>1, WireQuiet DEF Wire!Answer, Seen
<1> QED BY <1>7 DEF Abides, Wire!Next

LEMMA DriveEndsAbides == ASSUME Good(Now), DriveEnds PROVE Abides
<1>1. host \in Hosts /\ Phase(Now)
  BY NowIs DEF Good, Machine, MachineInv
<1>2. CASE host' = host
  BY <1>2 DEF Abides, Seen
<1>3. CASE host.at = "busy" /\ host' = [host EXCEPT !.failed = host.at = "busy"]
  <2>1. Seen(host)' = [Seen(host) EXCEPT !.failed = TRUE]
    <3>1. host' = [host EXCEPT !.failed = TRUE]
      BY <1>3
    <3>2. /\ host'.at = host.at /\ host'.cmd = host.cmd /\ host'.moved = host.moved
          /\ host'.failed = TRUE /\ host'.status = host.status
      BY <1>1, <3>1 DEF Hosts
    <3>3. [Seen(host) EXCEPT !.failed = TRUE] =
            [at |-> host.at, cmd |-> host.cmd, moved |-> host.moved, failed |-> TRUE, status |-> host.status]
      BY SeenWith
    <3> QED BY <3>2, <3>3 DEF Seen
  <2>2. Wire!Fail
    BY <1>3, <2>1 DEF Wire!Fail, Seen
  <2> QED BY <2>2 DEF Abides, Wire!Next
<1>4. CASE host.at # "busy" /\ host' = [host EXCEPT !.failed = host.at = "busy"]
  <2>1. Executing(Now)
    <3>1. Now.drive[0].st = "active"
      BY NowIs DEF DriveEnds
    <3> QED BY <1>1, <3>1, ActiveIs
  <2>2. ~host.failed
    BY <1>4, <2>1, NowIs DEF Executing, HostSide, HostIdle, Busy
  <2>3. Seen(host)' = Seen(host)
    BY <1>1, <1>4, <2>2 DEF Seen, Hosts
  <2> QED BY <2>3 DEF Abides
<1> QED BY <1>2, <1>3, <1>4 DEF DriveEnds

\* The host clears its stalls unseen.
LEMMA StallAbides ==
  ASSUME Good(Now), HostStalls \/ HostClearsHalt \/ DataInRefused \/ DataOutRefused
  PROVE Abides
<1>1. host \in Hosts
  BY NowIs DEF Good, Machine
<1>2. /\ host'.at = host.at /\ host'.cmd = host.cmd /\ host'.moved = host.moved
      /\ host'.failed = host.failed /\ host'.status = host.status
  BY <1>1 DEF HostStalls, HostClearsHalt, DataInRefused, DataOutRefused, Hosts
<1> QED BY <1>2 DEF Abides, Seen

\* What leaves the host alone.
LEMMA SameAbides == ASSUME NEW n, Become(n), n.host = host PROVE Abides
BY DEF Become, Abides, Seen

LEMMA FirmwareAbides == ASSUME Good(Now), Firmware PROVE Abides
<1> DEFINE m == Now
<1>1. m \in Machine /\ m.host = host /\ m.ctx = ctx /\ m.fw = fw /\ m.usb = usb /\ m.drive = drive /\ Phase(m)
      /\ DrivesInv(m) /\ SegInv(m) /\ HasHost(m)
  BY NowIs DEF Good, MachineInv, Machine, HasHost
<1>2. CASE EnterBot \/ ReceiveCBW \/ WaitForReady \/ HandleCsw
  BY <1>2, SameAbides DEF Now, EnterBot, ReceiveCBW, WaitForReady, HandleCsw, CswDone, bot_init, Step
<1>3. CASE TakeUpCBW
  <2>1. m.fw.new /\ ~m.fw.cbw /\ m.fw.wait = {} /\ Become(ProcessCBW(m))
    BY <1>3, NowIs DEF TakeUpCBW, Step
  <2> HIDE DEF m
  <2>2. Upcoming(m)
    BY <1>1, <2>1 DEF Phase, Off, Resting, Between, Invalid, Waiting, Executing, Told, LastEnds, Upcoming
  <2> QED BY <1>1, <2>1, <2>2, ProcessHost, SameAbides
<1>4. CASE HandleMsc
  BY <1>1, <1>4, MscHost, SameAbides DEF HandleMsc, Step
<1>5. CASE HandleSata
  BY <1>1, <1>5, SataHost, SameAbides DEF HandleSata, Step
<1>6. CASE RspUnit
  <2> DEFINE n == [m EXCEPT !.ctx.state = "SETUP_DONE", !.fw.new = FALSE, !.fw.rsp = FALSE]
  <2>1. Become(Answer(n, "ERROR"))
    BY <1>6 DEF RspUnit, Step
  <2> HIDE DEF m
  <2>2. SameHost(m, n)
    BY <1>1 DEF HasHost, SameHost
  <2> HIDE DEF n
  <2> QED BY <1>1, <2>1, <2>2, AnswerHost, SameAbides DEF SameHost
<1>7. CASE PostDataOut
  <2> DEFINE a == [m EXCEPT !.fw.post = "read"]
             k == ReleaseSeg(m)
             x(r) == [k EXCEPT !.fw.post = "no", !.ctx.status = r]
  <2>1. Become(a) \/ \E r \in {"GOOD", "ERROR"} : Become(x(r)) \/ Become(usb_ctxt_send_status(x(r)))
    BY <1>7 DEF PostDataOut, Step
  <2> HIDE DEF m
  <2>2. SameHost(m, a) /\ SameHost(m, k)
    BY <1>1, SetHost DEF HasHost, SameHost, ReleaseSeg
  <2> HIDE DEF a, k
  <2>3. ASSUME NEW r PROVE SameHost(m, x(r))
    BY <2>2 DEF HasHost, SameHost
  <2> HIDE DEF x
  <2>4. ASSUME NEW r PROVE SameHost(m, usb_ctxt_send_status(x(r)))
    BY <2>3 DEF usb_ctxt_send_status, HasHost, SameHost
  <2> QED BY <1>1, <2>1, <2>2, <2>3, <2>4, SameAbides DEF SameHost
<1>8. CASE BulkReset
  BY <1>8, SameAbides DEF Now, BulkReset, bot_bulk_reset, bot_init, ResetActive, ClearPipes, Step
<1>9. CASE BusReset
  BY <1>9, SameAbides DEF Now, BusReset, usb_host_rst, ResetActive, ClearPipes, Step
<1>10. CASE FisTimerDue
  BY <1>10, SameAbides DEF Now, FisTimerDue, FisTimer, sata_timeout_reset, Step
<1> QED BY <1>2, <1>3, <1>4, <1>5, <1>6, <1>7, <1>8, <1>9, <1>10 DEF Firmware

LEMMA RareAbides == ASSUME Good(Now), Rare PROVE Abides
<1>1. CASE HostBulkReset \/ HostBusReset \/ Unplug
  BY <1>1, ResetAbides DEF HostBulkReset, HostBusReset, AskReset, Unplug
<1>2. CASE Standby \/ usb_suspend
  BY <1>2, SameAbides DEF Now, Standby, usb_suspend, ata_shutdown_hdd, set_hdd_power
<1>3. CASE Resume
  BY <1>3, SameAbides DEF Now, Resume, set_hdd_power, Step
<1>4. CASE FisTimerEarly
  BY <1>4, SameAbides DEF Now, FisTimerEarly, FisTimer, sata_timeout_reset
<1>5. CASE Plug
  BY <1>5 DEF Plug, Abides, Seen
<1> QED BY <1>1, <1>2, <1>3, <1>4, <1>5 DEF Rare

LEMMA HardwareAbides == ASSUME Good(Now), Hardware PROVE Abides
<1>1. ASSUME NEW ch \in Chs, SetupEnds(ch) PROVE Abides
  <2> DEFINE n == [Now EXCEPT !.drive[ch].st = "ready"]
             m == IF AllUp(n) THEN [n EXCEPT !.fw.timer = 0] ELSE n
  <2>1. Become(sata_exec_scm(m)) \/ Become(m)
    BY <1>1 DEF SetupEnds, Step
  <2>2. HasHost(n) /\ n.host = host
    BY DEF Now, HasHost
  <2> HIDE DEF n
  <2>3. HasHost(m) /\ m.host = host
    BY <2>2 DEF HasHost
  <2> HIDE DEF m
  <2> QED BY <2>1, <2>3, ExecHost, SameAbides DEF SameHost
<1>2. ASSUME NEW ch \in Chs, PhyReady(ch) \/ ReadIdStarts(ch) \/ ReadIdEnds(ch) PROVE Abides
  BY <1>2 DEF PhyReady, ReadIdStarts, ReadIdEnds, Abides, Seen
<1>3. CASE DataOutEnds \/ DriveTakes
  BY <1>3 DEF DataOutEnds, DriveTakes, Abides, Seen
<1>4. CASE DataInEnds \/ DataInRefused \/ DataOutRefused \/ DriveEnds
  BY <1>4, DataInEndsAbides, StallAbides, DriveEndsAbides
<1> QED BY <1>1, <1>2, <1>3, <1>4 DEF Hardware

LEMMA NextAbides == ASSUME Good(Now), Next PROVE Abides
<1>1. CASE HostGoesOn
  <2>1. CASE HostGivesUp
    BY <2>1, ResetAbides DEF HostGivesUp, AskReset
  <2> QED BY <1>1, <2>1, HostSendsDataAbides, StallAbides, HostTakesCswAbides DEF HostGoesOn
<1> QED BY <1>1, FirmwareAbides, HardwareAbides, RareAbides, TakeAbides DEF Next, Progress

\* WireSpec: what the host sees is the bulk-only transport; the status of a
\* command tells the truth of its data, of the drive and of its case.
\* (usb_msc_isr, bot.c; sata_isr, sata.c.)
THEOREM ImplementsWire == ASSUME NoMismatch PROVE Spec => WireSpec
<1>1. Init => Wire!Init
  BY WireQuiet DEF Init, Wire!Init, Seen
<1>2. Inv /\ [Next]_vars => [Wire!Next]_([at |-> host.at, cmd |-> host.cmd, moved |-> host.moved,
                                          failed |-> host.failed, status |-> host.status])
  <2> SUFFICES ASSUME Inv, [Next]_vars PROVE Abides
    BY DEF Abides, Seen
  <2>1. CASE Next
    BY <2>1, NextAbides DEF Inv, TypeOK, Good
  <2>2. CASE UNCHANGED vars
    BY <2>2 DEF vars, Abides, Seen
  <2> QED BY <2>1, <2>2
<1>3. Spec => Wire!Spec
  BY <1>1, <1>2, InvHolds, PTL DEF Spec, Wire!Spec
<1> QED BY <1>3 DEF WireSpec
=============================================================================
