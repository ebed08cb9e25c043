---------------------------- MODULE UsbInvariant ----------------------------
(***************************************************************************)
(* The inductive invariant of the bulk-only transport.  The bridge is      *)
(* always in one of the phases below, and a command in execution is one of *)
(* six kinds; each says what the context, the controller, the drive and    *)
(* the host have to do with each other then.  Operators on the record of   *)
(* BotOps.                                                                 *)
(***************************************************************************)
EXTENDS UsbBot

\* A READ or WRITE whose case is an error and that wakes the drives reaches
\* them: set_csw_run may then come too early.
NoMismatch == ~MismatchInStandby

Resets == {"BOT_RST", "BUS_RST"}
Asked(m) == m.usb.ints \cap Resets # {}
\* The interrupts of a command.
Ints(m) == m.usb.ints \ Resets
HostIdle(m) == m.host.at = "idle" /\ ~m.host.failed

(***************************************************************************)
(* The drives.                                                             *)
(***************************************************************************)
Coming(d) == d.st \in {"reset", "phy", "id", "setup"}

DrivesInv(m) ==
  /\ \A ch \in Chs : m.drive[ch].init => ~Coming(m.drive[ch])
  /\ (\E ch \in Chs : m.drive[ch].st = "down") => \A ch \in Chs : m.drive[ch].st \in {"ready", "down"}
  /\ m.fw.timer > 0 => \E ch \in Chs : Coming(m.drive[ch])
  /\ m.drive[1].st # "active" /\ ~m.drive[1].park
  /\ m.drive[0].park => Coming(m.drive[0]) /\ m.fw.timer = 0
  /\ m.fw.asleep => \A ch \in Chs : m.drive[ch].st = "down"

DriveQuiet(m) == m.drive[0].st # "active" /\ ~m.drive[0].park

(***************************************************************************)
(* The segments: each is free, or joined for the command in execution, or  *)
(* for the IDENTIFY DEVICE of a drive.                                     *)
(***************************************************************************)
Held(m) == m.fw.at = "bot" /\ m.fw.que /\ m.fw.cur /\ ~m.fw.new

ForCommand(m, s) ==
  /\ Held(m) /\ m.ctx.seg # NoSeg
  /\ \E r \in Route(m.ctx.seg) : /\ r.seg = s
                                 /\ m.seg[s].in \in {None, r.in} /\ m.seg[s].out \in {None, r.out}
ForIdentify(m, s) ==
  /\ s = <<"tx", 4>> /\ m.seg[s].out = "CPU"
  /\ \E ch \in Chs : m.drive[ch].st = "id" /\ m.seg[s].in = Sata(ch)

SegInv(m) ==
  /\ \A s \in Segs : /\ ~m.seg[s].busy => m.seg[s].in = None /\ m.seg[s].out = None
                     /\ m.seg[s].busy => ForCommand(m, s) \/ ForIdentify(m, s)
  /\ m.seg[<<"tx", 1>>].in = "SATA0" => m.drive[0].st = "active"

(***************************************************************************)
(* Between two commands.                                                   *)
(***************************************************************************)
Fresh(h) == /\ h.at = "busy" /\ h.cmd \in Commands /\ h.moved = 0
            /\ ~h.failed /\ ~h.stalled /\ (h.done <=> h.cmd.len = 0)
QuietPipe(m) == m.usb.tx = None /\ m.usb.rx = None /\ m.usb.csw = None /\ m.usb.halts = {}

\* A READ or WRITE that finds a drive off has a case that may run.
Awake(m, cmd) == cmd.op \in {"READ", "WRITE"} /\ ~DrivesOn(m) => Case(cmd) \in {5, 6, 11, 12}

\* The host has sent a wrapper nobody has seen yet, or none.
Arrival(m) == \/ m.usb.avail /\ Fresh(m.host) /\ ~Asked(m) /\ ~m.fw.asleep /\ Awake(m, m.host.cmd)
              \/ ~m.usb.avail /\ HostIdle(m)

Off(m) == /\ m.fw.at = "off" /\ ~m.fw.new /\ m.fw.timer = 0 /\ ~m.fw.asleep
          /\ HostIdle(m) /\ m.usb = QuietUsb /\ m.ctx = NoCtx
          /\ \A ch \in Chs : m.drive[ch].st = "down" /\ ~m.drive[ch].init

Resting(m) == /\ m.fw.at = "hdd" /\ ~m.fw.new /\ m.ctx = NoCtx
              /\ QuietPipe(m) /\ DriveQuiet(m) /\ Arrival(m)
              /\ Ints(m) = {} \/ (Ints(m) = {"CSW_DONE"} /\ ~m.usb.avail)

\* Nothing has been seen of the next command; the end of the last one may
\* still be unseen too.
LastEnds(m) == /\ "CSW_DONE" \in m.usb.ints /\ (m.usb.avail \/ m.fw.new => m.fw.cbw)
LastEnded(m) == Ints(m) = {} /\ ~m.fw.cur
Between(m) == /\ m.fw.at = "bot" /\ ~m.fw.que /\ ~m.fw.new /\ m.fw.post = "no"
              /\ QuietPipe(m) /\ DriveQuiet(m) /\ Arrival(m)
              /\ LastEnds(m) \/ (LastEnded(m) /\ m.ctx = NoCtx)

\* The wrapper was not valid.
Invalid(m) == /\ m.fw.at = "badcbw" /\ ~m.fw.new /\ ~m.fw.cur /\ ~m.fw.asleep
              /\ ~m.usb.avail /\ m.usb.tx = None /\ m.usb.rx = None /\ m.usb.csw = None /\ Ints(m) = {}
              /\ DriveQuiet(m)
              /\ IF Asked(m) THEN HostIdle(m) ELSE m.host.at = "busy"

(***************************************************************************)
(* A command waits to be taken up, or for the drives.                      *)
(***************************************************************************)
\* The context as the controller built it, and as usb_QEnum and Wake leave it.
Untouched(m) ==
  /\ m.ctx.cmd = m.host.cmd /\ m.ctx.dir = m.ctx.cmd.dir
  /\ ~m.ctx.ccm /\ ~m.ctx.nodata /\ m.ctx.seg = NoSeg /\ m.ctx.flag = ""
  /\ m.ctx.phase = IF m.ctx.cmd.op \in {"READ", "WRITE"} THEN Case(m.ctx.cmd) ELSE 0
  /\ m.ctx.state \in {"RECEIVE_CIU", "AWAIT_SATA_READY", "CHK_CDB_FIELD_DONE"}
  /\ m.ctx.state = "AWAIT_SATA_READY" => ~Initialised(m)
  /\ m.ctx.state = "CHK_CDB_FIELD_DONE" =>
       /\ m.ctx.cmd.op \in {"READ", "WRITE", "VERIFY"}
       /\ m.ctx.cmd.op \in {"READ", "WRITE"} => m.ctx.phase \in {5, 6, 11, 12}
       /\ \A ch \in Chs \ m.fw.wait : m.drive[ch].st = "ready"

Waiting(m) ==
  /\ m.fw.at = "bot" /\ m.fw.new /\ m.fw.que /\ m.fw.post = "no" /\ ~m.fw.asleep
  /\ ~m.usb.avail /\ ~Asked(m) /\ QuietPipe(m) /\ DriveQuiet(m)
  /\ Fresh(m.host) /\ Awake(m, m.host.cmd) /\ Untouched(m)
  /\ LastEnds(m) \/ LastEnded(m)

(***************************************************************************)
(* A command in execution.  Busy is the side of the host, of which nothing *)
(* is left once it has asked for a reset.                                  *)
(***************************************************************************)
Busy(m) == m.host.at = "busy"
\* The host has its data, or has run into a stall of its pipe and clears it.
StallIn(m) == \/ /\ "DIN_HALT" \in m.usb.ints /\ m.usb.halts = {"in"} /\ m.host.stalled /\ ~m.host.done
              \/ m.usb.halts = {} /\ ~m.host.stalled /\ m.host.done

\* usb_device_no_data, and the refusals of bot_device_data_in and _out.
NoDataIn(m) ==
  /\ m.ctx.nodata /\ m.ctx.dir = "in" /\ m.ctx.cmd.dir = "in" /\ m.usb.rx = None
  /\ Busy(m) => Wire!Truthful(m.host, m.ctx.status)
  /\ \/ /\ m.usb.tx = "nodata" /\ Ints(m) = {} /\ m.usb.halts = {}
        /\ Busy(m) => ~m.host.stalled /\ ~m.host.done
     \/ m.usb.tx = None /\ Ints(m) = {"DIN_HALT"} /\ (Busy(m) => StallIn(m))

NoDataOut(m) ==
  /\ m.ctx.nodata /\ m.ctx.dir = "out" /\ m.ctx.cmd.dir = "out" /\ m.usb.tx = None
  /\ m.ctx.phase \in {10, 13} => m.ctx.status = "PHASE"
  /\ Busy(m) => Wire!Truthful(m.host, m.ctx.status)
  /\ \/ /\ m.usb.rx = "nodata" /\ Ints(m) = {} /\ m.usb.halts = {}
        /\ Busy(m) => ~m.host.stalled /\ ~m.host.done
     \/ /\ m.usb.rx = None /\ Ints(m) = {"DOUT_HALT"}
        /\ Busy(m) => \/ m.usb.halts = {"out"} /\ m.host.stalled /\ ~m.host.done
                      \/ m.usb.halts = {} /\ ~m.host.stalled /\ m.host.done

NoData(m) == /\ m.ctx.seg = NoSeg /\ m.ctx.flag = "U2B" /\ ~m.ctx.ccm /\ m.ctx.status \in Final
             /\ m.ctx.cmd.len > 0 /\ m.fw.cur /\ m.fw.post = "no" /\ DriveQuiet(m)
             /\ NoDataIn(m) \/ NoDataOut(m)

\* Data of the CPU for the host.
CpuIn(m) ==
  /\ m.ctx.cmd.op = "INQ" /\ m.ctx.seg = U2BR /\ m.ctx.flag = "U2B" /\ ~m.ctx.ccm /\ ~m.ctx.nodata
  /\ m.ctx.dir = "in" /\ m.ctx.cmd.dir = "in" /\ m.ctx.cmd.len > 0 /\ m.ctx.cmd.dev > 0
  /\ m.ctx.status = "GOOD" /\ m.fw.cur /\ m.fw.post = "no" /\ DriveQuiet(m) /\ m.usb.rx = None
  /\ Busy(m) => ~m.host.failed
  /\ \/ /\ m.usb.tx = "data" /\ Ints(m) = {} /\ m.usb.halts = {}
        /\ Busy(m) => m.host.moved = 0 /\ ~m.host.stalled /\ ~m.host.done
     \/ /\ m.usb.tx = None /\ Ints(m) \in {{"TX_DONE"}, {"TX_DONE", "DIN_HALT"}}
        /\ Busy(m) => m.host.moved = Wire!Expected(m.ctx.cmd) /\ StallIn(m)

\* Data of the host for the CPU.  A reset that is asked for takes the host
\* away; usb_msc_isr then takes the buffer for full.
CpuOut(m) ==
  /\ m.ctx.cmd.op = "SEL" /\ m.ctx.seg = U2BW /\ m.ctx.flag = "U2B" /\ ~m.ctx.ccm /\ ~m.ctx.nodata
  /\ m.ctx.dir = "out" /\ m.ctx.cmd.dir = "out" /\ m.ctx.cmd.dev > 0 /\ m.ctx.cmd.len >= m.ctx.cmd.dev
  /\ m.fw.cur /\ DriveQuiet(m) /\ m.usb.tx = None /\ m.usb.rx # "nodata" /\ Ints(m) \subseteq {"RX_DONE"}
  /\ m.fw.post # "no" => m.ctx.status = "XFER_DONE"
  /\ Busy(m) => /\ ~m.host.failed /\ ~m.host.stalled /\ m.usb.halts = {}
                /\ m.host.moved <= m.host.cmd.len /\ (m.host.done <=> m.host.moved = m.host.cmd.len)
                /\ \/ m.fw.post = "no" /\ m.ctx.status = "PENDING" /\ m.usb.rx = "data" /\ Ints(m) = {}
                   \/ /\ m.host.done /\ m.usb.rx = None
                      /\ IF m.fw.post = "no" THEN Ints(m) = {"RX_DONE"} /\ m.ctx.status = "PENDING" ELSE Ints(m) = {}

\* A READ on the drive, and until the host has taken what it sent.
ReadHost(m) == (IF m.ctx.ccm THEN m.drive[0].end = "ok" ELSE m.ctx.status = "GOOD")
                  => ~m.host.failed /\ m.host.moved >= m.ctx.cmd.dev
ReadSends(m) ==
  /\ m.ctx.ccm /\ m.ctx.status = "PENDING" /\ m.usb.tx = "data" /\ Ints(m) = {} /\ m.usb.halts = {}
  /\ Busy(m) => /\ m.host.moved = 0 /\ ~m.host.stalled /\ ~m.host.done
                /\ (m.host.failed <=> m.drive[0].end = "err")
ReadTaken(m) ==
  /\ m.usb.tx = None /\ Ints(m) \in {{"TX_DONE"}, {"TX_DONE", "DIN_HALT"}}
  /\ m.ctx.ccm => m.drive[0].end # "no" /\ m.ctx.status \in {"PENDING", "XFER_DONE"}
  /\ ~m.ctx.ccm => m.ctx.status \in {"GOOD", "ERROR"}
  /\ Busy(m) => StallIn(m) /\ ReadHost(m)
ReadData(m) ==
  /\ m.ctx.cmd.op = "READ" /\ m.ctx.seg = ReadSeg /\ m.ctx.flag \in {"", "AES"} /\ ~m.ctx.nodata
  /\ m.ctx.dir = "in" /\ m.ctx.cmd.dir = "in" /\ m.ctx.cmd.dev > 0 /\ m.ctx.cmd.len >= m.ctx.cmd.dev
  /\ m.fw.cur /\ m.fw.post = "no" /\ ~m.drive[0].park /\ m.usb.rx = None
  /\ (m.ctx.ccm <=> m.drive[0].st = "active")
  /\ ReadSends(m) \/ ReadTaken(m)

\* A WRITE on the drive.  The stall of an early end is cleared, and what the
\* host sent taken, before the status is XFER_DONE.
WriteHost(m) ==
  /\ m.ctx.cmd.dev - m.drive[0].tcnt <= m.host.moved /\ m.host.moved <= m.ctx.cmd.len
  /\ m.host.failed => m.drive[0].end = "err"
  /\ m.host.moved = m.ctx.cmd.len => m.host.done
  /\ m.host.stalled => ~m.host.done /\ m.usb.halts = {"out"}
  /\ m.ctx.status = "XFER_DONE" \/ (m.ctx.status = "HALT" /\ m.usb.halts = {}) => m.host.done
WriteData(m) ==
  /\ m.ctx.cmd.op = "WRITE" /\ m.ctx.seg = WriteSeg /\ m.ctx.flag \in {"", "AES"} /\ ~m.ctx.nodata
  /\ m.ctx.dir = "out" /\ m.ctx.cmd.dir = "out" /\ m.ctx.cmd.dev > 0 /\ m.ctx.cmd.len = m.ctx.cmd.dev
  /\ m.fw.cur /\ m.fw.post = "no" /\ m.ctx.ccm /\ m.drive[0].st = "active" /\ ~m.drive[0].park
  /\ m.usb.tx = None /\ m.usb.rx # "nodata" /\ m.usb.halts \subseteq {"out"}
  /\ Ints(m) \subseteq {"RX_DONE", "DOUT_HALT"} /\ ("DOUT_HALT" \in m.usb.ints => m.ctx.status = "HALT")
  /\ m.drive[0].tcnt <= m.ctx.cmd.dev /\ (m.drive[0].end = "ok" => m.drive[0].tcnt = 0)
  /\ m.ctx.status \in {"PENDING", "HALT", "XFER_DONE"} /\ (m.ctx.status # "HALT" => m.usb.halts = {})
  /\ Busy(m) => WriteHost(m)

\* A command of the drive without data; START UNIT waits for it to come up.
DriveOnly(m) ==
  /\ m.ctx.cmd.op \in {"VERIFY", "START"} /\ m.ctx.seg = NoSeg /\ m.ctx.flag = "VERIFY" /\ ~m.ctx.nodata
  /\ m.ctx.cmd.dev = 0 /\ (m.ctx.dir = m.ctx.cmd.dir \/ m.ctx.cmd.len = 0)
  /\ m.ctx.ccm /\ m.ctx.status = "PENDING" /\ ~m.fw.cur /\ m.fw.post = "no"
  /\ QuietPipe(m) /\ Ints(m) = {} /\ (m.drive[0].park <=> m.drive[0].st # "active")
  /\ m.drive[0].park => ~Asked(m)
  /\ Busy(m) => /\ m.host.moved = 0 /\ ~m.host.stalled /\ (m.host.done <=> m.host.cmd.len = 0)
                /\ m.host.failed => m.drive[0].st = "active" /\ m.drive[0].end = "err"

HostSide(m) == /\ m.ctx.cmd \in Commands
               /\ IF Asked(m) THEN HostIdle(m) ELSE Busy(m) /\ m.host.cmd = m.ctx.cmd

Executing(m) ==
  /\ m.fw.at = "bot" /\ m.fw.que /\ ~m.fw.new /\ ~m.fw.asleep
  /\ ~m.usb.avail /\ m.usb.csw = None
  /\ m.ctx.state \in {"SETUP_DONE", "CHK_CDB_FIELD_DONE"} /\ HostSide(m)
  /\ NoData(m) \/ CpuIn(m) \/ CpuOut(m) \/ ReadData(m) \/ WriteData(m) \/ DriveOnly(m)

\* The status waits for the host.
Told(m) ==
  /\ m.fw.at = "bot" /\ ~m.fw.que /\ ~m.fw.new /\ m.fw.cur /\ m.fw.post = "no" /\ ~m.fw.asleep
  /\ ~m.usb.avail /\ m.usb.csw \in Final /\ m.usb.csw = m.ctx.status
  /\ Ints(m) \subseteq {"RX_DONE"} /\ m.usb.rx # "nodata"
  /\ m.usb.tx # "data" /\ (m.usb.tx = "nodata" => m.ctx.cmd.len = 0)
  /\ ~m.ctx.ccm /\ DriveQuiet(m) /\ HostSide(m)
  /\ Busy(m) => Wire!Truthful(m.host, m.usb.csw) /\ m.usb.halts = {} /\ m.host.done /\ ~m.host.stalled

(***************************************************************************)
(* The invariant.                                                          *)
(***************************************************************************)
Phase(m) == \/ Off(m) \/ Resting(m) \/ Between(m) \/ Invalid(m)
            \/ Waiting(m) \/ Executing(m) \/ Told(m)

MachineInv(m) == DrivesInv(m) /\ SegInv(m) /\ Phase(m)

\* What the handlers of bot.c, usb.c and sata.c rely on of each other: the
\* bridge is in one of its phases, no drive is off while the other one starts,
\* and every busy segment has its owner.
Inv == TypeOK /\ MachineInv(Now)
=============================================================================
