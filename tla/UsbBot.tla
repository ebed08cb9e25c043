------------------------------- MODULE UsbBot -------------------------------
(***************************************************************************)
(* The bridge in bulk-only mode: a host, the USB controller, the main loop *)
(* of the firmware (usb_hdd and usb_bot) and two drives.  One action is one*)
(* handler of the firmware, or one thing the host, the controller or a     *)
(* drive does in between.                                                  *)
(*                                                                         *)
(* A length is a number of units of data; a segment holds one unit.        *)
(***************************************************************************)
EXTENDS BotIsr

CONSTANTS Commands,          \* the commands the host may send
          Budget,            \* how many resets, unpluggings, standbys, suspends and early timeouts
          MismatchInStandby  \* may a READ or WRITE whose case is an error wake the drives?

\* BAD is a wrapper that is not valid, REFUSED a command the bridge does not
\* know.  Only four commands move data.  START UNIT asks for none, or for data
\* to the host: its context becomes one for that direction.
DataOps == {"READ", "WRITE", "INQ", "SEL"}
CommandsAssumption ==
  Commands \subseteq {c \in [op : DataOps \cup {"VERIFY", "TUR", "START", "STOP", "REFUSED", "BAD"},
                            dir : {"in", "out"}, len : Nat, dev : Nat] :
                         /\ c.op \notin DataOps => c.dev = 0
                         /\ c.op = "START" => c.dir = "in"}
ASSUME BotAssumption ==
  /\ CommandsAssumption /\ Spinup \in Nat \ {0} /\ Cipher \in BOOLEAN
  /\ Budget \in Nat /\ MismatchInStandby \in BOOLEAN

VARIABLES host,   \* [at, cmd, moved, failed, status, done, stalled]
          ctx, fw, usb, drive, seg,   \* see BotOps
          left    \* what is left of Budget
vars == <<host, ctx, fw, usb, drive, seg, left>>

Now == [host |-> host, ctx |-> ctx, fw |-> fw, usb |-> usb, drive |-> drive, seg |-> seg]
Become(m) == /\ host' = m.host /\ ctx' = m.ctx /\ fw' = m.fw
             /\ usb' = m.usb /\ drive' = m.drive /\ seg' = m.seg
Step(m) == Become(m) /\ UNCHANGED left
Spend == left > 0 /\ left' = left - 1

Wire == INSTANCE BotWire WITH
  wire <- [at |-> host.at, cmd |-> host.cmd, moved |-> host.moved, failed |-> host.failed, status |-> host.status]

Idle == [at |-> "idle", cmd |-> NoCommand, moved |-> 0, failed |-> FALSE, status |-> None,
         done |-> FALSE, stalled |-> FALSE]
ResetFw == [at |-> "off", new |-> FALSE, que |-> FALSE, cur |-> FALSE, cbw |-> FALSE, wait |-> {},
            post |-> "no", rsp |-> FALSE, timer |-> 0, asleep |-> FALSE]
QuietUsb == [avail |-> FALSE, ints |-> {}, halts |-> {}, tx |-> None, rx |-> None, csw |-> None]

Init == /\ host = Idle /\ ctx = NoCtx /\ fw = ResetFw /\ usb = QuietUsb
        /\ drive = [ch \in Chs |-> DownDrive]
        /\ seg = rst_all_seg /\ left = Budget

(***************************************************************************)
(* The host.                                                               *)
(***************************************************************************)
Running == fw.at \in {"hdd", "bot"} /\ ~fw.asleep
ResetAsked == usb.ints \cap {"BOT_RST", "BUS_RST"} # {}

\* A wrapper may arrive before the firmware has seen that the last status was
\* taken, but not once bot_active is cleared, by an answer of usb_rsp_unit_b_rdy
\* or by a reset: the firmware would take the command up before it sees the
\* end of the last one, and then drop it.
MayArrive == "CSW_DONE" \in usb.ints => fw.at = "bot" /\ fw.cbw

\* The firmware would let a drive on its way come up before it stops it.
Fits(c) == /\ c.op \in {"READ", "WRITE"} /\ ~MismatchInStandby /\ ~DrivesOn(Now)
              => Case(c) \in {5, 6, 11, 12}
           /\ c.op = "STOP" => drive[0].st \in {"ready", "down"}

HostSends(c) ==
  /\ host.at = "idle" /\ Running /\ ~ResetAsked /\ ~usb.avail /\ MayArrive /\ Fits(c)
  /\ host' = [Idle EXCEPT !.at = "busy", !.cmd = c, !.done = c.len = 0]
  /\ usb' = [usb EXCEPT !.avail = TRUE]
  /\ UNCHANGED <<ctx, fw, drive, seg, left>>

\* How much of the data of a WRITE the drive has taken.
Taken == IF ctx.cmd.op = "WRITE" /\ ctx.ccm THEN ctx.cmd.dev - drive[0].tcnt ELSE 0

HostSendsData ==
  /\ host.at = "busy" /\ ~host.done /\ usb.rx = "data" /\ "out" \notin usb.halts
  /\ host.moved < host.cmd.len /\ (U2B(ctx) \/ host.moved - Taken < 1)
  /\ host' = [host EXCEPT !.moved = @ + 1, !.done = host.moved + 1 = host.cmd.len]
  /\ UNCHANGED <<ctx, fw, usb, drive, seg, left>>

\* The host runs into a stall of the firmware, and clears any it has run into.
HostStalls ==
  /\ host.at = "busy" /\ ~host.done /\ ~host.stalled /\ host.cmd.dir = "out"
  /\ "out" \in usb.halts /\ fw.at # "badcbw"
  /\ host' = [host EXCEPT !.stalled = TRUE]
  /\ usb' = [usb EXCEPT !.ints = @ \cup {"DOUT_HALT"}]
  /\ UNCHANGED <<ctx, fw, drive, seg, left>>

HostClearsHalt ==
  /\ host.at = "busy" /\ host.stalled /\ fw.at # "badcbw"
  /\ host' = [host EXCEPT !.stalled = FALSE, !.done = TRUE]
  /\ usb' = [usb EXCEPT !.halts = @ \ {host.cmd.dir}]
  /\ UNCHANGED <<ctx, fw, drive, seg, left>>

HostTakesCsw ==
  /\ HostWaitsCsw(Now) /\ usb.csw # None /\ "in" \notin usb.halts
  /\ host' = [Idle EXCEPT !.status = usb.csw]
  /\ usb' = [usb EXCEPT !.ints = @ \cup {"CSW_DONE"}, !.csw = None, !.tx = None, !.rx = None]
  /\ UNCHANGED <<ctx, fw, drive, seg, left>>

\* A reset while nothing waits to be taken up or for its drive, and no drive is
\* on its way with its start-up timer stopped.
MayReset == /\ Running \/ fw.at = "badcbw"
            /\ ~ResetAsked /\ ~usb.avail /\ ~fw.new /\ ~drive[0].park
            /\ fw.timer > 0 \/ \A ch \in Chs : drive[ch].st \in {"ready", "active", "down"}

AskReset(int) == /\ host' = Idle
                 /\ usb' = [usb EXCEPT !.ints = @ \cup {int}]
                 /\ UNCHANGED <<ctx, fw, drive, seg>>
HostBulkReset == MayReset /\ Spend /\ AskReset("BOT_RST")
HostBusReset == MayReset /\ Spend /\ AskReset("BUS_RST")
\* The only way out of a wrapper that was not valid.
HostGivesUp == MayReset /\ fw.at = "badcbw" /\ AskReset("BOT_RST") /\ UNCHANGED left

(***************************************************************************)
(* The USB controller.                                                     *)
(***************************************************************************)
\* Every segment of the context joins the ports it is meant to.
PathOpen == ctx.seg # NoSeg =>
              \A r \in Route(ctx.seg) : seg[r.seg].in = r.in /\ seg[r.seg].out = r.out

\* All of the data of a command with the CPU, or of a drive that was able to
\* send it; less of a drive that was not.
Sent == LET all == Wire!Expected(host.cmd)
        IN IF U2B(ctx) \/ drive[0].end = "ok" THEN {all} ELSE 0..all

DataInEnds ==
  /\ host.at = "busy" /\ usb.tx = "data" /\ PathOpen
  /\ U2B(ctx) \/ drive[0].end # "no"
  /\ \E n \in Sent :
       LET short == n < host.cmd.len
       IN /\ host' = [host EXCEPT !.moved = n, !.stalled = short, !.done = ~short]
          /\ usb' = [usb EXCEPT !.tx = None,
                      !.ints = @ \cup IF short THEN {"TX_DONE", "DIN_HALT"} ELSE {"TX_DONE"},
                      !.halts = @ \cup IF short THEN {"in"} ELSE {}]
  /\ UNCHANGED <<ctx, fw, drive, seg, left>>

\* No data for a host that asks for some, and no room for a host that sends.
DataInRefused ==
  /\ host.at = "busy" /\ usb.tx = "nodata" /\ host.cmd.len > 0
  /\ host' = [host EXCEPT !.stalled = TRUE]
  /\ usb' = [usb EXCEPT !.tx = None, !.ints = @ \cup {"DIN_HALT"}, !.halts = @ \cup {"in"}]
  /\ UNCHANGED <<ctx, fw, drive, seg, left>>
DataOutRefused ==
  /\ host.at = "busy" /\ usb.rx = "nodata"
  /\ host' = [host EXCEPT !.stalled = TRUE]
  /\ usb' = [usb EXCEPT !.rx = None, !.ints = @ \cup {"DOUT_HALT"}, !.halts = @ \cup {"out"}]
  /\ UNCHANGED <<ctx, fw, drive, seg, left>>

\* The host has sent all, or the drive has stopped and the buffer is full.
DataOutEnds ==
  /\ host.at = "busy" /\ usb.rx = "data"
  /\ host.moved = host.cmd.len \/ (~U2B(ctx) /\ drive[0].end = "err" /\ host.moved - Taken = 1)
  /\ usb' = [usb EXCEPT !.rx = None, !.ints = @ \cup {"RX_DONE"}]
  /\ UNCHANGED <<host, ctx, fw, drive, seg, left>>

(***************************************************************************)
(* The drives.                                                             *)
(***************************************************************************)
DriveTakes ==
  /\ drive[0].st = "active" /\ drive[0].end = "no" /\ drive[0].tcnt > 0
  /\ PathOpen /\ host.moved > Taken
  /\ drive' = [drive EXCEPT ![0].tcnt = @ - 1]
  /\ UNCHANGED <<host, ctx, fw, usb, seg, left>>

DriveEnds ==
  /\ drive[0].st = "active" /\ drive[0].end = "no"
  /\ \/ drive[0].tcnt = 0 /\ drive' = [drive EXCEPT ![0].end = "ok"] /\ UNCHANGED host
     \/ /\ drive' = [drive EXCEPT ![0].end = "err"]
        /\ host' = [host EXCEPT !.failed = host.at = "busy"]
  /\ UNCHANGED <<ctx, fw, usb, seg, left>>

\* From reset to ready.  IDENTIFY DEVICE goes through TX 4, which one drive
\* has at a time.
HasTx4(ch) == seg[<<"tx", 4>>].busy /\ seg[<<"tx", 4>>].in = Sata(ch)
Moves(ch, from, to) == /\ Running /\ drive[ch].st = from
                       /\ drive' = [drive EXCEPT ![ch].st = to]
PhyReady(ch) == Moves(ch, "reset", "phy") /\ UNCHANGED <<host, ctx, fw, usb, seg, left>>
ReadIdStarts(ch) == /\ Moves(ch, "phy", "id") /\ chk_TX_DBUF_idleSeg_B2S(seg)
                    /\ seg' = set_dbufConnection(seg, ReadID(ch))
                    /\ UNCHANGED <<host, ctx, fw, usb, left>>
ReadIdEnds(ch) == /\ Moves(ch, "id", "setup") /\ HasTx4(ch)
                  /\ seg' = free_dbufConnection(reset_dbuf_seg(seg, ReadID(ch)), ReadID(ch))
                  /\ UNCHANGED <<host, ctx, fw, usb, left>>
SetupEnds(ch) ==
  /\ Running /\ drive[ch].st = "setup"
  /\ LET n == [Now EXCEPT !.drive[ch].st = "ready"]
         m == IF AllUp(n) THEN [n EXCEPT !.fw.timer = 0] ELSE n
     IN Step(IF drive[ch].park THEN sata_exec_scm(m) ELSE m)

(***************************************************************************)
(* The firmware: usb_hdd, and usb_bot once a command has come.             *)
(***************************************************************************)
InBot == fw.at = "bot" /\ ~fw.asleep

EnterBot == /\ fw.at = "hdd" /\ usb.avail
            /\ Step([bot_init(Now) EXCEPT !.fw.at = "bot"])

ReceiveCBW ==
  /\ InBot /\ usb.avail
  /\ Step([Now EXCEPT !.ctx = [NoCtx EXCEPT !.state = "RECEIVE_CIU", !.cmd = host.cmd, !.dir = host.cmd.dir,
                                !.phase = IF host.cmd.op \in {"READ", "WRITE"} THEN Case(host.cmd) ELSE 0],
                      !.fw.que = TRUE, !.fw.new = TRUE, !.usb.avail = FALSE])

TakeUpCBW == InBot /\ fw.new /\ ~fw.cbw /\ fw.wait = {} /\ Step(ProcessCBW(Now))

WaitForReady == /\ InBot /\ fw.wait # {}
                /\ Step([Now EXCEPT !.fw.wait = {ch \in @ : drive[ch].st # "ready"}])

HandleCsw == InBot /\ "CSW_DONE" \in usb.ints /\ Step(CswDone(Now))
HandleMsc == InBot /\ "CSW_DONE" \notin usb.ints /\ Step(usb_msc_isr(Now))
HandleSata == Running /\ drive[0].st = "active" /\ drive[0].end # "no" /\ Step(sata_isr(Now))

\* usb_chk: a command that has waited too long for the drives is answered.  The
\* loop looks for the end of the last status first.
RspUnit == /\ InBot /\ fw.rsp /\ fw.new /\ "CSW_DONE" \notin usb.ints /\ ~(fw.wait = {} /\ ctx.state = "RECEIVE_CIU")
           /\ Step(Answer([Now EXCEPT !.ctx.state = "SETUP_DONE", !.fw.new = FALSE, !.fw.rsp = FALSE],
                          "ERROR"))

\* usb_chk: the data of the host is read in a first pass and used in a second.
PostDataOut ==
  /\ InBot /\ fw.cur
  /\ \/ fw.post = "unread" /\ Step([Now EXCEPT !.fw.post = "read"])
     \/ /\ fw.post = "read"
        /\ \E result \in {"GOOD", "ERROR"} :
             LET m == [ReleaseSeg(Now) EXCEPT !.fw.post = "no", !.ctx.status = result]
             IN Step(IF "BUS_RST" \in usb.ints THEN m ELSE usb_ctxt_send_status(m))

\* usb_chk: nothing to do for long enough.  The command that would start the
\* drives just then is left out, and so are drives no command has initialised.
Standby == /\ InBot /\ Initialised(Now) /\ ~usb.avail /\ ~fw.new /\ fw.wait = {} /\ \A ch \in Chs : drive[ch].st = "ready"
           /\ Spend /\ Become(ata_shutdown_hdd(Now, Chs))

\* In usb_hdd there is no command to drop.
BulkReset ==
  /\ "BOT_RST" \in usb.ints /\ "BUS_RST" \notin usb.ints
  /\ \/ fw.at \in {"bot", "badcbw"} /\ Step(bot_bulk_reset(Now))
     \/ /\ fw.at = "hdd"
        /\ Step([Now EXCEPT !.usb = [@ EXCEPT !.ints = usb.ints \ {"BOT_RST"}, !.halts = {}, !.csw = None]])
BusReset == "BUS_RST" \in usb.ints /\ Step(usb_host_rst(Now))

(***************************************************************************)
(* The start-up timer.                                                     *)
(***************************************************************************)
Stuck == \E ch \in Chs : drive[ch].st = "id" /\ ~HasTx4(ch)

sata_timeout_reset(m, ch) ==
  [m EXCEPT !.drive[ch] = ResetDrive,
            !.seg = IF m.drive[ch].st = "id" THEN free_dbufConnection(@, ReadID(ch)) ELSE @]

FisTimer(m) ==
  LET late(n, ch) == IF Up(n.drive[ch]) THEN n ELSE sata_timeout_reset(n, ch)
      n == late(late(m, 0), 1)
  IN IF AllUp(m) THEN [m EXCEPT !.fw.timer = 0]
     ELSE IF m.fw.timer = 1 THEN [n EXCEPT !.fw.timer = Spinup, !.fw.rsp = TRUE]
     ELSE [n EXCEPT !.fw.timer = @ - 1]

\* The timer may expire early a few times, and must when nothing else helps.
FisTimerEarly == fw.timer > 0 /\ Spend /\ Become(FisTimer(Now))
FisTimerDue == fw.timer > 0 /\ Stuck /\ Step(FisTimer(Now))

(***************************************************************************)
(* The host suspends the bus between two commands.  The firmware lets      *)
(* drives on their way come up, switches them off and stops; when the host *)
(* comes back they start again.                                            *)
(***************************************************************************)
usb_suspend ==
  /\ Running /\ host.at = "idle" /\ ~ResetAsked /\ ~usb.avail /\ ~fw.new /\ fw.wait = {}
  /\ \A ch \in Chs : drive[ch].st \in {"ready", "down"}
  /\ Spend /\ Become([ata_shutdown_hdd(Now, Chs) EXCEPT !.fw.asleep = TRUE])

Resume == /\ fw.asleep
          /\ Step([set_hdd_power(Now, Chs, TRUE) EXCEPT !.fw = [@ EXCEPT !.asleep = FALSE, !.timer = Spinup]])

(***************************************************************************)
(* The plug.                                                               *)
(***************************************************************************)
\* A bus reset left CSW_DONE standing: the next command would be dropped.
Deaf == fw.at = "hdd" /\ "CSW_DONE" \in usb.ints

\* The host may send nothing to a bridge that is deaf (MayArrive), but unplug it.
Unplug ==
  /\ fw.at # "off" /\ ~fw.new /\ ~drive[0].park /\ \A ch \in Chs : drive[ch].st # "id"
  /\ Spend \/ (Deaf /\ UNCHANGED left)
  /\ host' = Idle /\ usb' = QuietUsb
  /\ fw' = [fw EXCEPT !.at = "off", !.timer = 0, !.asleep = FALSE]
  /\ drive' = [ch \in Chs |-> DownDrive] /\ ctx' = NoCtx
  /\ seg' = IF fw.at # "hdd" /\ Working(Now) THEN rst_all_seg ELSE seg

Plug == /\ fw.at = "off"
        /\ fw' = [fw EXCEPT !.at = "hdd", !.timer = Spinup]
        /\ drive' = [ch \in Chs |-> ResetDrive]
        /\ UNCHANGED <<host, ctx, usb, seg, left>>

(***************************************************************************)
(* The specification.  A handler of the firmware runs when its turn in the *)
(* main loop comes; the controller, the drives and a host that waits for an*)
(* answer go on by themselves.                                             *)
(***************************************************************************)
Firmware == \/ EnterBot \/ ReceiveCBW \/ TakeUpCBW \/ WaitForReady \/ HandleCsw \/ HandleMsc
            \/ HandleSata \/ RspUnit \/ PostDataOut \/ BulkReset \/ BusReset \/ FisTimerDue
Hardware == \/ DataInEnds \/ DataInRefused \/ DataOutRefused \/ DataOutEnds
            \/ DriveTakes \/ DriveEnds
            \/ \E ch \in Chs : PhyReady(ch) \/ ReadIdStarts(ch) \/ ReadIdEnds(ch) \/ SetupEnds(ch)
HostGoesOn == HostSendsData \/ HostStalls \/ HostClearsHalt \/ HostTakesCsw \/ HostGivesUp
Progress == Firmware \/ Hardware \/ HostGoesOn
Rare == HostBulkReset \/ HostBusReset \/ Standby \/ FisTimerEarly \/ usb_suspend \/ Resume \/ Unplug \/ Plug

Next == Progress \/ Rare \/ \E c \in Commands : HostSends(c)
Spec == Init /\ [][Next]_vars /\ WF_vars(Progress)

(***************************************************************************)
(* Properties.                                                             *)
(***************************************************************************)
Hosts == [at : {"idle", "busy"}, cmd : Commands \cup {NoCommand}, moved : Nat, failed : BOOLEAN,
          status : Final \cup {None}, done : BOOLEAN, stalled : BOOLEAN]
Contexts == [state : {"free", "RECEIVE_CIU", "AWAIT_SATA_READY", "SETUP_DONE", "CHK_CDB_FIELD_DONE"},
             cmd : Commands \cup {NoCommand}, phase : 0..13,
             status : Final \cup {None, "PENDING", "HALT", "XFER_DONE"}, nodata : BOOLEAN, ccm : BOOLEAN,
             seg : {NoSeg, U2BR, U2BW, ReadSeg, WriteSeg}, flag : {"", "AES", "U2B", "VERIFY"},
             dir : {"in", "out"}]
Firmwares == [at : {"off", "hdd", "bot", "badcbw"}, new : BOOLEAN, que : BOOLEAN, cur : BOOLEAN, cbw : BOOLEAN,
              wait : SUBSET Chs, post : {"no", "unread", "read"}, rsp : BOOLEAN, timer : 0..Spinup,
              asleep : BOOLEAN]
Controllers == [avail : BOOLEAN, halts : SUBSET {"in", "out"}, csw : Final \cup {None},
                ints : SUBSET {"TX_DONE", "RX_DONE", "DIN_HALT", "DOUT_HALT", "CSW_DONE", "BOT_RST", "BUS_RST"},
                tx : {None, "data", "nodata"}, rx : {None, "data", "nodata"}]
Drives == [st : {"down", "reset", "phy", "id", "setup", "ready", "active"},
           end : {"no", "ok", "err"}, tcnt : Nat, init : BOOLEAN, park : BOOLEAN]
Machine == [host : Hosts, ctx : Contexts, fw : Firmwares, usb : Controllers, drive : [Chs -> Drives],
            seg : Segments]

\* The variables keep their types.  (The records of bot.c, usb.c, sata.c.)
TypeOK == Now \in Machine /\ left \in 0..Budget

\* What the host sees is the bulk-only transport of BotWire: every command
\* ends with one status that tells the truth of its data, of the drive and of
\* its case, or with a reset.  (usb_msc_isr and sata_isr set CTXT_Status in an
\* order that depends on the drive and the host.)
WireSpec == Wire!Spec

\* Between two commands nothing of the last one is left: no stall, no
\* interrupt, no context in the controller or on the drive, no segment but
\* that of an IDENTIFY DEVICE.  (CSW_DONE, bot.c; rst_all_seg.)
BetweenCommands == InBot /\ host.at = "idle" /\ ~usb.avail /\ ~ResetAsked /\ "CSW_DONE" \notin usb.ints
NothingLeft == BetweenCommands =>
  /\ usb.halts = {} /\ usb.ints = {} /\ usb.tx = None /\ usb.rx = None /\ usb.csw = None
  /\ ~fw.new /\ ~fw.que /\ ~fw.cur /\ fw.post = "no"
  /\ drive[0].st # "active" /\ ~drive[0].park
  /\ \A s \in Segs : seg[s].busy => \E ch \in Chs : drive[ch].st = "id" /\ s \in SegsOf(ReadID(ch))

\* A segment is busy for the command in progress or for an IDENTIFY DEVICE,
\* and no port serves two segments.  (dbuf.c; every early end of a command
\* has to give its segments back.)
SegmentOwner ==
  /\ \A s \in Segs : seg[s].busy =>
       \/ ctx.seg # NoSeg /\ s \in SegsOf(ctx.seg)
       \/ \E ch \in Chs : drive[ch].st = "id" /\ s \in SegsOf(ReadID(ch))
  /\ PortsApart(seg)

\* The host gets a status only when the drive is done with the command: what
\* the drive still held would run into the next one.  (set_csw_run.)
DriveDoneBeforeStatus == usb.csw # None => drive[0].st # "active" /\ ~drive[0].park

\* Every command is answered, or ended by a reset, whatever stalls, drive
\* errors, start-up timeouts and resets come in between.
Answered == host.at = "busy" ~> host.at = "idle"

\* "check case 2 (Hn < Di), case 7 (Hi < Di), or case 10 (Ho <> Di)": a READ
\* whose case is an error does not reach the drive.  (bot.c:527.)
PhaseCaseChecked == drive[0].st = "active" /\ ctx.cmd.op = "READ" => Case(ctx.cmd) \notin {2, 7, 10}
=============================================================================
