------------------------------- MODULE BotOps -------------------------------
(***************************************************************************)
(* The handlers of the bulk-only transport (bot.c, the common part of      *)
(* usb.c, the SCSI commands behind them in scsi.c and the end of a command *)
(* in sata.c) as operators on one record                                   *)
(*                                                                         *)
(*   host   the command as the host sees it                                *)
(*   ctx    the context (CDB_CTXT) the controller built for it             *)
(*   fw     the variables of the firmware: where its main loop is, newCtxt,*)
(*          ctxt_que, curCtxt, bot_active (cbw and wait), post_dout,       *)
(*          rsp_unit_not_ready, and chk_fis34_timer with spinup_timer      *)
(*   usb    the registers of the USB controller                            *)
(*   drive  the two drives; JBOD, and the commands go to drive 0           *)
(*   seg    the data buffer segments                                       *)
(*                                                                         *)
(* Residues, sense data and the contents of data are left out.             *)
(***************************************************************************)
EXTENDS Dbuf, BotCases

CONSTANTS Spinup,   \* spinup_timer after a start: 3 in the code
          Cipher    \* whether drive 0 is encrypted

Chs == {0, 1}
NoSeg == [use |-> None, ch |-> 0, aes |-> FALSE, uas2 |-> FALSE]
U2BR == [NoSeg EXCEPT !.use = "U2BR"]
U2BW == [NoSeg EXCEPT !.use = "U2BW"]
ReadSeg == [NoSeg EXCEPT !.use = "U2SR", !.aes = Cipher]
WriteSeg == [NoSeg EXCEPT !.use = "U2SW", !.aes = Cipher]
ReadID(ch) == [NoSeg EXCEPT !.use = "B2SR", !.ch = ch]

NoCtx == [state |-> "free", cmd |-> NoCommand, phase |-> 0, status |-> None, nodata |-> FALSE,
          ccm |-> FALSE, seg |-> NoSeg, flag |-> "", dir |-> "in"]

\* A CTXT_Status the host may be sent; the others are PENDING, HALT, XFER_DONE.
Final == {"GOOD", "ERROR", "PHASE"}

\* CTXT_FLAG_U2B; a VERIFY carries CTXT_FLAG_B2S too.
U2B(c) == c.flag \in {"U2B", "VERIFY"}

ResetDrive == [st |-> "reset", end |-> "no", tcnt |-> 0, init |-> FALSE, park |-> FALSE]
DownDrive == [ResetDrive EXCEPT !.st = "down"]

\* sobj_State >= SATA_READY, and sobj_State > SATA_READY.
Up(d) == d.st \in {"ready", "active"}
AllUp(m) == \A ch \in Chs : Up(m.drive[ch])

\* Emptying the segments of the context and giving them back.
ReleaseSeg(m) == IF m.ctx.seg = NoSeg THEN m
                 ELSE [m EXCEPT !.seg = free_dbufConnection(reset_dbuf_seg(@, m.ctx.seg), m.ctx.seg)]

(***************************************************************************)
(* usb.c: the context goes to the controller, and its status to the host.  *)
(***************************************************************************)
usb_ctxt_send_status(m) == [m EXCEPT !.fw.que = FALSE, !.usb.csw = m.ctx.status]

usb_exec_tx_ctxt(m) ==
  LET n == [m EXCEPT !.fw.cur = TRUE,
                     !.usb.tx = IF m.ctx.nodata THEN "nodata" ELSE "data",
                     !.seg = IF m.ctx.seg = NoSeg THEN @ ELSE keep_sourceDbufConnection(@, m.ctx.seg)]
  IN IF m.ctx.cmd.len = 0 THEN usb_ctxt_send_status(n) ELSE n

usb_exec_rx_ctxt(m) ==
  [m EXCEPT !.fw.cur = TRUE,
            !.usb.rx = IF m.ctx.nodata THEN "nodata" ELSE "data",
            !.seg = IF m.ctx.seg = NoSeg THEN @ ELSE set_dbufConnection(@, m.ctx.seg)]

usb_exec_que_ctxt(m) ==
  IF m.fw.cur \/ ~m.fw.que \/ m.ctx.state \notin {"SETUP_DONE", "CHK_CDB_FIELD_DONE"} THEN m
  ELSE IF m.ctx.dir = "in" THEN usb_exec_tx_ctxt(m) ELSE usb_exec_rx_ctxt(m)

(***************************************************************************)
(* bot.c: commands that move nothing, data to the host, data from it.      *)
(***************************************************************************)
\* Cases 1, 4 and 9; case 9 replaces whatever case the command was in.
usb_device_no_data(m) ==
  LET len == m.ctx.cmd.len
      in == len = 0 \/ m.ctx.dir = "in"
      to == IF in THEN "in" ELSE "out"
      phase == IF len = 0 THEN 1 ELSE IF in THEN 4 ELSE 9
  IN usb_exec_que_ctxt([m EXCEPT !.ctx = [@ EXCEPT !.seg = NoSeg, !.flag = "U2B", !.dir = to,
                                                   !.phase = phase, !.nodata = TRUE]])

\* The host asked for no data, or for data the other way: refused.
Refuse(m, none, wrong) ==
  [m EXCEPT !.ctx = [@ EXCEPT !.dir = IF m.ctx.cmd.len = 0 THEN "in" ELSE m.ctx.dir,
                              !.phase = IF m.ctx.cmd.len = 0 THEN none ELSE wrong,
                              !.status = "PHASE", !.nodata = TRUE]]

bot_device_data_in(m, bytes) ==
  LET n == [m EXCEPT !.ctx = [@ EXCEPT !.flag = "U2B", !.status = "GOOD"]]
      len == m.ctx.cmd.len
      to == [n EXCEPT !.ctx = [@ EXCEPT !.seg = U2BR, !.phase = IF len > bytes THEN 5 ELSE 6,
                                        !.nodata = FALSE],
                      !.seg = set_dbufSource(@, U2BR)]
  IN IF bytes = 0 THEN usb_device_no_data(n)
     ELSE usb_exec_que_ctxt(IF len = 0 \/ m.ctx.dir = "out" THEN Refuse(n, 2, 10) ELSE to)

bot_device_data_out(m, bytes) ==
  LET n == [m EXCEPT !.ctx = [@ EXCEPT !.flag = "U2B", !.status = "PENDING"]]
      len == m.ctx.cmd.len
      from == [n EXCEPT !.ctx = [@ EXCEPT !.seg = U2BW, !.phase = 12, !.nodata = FALSE]]
      short == [n EXCEPT !.ctx = [@ EXCEPT !.seg = U2BW, !.phase = 13, !.status = "PHASE"]]
  IN CASE bytes = 0 -> usb_device_no_data([n EXCEPT !.ctx.status = "GOOD"])
       [] bytes # 0 /\ (len = 0 \/ m.ctx.dir = "in") ->
            usb_exec_que_ctxt([Refuse(n, 3, 8) EXCEPT !.ctx.seg = NoSeg])
       [] bytes # 0 /\ len # 0 /\ m.ctx.dir = "out" ->
            IF len < bytes THEN usb_device_no_data(short) ELSE usb_exec_que_ctxt(from)

Answer(m, status) == usb_device_no_data([m EXCEPT !.ctx.status = status])

(***************************************************************************)
(* sata.c: a command goes to drive 0, or waits there until it is ready.    *)
(***************************************************************************)
sata_exec_scm(m) ==
  LET c == m.ctx
      n == [m EXCEPT !.drive[0] = [@ EXCEPT !.st = "active", !.end = "no", !.park = FALSE,
                                            !.tcnt = IF c.cmd.op = "WRITE" THEN c.cmd.dev ELSE 0]]
  IN IF c.flag = "VERIFY" THEN n
     ELSE usb_exec_que_ctxt([n EXCEPT !.seg = IF c.dir = "in" THEN set_dbufSource(@, c.seg) ELSE @])

sata_exec_ctxt(m) ==
  LET n == [m EXCEPT !.ctx.ccm = TRUE, !.ctx.status = "PENDING"]
  IN IF m.drive[0].st = "ready" THEN sata_exec_scm(n) ELSE [n EXCEPT !.drive[0].park = TRUE]

(***************************************************************************)
(* scsi.c: the drives are powered up for a command that needs them; the    *)
(* command waits, and comes back past the checks of its fields.            *)
(***************************************************************************)
DrivesOn(m) == \A ch \in Chs : m.drive[ch].st # "down"

\* A drive that is switched on starts from a reset.
set_hdd_power(m, slots, on) ==
  [m EXCEPT !.drive = [ch \in Chs |-> IF ch \notin slots THEN @[ch]
                                     ELSE IF on THEN ResetDrive ELSE [@[ch] EXCEPT !.st = "down"]]]

\* Of drives that are ready, or off.
ata_shutdown_hdd(m, slots) == set_hdd_power(m, slots, FALSE)

\* The drives that are off are switched on, and the loop waits for them.
ata_startup_hdd(m) ==
  LET off == {ch \in Chs : m.drive[ch].st = "down"}
  IN [set_hdd_power(m, off, TRUE) EXCEPT !.fw = [@ EXCEPT !.wait = m.fw.wait \cup off, !.timer = Spinup]]

Wake(m) == [ata_startup_hdd(m) EXCEPT !.fw = [@ EXCEPT !.cbw = FALSE, !.new = TRUE],
                                      !.ctx.state = "CHK_CDB_FIELD_DONE"]

\* What a READ or WRITE is told once the drives are on: a command for no
\* blocks ends here.
NoBlocks(m) == Answer(m, IF m.ctx.phase = 4 THEN "ERROR" ELSE "GOOD")

\* scsi_chk_valid_rw_cmd with the check of the case that follows it: only a
\* command that has not been through them takes them.
PassesChecks(m, wrong) ==
  m.ctx.state = "SETUP_DONE" => DrivesOn(m) /\ m.ctx.cmd.dev # 0 /\ m.ctx.phase \notin wrong
TurnAway(m) == IF ~DrivesOn(m) THEN Wake(m)
               ELSE IF m.ctx.cmd.dev = 0 THEN NoBlocks(m) ELSE Answer(m, "PHASE")

RunRW(m, seg) ==
  sata_exec_ctxt([m EXCEPT !.ctx = [@ EXCEPT !.seg = seg, !.flag = IF Cipher THEN "AES" ELSE "",
                                             !.nodata = FALSE]])

\* Mutant: a READ of more than the host asks for goes to the drive.
Read_Case7Runs(m) == IF PassesChecks(m, {2, 10}) THEN RunRW(m, ReadSeg) ELSE TurnAway(m)

Read(m) == IF PassesChecks(m, {2, 7, 10}) THEN RunRW(m, ReadSeg) ELSE TurnAway(m)
Write(m) == IF ~PassesChecks(m, {3, 8, 13}) THEN TurnAway(m)
            ELSE IF m.ctx.phase = 11 THEN Answer(m, "ERROR")
            ELSE RunRW(m, WriteSeg)

\* scsi_StartAtaCmd: the other commands, one of each kind.
Verify(m) == IF m.ctx.state = "SETUP_DONE" /\ ~DrivesOn(m) THEN Wake(m)
             ELSE sata_exec_ctxt([m EXCEPT !.ctx = [@ EXCEPT !.seg = NoSeg, !.flag = "VERIFY", !.phase = 1]])
TestUnitReady(m) == Answer(m, IF m.drive[0].st \in {"reset", "phy"} THEN "ERROR" ELSE "GOOD")

\* START STOP UNIT without IMMED.  A START that has to switch the drive on
\* waits on it, with the timer that answers for the firmware stopped; its
\* context becomes one for data to the host whatever the wrapper says.
StartUnit(m) ==
  IF m.drive[0].st # "down" THEN Answer(m, "GOOD")
  ELSE sata_exec_ctxt([ata_startup_hdd(m) EXCEPT !.fw.timer = 0,
                         !.ctx = [@ EXCEPT !.seg = NoSeg, !.flag = "VERIFY", !.dir = "in"]])
StopUnit(m) == Answer(ata_shutdown_hdd(m, {0}), "GOOD")

scsi_StartAtaCmd(m) ==
  LET n == [m EXCEPT !.ctx.status = "GOOD", !.ctx.state = "SETUP_DONE"]
  IN CASE m.ctx.cmd.op = "VERIFY" -> Verify(n)
       [] m.ctx.cmd.op = "TUR" -> TestUnitReady(n)
       [] m.ctx.cmd.op = "START" -> StartUnit(n)
       [] m.ctx.cmd.op = "STOP" -> StopUnit(n)
       [] m.ctx.cmd.op = "INQ" -> bot_device_data_in(n, m.ctx.cmd.dev)
       [] m.ctx.cmd.op = "SEL" -> bot_device_data_out(n, m.ctx.cmd.dev)
       [] OTHER -> Answer(n, "ERROR")

(***************************************************************************)
(* usb_bot: the newest context is taken up.                                *)
(***************************************************************************)
Setup(m) == [m EXCEPT !.ctx = [@ EXCEPT !.ccm = FALSE, !.seg = NoSeg, !.status = "PENDING",
                                        !.state = "SETUP_DONE"]]

\* usb_QEnum while some drive is not initialised: the commands that need no
\* drive go on, the others wait.
Proceeds == {"INQ", "TUR"}
Initialised(m) == \A ch \in Chs : m.drive[ch].init
MustWait(m) == ~Initialised(m) /\ ~AllUp(m) /\ m.ctx.cmd.op \notin Proceeds
usb_QEnum(m) ==
  IF Initialised(m) THEN m
  ELSE IF AllUp(m)
  THEN [m EXCEPT !.drive = [ch \in Chs |-> [@[ch] EXCEPT !.init = TRUE]],
                 !.ctx.state = IF @ = "AWAIT_SATA_READY" THEN "RECEIVE_CIU" ELSE @]
  ELSE IF MustWait(m) THEN [Setup(m) EXCEPT !.ctx.state = "AWAIT_SATA_READY"] ELSE Setup(m)

Execute(m) == CASE m.ctx.cmd.op = "READ" -> Read(m)
                [] m.ctx.cmd.op = "WRITE" -> Write(m)
                [] OTHER -> scsi_StartAtaCmd(m)

\* A wrapper that is not valid stalls both pipes until the host resets.
StallBoth(m) == [m EXCEPT !.fw.at = "badcbw", !.usb.halts = {"in", "out"}]

ProcessCBW(m) ==
  LET q == usb_QEnum([m EXCEPT !.usb.csw = None])
      n == [q EXCEPT !.fw.new = FALSE, !.fw.cbw = TRUE]
  IN IF MustWait(m) THEN q
     ELSE IF q.ctx.state # "RECEIVE_CIU" THEN Execute(n)
     ELSE IF m.ctx.cmd.op = "BAD" THEN StallBoth(n)
     ELSE Execute(Setup(n))
=============================================================================
