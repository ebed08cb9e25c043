---------------------------- MODULE SataChannel ----------------------------
(***************************************************************************)
(* One SATA channel of the bridge, from the host's command to its status:  *)
(* the UAS command state machine (usb_uas) that checks a command and hands *)
(* it to the channel, the SATA object with its interrupt service routine   *)
(* (sata_isr, one action for each sobj_State / sobj_subState it switches   *)
(* on), the native-command-queueing error recovery, the resets, and the    *)
(* drive.  JBOD, UAS: LUN 0 uses this channel alone; the drive of the      *)
(* other channel is ready and idle.                                        *)
(*                                                                         *)
(* The firmware is one loop: an action of it is one pass through one       *)
(* handler, and the drive, the host and the timers act in between.         *)
(***************************************************************************)
EXTENDS SataOps, Sequences

CONSTANTS
  Kind,       \* what each command context carries: a member of HostOps
  Faults,     \* what may go wrong at the drive
  Resets,     \* which resets happen
  MaxSubmit,  \* bound: commands the host sends in a behaviour
  MaxResets   \* bound: resets and timer expiries in a behaviour

HostOps == {"READ", "WRITE", "VERIFY", "PASS_IN", "PASS_OUT", "SRST", "HRST"}

ASSUME KindAssumption == Kind \in [Cmds -> HostOps]
ASSUME FaultAssumption == /\ Faults \subseteq {"SDB", "D2H", "LOG", "DEV", "ID"}
                          /\ Resets \subseteq {"TMF", "USB", "TIMER"}
ASSUME BoundAssumption == MaxSubmit \in Nat /\ MaxResets \in Nat

VARIABLES
  ch,                 \* the SATA object and the tags the drive runs
  cmd,                \* progress of each CDB_CTXT
  xfer_done,          \* contexts with CTXT_Status = CTXT_STATUS_XFER_DONE
  fis,                \* sata_FrameInt, sata_IntStatus and the FIS received
  drive,              \* the drive (external)
  newCtxt,            \* usb_ctxt.newCtxt: the part of ctxt_que not yet taken
  uas_cmd_state, new_dispatched_CIU, uas_ci_paused, uas_ci_paused_ctxt,
  sobj_init,          \* the host's enumeration gate is open
  chk_fis34_timer,    \* the timer of isr_timer0 is running
  submits, resets     \* the counters of the two bounds

uasVars == <<newCtxt, uas_cmd_state, new_dispatched_CIU, uas_ci_paused_ctxt>>
bounds  == <<submits, resets>>
vars == <<ch, cmd, xfer_done, fis, drive, uas_ci_paused, uasVars, sobj_init,
          chk_fis34_timer, bounds>>

\* "queued": in ctxt_que, not handed over; "sata": handed to the channel;
\* then the status the host is about to get.
Terminal == {"good", "failed", "aborted", "busy"}
CmdStates == {"none", "queued", "sata"} \cup Terminal
Pauses == {"NCQ_ERROR_CLEANUP", "SATA_NOT_READY", "WAIT_FOR_USB_RESOURCE",
           "NCQ_NO_ENOUGH_TAGS"}
Outcome == {"none", "ok", "err"}
XferSubStates == {"NCQ_RX_XFER", "NCQ_TX_XFER"}

Fis == [dmasetup : Tags \cup {NoTag}, sdb : Outcome, act : SUBSET Tags,
        d2h : Outcome, rx : Outcome, tx : Outcome]
Drive == [mode : {"ok", "halted"}, bad : Tags \cup {NoTag}, flushed : BOOLEAN,
          dxfer : Tags \cup {NoTag}, xferred : SUBSET Tags]

NoFis == [dmasetup |-> NoTag, sdb |-> "none", act |-> {}, d2h |-> "none",
          rx |-> "none", tx |-> "none"]
IdleDrive == [mode |-> "ok", bad |-> NoTag, flushed |-> FALSE,
              dxfer |-> NoTag, xferred |-> {}]

TypeOK ==
  /\ ch \in Channel
  /\ cmd \in [Cmds -> CmdStates]
  /\ xfer_done \subseteq Cmds
  /\ fis \in Fis
  /\ drive \in Drive
  /\ newCtxt \in Seq(Cmds)
  /\ uas_cmd_state \in {"IDLE", "CDB_CHECK", "CIU_DISPATCH", "CIU_PAUSED"}
  /\ new_dispatched_CIU \in Cmds \cup {NoCmd}
  /\ uas_ci_paused \subseteq Pauses
  /\ uas_ci_paused_ctxt \in Cmds \cup {NoCmd}
  /\ sobj_init \in BOOLEAN
  /\ chk_fis34_timer \in BOOLEAN
  /\ submits \in 0 .. MaxSubmit
  /\ resets \in 0 .. MaxResets

Init ==
  /\ ch = [State |-> "RESETING", subState |-> "ATA_READ_ID", cFree |-> {0},
           default_cFree |-> {0}, sBusy |-> {},
           ctxt |-> [t \in Tags |-> NoCmd], next |-> [t \in Tags |-> NoTag],
           prot |-> [t \in Tags |-> "ND"], que |-> NoTag, ncq_que |-> NoTag,
           cur |-> NoTag, EXQH |-> {}]
  /\ cmd = [c \in Cmds |-> "none"]
  /\ xfer_done = {}
  /\ fis = NoFis
  /\ drive = IdleDrive
  /\ newCtxt = <<>>
  /\ uas_cmd_state = "IDLE"
  /\ new_dispatched_CIU = NoCmd
  /\ uas_ci_paused = {}
  /\ uas_ci_paused_ctxt = NoCmd
  /\ sobj_init = FALSE
  /\ chk_fis34_timer = TRUE
  /\ submits = 0
  /\ resets = 0

Running == ch.State # "HUNG"
Ready(s) == s.State \in {"READY", "ACTIVE", "NCQ_FLUSH", "NCQ_ACTIVE"}

(***************************************************************************)
(* What the interrupt service routine works on: the SATA object, the       *)
(* contexts, the interrupt registers and the pause bits.                   *)
(***************************************************************************)
World == [ch |-> ch, cmd |-> cmd, fis |-> fis, paused |-> uas_ci_paused]

Becomes(w) ==
  /\ ch' = w.ch /\ cmd' = w.cmd /\ fis' = w.fis /\ uas_ci_paused' = w.paused

\* Status st is decided for a command the channel holds.
Finish(w, c, st) ==
  [w EXCEPT !.cmd = [d \in Cmds |-> IF d = c /\ w.cmd[d] = "sata" THEN st
                                    ELSE w.cmd[d]]]

\* usb_device_no_data on every context in C, made ready for its status
\* whatever its progress: CTXT_usb_state is set to SETUP_DONE first.
Abort(w, C, st) ==
  [w EXCEPT !.cmd = [d \in Cmds |-> IF d \in C /\ w.cmd[d] \in {"queued", "sata"}
                                    THEN st ELSE w.cmd[d]]]

\* The transfer of sobj_curScm is over: uas_Chk_pending_SIU lets its status
\* go, and the SCM keeps its tag until the Set Device Bits FIS.
ReleaseCur(w) ==
  IF w.ch.cur = NoTag THEN w
  ELSE [Finish(w, w.ch.ctxt[w.ch.cur], "good") EXCEPT
          !.ch.ctxt[w.ch.cur] = NoCmd, !.ch.cur = NoTag]

(***************************************************************************)
(* Frames and data-done interrupts in the NCQ states.                      *)
(***************************************************************************)
\* Mutant: the new command becomes current before the old one is released.
ProcessSataDMASetup_Swapped(w) ==
  LET t == w.fis.dmasetup
  IN  [ReleaseCur([w EXCEPT !.ch.cur = t]) EXCEPT
         !.fis.dmasetup = NoTag, !.ch.cur = t,
         !.ch.subState = IF w.ch.prot[t] = "FPDMAIN" THEN "NCQ_RX_XFER"
                         ELSE "NCQ_TX_XFER"]

\* A DMA Setup FIS once a data-buffer segment is free for it.
ProcessSataDMASetup(w) ==
  LET t == w.fis.dmasetup
  IN  [ReleaseCur(w) EXCEPT
         !.fis.dmasetup = NoTag, !.ch.cur = t,
         !.ch.subState = IF w.ch.prot[t] = "FPDMAIN" THEN "NCQ_RX_XFER"
                         ELSE "NCQ_TX_XFER"]

\* Mutants: every busy tag is detached; the parked commands are forgotten.
CompleteTags_AllBusy(w, T) ==
  LET s == [DetachCCM(w.ch, w.ch.sBusy) EXCEPT !.sBusy = w.ch.sBusy \ T]
  IN  [w EXCEPT !.ch = IF s.sBusy = {}
                       THEN exec_next_scm([s EXCEPT !.State = "READY"]) ELSE s]

CompleteTags_NoNext(w, T) ==
  LET w1 == IF w.ch.cur \in T THEN ReleaseCur(w) ELSE w
      s == [DetachCCM(w1.ch, T) EXCEPT !.sBusy = w1.ch.sBusy \ T]
  IN  [w1 EXCEPT !.ch = IF s.sBusy = {} THEN [s EXCEPT !.State = "READY"] ELSE s]

\* The tags T of a Set Device Bits FIS have completed.
CompleteTags(w, T) ==
  LET w1 == IF w.ch.cur \in T /\ w.ch.ctxt[w.ch.cur] # NoCmd THEN ReleaseCur(w)
            ELSE w
      s == [DetachCCM(w1.ch, T) EXCEPT !.sBusy = w1.ch.sBusy \ T]
  IN  [w1 EXCEPT !.ch = IF s.sBusy = {}
                        THEN exec_next_scm([s EXCEPT !.State = "READY"]) ELSE s]

ProcessSataSetDevBit(w) ==
  LET w0 == [w EXCEPT !.fis.sdb = "none", !.fis.act = {}]
      w1 == IF w.fis.act = {} THEN w0
            ELSE IF w.ch.subState = "NCQ_ERROR"
            THEN [w0 EXCEPT !.ch.subState = "NCQ_CLEANUP"]
            ELSE CompleteTags(w0, w.fis.act)
  IN  IF w.fis.sdb = "err"
      THEN [w1 EXCEPT !.paused = w1.paused \cup {"NCQ_ERROR_CLEANUP"},
                      !.ch.subState = "NCQ_ERROR"]
      ELSE w1

sata_NCQ_error_handle(w) == [w EXCEPT !.ch = recovery_NCQ_error(w.ch)]

\* Mutant: the error bit of the frame is not tested.
XferError_AnyFrame(w) ==
  IF w.fis.sdb # "none"
  THEN ProcessSataSetDevBit(
         sata_NCQ_error_handle([w EXCEPT !.ch.subState = "NCQ_ERROR"]))
  ELSE w

\* A Set Device Bits FIS with the error bit while data moves: the recovery
\* starts before the FIS is read.
XferError(w) ==
  IF w.fis.sdb = "err"
  THEN ProcessSataSetDevBit(
         sata_NCQ_error_handle([w EXCEPT !.ch.subState = "NCQ_ERROR"]))
  ELSE w

\* DATATXDONE: the SATA side of a write is done; it waits for the USB side.
ProcessDataTXDONE(w, done) ==
  LET c == IF w.ch.cur = NoTag THEN NoCmd ELSE w.ch.ctxt[w.ch.cur]
  IN  IF w.fis.tx = "none" \/ (c # NoCmd /\ c \notin done) THEN w
      ELSE [w EXCEPT !.fis.tx = "none",
                     !.ch.subState = IF c = NoCmd THEN w.ch.subState
                                     ELSE "NCQ_IDLE"]

\* Mutant: the failed command is detached without a status.
read_QUEUE_ERROR_log_Silent(w, bad) ==
  IF bad = NoTag THEN w
  ELSE [w EXCEPT !.ch = DetachCCM([w.ch EXCEPT !.sBusy = w.ch.sBusy \ {bad}], {bad})]

\* read_QUEUE_ERROR_log: the command of the tag named in the log fails; a log
\* with its NQ bit names none (NoTag).
read_QUEUE_ERROR_log(w, bad) ==
  IF bad = NoTag THEN w
  ELSE [Abort(w, {w.ch.ctxt[bad]}, "failed") EXCEPT
          !.ch = DetachCCM([w.ch EXCEPT !.sBusy = w.ch.sBusy \ {bad}], {bad})]

\* Mutant: the pause bit stays set.
CleanupDone_StaysPaused(w, bad) ==
  LET w1 == read_QUEUE_ERROR_log(
              [w EXCEPT !.ch.subState = "NCQ_IDLE", !.ch.State = "READY"], bad)
  IN  [Abort(w1, {w1.ch.ctxt[t] : t \in Tags}, "aborted") EXCEPT
         !.ch = Cleanup_NCQCMD(w1.ch)]

\* The log is in: name the failed command, abort all the others.
CleanupDone(w, bad) ==
  LET w1 == read_QUEUE_ERROR_log(
              [w EXCEPT !.ch.subState = "NCQ_IDLE", !.ch.State = "READY"], bad)
      C  == {w1.ch.ctxt[t] : t \in Tags}
  IN  [Abort(w1, C, "aborted") EXCEPT
         !.ch = Cleanup_NCQCMD(w1.ch), !.paused = w1.paused \ {"NCQ_ERROR_CLEANUP"}]

\* The log could not be read: uas_abort_all.  The context on the USB bus
\* (active) and the heads of the two queues are freed without a status.
uas_abort_all(w, active) ==
  LET s == w.ch
      heads == {s.ctxt[t] : t \in {s.que, s.ncq_que} \ {NoTag}}
      freed == heads \cup {active}
  IN  [w EXCEPT
        !.cmd = [c \in Cmds |-> IF c \in freed THEN "none" ELSE w.cmd[c]],
        !.ch = [abort_all(s) EXCEPT !.subState = "NCQ_IDLE"]]

(***************************************************************************)
(* The host and the UAS command state machine.                             *)
(***************************************************************************)
\* The host sends a command: a free context is filled and queued.
HostSend(c) ==
  /\ cmd[c] = "none" /\ submits < MaxSubmit
  /\ cmd' = [cmd EXCEPT ![c] = "queued"]
  /\ xfer_done' = xfer_done \ {c}
  /\ newCtxt' = Append(newCtxt, c)
  /\ submits' = submits + 1
  /\ UNCHANGED <<ch, fis, drive, uas_ci_paused, uas_cmd_state,
                 new_dispatched_CIU, uas_ci_paused_ctxt, sobj_init,
                 chk_fis34_timer, resets>>

\* UAS_CMD_STATE_IDLE: take a command, unless paused.  Until the drive is
\* ready after a hard reset, usb_QEnum holds every media command back.
UasIdle ==
  /\ Running /\ uas_cmd_state = "IDLE" /\ uas_ci_paused = {}
  /\ newCtxt # <<>>
  /\ sobj_init \/ Ready(ch)
  /\ sobj_init' = TRUE
  /\ new_dispatched_CIU' = Head(newCtxt)
  /\ newCtxt' = Tail(newCtxt)
  /\ uas_cmd_state' = "CDB_CHECK"
  /\ xfer_done' = xfer_done \ {Head(newCtxt)}
  /\ UNCHANGED <<ch, cmd, fis, drive, uas_ci_paused, uas_ci_paused_ctxt,
                 chk_fis34_timer, bounds>>

UasIdlePaused ==
  /\ Running /\ uas_cmd_state = "IDLE" /\ uas_ci_paused # {}
  /\ uas_cmd_state' = "CIU_PAUSED"
  /\ UNCHANGED <<ch, cmd, xfer_done, fis, drive, uas_ci_paused, newCtxt,
                 new_dispatched_CIU, uas_ci_paused_ctxt, sobj_init,
                 chk_fis34_timer, bounds>>

\* usb_ctxt.curCtxt # NULL while no data moves: a status is on its way.
StatusOnBus == \E c \in Cmds : cmd[c] \in Terminal

InCdbCheck(c) == Running /\ uas_cmd_state = "CDB_CHECK" /\ new_dispatched_CIU = c

CdbCheckReadWrite(c) ==
  /\ InCdbCheck(c) /\ Kind[c] \in {"READ", "WRITE"}
  /\ uas_cmd_state' = "CIU_DISPATCH"
  /\ UNCHANGED <<ch, cmd, xfer_done, fis, drive, uas_ci_paused, newCtxt,
                 new_dispatched_CIU, uas_ci_paused_ctxt, sobj_init,
                 chk_fis34_timer, bounds>>

\* The commands that must not meet a busy drive are put back (uas_CIU_pending).
MustWait(c) == /\ Kind[c] \in {"PASS_IN", "PASS_OUT", "SRST", "HRST"}
               /\ ch.State \in {"ACTIVE", "NCQ_FLUSH", "NCQ_ACTIVE"} \/ StatusOnBus

CdbCheckPending(c) ==
  /\ InCdbCheck(c) /\ MustWait(c)
  /\ uas_ci_paused' = uas_ci_paused \cup {"SATA_NOT_READY"}
  /\ uas_ci_paused_ctxt' = c
  /\ newCtxt' = <<c>> \o newCtxt
  /\ uas_cmd_state' = "CIU_PAUSED"
  /\ UNCHANGED <<ch, cmd, xfer_done, fis, drive, new_dispatched_CIU, sobj_init,
                 chk_fis34_timer, bounds>>

\* scsi_StartAtaCmd: the queue pauses until this command is over.
Started(c) ==
  /\ uas_ci_paused' = uas_ci_paused \cup {"WAIT_FOR_USB_RESOURCE"}
  /\ uas_ci_paused_ctxt' = c
  /\ uas_cmd_state' = "CIU_PAUSED"
  /\ UNCHANGED <<xfer_done, newCtxt, new_dispatched_CIU, bounds>>

ProtOf(c) == CASE Kind[c] = "READ" -> "FPDMAIN" [] Kind[c] = "WRITE" -> "FPDMAOUT"
               [] Kind[c] = "PASS_IN" -> "DMAIN" [] Kind[c] = "PASS_OUT" -> "DMAOUT"
               [] OTHER -> "ND"

\* VERIFY answers BUSY when no CCM is free; the ATA pass-through commands
\* ignore what sata_exec_ctxt returns.
StartAtaCmd(c) ==
  /\ InCdbCheck(c) /\ Kind[c] \in {"VERIFY", "PASS_IN", "PASS_OUT"} /\ ~MustWait(c)
  /\ Started(c)
  /\ ch' = exec_ctxt(ch, c, ProtOf(c))
  /\ cmd' = [cmd EXCEPT ![c] = IF ch.cFree = {} /\ Kind[c] = "VERIFY" THEN "busy"
                               ELSE "sata"]
  /\ UNCHANGED <<fis, drive, sobj_init, chk_fis34_timer>>

\* ATA soft reset by pass-through: sata_Reset(SATA_SOFT_RST).
PassSoftReset(c) ==
  /\ InCdbCheck(c) /\ Kind[c] = "SRST" /\ ~MustWait(c)
  /\ Started(c)
  /\ ch' = InitSataObj([ch EXCEPT !.State = "PHY_RDY", !.EXQH = {}])
  /\ fis' = NoFis
  /\ drive' = IdleDrive
  /\ cmd' = [cmd EXCEPT ![c] = "good"]
  /\ UNCHANGED <<sobj_init, chk_fis34_timer>>

\* Mutant: the object is initialised and the port is not reset.
HardRst_NoPort(s) ==
  /\ ch' = InitSataObj([s EXCEPT !.State = "RESETING"])
  /\ fis' = NoFis
  /\ drive' = IdleDrive
  /\ sobj_init' = FALSE
  /\ chk_fis34_timer' = TRUE

\* sata_Reset(SATA_HARD_RST) and the link after it.
HardRst(s) == /\ ch' = InitSataObj(HardReset(s))
              /\ fis' = NoFis
              /\ drive' = IdleDrive
              /\ sobj_init' = FALSE
              /\ chk_fis34_timer' = TRUE

PassHardReset(c) ==
  /\ InCdbCheck(c) /\ Kind[c] = "HRST" /\ ~MustWait(c)
  /\ Started(c)
  /\ HardRst(ch)
  /\ cmd' = [cmd EXCEPT ![c] = "good"]

\* UAS_CMD_STATE_CIU_DISPATCH: hand a READ or WRITE over.  The pause bits
\* are not looked at again.
UasDispatch(c) ==
  /\ Running /\ uas_cmd_state = "CIU_DISPATCH" /\ new_dispatched_CIU = c
  /\ uas_cmd_state' = "IDLE"
  /\ ch' = exec_ncq_ctxt(ch, c, ProtOf(c))
  /\ IF ch.cFree = {}
     THEN /\ cmd' = [cmd EXCEPT ![c] = "busy"]
          /\ uas_ci_paused' = uas_ci_paused \cup {"NCQ_NO_ENOUGH_TAGS"}
          /\ uas_ci_paused_ctxt' = c
     ELSE /\ cmd' = [cmd EXCEPT ![c] = "sata"]
          /\ UNCHANGED <<uas_ci_paused, uas_ci_paused_ctxt>>
  /\ UNCHANGED <<xfer_done, fis, drive, newCtxt, new_dispatched_CIU, sobj_init,
                 chk_fis34_timer, bounds>>

\* Mutant: NCQ_NO_ENOUGH_TAGS is never lifted by itself.
Lifted_TagsForgotten ==
  IF /\ uas_ci_paused \cap {"WAIT_FOR_USB_RESOURCE", "SATA_NOT_READY"} # {}
     /\ ch.State = "READY" /\ ~StatusOnBus
  THEN {"SATA_NOT_READY", "WAIT_FOR_USB_RESOURCE"} ELSE {}

\* UAS_CMD_STATE_CIU_PAUSED: which pause bits one pass clears.
Lifted ==
  IF "WAIT_FOR_USB_RESOURCE" \in uas_ci_paused
  THEN IF ch.State = "READY" /\ ~StatusOnBus
       THEN {"SATA_NOT_READY", "WAIT_FOR_USB_RESOURCE"} ELSE {}
  ELSE IF "SATA_NOT_READY" \in uas_ci_paused
  THEN IF ch.State = "READY" THEN {"SATA_NOT_READY"} ELSE {}
  ELSE IF ch.cFree # {} THEN {"NCQ_NO_ENOUGH_TAGS"} ELSE {}

UasCiuPaused ==
  /\ Running /\ uas_cmd_state = "CIU_PAUSED"
  /\ uas_ci_paused' = uas_ci_paused \ Lifted
  /\ uas_cmd_state' = IF uas_ci_paused' = {} THEN "IDLE" ELSE "CIU_PAUSED"
  /\ UNCHANGED <<ch, cmd, xfer_done, fis, drive, newCtxt, new_dispatched_CIU,
                 uas_ci_paused_ctxt, sobj_init, chk_fis34_timer, bounds>>

(***************************************************************************)
(* The USB side: the data phase of the command bound to sobj_curScm, and   *)
(* the Sense IU of one whose status is decided.                            *)
(***************************************************************************)
UsbDataDone(c) ==
  /\ Running
  /\ cmd[c] = "sata" /\ c \notin xfer_done
  /\ ch.cur # NoTag /\ ch.ctxt[ch.cur] = c
  /\ ch.prot[ch.cur] \in {"FPDMAOUT", "DMAIN", "DMAOUT"}
  /\ xfer_done' = xfer_done \cup {c}
  /\ UNCHANGED <<ch, cmd, fis, drive, uas_ci_paused, uasVars, sobj_init,
                 chk_fis34_timer, bounds>>

\* usb_uas_SIU_DONE_isr: the context is free again.
UsbSiuDone(c) ==
  /\ Running
  /\ cmd[c] \in Terminal
  /\ cmd' = [cmd EXCEPT ![c] = "none"]
  /\ uas_ci_paused' = IF uas_ci_paused_ctxt = c
                      THEN uas_ci_paused \ {"WAIT_FOR_USB_RESOURCE"}
                      ELSE uas_ci_paused
  /\ UNCHANGED <<ch, xfer_done, fis, drive, uasVars, sobj_init,
                 chk_fis34_timer, bounds>>

(***************************************************************************)
(* The drive (external).  It runs what was written to sata_EXQHINP and     *)
(* answers with frames; a frame waits while one of its kind is unread, and *)
(* a register frame raises its bit for non-data commands, or to report an  *)
(* error.                                                                  *)
(***************************************************************************)
Queued  == {t \in ch.EXQH : ch.prot[t] \in NcqProts}
Legacy  == ch.EXQH \ Queued
ReadLog == {t \in Legacy : drive.mode = "halted" /\ ch.ctxt[t] = Internal}

firmwareVars == <<cmd, xfer_done, uas_ci_paused, uasVars, sobj_init,
                  chk_fis34_timer, bounds>>

DriveDmaSetup(t) ==
  /\ drive.mode = "ok" /\ drive.dxfer = NoTag /\ fis.dmasetup = NoTag
  /\ t \in Queued \ drive.xferred
  /\ fis' = [fis EXCEPT !.dmasetup = t]
  /\ drive' = [drive EXCEPT !.dxfer = t]
  /\ UNCHANGED <<ch, firmwareVars>>

\* The data of the transfer the bridge has accepted went through.
DriveData ==
  /\ drive.dxfer # NoTag /\ ch.cur = drive.dxfer /\ ch.subState \in XferSubStates
  /\ fis' = IF ch.subState = "NCQ_RX_XFER" THEN [fis EXCEPT !.rx = "ok"]
            ELSE [fis EXCEPT !.tx = "ok"]
  /\ drive' = [drive EXCEPT !.dxfer = NoTag,
                            !.xferred = drive.xferred \cup {drive.dxfer}]
  /\ UNCHANGED <<ch, firmwareVars>>

\* One Set Device Bits FIS reports any number of completed tags.
DriveSetDevBits(S) ==
  /\ drive.mode = "ok" /\ drive.dxfer = NoTag /\ fis.sdb = "none"
  /\ S # {} /\ S \subseteq Queued \cap drive.xferred
  /\ fis' = [fis EXCEPT !.sdb = "ok", !.act = S]
  /\ drive' = [drive EXCEPT !.xferred = drive.xferred \ S]
  /\ ch' = [ch EXCEPT !.EXQH = ch.EXQH \ S]
  /\ UNCHANGED firmwareVars

\* The command t fails; the tags in S completed before it.
DriveNcqError(t, S) ==
  /\ "SDB" \in Faults
  /\ drive.mode = "ok" /\ drive.dxfer \in {NoTag, t} /\ fis.sdb = "none"
  /\ t \in Queued /\ S \subseteq (Queued \cap drive.xferred) \ {t}
  /\ fis' = [fis EXCEPT !.sdb = "err", !.act = S]
  /\ drive' = [drive EXCEPT !.mode = "halted", !.bad = t, !.dxfer = NoTag,
                            !.xferred = drive.xferred \ S]
  /\ ch' = [ch EXCEPT !.EXQH = ch.EXQH \ S]
  /\ UNCHANGED firmwareVars

\* The drive refuses the command t with a register frame.
DriveReject(t) ==
  /\ "D2H" \in Faults
  /\ drive.mode = "ok" /\ drive.dxfer = NoTag /\ fis.d2h = "none"
  /\ t \in Queued \ drive.xferred
  /\ fis' = [fis EXCEPT !.d2h = "err"]
  /\ drive' = [drive EXCEPT !.mode = "halted", !.bad = t]
  /\ UNCHANGED <<ch, firmwareVars>>

\* Reading the log makes the drive drop its queue and report every tag.
DriveFlush ==
  /\ ReadLog # {} /\ ~drive.flushed /\ fis.sdb = "none"
  /\ fis' = [fis EXCEPT !.sdb = "ok", !.act = Tags]
  /\ drive' = [drive EXCEPT !.flushed = TRUE, !.xferred = {}]
  /\ ch' = [ch EXCEPT !.EXQH = ch.EXQH \ Queued]
  /\ UNCHANGED firmwareVars

\* The log data, or a drive that does not know the log.
DriveLogData ==
  /\ drive.flushed /\ fis.rx = "none"
  /\ \E t \in ReadLog, r \in IF "LOG" \in Faults THEN {"ok", "err"} ELSE {"ok"} :
       /\ fis' = [fis EXCEPT !.rx = r]
       /\ ch' = [ch EXCEPT !.EXQH = ch.EXQH \ {t}]
  /\ drive' = [drive EXCEPT !.mode = "ok", !.flushed = FALSE]
  /\ UNCHANGED firmwareVars

\* A drive that failed its first IDENTIFY DEVICE would be refused as a disk
\* (determine_slot_status): the bridge's own commands fail on a known one.
IdFault == "ID" \in Faults /\ ch.default_cFree # {0}

\* A non-queued command, alone on the drive; a halted drive refuses it.
DriveLegacy(t) ==
  /\ t \in Legacy \ ReadLog /\ (drive.mode = "ok" => ch.EXQH = {t})
  /\ LET r == IF drive.mode = "halted" THEN {"err"}
              ELSE IF ch.ctxt[t] = Internal
              THEN IF IdFault THEN {"ok", "err"} ELSE {"ok"}
              ELSE IF "DEV" \in Faults THEN {"ok", "err"} ELSE {"ok"}
     IN  \E o \in r :
           \/ ch.prot[t] = "ND" /\ fis.d2h = "none" /\ fis' = [fis EXCEPT !.d2h = o]
           \/ /\ ch.prot[t] \in {"PIOIN", "DMAIN"} /\ fis.rx = "none"
              /\ fis' = [fis EXCEPT !.rx = o]
           \/ ch.prot[t] = "DMAOUT" /\ fis.tx = "none" /\ fis' = [fis EXCEPT !.tx = o]
  /\ ch' = [ch EXCEPT !.EXQH = ch.EXQH \ {t}]
  /\ UNCHANGED <<drive, firmwareVars>>

DriveStep ==
  \/ \E t \in Tags : DriveDmaSetup(t) \/ DriveLegacy(t)
  \/ DriveData \/ DriveFlush \/ DriveLogData
  \/ \E S \in SUBSET Tags : DriveSetDevBits(S)

(***************************************************************************)
(* sata_isr, SATA_NCQ_FLUSH and SATA_NCQ_ACTIVE, by sobj_subState.         *)
(***************************************************************************)
isrRest == <<xfer_done, drive, uasVars, sobj_init, chk_fis34_timer, bounds>>

InNcq(sub) == Running /\ NcqPhase(ch) /\ ch.subState = sub

IsrDmaSetup ==
  /\ InNcq("NCQ_IDLE") /\ fis.dmasetup # NoTag
  /\ Becomes(ProcessSataDMASetup(World))
  /\ UNCHANGED isrRest

\* No segment is idle: only the pending status went out.
IsrDmaSetupNoSeg ==
  /\ InNcq("NCQ_IDLE") /\ fis.dmasetup # NoTag /\ ch.cur # NoTag
  /\ Becomes(ReleaseCur(World))
  /\ UNCHANGED isrRest

\* A Set Device Bits FIS waits for the data-done interrupt of the transfer.
IsrSetDevBits ==
  /\ InNcq("NCQ_IDLE") /\ fis.dmasetup = NoTag /\ fis.sdb # "none"
  /\ ch.cur = NoTag \/ (fis.rx = "none" /\ fis.tx = "none")
  /\ LET w == ProcessSataSetDevBit(World)
     IN  Becomes(IF w.ch.subState = "NCQ_ERROR" THEN sata_NCQ_error_handle(w)
                 ELSE w)
  /\ UNCHANGED isrRest

\* A register frame with the error bit starts the recovery, but sets no
\* pause bit.
IsrNcqD2H ==
  /\ InNcq("NCQ_IDLE") /\ fis.dmasetup = NoTag /\ fis.sdb = "none"
  /\ fis.d2h # "none"
  /\ LET w == [World EXCEPT !.fis.d2h = "none"]
     IN  Becomes(IF fis.d2h = "err"
                 THEN sata_NCQ_error_handle([w EXCEPT !.ch.subState = "NCQ_ERROR"])
                 ELSE w)
  /\ UNCHANGED isrRest

IsrNcqTxXfer ==
  /\ InNcq("NCQ_TX_XFER") /\ (fis.tx # "none" \/ fis.sdb = "err")
  /\ Becomes(XferError(ProcessDataTXDONE(World, xfer_done)))
  /\ UNCHANGED isrRest

\* ProcessDataRXDONE for a command that is not PIO-in: the data is in.
RxIdle(w) ==
  [w EXCEPT !.fis.rx = "none",
            !.ch.subState = IF w.fis.rx = "none" \/ w.ch.cur = NoTag
                            THEN w.ch.subState ELSE "NCQ_IDLE"]

IsrNcqError ==
  /\ InNcq("NCQ_ERROR") /\ fis.sdb # "none"
  /\ Becomes(ProcessSataSetDevBit(World))
  /\ UNCHANGED isrRest

\* In NCQ_CLEANUP a data-done interrupt means the log is in.
LogIsIn == /\ InNcq("NCQ_CLEANUP") /\ fis.rx # "none"
           /\ ch.cur # NoTag /\ ch.prot[ch.cur] = "PIOIN"

\* SATA_SUB_STATE_NCQ_CLEANUP shares its case with NCQ_RX_XFER: there the
\* interrupt is the end of a transfer, or of a command other than the log.
RxXfer == InNcq("NCQ_RX_XFER") \/ (InNcq("NCQ_CLEANUP") /\ ~LogIsIn)

IsrNcqRxXfer ==
  /\ RxXfer /\ (fis.rx # "none" \/ fis.sdb = "err")
  /\ Becomes(XferError(RxIdle(World)))
  /\ UNCHANGED isrRest

LogRead == [World EXCEPT !.fis.rx = "none", !.ch = delete_curSCM(ch)]

IsrCleanupDone ==
  /\ LogIsIn /\ fis.rx = "ok"
  /\ Becomes(XferError(CleanupDone(LogRead, drive.bad)))
  /\ UNCHANGED isrRest

\* `active` is usb_ctxt.curCtxt, the context on the USB bus.
IsrCleanupFailed(active) ==
  /\ LogIsIn /\ fis.rx = "err"
  /\ active = NoCmd \/ (active \in Cmds /\ cmd[active] \notin {"none", "queued"})
  /\ LET w == uas_abort_all(LogRead, active)
     IN  IF w.ch.State = "RESETING"
         THEN /\ Becomes([w EXCEPT !.fis = NoFis])
              /\ drive' = IdleDrive
              /\ sobj_init' = FALSE
              /\ chk_fis34_timer' = TRUE
              /\ UNCHANGED <<xfer_done, uasVars, bounds>>
         ELSE Becomes(XferError(w)) /\ UNCHANGED isrRest

(***************************************************************************)
(* sata_isr, SATA_ACTIVE: one command that is not queued.  The three       *)
(* interrupts are those latched at entry.                                  *)
(***************************************************************************)
\* The command is over: its status, its CCM, and the next parked command.
EndCommand(w, st) ==
  [Finish(w, w.ch.ctxt[w.ch.cur], st) EXCEPT
     !.ch = exec_next_scm([delete_curSCM(w.ch) EXCEPT !.State = "READY"])]

AwaitsUsb(w) ==
  LET c == w.ch.ctxt[w.ch.cur]
  IN  c \in Cmds /\ Kind[c] # "VERIFY" /\ c \notin xfer_done

StatusOf(o) == IF o = "err" THEN "failed" ELSE "good"

ProcessDMADATADONE(w, dir, o) ==
  LET quiet == [w EXCEPT !.fis.rx = IF dir = "rx" THEN "none" ELSE @,
                         !.fis.tx = IF dir = "tx" THEN "none" ELSE @]
      clear == [quiet EXCEPT !.fis.d2h = "none",
                             !.fis.tx = IF dir = "rx" THEN "none" ELSE @]
  IN  IF w.ch.cur = NoTag THEN clear
      ELSE IF w.ch.ctxt[w.ch.cur] = NoCmd THEN [quiet EXCEPT !.ch.cur = NoTag]
      ELSE IF AwaitsUsb(w) THEN w
      ELSE EndCommand(clear, StatusOf(o))

\* VERIFY is sent with CTXT_FLAG_B2S, so no sense data is made of an error.
ProcessDMAStatusFis(w, o) ==
  LET clear == [w EXCEPT !.fis.d2h = "none"]
      c == IF w.ch.cur = NoTag THEN NoCmd ELSE w.ch.ctxt[w.ch.cur]
  IN  IF w.ch.cur = NoTag THEN clear
      ELSE IF AwaitsUsb(w) THEN w
      ELSE EndCommand(clear, IF c \in Cmds /\ Kind[c] = "VERIFY" THEN "good"
                             ELSE StatusOf(o))

IsrActive ==
  /\ Running /\ ch.State = "ACTIVE"
  /\ fis # NoFis
  /\ LET w0 == [World EXCEPT !.fis.dmasetup = NoTag, !.fis.sdb = "none",
                             !.fis.act = {}]
         w1 == IF fis.rx = "none" THEN w0 ELSE ProcessDMADATADONE(w0, "rx", fis.rx)
         w2 == IF fis.tx = "none" THEN w1 ELSE ProcessDMADATADONE(w1, "tx", fis.tx)
     IN  Becomes(IF fis.d2h = "none" THEN w2 ELSE ProcessDMAStatusFis(w2, fis.d2h))
  /\ UNCHANGED isrRest

(***************************************************************************)
(* sata_isr, from the reset to SATA_READY.                                 *)
(***************************************************************************)
initRest == <<cmd, xfer_done, drive, uas_ci_paused, uasVars, sobj_init, bounds>>

IsrPhyReady ==
  /\ Running /\ ch.State = "RESETING"
  /\ ch' = [ch EXCEPT !.State = "PHY_RDY"]
  /\ UNCHANGED <<fis, chk_fis34_timer, initRest>>

\* The signature FIS; its arrival is part of the step.
IsrSignature ==
  /\ Running /\ ch.State = "PHY_RDY"
  /\ ch' = exec_ctxt([ch EXCEPT !.State = "PRE_READY", !.subState = "ATA_READ_ID"],
                     Internal, "PIOIN")
  /\ UNCHANGED <<fis, chk_fis34_timer, initRest>>

\* Mutant: the mask is shifted once too often.
ata_init_OneMore(s) == [s EXCEPT !.default_cFree = 0 .. Depth,
                                 !.cFree = 0 .. Depth]

\* ata_init: the pool is as large as the drive's queue, and all free.
ata_init(s) == [s EXCEPT !.default_cFree = 0 .. (Depth - 1),
                         !.cFree = 0 .. (Depth - 1)]

SpinUp(s) ==
  [exec_ctxt(s, Internal, "ND") EXCEPT !.subState = "SPIN_UP_HDD"]

IsrReadId ==
  /\ Running /\ ch.State = "PRE_READY" /\ ch.subState = "ATA_READ_ID"
  /\ fis.rx # "none"
  /\ fis' = [fis EXCEPT !.rx = "none"]
  /\ \/ (ch.cur = NoTag \/ ch.prot[ch.cur] = "ND") /\ UNCHANGED ch
     \/ /\ ch.cur # NoTag /\ ch.prot[ch.cur] \notin {"ND", "PIOIN"}
        /\ ch' = [ch EXCEPT !.subState = "NCQ_IDLE"]
     \/ /\ ch.cur # NoTag /\ ch.prot[ch.cur] = "PIOIN"
        /\ \/ /\ fis.rx = "err"
              /\ ch' = [delete_curSCM(ch) EXCEPT !.subState = "INITIALIZED_FAIL",
                                                 !.State = "READY"]
           \/ fis.rx = "ok" /\ ch' = SpinUp(ata_init(delete_curSCM(ch)))
           \* Identify data ata_init refuses: its result is overwritten.
           \/ /\ fis.rx = "ok" /\ IdFault
              /\ ch' = SpinUp(delete_curSCM(ch))
  /\ UNCHANGED <<chk_fis34_timer, initRest>>

\* The steps after spin-up are skipped when the drive has nothing to enable.
InitSteps == <<"SPIN_UP_HDD", "ENABLE_WRITE_CACHE", "ENABLE_AAM",
               "ENABLE_SMART_OPERATION">>

IsrInitStep ==
  /\ Running /\ ch.State = "PRE_READY" /\ fis.d2h # "none"
  /\ fis' = [fis EXCEPT !.d2h = "none"]
  /\ \E i \in 1 .. 4 :
       /\ ch.subState = InitSteps[i]
       /\ \/ \E j \in (i + 1) .. 4 :
               /\ ch' = [exec_ctxt(delete_curSCM(ch), Internal, "ND")
                          EXCEPT !.subState = InitSteps[j]]
               /\ UNCHANGED chk_fis34_timer
          \/ /\ ch' = exec_next_scm([delete_curSCM(ch) EXCEPT
                         !.State = "READY", !.subState = "INITIALIZED_COMPLETE"])
             /\ chk_fis34_timer' = FALSE
  /\ UNCHANGED initRest

(***************************************************************************)
(* Resets from outside: a task-management LOGICAL UNIT RESET, a USB reset, *)
(* and the timer that resets a drive not ready in time.                    *)
(***************************************************************************)
Reset(kind) == Running /\ kind \in Resets /\ resets < MaxResets /\ resets' = resets + 1

\* uas_delete_ctxt on every context of the LUN; the one being checked makes
\* the state machine idle.
DeleteAllCtxts ==
  /\ cmd' = [c \in Cmds |-> "none"]
  /\ newCtxt' = <<>>
  /\ IF new_dispatched_CIU # NoCmd /\ cmd[new_dispatched_CIU] # "none"
     THEN new_dispatched_CIU' = NoCmd /\ uas_cmd_state' = "IDLE"
     ELSE UNCHANGED <<new_dispatched_CIU, uas_cmd_state>>
  /\ UNCHANGED <<xfer_done, uas_ci_paused_ctxt, submits>>

\* A context that went to the drive makes uas_abort_function reset it; one
\* with CTXT_FLAG_U2B set, as VERIFY has, does not.  A context whose status
\* is decided counts while it is still in ctxt_que.
DataCmds(S) == {c \in Cmds : cmd[c] \in S /\ Kind[c] \notin {"VERIFY", "SRST", "HRST"}}

TmfReset ==
  /\ Reset("TMF")
  /\ DataCmds({"sata"} \cup Terminal) # {}
  /\ DeleteAllCtxts
  /\ HardRst(ch)
  /\ uas_ci_paused' = uas_ci_paused \cup {"SATA_NOT_READY"}

TmfDeleteOnly ==
  /\ Reset("TMF")
  /\ DataCmds({"sata"}) = {}
  /\ DeleteAllCtxts
  /\ UNCHANGED <<ch, fis, drive, uas_ci_paused, sobj_init, chk_fis34_timer>>

\* usb_host_rst, and uas_init when the host has configured the device again.
UsbReset ==
  /\ Reset("USB")
  /\ cmd' = [c \in Cmds |-> "none"]
  /\ newCtxt' = <<>>
  /\ uas_ci_paused' = {}
  /\ uas_ci_paused_ctxt' = NoCmd
  /\ new_dispatched_CIU' = NoCmd
  /\ uas_cmd_state' = "IDLE"
  /\ IF ch.State \in {"ACTIVE", "NCQ_FLUSH", "NCQ_ACTIVE"} THEN HardRst(ch)
     ELSE UNCHANGED <<ch, fis, drive, sobj_init, chk_fis34_timer>>
  /\ UNCHANGED <<xfer_done, submits>>

\* isr_timer0: sata_timeout_reset leaves the transport as it is.
Fis34Timeout ==
  /\ Reset("TIMER") /\ chk_fis34_timer
  /\ IF Ready(ch)
     THEN chk_fis34_timer' = FALSE /\ UNCHANGED <<ch, fis, drive, sobj_init>>
     ELSE HardRst(ch)
  /\ UNCHANGED <<cmd, xfer_done, uas_ci_paused, uasVars, submits>>

(***************************************************************************)
(* The specification.                                                      *)
(***************************************************************************)
UasStep ==
  \/ UasIdle \/ UasIdlePaused \/ UasCiuPaused
  \/ \E c \in Cmds : \/ CdbCheckReadWrite(c) \/ CdbCheckPending(c) \/ StartAtaCmd(c)
                     \/ PassSoftReset(c) \/ PassHardReset(c) \/ UasDispatch(c)

IsrStep ==
  \/ IsrDmaSetup \/ IsrSetDevBits \/ IsrNcqD2H \/ IsrNcqTxXfer \/ IsrNcqRxXfer
  \/ IsrNcqError \/ IsrCleanupDone
  \/ \E a \in Cmds \cup {NoCmd} : IsrCleanupFailed(a)
  \/ IsrActive \/ IsrPhyReady \/ IsrSignature \/ IsrReadId \/ IsrInitStep

DriveFault ==
  \E t \in Tags : DriveReject(t) \/ \E S \in SUBSET Tags : DriveNcqError(t, S)

Next ==
  \/ \E c \in Cmds : HostSend(c) \/ UsbDataDone(c) \/ UsbSiuDone(c)
  \/ UasStep \/ IsrStep \/ IsrDmaSetupNoSeg
  \/ DriveStep \/ DriveFault
  \/ TmfReset \/ TmfDeleteOnly \/ UsbReset \/ Fis34Timeout

Spec == Init /\ [][Next]_vars

\* The firmware's loop runs both handlers in every pass, the USB hardware
\* finishes what it was given, and so does the drive.  Nothing is assumed of
\* the host, of faults or of resets.
Fairness == /\ WF_vars(UasStep) /\ WF_vars(IsrStep) /\ WF_vars(DriveStep)
            /\ \A c \in Cmds : WF_vars(UsbDataDone(c)) /\ WF_vars(UsbSiuDone(c))

LiveSpec == Spec /\ Fairness

(***************************************************************************)
(* Correctness properties.                                                 *)
(***************************************************************************)
Parked == Members(ch.next, ch.que) \cup Members(ch.next, ch.ncq_que)

\* A tag whose command the drive may still run is marked in sobj_sBusy: else
\* sata_isr would take the drive for idle and send it the next command.
OutstandingIsBusy == ch.EXQH \subseteq ch.sBusy

\* A command that is not queued never meets queued ones on a drive that
\* works: sata_append_scm parks it until ProcessSataSetDevBit sees the end of
\* the last queued one, and sata_append_ncq_scm parks the queued ones.
NoMixedCommands == drive.mode = "ok" => Queued = {} \/ Legacy = {}

\* "when the bit is 1, it's free CCM": a free CCM is not one the drive runs
\* and not one parked in a queue, so sata_AllocateCCM never gives it twice.
FreeCCMIsFree == ch.cFree \cap (ch.EXQH \cup Parked) = {}

\* A queue has an end: the loops of sata_append_scm and sata_append_ncq_scm,
\* which walk scm_next until it is NULL, return.
QueuesEnd ==
  \A h \in {ch.que, ch.ncq_que} \ {NoTag} : Tails(ch.next, h) # {}

\* A command handed to the channel is on the drive, parked, or about to be
\* reported by a frame: it is owned by an SCM that will end it.
NoLostCommand ==
  \A c \in Cmds : cmd[c] = "sata" =>
    \E t \in ch.sBusy \cup Parked : ch.ctxt[t] = c

\* The SCM a DMA Setup FIS names has a context (ProcessSataDMASetup follows
\* the pointer without a test).
DmaSetupHasContext ==
  NcqPhase(ch) /\ ch.subState = "NCQ_IDLE" /\ fis.dmasetup # NoTag =>
    ch.ctxt[fis.dmasetup] # NoCmd

\* The host hears GOOD for a READ or WRITE only once the drive has moved all
\* its data: uas_Chk_pending_SIU runs at the next DMA Setup or the Set Device
\* Bits FIS of the command, and neither comes before.
GoodIsTransferred ==
  [][\A c \in Cmds :
       Kind[c] \in {"READ", "WRITE"} /\ cmd[c] = "sata" /\ cmd'[c] = "good" =>
         \E t \in Tags : ch.ctxt[t] = c /\ (t \in drive.xferred \/ t \notin ch.EXQH)]_vars

Bus == INSTANCE SataBus WITH queued <- Queued, legacy <- Legacy,
                             halted <- drive.mode = "halted"
BusSpec == Bus!BusSpec

\* Every command the host sends gets a status.
EveryCommandAnswered == \A c \in Cmds : cmd[c] \in {"queued", "sata"} ~> cmd[c] \in Terminal

\* The command queue does not stay paused.
PausesEnd == uas_ci_paused # {} ~> uas_ci_paused = {}

\* "recovery from the error state": the pause an NCQ error sets lasts no longer
\* than the recovery.
RecoveryEnds ==
  "NCQ_ERROR_CLEANUP" \in uas_ci_paused ~> "NCQ_ERROR_CLEANUP" \notin uas_ci_paused

\* The same for a recovery whose log read got a CCM: whatever is parked or
\* handed over meanwhile, the log is read and the clean-up ends the pause.
RecoveryWithLogEnds ==
  "NCQ_ERROR_CLEANUP" \in uas_ci_paused /\ (\E t \in ch.sBusy : ch.ctxt[t] = Internal)
    ~> "NCQ_ERROR_CLEANUP" \notin uas_ci_paused

\* "firmware shall record the tags with successful transfer": a tag that the
\* Set Device Bits FIS of an error names as completed is taken off.
SuccessRecorded ==
  [][fis.sdb = "err" /\ fis.act # {} /\ fis'.act = {} => fis.act \cap ch'.sBusy = {}]_vars

\* However a reset falls, also into the initialisation or the recovery, the
\* channel gets back to a state in which it takes commands.
ChannelReturns == ~Ready(ch) ~> Ready(ch)

\* "issue Read log command to get the failed NCQ Error log": the one command
\* that sata_append_scm lets through to a drive halted by an NCQ error is the
\* bridge's own.
OnlyLogAfterError ==
  drive.mode = "halted" => \A t \in Legacy : ch.ctxt[t] = Internal
=============================================================================
