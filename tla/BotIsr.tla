------------------------------- MODULE BotIsr -------------------------------
(***************************************************************************)
(* The interrupts of a bulk-only command, on the record of BotOps: the end *)
(* of data and the stalls of either pipe (usb_msc_isr), the end of the     *)
(* command on the drive (sata_isr), and the resets.                        *)
(***************************************************************************)
EXTENDS BotOps

Halted(m, dir) == dir \in m.usb.halts
Cleared(m, ints) == [m EXCEPT !.usb.ints = @ \ ints]

(***************************************************************************)
(* usb_msc_isr, the pipe from the host.                                    *)
(***************************************************************************)
\* The buffer is full, nobody empties it and the host has more.
FlowControlled(m) == m.host.moved < m.ctx.cmd.len

\* The drive is done, the host has taken the stall and waits for the status.
HostWaitsCsw(m) == m.host.at = "busy" /\ m.host.done

rx_done_ok(m) ==
  LET n == Cleared(m, {"RX_DONE", "DOUT_HALT"})
      done == [n EXCEPT !.ctx.status = "XFER_DONE"]
  IN CASE U2B(m.ctx) -> [done EXCEPT !.fw.post = "unread"]
       [] ~U2B(m.ctx) /\ m.ctx.ccm -> done
       [] OTHER -> n

StallOut(m) == [m EXCEPT !.usb.halts = @ \cup {"out"}, !.ctx.status = "HALT"]

\* Mutant: the stall stays when the host already waits for the status.
RxDone_KeepsHalt(m) ==
  CASE ~m.fw.cur \/ m.ctx.status \notin {"PENDING", "HALT"} -> Cleared(m, {"RX_DONE", "DOUT_HALT"})
    [] m.fw.cur /\ m.ctx.status = "PENDING" -> IF FlowControlled(m) THEN StallOut(m) ELSE rx_done_ok(m)
    [] m.fw.cur /\ m.ctx.status = "HALT" -> IF Halted(m, "out") THEN m ELSE rx_done_ok(m)

\* RD_WR_TIME_OUT (usb.c:1709) is set by handle_rsp_unit_nrd only, which nothing
\* calls: any other status dismisses the interrupts.
RxDone(m) ==
  LET still == m.ctx.status = "HALT" /\ Halted(m, "out")
  IN CASE ~m.fw.cur \/ m.ctx.status \notin {"PENDING", "HALT"} -> Cleared(m, {"RX_DONE", "DOUT_HALT"})
       [] m.fw.cur /\ m.ctx.status = "PENDING" ->
            IF Halted(m, "out") THEN [m EXCEPT !.ctx.status = "HALT"]
            ELSE IF FlowControlled(m) THEN StallOut(m) ELSE rx_done_ok(m)
       [] m.fw.cur /\ m.ctx.status = "HALT" ->
            IF ~still THEN rx_done_ok(m)
            ELSE IF HostWaitsCsw(m) THEN [m EXCEPT !.usb.halts = @ \ {"out"}] ELSE m

\* Mutant: the end of a stall ends the command, with the drive still at work.
DoutHalt_Ends(m) ==
  LET n == Cleared(m, {"DOUT_HALT"})
  IN IF m.fw.cur THEN usb_ctxt_send_status([n EXCEPT !.ctx.status = "ERROR"]) ELSE n

\* The host has run into a stall of its pipe and has cleared it.
DoutHalt(m) ==
  LET n == Cleared(m, {"DOUT_HALT"})
      told == [n EXCEPT !.ctx.status = IF m.ctx.phase \in {10, 13} THEN "PHASE"
                                       ELSE IF @ \notin Final THEN "GOOD" ELSE @]
  IN CASE ~m.fw.cur -> n
       [] m.fw.cur /\ U2B(m.ctx) ->
            IF m.ctx.nodata THEN usb_ctxt_send_status(told) ELSE [n EXCEPT !.fw.post = "unread"]
       [] m.fw.cur /\ ~U2B(m.ctx) ->
            IF m.ctx.ccm THEN [n EXCEPT !.ctx.status = "XFER_DONE"]
            ELSE IF m.ctx.status \in Final THEN usb_ctxt_send_status(n) ELSE n

msc_isr_check_rx(m, ints) ==
  CASE "RX_DONE" \in ints -> RxDone(m)
    [] "RX_DONE" \notin ints /\ "DOUT_HALT" \in ints -> IF Halted(m, "out") THEN m ELSE DoutHalt(m)
    [] OTHER -> m

(***************************************************************************)
(* usb_msc_isr, the pipe to the host.                                      *)
(***************************************************************************)
\* With the drive still at work the interrupt stays, for when it is done.
TxDone(m) ==
  LET n == ReleaseSeg(Cleared(m, {"TX_DONE", "DIN_HALT"}))
      done == [m EXCEPT !.ctx.status = "XFER_DONE"]
  IN CASE ~m.fw.cur -> m
       [] m.fw.cur /\ m.ctx.ccm ->
            IF m.usb.ints = {"TX_DONE"} THEN done ELSE msc_isr_check_rx(done, m.usb.ints)
       [] m.fw.cur /\ ~m.ctx.ccm ->
            IF m.ctx.status = "PENDING" THEN n ELSE usb_ctxt_send_status(n)

DinHalt(m) ==
  LET n == Cleared(m, {"DIN_HALT"})
  IN IF m.fw.cur /\ m.ctx.nodata /\ m.ctx.status # "PENDING" THEN usb_ctxt_send_status(n) ELSE n

usb_msc_isr(m) ==
  LET ints == m.usb.ints
      stalled == "DIN_HALT" \in ints /\ Halted(m, "in")
  IN CASE "TX_DONE" \in ints /\ ~stalled -> TxDone(m)
       [] "TX_DONE" \notin ints /\ "DIN_HALT" \in ints /\ ~stalled -> msc_isr_check_rx(DinHalt(m), ints)
       [] OTHER -> msc_isr_check_rx(m, ints)

\* Mutant: only the interrupt of the status is dismissed.
CswDone_OnlyCsw(m) == [m EXCEPT !.usb.ints = @ \ {"CSW_DONE"}, !.usb.csw = None,
                                !.fw.cur = FALSE, !.fw.cbw = FALSE,
                                !.ctx = IF m.fw.que THEN @ ELSE NoCtx]

\* The host has its status, and the controller its context: every interrupt
\* that stands is dismissed.  The next command may have come already.
CswDone(m) == [m EXCEPT !.usb.ints = @ \cap {"BUS_RST"}, !.usb.csw = None,
                        !.fw.cur = FALSE, !.fw.cbw = FALSE,
                        !.ctx = IF m.fw.que THEN @ ELSE NoCtx]

(***************************************************************************)
(* sata_isr: drive 0 has ended its command.                                *)
(***************************************************************************)
\* The result is recorded and the context leaves the drive.
Result(m) == [m EXCEPT !.ctx.status = IF m.drive[0].end = "ok" THEN "GOOD" ELSE "ERROR",
                       !.ctx.ccm = FALSE,
                       !.drive[0] = [@ EXCEPT !.st = "ready", !.end = "no", !.tcnt = 0]]

\* A READ waits for the host to have taken the data.
ProcessDMADATARXDONE(m) ==
  IF m.ctx.status # "XFER_DONE" THEN m
  ELSE [Result(m) EXCEPT !.seg = free_SourcedbufConnection(@, m.ctx.seg)]

\* Mutant: the status goes out before the result is in it.
ProcessDMADATATXDONE_Early(m) ==
  IF m.ctx.status = "XFER_DONE" THEN ReleaseSeg(Result(usb_ctxt_send_status(m)))
  ELSE IF m.drive[0].tcnt # 0 /\ m.ctx.status # "HALT" THEN StallOut(m) ELSE m

\* Mutant: the segments of a WRITE are not given back.
ProcessDMADATATXDONE_KeepsSeg(m) ==
  IF m.ctx.status = "XFER_DONE" THEN usb_ctxt_send_status(Result(m))
  ELSE IF m.drive[0].tcnt # 0 /\ m.ctx.status # "HALT" THEN StallOut(m) ELSE m

\* A WRITE that ends early stalls the host, which has data the drive will not take.
ProcessDMADATATXDONE(m) ==
  IF m.ctx.status = "XFER_DONE" THEN usb_ctxt_send_status(ReleaseSeg(Result(m)))
  ELSE IF m.drive[0].tcnt # 0 /\ m.ctx.status # "HALT" THEN StallOut(m) ELSE m

ProcessDMAStatusFis(m) == usb_device_no_data(Result(m))

sata_isr(m) == CASE m.ctx.flag = "VERIFY" -> ProcessDMAStatusFis(m)
                 [] m.ctx.flag # "VERIFY" /\ m.ctx.dir = "in" -> ProcessDMADATARXDONE(m)
                 [] OTHER -> ProcessDMADATATXDONE(m)

(***************************************************************************)
(* Resets.                                                                 *)
(***************************************************************************)
\* Mutant: the data of a command that a reset ends is still looked at.
bot_init_KeepsPost(m) == [m EXCEPT !.fw = [@ EXCEPT !.cur = FALSE, !.que = FALSE, !.cbw = FALSE, !.wait = {}]]

bot_init(m) == [m EXCEPT !.fw = [@ EXCEPT !.cur = FALSE, !.que = FALSE, !.post = "no",
                                          !.cbw = FALSE, !.wait = {}]]

\* sata_Reset(USB_SATA_RST): only a drive with a command.
ResetActive(m) == [m EXCEPT !.drive = [ch \in Chs |-> IF @[ch].st = "active" THEN ResetDrive ELSE @[ch]]]

\* The pipes are stopped, with what was given to them, and ints dismissed.
ClearPipes(m, ints) == [m EXCEPT !.usb = [@ EXCEPT !.ints = m.usb.ints \ ints,
                                                   !.halts = {}, !.tx = None, !.rx = None, !.csw = None]]

\* The end of a transfer, reported and not yet handled.  A bulk-only reset does
\* not write these bits (bot.c:367): that the controller takes them back when
\* MSC_DIN_DONE and MSC_DOUT_RESET stop its pipes is an assumption about it.
TransferEnds == {"TX_DONE", "RX_DONE"}

bot_bulk_reset(m) ==
  bot_init([ResetActive(ClearPipes(m, {"BOT_RST", "DIN_HALT", "DOUT_HALT"} \cup TransferEnds)) EXCEPT
              !.seg = rst_all_seg, !.fw.at = "bot", !.ctx = NoCtx])

\* What usb_host_rst writes to usb_Msc0IntStatus and usb_IntStatus: not
\* CSW_DONE, which stands until the next usb_bot handles it.
BusResetClears == {"TX_DONE", "RX_DONE", "DIN_HALT", "DOUT_HALT", "BOT_RST", "BUS_RST"}

\* usb_bot returns to usb_hdd, which resets the bridge for the host and
\* starts the start-up timers afresh.
Working(m) == m.fw.cur \/ (\E ch \in Chs : m.drive[ch].st = "active")
usb_host_rst(m) ==
  LET n == ResetActive([ClearPipes(m, BusResetClears) EXCEPT
             !.usb.avail = FALSE, !.ctx = NoCtx,
             !.seg = IF m.fw.at # "hdd" /\ Working(m) THEN rst_all_seg ELSE @])
      coming == \E ch \in Chs : n.drive[ch].st \in {"reset", "phy"}
  IN [n EXCEPT !.fw.at = "hdd", !.fw.timer = IF coming \/ @ > 0 THEN Spinup ELSE @]
=============================================================================
