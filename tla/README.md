# Formal model of the Initio SATA–USB3 bridge firmware

The repository is the firmware of an Initio INIC bridge: a USB 3 device that
presents one or two SATA drives to a host through the USB Attached SCSI (UAS)
or Bulk-Only (BOT) protocol, alone, as a RAID, or encrypted. This directory
holds TLA+ specifications of its protocol logic, TLC configurations that check
them, and TLAPS proofs. The code has no header files in the repository, so the
values of some macros and enumerations are inferred from how the code compares
them; section 3 says which.

## 1. Inventory

The firmware is a single loop (`usb_main.c`, `usb_hdd.c`) that polls interrupt
registers and calls handlers. Nothing preempts a handler except the timer
interrupt (`interlaken.c`); concurrency is that of the loop with the drives, the
USB hardware, the host and the timers. What is hard is therefore: the order in
which hardware events are seen, a decision taken in one pass and used in a later
one, resets that fall between two passes, errors of one of many commands the
drive runs at once, and power loss between two writes of persistent data.

| Component | Files | State | Operations | Interacts with | What makes it correct |
|---|---|---|---|---|---|
| SATA object, CCM pool, NCQ engine | `sata.c` | `sobj_State`, `sobj_subState`, 32 command contexts (CCM/SCM) with the masks `cFree`, `sobj_sBusy`, two linked queues, `sobj_curScm` | allocate, detach, append, execute, interrupt service routine by state, NCQ error recovery, soft and hard reset, initialisation | called by UAS/BOT/SCSI; drives the port registers; finishes commands through `usb.c` | a CCM has one user; queued and other commands never meet on the drive; each command gets a status; recovery and reset end |
| UAS transport | `uas.c` | `uas_cmd_state`, `uas_ci_paused`, `new_dispatched_CIU`, `ctxt_que`, task management | take a command, check it, dispatch or put it back, task-management functions, Sense IUs | host; SATA object; data buffers | no command forgotten; pauses end; an aborted command leaves nothing behind |
| USB queue and MSC interrupts | `usb.c` | `usb_ctxt`: current context, queue, endpoint state | queue, execute, data done, status sent, USB reset | UAS/BOT, data buffers | one context on the bus; statuses in order |
| Data buffers | `dbuf.c`, `dbuf_obj.c` | segments, their two sides, the connections | allocate, connect, done on each side, reset | SATA and USB engines, AES | a segment is freed once, by the last side |
| BOT transport | `bot.c` | one CBW, phase, stall | CBW, data phases, CSW, reset recovery | host, SATA object | phase errors are reported; a reset always recovers |
| RAID configuration and metadata | `raid.c`, `nvram.c` | array and slot status, redundant copies on the drives and in flash | load, compare, save, create, enumerate | both channels | after a power loss one consistent configuration is chosen |
| RAID execution, rebuild, errors | `raid.c`, `sata.c` | per-command RAID masks, rebuild pointer | split, complete, fail over, rebuild, clone | both channels | no data lost when one drive fails; a rebuilt block is never skipped |
| SCSI layer | `scsi.c` | sense data, mode pages, spin state | command decode and replies | transports, SATA object | the drive is not accessed when it must not be |
| ATA commands and initialisation | `ata.c` | identify data, power mode | `ata_init`, blocking commands, two-drive commands | SATA object | an aborted blocking command leaves the channel clean |
| Security, vendor unlock | `ini.c`, `aes.c` | lock state, password retry counters, keys | unlock, change password, erase | SCSI layer, NVRAM | no access while locked; the counter is not reset by a restart |
| NVRAM, flash, firmware update | `nvram.c` | flash pages, image checksum | erase, write, verify, boot choice | SCSI layer | a valid copy survives a power loss |
| USB enumeration, EP0 | `usb_ctl.c` | device state, configuration, interface | descriptors, set configuration/interface, suspend | host, transports | the transport of the selected interface runs, no other |
| Main loop and power | `usb_main.c`, `usb_hdd.c` | power state, standby timer | loop, `usb_chk`, spin-down | everything | a drive is not stopped under a command |
| Timers, LEDs, fan, power interrupts | `interlaken.c` | timers, fan speed, power-key debouncing | interrupt handlers | SATA reset timer, SCSI layer | a timer acts only on the state it was set for |
| Virtual CD, SES, handy store | `vcd.c`, `ses.c`, `handy.c` | mode pages; a window of the disk | read, write, replies | SCSI layer | accesses stay in the window |
| Self-test | `diag.c` | test state | background read test | SATA object | an abort ends it |
| Console, CRC, helpers, vectors, boot stub | `function.c`, `shared.c`, `isr.c`, `ramboot.c` | none that a protocol depends on | – | – | – |

`PROJECT.json` gives the status of each component, and its `hazards` list what
can go wrong in this code that a test would hardly reach, at the line where it
bites, with the property that covers it.

## 2. Plan

Done, in this order:

1. `SataOps`, `SataChannel`, `SataBus`: one SATA channel from the host's command
   to its status, under UAS. It is the core: every command of every transport
   goes through it.
2. `SataChannelProofs`, `SataInvariant`, `SataSafetyProofs`: types, an inductive
   invariant of the channel, the safety properties and the refinement of
   `SataBus` that follow from it.
3. `RaidMeta`, `RaidArray`: the parameters of a mirror in flash and on the
   drives, power loss between any two writes, drives pulled and replaced, the
   rebuild.
4. `Dbuf`, `BotCases`, `BotOps`, `BotIsr`, `UsbBot`, `BotWire`: the bulk-only
   transport end to end, with the main loop, the data buffers, the USB
   controller, both drives, standby, suspend, the plug and all resets; its
   promise to the host as an abstract specification.
5. `UsbInvariant`, `UsbSegProofs`, `UsbBotProofs`: theorems about the data
   buffers, an inductive invariant of the bulk-only transport, its safety
   properties and the refinement of `BotWire`.
6. `RaidProofs`, `RaidInvariant`, `RaidPageProofs`: types of the mirror, that it
   copies between two drives, and what the pages of parameters say through every
   power cut: no configuration is wiped that nobody asked to replace.
7. `RaidRebuild`, `RaidRebuildProofs`: the data of the mirror: no rebuild, resumed
   after power cuts too, skips a block the host was told is written; with one cut
   for every behaviour, with more while no cut tears a last readable check point.

Next, most important first:

8. A proof of `NoLostWrite`. It is false when drives serve alone in turn (section
   4), so it needs a history of which drive served alone; `PagesInv` and `SkipInv`
   are the parts about the pages and about the rebuild.
9. `UasPipeline`: two channels, the order of `ctxt_que`, single aborts and the
   task-management queue; abstract specification: each command gets exactly one
   status, after an abort none. `SataOps` has one channel as its parameter, so
   the lemmas about it serve both.
10. Striped and spanned volumes, the volume commands of the host, the HDD clone.
11. Firmware download with power loss; the background self-test; the lock state.

## 3. What is modelled

### Modules

| Module | What it is |
|---|---|
| `SataOps` | The operations of `sata.c` on one `SATA_OBJ`, as functions from a channel record to a channel record. The fields keep their names; bit masks are sets of tags. |
| `SataChannel` | The state machine: `uas_cmd_state` (one action per state and outcome), `sata_isr` (one action per `sobj_State`/`sobj_subState` it switches on), recovery, resets, the drive and the host. Properties at its end. |
| `SataBus` | Abstract: what a drive may be given, and when. `SataChannel` implements it. |
| `SataInvariant` | The inductive invariant `Inv` of the channel, by named parts. |
| `RaidMeta` | The functions of `raid.c` that decide from the parameter pages what array the drives make, and which writes they order, as operators on the state in RAM. |
| `RaidArray` | Power, drives, host writes and reads, the rebuild, and the ordered writes carried out one at a time. |
| `Dbuf` | The segments of the data buffers and their connections. |
| `BotCases` | A bulk-only command and the thirteen cases of host against device. |
| `BotWire` | Abstract: what the bulk-only transport promises, seen from the cable. `UsbBot` implements it. |
| `BotOps`, `BotIsr` | The handlers of a bulk-only command (`bot.c`, `usb.c`, `scsi.c`, `sata.c`) as operators on one record; its interrupts and resets. |
| `UsbBot` | The bridge in bulk-only mode: host, controller, main loop, two drives. |
| `UsbInvariant` | The inductive invariant `Inv` of the bridge in bulk-only mode: its phases, and the six kinds of command in execution. |
| `MCSata`, `MCRaid`, `MCUsb` | Instances for TLC. |
| `SataChannelProofs` | Lemmas about the operations of `SataOps`; type correctness. |
| `SataQueueProofs` | The linked queues and the pool: what each operation does to `PoolInv`. |
| `SataSafetyProofs` | `Inv` is inductive; the safety properties and the refinement that follow. |
| `UsbSegProofs` | Theorems about the connections, for every state of the segments; the segments of bulk-only commands and of IDENTIFY DEVICE: what each operation of `Dbuf` does to their owners. |
| `RaidProofs` | Every operator of `RaidMeta` keeps the type of the RAID state and the drives in their bays; the inductive invariant of `RaidArray`. |
| `RaidInvariant` | What the pages of RAID parameters say in every state (`PagesInv`), by named parts. |
| `RaidPageProofs` | `PagesInv` is inductive; `WipeAsked` follows. |
| `RaidRebuild` | The data of the mirror: the media along the writes ordered, and the invariant `SkipInv`, by named parts. |
| `RaidRebuildProofs` | `SkipInv` is inductive; `NothingSkipped` follows. With one power cut no cut tears a last copy, and `SkipInvOneCut` holds of every behaviour. |
| `UsbBotProofs` | `Inv` of `UsbInvariant` is inductive, one lemma per action; the safety properties and the refinement of `BotWire` that follow. |

### The SATA channel under UAS

An action is one pass through one handler. Where the handler calls others that
change state, they are part of the action: the end of a command, for instance,
is `EndCommand` (status, `delete_curSCM`, `sata_exec_next_scm`), and an error
frame in the middle of a transfer is the start of the recovery and the reading
of the frame, in the order `sata_isr` does them (`XferError`).

| State | Code |
|---|---|
| `ch.State`, `ch.subState` | `sobj_State`, `sobj_subState` |
| `ch.cFree`, `ch.default_cFree`, `ch.sBusy` | the bit masks of the same names |
| `ch.ctxt[t]`, `ch.next[t]`, `ch.prot[t]` | `scm_pCdbCtxt`, `scm_next`, `scm_prot` of CCM `t` |
| `ch.que`, `ch.ncq_que`, `ch.cur` | `sobj_que`, `sobj_ncq_que`, `sobj_curScm` |
| `ch.EXQH` | commands written to `sata_EXQHINP` that the drive has not reported on |
| `cmd[c]`, `xfer_done` | `CTXT_usb_state` and the status of a `CDB_CTXT`; `CTXT_STATUS_XFER_DONE` |
| `fis` | the unread frames and data-done bits of `sata_FrameInt`, `sata_IntStatus` |
| `uas_cmd_state`, `uas_ci_paused`, `uas_ci_paused_ctxt`, `new_dispatched_CIU` | the variables of `uas.c` |
| `newCtxt` | `usb_ctxt.newCtxt`: the part of `ctxt_que` not yet taken |
| `sobj_init` | `sobj_init`: the gate that holds media commands back until the drive is up |

`HUNG` is a value added to `sobj_State`: the append loop walks a cycle of
`scm_next` and never ends; then no firmware action is possible.

The configuration modelled: JBOD, UAS, drive 0 in use and drive 1 ready and
idle, no encryption, no read prefetch. READ and WRITE are queued commands;
VERIFY, ATA pass-through (in, out, soft reset, hard reset) and the bridge's own
initialisation commands and log read are not.

### The mirror

| State | Code |
|---|---|
| `flash` | the two `RAID_PARMS` pages at `WDC_RAID_PARAM_ADDR`, one sector; `TORN` is a page whose CRC does not match |
| `other[d]` | the two copies of the OTHER page on drive `d`, of which only `raid_rebuildCheckPoint` matters |
| `data[d]`, `acked` | the version of each block on a drive, and the last one the host was told is written |
| `ram.rp`, `ram.nvm`, `ram.map` | `ram_rp`, `nvm_rp`, `slot_to_nvm` |
| `ram.cur`, `ram.queue`, `ram.num`, `ram.ms` | `cur_status`, `array_status_queue`, `num_arrays`, `metadata_status` |
| `ram.need`, `ram.sealed` | `need_store`; the page content a header's CRC was computed for |
| `ram.mirror`, `ram.src`, `ram.pos`, `ram.cp`, `ram.retry`, `ram.errAt` | `raid_mirror_status`, `raid_mirror_operation`, `rebuildLBA`, `raid_rebuildCheckPoint`, `rebuildRetryCnt`, `rebuildErrLBA` |
| `ram.inst`, `ram.instCnt` | `instant_rebuild_flag` and its counter |
| `ram.io` | the writes of a function still to be carried out, in its order |

A function of `raid.c` that writes flash and drives in the middle of its
decisions computes its result in one step and leaves its writes in `ram.io`;
`IoStep` carries out one at a time, and `PowerCut` may come between any two.
Nothing reads what is being written before the list is empty (`Idle`,
`Serving`), as in the code, where the function has not returned.

### The bulk-only transport

| State | Code |
|---|---|
| `host` | the host's side of the cable: its command, how much data moved, whether it has run into a stall |
| `ctx` | the `CDB_CTXT`: `CTXT_usb_state`, `CTXT_PHASE_CASE`, `CTXT_Status`, `CTXT_No_Data`, `CTXT_ccmIndex`, `CTXT_DbufIndex`, `CTXT_FLAG`, `CTXT_XFRDIR` |
| `fw.at`, `fw.asleep` | which loop runs: `usb_main`, `usb_hdd`, `usb_bot`, or one stopped by an invalid wrapper; `usb_suspend` |
| `fw.new`, `fw.que`, `fw.cur` | `usb_ctxt.newCtxt`, the context is in `ctxt_que`, `curCtxt` |
| `fw.cbw`, `fw.wait` | `bot_active`: `BOT_ACTIVE_PROCESS_CBW`, `BOT_ACTIVE_WAIT_FOR_SATAx_READY` |
| `fw.post` | `usb_ctxt.post_dout` and its two passes |
| `fw.rsp`, `fw.timer` | `rsp_unit_not_ready`; `chk_fis34_timer` with `spinup_timer` |
| `usb` | wrapper waiting, `usb_Msc0IntStatus` with the reset interrupts, the halts of both pipes, what each pipe is given, the status to send |
| `drive[ch]` | `sobj_State` (with the steps of initialisation), the end of its command, `sata_TCnt`, `sobj_init`, a parked command |
| `seg` | `dbuf_Seg_INOUT`, `TxDbuf_segStatus`/`RxDbuf_segStatus`, whether it holds data |

A segment is a pair of bank and number; a route of `Dbuf` says which ports it
joins. The case of a READ or WRITE is worked out by the controller; of the other
commands by the functions that answer them. `BotOps` works on one record so
that a handler that calls six others is the composition of six operators;
`UsbBot` has one action per handler called by the loops, and per thing the host,
the controller or a drive does between two of them.

### Values inferred from the code

The SATA states are ordered RESETING < PHY_RDY < PRE_READY < READY < ACTIVE <
NCQ_FLUSH < NCQ_ACTIVE: the code tests `>= SATA_NCQ_FLUSH` for the queued states,
`> SATA_READY` for a busy channel and `< SATA_READY` for one that is starting.
`SATA_STANDBY` and `SATA_PWR_DWN` are tested in `sata.c` but assigned by no
code of this component.

### The hardware (external)

What the code relies on of the port and the drive, and the model assumes:

- a register frame raises its bit for commands without data, or to report an
  error; one Set Device Bits frame and one DMA Setup frame can be unread;
- a queued command has one DMA Setup, and is reported in a later Set Device
  Bits frame that may name any number of completed tags;
- a drive that reported an error on a queued command is halted: it rejects
  everything but the log read, which makes it drop its queue and report every
  tag, and whose NQ bit is set when the drive had nothing queued;
- after a reset the PHY and then the signature come;
- a drive that fails its very first IDENTIFY DEVICE is not modelled:
  `determine_slot_status` refuses it as a disk (`raid.c`).

The faults of `SataChannel` are a constant: `SDB` (a queued command fails with a Set Device Bits
error), `D2H` (with a register frame), `LOG` (the log read fails), `DEV` (a
non-queued command fails), `ID` (the bridge's own initialisation commands fail).
Resets are another: `TMF` (LOGICAL UNIT RESET), `USB` (USB reset), `TIMER` (the
start-up timer of `isr_timer0`).

## 4. What is checked

| Run | Instance | Shows |
|---|---|---|
| `sata_commands` | 2 CCMs, READ, WRITE, VERIFY, pass-through in and out, 3 submissions, no faults | CCMs and commands are neither lost nor shared (`OutstandingIsBusy`, `FreeCCMIsFree`, `NoLostCommand`); queued and other commands never meet on the drive (`NoMixedCommands`, `BusSpec`); a DMA Setup finds its context; GOOD only after the data; every command gets a status and pauses end (liveness) |
| `sata_recovery` | 3 CCMs, READ and WRITE, queue errors at any moment, 4 submissions | the drive gets only what it may get (`BusSpec`), no command is forgotten, a recovery whose log read got a CCM ends |
| `sata_resets` | 3 CCMs, READ, pass-through soft and hard reset, all faults, all resets, 4 submissions, 1 reset from outside | a reset at any step of commands, recovery or initialisation leaves no tag behind, reports no READ early, and the channel comes back |
| `sata_invariant` | 3 CCMs, a depth of 2, READ, WRITE, VERIFY, pass-through in and hard reset; failing non-queued and initialisation commands, all resets | the inductive invariant `Inv` of the proofs; the append loops return (`QueuesEnd`) |
| `raid_power_loss` | two members and a spare, 4 blocks, a check point every two blocks, at most 4 events (2 cuts, 2 writes, 4 moves of drives, 3 errors, time-out, switch, host rebuild) | no acknowledged write is lost while a drive that has it is there (`NoLostWrite`); a rebuild, resumed after a cut too, skips no block (`NothingSkipped`), and, before a second cut, none that could be resumed would (`SkipInvOneCut`, the inductive invariant of the proof); nothing is copied to or from an empty bay, and a mirror with one drive is not offered as one (`TwoDrives`); the pages in flash and RAM name the drives they are stored for and are of one mode (`PagesInv`); a good member is cleaned only when asked for (`WipeAsked`); a rebuild ends (`RebuildSettles`) |
| `usb_transport` | a command of each kind in each of its cases, lengths 0 to 2, encryption on, 3 events among bulk-only reset, bus reset, unplug, standby, suspend, early start-up timeout; any command may fail | every command gets one status that tells the truth about its data, its drive and its case (`WireSpec`, a refinement); nothing of it is left for the next (`NothingLeft`); segments belong to somebody and no port has two (`SegmentOwner`); no status while the drive is at work (`DriveDoneBeforeStatus`); each command is answered (`Answered`); the inductive invariant of the proofs (`Inv`) |
| `ccm_after_cleanup` | finding | `FreeCCMIsFree` is violated: see below |
| `recovery_without_ccm` | finding | `RecoveryEnds` is violated |
| `verify_in_recovery` | finding | `OnlyLogAfterError` is violated |
| `success_in_error` | finding | `SuccessRecorded` is violated |
| `raid_source_fails` | finding | `FailedSlotRecorded` is violated |
| `phase_case_after_standby` | finding | `PhaseCaseChecked` is violated |

Bounds of the SATA runs. `MaxSubmit` bounds the commands the host sends, `MaxResets` the resets
from outside; every other quantity is finite by itself. Two CCMs are enough for
all of them to be taken while a third command waits (the busy answer and
`NCQ_NO_ENOUGH_TAGS`), and three submissions for a command of one class to be
parked behind one of the other with a third arriving meanwhile. Contexts are
reused: a submission takes any free context. With errors, three CCMs let two
queued commands and the log read be out at once. Symmetry is not used: contexts
differ in their kind, and tags are ordered (`AllocateCCM` takes the least).

`sata_recovery` and `sata_resets` explore behaviours up to the moment a CCM is
freed twice (`CONSTRAINT FreeCCMIsFree`): the finding `ccm_after_cleanup` and
the one about `ata_init` below say how this happens, and what a channel does
with one CCM in two hands is not worth stating. The state in which it happens is
still checked.

Bounds of `raid_power_loss`. `Budget` bounds each kind of event and their sum;
four events are enough for a cut in the middle of a change, a drive exchanged,
a write meanwhile and a second cut, which is what separates generations of
pages. Four blocks with a check point every two let a rebuild save its check
point in the middle, with blocks copied that it does not count. A drive is put in, and the host writes, only while a drive with
the last writes is there (`HasCurrent`): a stale drive that serves alone makes a
second history that no page can tell from the first. For the same reason a drive
is not left alone when the page of the other one records it as given up
(`StaleAlone`): each start with one drive raises the generation of its page, so
two drives that serve in turn end with the older data in the newer page. No run
of four events gets that far; simulations of twenty do. Every drive has its own
bay (`MCFits`). No cut falls between the erase and the program of the flash
sector (`FlashCuts`), and no host write fails on the source of a rebuild
(`SourceFails`, the subject of `raid_source_fails`): the code loses data then.
Automatic rebuild is on (`AutoRebuild`): no file of the sources defines
`AUTO_REBUILD` (`usb_main.c:426`), but without it only the host's request starts
a rebuild, and `NoLostWrite` is false after two moves of drives and a write
(section 4). For the same reason `NothingSkipped` is false
then, but only after five events: a new drive is put in, a rebuild of it is begun,
the old drive put back, a block written to that pair, and the new drive put back:
its rebuild resumes at the check point, above the block. With automatic rebuild
`NothingSkipped` needs the bound on the power cuts: a third one, after two that
each hit another copy of a check point, makes the rebuild skip blocks (section 4).
The other properties of the run hold with either setting of `AutoRebuild`, and
the theorems are about both.

Bounds of `usb_transport`. A segment holds one unit of data, so a transfer of two
units is one that has to wait for the other side. Commands go to drive 0; the
other drive takes part in start-up, standby and resets. What is left out because
the code does not survive it, each an operator with a comment: a wrapper that
comes between the clearing of `bot_active` and the handling of the previous
CSW_DONE (`MayArrive`, which says what is left out: that command would be
dropped); resets while a command waits to be taken up or is parked
on its drive, or while a drive on its way has its timer stopped (`MayReset`);
a READ or WRITE whose case is an error as the one that wakes the drives
(`MismatchInStandby`, the subject of `phase_case_after_standby`); standby before
the drives were initialised; unplugging during IDENTIFY DEVICE. A STOP UNIT and
a suspend come when the drives are up or off: the code waits for that, up to
30 seconds. START and STOP UNIT are without IMMED.

A bus reset dismisses the interrupts that `usb_host_rst` writes (`usb.c:646`,
`BusResetClears`). CSW_DONE is not among them: when the end of a status was not
handled before the reset, it stands in the idle loop, which does not look at it,
and the next `usb_bot` would take it for its own and dismiss the command that came
in. By `MayArrive` that command is not sent; the bridge is then `Deaf`, and the
host can only ask for another reset or be unplugged, which does not count against
`Budget` then. A bulk-only reset writes less (`bot.c:367`): that the controller
takes TX_DONE and RX_DONE back with the pipes it is told to stop is an assumption
about it (`TransferEnds`). Without it `Answered` is false: a TX_DONE that no
command owns stays (`usb.c:1561`) and ends the transfer of a later one.
`usb_msc_isr` is modelled without the branch on RD_WR_TIME_OUT (`usb.c:1709`):
only `handle_rsp_unit_nrd` sets that flag, and nothing calls it.

Deadlock is not checked in the SATA and RAID runs: the host may stop sending, and the channel is then
idle for good. That no pass of the firmware is stuck is what the liveness
properties say.
In `usb_transport` deadlock is checked: the host can always send or ask for a
reset, or unplug a bridge that is deaf.

Fairness of `RaidArray`: the main loop runs while there is power and the drives
answer, weak fairness of `Firmware` (written out, since TLC is slow to find
ENABLED of the operators of `RaidMeta`). Fairness of `UsbBot`: weak fairness of
`Progress` as a whole: the loops poll every handler in every pass, and the
controller, the drives and a host that waits for an answer go on by themselves;
the resets, standby, suspend and the plug have none. The start-up timer must
expire only when a drive waits for a segment it has lost (`FisTimerDue`).

Fairness of `SataChannel` (`LiveSpec`): weak fairness of the two handlers, since the loop calls
both in every pass; of the USB side, which ends a data phase or a Sense IU it
was given; of the drive. `IsrDmaSetupNoSeg` (no free data-buffer segment) has
none and may happen in any pass in which a previous status is pending. Nothing
is assumed of the host, of faults or of resets.

### Findings

- `ccm_after_cleanup`: `sata_Cleanup_NCQCMD` frees every CCM and does not touch
  the queue heads; a WRITE parked during the recovery stays in `sobj_ncq_que`
  with a free CCM, which the next command gets.
- `recovery_without_ccm`: the log read needs a CCM, but the host may have as many
  queued commands as there are. The result of `fetch_HDD_data` is dropped, and the
  channel waits in `SATA_SUB_STATE_NCQ_ERROR` with the queue paused.
- `verify_in_recovery`: the exception made for the log read in `sata_append_scm`
  lets any command through that is not queued and past the pause check.
- `success_in_error`: when the error comes during a transfer, the completed tags
  it names are not recorded, against the comment in `ProcessSataSetDevBit`.
- `raid_source_fails`: `raid1_error_detection` (`raid.c:3707`) takes any failed
  write during a rebuild for one of the rebuilt slot; when it was the source, the
  drive that failed stays good and the other is recorded as failed.
- `phase_case_after_standby`: `scsi_chk_hdd_pwr` (`scsi.c:4179`) puts a READ back
  in a state in which `usb_bot` does not check its case again; it then runs on
  the drive for a host that cannot take its data.

Also met in the RAID code: a cut between the erase and the program of the flash
sector loses the pages of both drives, and the next start configures anew and
cleans the first sector of both; so does a cut between the two pages when a
mirror becomes JBOD; with the drives swapped, `store_meta_data` (`raid.c:1194`)
takes the page of the wrong slot, whose CRC does not match; after the last block
of a rebuild the check point is saved as 0 before the pages, and a cut there
resumes the rebuild one threshold below zero; a cut between the check points of
slot 0 and slot 1 leaves them one threshold apart, both are then advanced whenever
the rebuild passes the one of slot 0 (`raid.c:3556`), and a second cut resumes it
at the one of the source (`raid.c:964`), which can be past the last block (so
`TypeOK` bounds `ram.pos` from below only); `load_other_parms` does not restore a
torn copy of a check point ("there is no restore now", `raid.c:1501`), so two cuts,
each while another copy of slot 0's is written, leave it unreadable: it starts at 0
while the one of slot 1, the source, does not, both are then advanced whenever the
rebuild passes the first, and a third cut resumes it past blocks never copied
(found with 6 blocks, a check point every two and three cuts); blocks that time out are retried
without a count; an instant rebuild does not renew the slot reads are sent to; a
good member beside a drive of another array is configured anew; a read error on
the last good drive (DATA_LOST) sends reads to the stale one; two drives that
serve alone in turn after a failed write whose second page was lost in a cut
end with the first one, which lacks the write, copied over the other; without
automatic rebuild `raid1_degraded` (`raid.c:894`) does not alter the page of a good
member beside a new drive, as the comment at `raid.c:889` says it need not, and
nothing tells afterwards that the replaced drive lacks what was written to the new
pair: put back, it is taken for good, or its rebuild resumes where it was
interrupted; and a failed host write on a DEGRADED mirror marks
slot 1 failed whichever drive it failed on (`raid.c:3707`); a
flash wait that times out returns with the interrupts disabled.

Also met in the USB code: a bulk-only reset while a command waits leaves `newCtxt`
pointing to it (`bot.c:31`); `rsp_unit_not_ready` stays set when no command
waits; START UNIT with IMMED sends its status while IDLE IMMEDIATE is on the
drive, and one with an OUT wrapper is answered on the IN pipe (`scsi.c:2633`);
the test in `scsi_post_data_out` (`scsi.c:4872`) needs a second pass; a WRITE of
too little (case 13) is reported as case 9; REBUILDW from drive 0 marks RX 0 for
RX 4 (`dbuf.c:586`); `rst_all_seg` takes the segment of an IDENTIFY DEVICE in
progress, and only the start-up timer brings that drive back; a standby timer
that expires during spin-up leaves the wait bits set (`ata.c:373`); a suspend
that gives up waiting for a drive does not power it at resume (`usb.c:585`);
with one encrypted drive and one that is not, a plain UAS read may be given TX 2,
which the encrypted one joins to the host later (`dbuf.c:872`);
`is_otherSlot_pwrDown` (`scsi.c:2522`) tests the other slot the wrong way round;
`sata_abort_all` (`sata.c:216`) aborts only the first entry of a queue;
`uas_abort_TIU_list` (`uas.c:380`) follows an entry it has set to NULL.

Also met in the SATA code: `ata_init` frees the CCM of a
command that was parked during a pass-through soft reset (`ata.c:633`), and the
queue may then be linked into a cycle; a DMA Setup frame left unread when the
recovery starts survives it; a DATATXDONE bit left by an aborted WRITE blocks
every later Set Device Bits frame; a VERIFY sent in the recovery together with
more commands can end in GOOD for a READ that was not transferred; when the log
cannot be read, `uas_abort_all` forgets commands (both are why
`NoLostCommand` is not stated with these faults); a reset that falls into a
recovery leaves the pause bit of the recovery set.

## 5. What is proved

- `SataChannelProofs`: every operation of `sata.c` returns a channel when given
  one (that the least free CCM, a CHOOSE, is a CCM of the pool rests on the
  well-foundedness of strict inclusion on finite sets; the lemma says nothing of the
  scan itself). From this `TypeCorrect`, `Spec => []TypeOK`: for every number of
  CCMs, queue depth, set of commands, and choice of faults and resets, no pointer
  leaves the array of SCMs, no mask a tag outside the pool, no interrupt state
  an unknown value. Here `TypeOK` is inductive by itself. The proof follows the
  code: one lemma per operation, per handler, and per group of actions.
- `SataQueueProofs`, `SataSafetyProofs`: under `NoDoubleFree`, for every number
  of CCMs, depth and set of commands and every choice of resets,

  | Theorem | States |
  |---|---|
  | `InvHolds` | `Spec => []Inv` |
  | `OutstandingStaysBusy` | `Spec => []OutstandingIsBusy` |
  | `NeverMixed` | `Spec => []NoMixedCommands` |
  | `FreeStaysFree` | `Spec => []FreeCCMIsFree` |
  | `WalksReturn` | `Spec => []QueuesEnd` |
  | `DmaSetupSafe` | `Spec => []DmaSetupHasContext` |
  | `NothingLost` | `Spec => []NoLostCommand` |
  | `GoodOnlyAfterData` | `Spec => GoodIsTransferred` |
  | `ImplementsBus` | `Spec => BusSpec` |

`NoDoubleFree` says that the drive reports no error on a queued command and that
the host sends no ATA soft reset. In these two cases `FreeCCMIsFree` is false of
the code (run `ccm_after_cleanup`, and the hazard at `ata.c:633`), so the
assumption cannot be dropped for it. What is left is not the fault-free case:
VERIFY and pass-through commands may fail, the bridge's own initialisation
commands may fail, and hard resets, USB resets, LOGICAL UNIT RESETs and the
start-up timer may come at any step. The run `sata_invariant` has TLC check
`Inv` under exactly this assumption.

Why the invariant has its parts. None of the properties is inductive. That the
drive's commands are busy (`OutstandingIsBusy`) needs that nothing clears
`sobj_sBusy` under them: `delete_curSCM` clears the tag of `sobj_curScm` at a
data-done or register frame, so `FrameInv` has to say which frame can be unread
in which phase, and that the drive is done with `sobj_curScm` when there is one.
Which command `sobj_curScm` is in each phase is `PhaseInv`. That a free CCM is
not parked (`FreeCCMIsFree`) needs that a list followed through `scm_next` stays
within the waiting tags of its class (`QueueOf`): an SCM taken off the
head, appended at the tail, or freed may not be pointed to from elsewhere. The
same condition, an injective successor that misses the head, makes each walk
end: otherwise it would map the finite set of members injectively into itself
without the head (`QueueEnds`, by the pigeonhole principle). That a DMA Setup
finds its context needs `DriveInv`: the tag the drive transfers for is not one
whose context has been released. That a command dispatched by `usb_uas` meets a
channel that takes it needs `UasInv`: the `sobj_init` gate is closed while the
channel starts.

That no command is lost (`NoLostCommand`) asks more: each command the channel
holds is bound to an SCM (`Held`), and that SCM is busy or can be reached from
the head of its queue, so `QueueOf` also says that the list reaches every
waiting tag. Four facts carry it. A channel that starts or is idle holds no
command of the host, so the hard reset a pass-through command or the start-up
timer asks for forgets none. A command whose context was released is one the
host was answered for, or one the transport aborted itself. No CCM leaks: each
of the default ones is free, busy or waiting, so an idle drive has a free CCM
(`ReadyHasCCM`) and a pass-through command, whose refusal `usb_uas` does not look
at, is never refused. And what is appended to a queue or taken off its head
keeps the rest in reach (`KeepsBound`).

The proof has one lemma per operation of `sata.c` on the pool (`DetachPool`,
`BindPool`, `AppendPool`, `ExecPool` and so on), one per phase change
(`StartInv`, `AddNcqInv`, `SameBusyInv`, `QuietIdle`), one per handler, and one
per action, which says that the step keeps `ChannelInv` and `UasInv`, what it
hands to the drive or takes from it (`Traffic`), and when it decides a status
(`GoodStep`). The action property and the refinement come from the last two.

- `UsbSegProofs`, for every state of the segments and every index: the two steps of
  a read make the connection of one step (`ReadInTwoSteps`); connecting,
  emptying and freeing give the segments back as they were (`SegmentsComeBack`,
  not for the uses whose marks the code treats differently: REBUILDW and the
  RAID engine); a connection keeps `PortsApart` when no other segment has its
  ports (`ConnectionKeepsPortsApart`, by `RouteApart`: no use asks a port for two
  segments of a bank); `GetIdleSeg_UAS` gives a set that is idle next to the
  drive (`IdleSetIsIdle`), and the two sets are apart there (`SetsApart`), so two
  commands of the queue can hold one each. The functions are equal when each
  segment has the same fields (`SameSegment`).

- `UsbSegProofs`, `UsbBotProofs`: under `NoMismatch`, for every set of commands
  (any lengths), every number of resets, unpluggings, standbys, suspends and
  early timeouts, every value of the start-up timer, with encryption or without,

  | Theorem | States |
  |---|---|
  | `InvHolds` | `Spec => []Inv` |
  | `TypesHold` | `Spec => []TypeOK` |
  | `NothingIsLeft` | `Spec => []NothingLeft` |
  | `SegmentsOwned` | `Spec => []SegmentOwner` |
  | `DriveDone` | `Spec => []DriveDoneBeforeStatus` |
  | `ImplementsWire` | `Spec => WireSpec` |

`NoMismatch` says that a READ or WRITE that wakes the drives has a case that may
run. Without it such a command reaches the drive (run `phase_case_after_standby`)
and the host can get its status while the drive is still at work, so the
assumption cannot be dropped. Every other event stays: drives that fail, stalls,
commands refused in each of their cases, invalid wrappers, and the resets,
standbys, suspends and unpluggings that `UsbBot` has.

Why the invariant has its parts. None of the properties is inductive, since each
speaks of one moment and a command passes through many. `Inv` lists the phases
the bridge can be in: without VBUS, in `usb_hdd`, between two commands, stopped
by an invalid wrapper, with a command that waits, in execution, or with its
status on the way; and for a command in execution six kinds: no data in, no data
out or a refusal (`NoData`), data of the CPU either way, a READ or WRITE on the
drive, a command of the drive without data. Each says which interrupts can stand,
which halts, what `CTXT_Status` may be, and what the host has seen; the handlers
are then functions from phases to phases. `ReadTaken` and `WriteData` hold the
two facts the order of events turns on: a context is with the drive exactly
while it has a CCM, and a WRITE is XFER_DONE only when the host has cleared every
stall and waits for its status. That a refused command is told of its refusal
and no other (`WireSpec`) needs `Untouched`: a command put back until the drives
are up has a case that may run, or has not been through its checks.
`DrivesInv` says that no drive is off while the other one starts, and that the
start-up timer runs only while one does: otherwise the answer for a command that
waited too long could meet one that runs. `SegInv` gives each busy segment its
owner, and is kept by the lemmas of `UsbSegProofs` on the operations of `Dbuf`.

The proof has one lemma per handler of `bot.c`, `usb.c`, `scsi.c` and `sata.c`
(`DataInGood`, `RunReadGood`, `ProcessGood`, `MscWrite`, `WriteEnds` and so on),
which takes the record the handler is given and shows that the result is in one
of the phases, and one per action. For the refinement each action is a step of
`BotWire` or leaves the cable alone: that no handler of the firmware touches the
host's side is a lemma of its own for each (`ExecuteHost`, `MscHost` and so on), and
the truth of the status is a part of `Told`.

- `RaidProofs`, for every set of drives and of bays they fit in, array size,
  check-point distance, retry limit, threshold of instant rebuilds, choice of
  automatic rebuild, and every budget of cuts, moves of drives, errors and
  requests:

  | Theorem | States |
  |---|---|
  | `RaidInvHolds` | `Spec => []RaidInv` |
  | `TypeCorrect` | `Spec => []TypeOK` |
  | `TwoDrivesHold` | `Spec => []TwoDrives` |

`TypeOK` of the mirror is not inductive. A block that is copied is read from the
version of a drive, so its type needs that the source bay holds one: `DriveInv`
says that a rebuild has a drive in both bays, that these are the drives the
firmware saw when it last enumerated, and, since a rebuild is started on a mirror
that is offered to the host and a failed host write changes the array as well,
that an offered mirror and a mirrored write have them too. This in turn rests on
`raid_enumeration`: `EnumerationSane` shows that a slot is given a status only
with a drive in it, that a rebuild is decided on for two drives only
(`DeterminedSane`), and that an array of one drive is found good only when it is
JBOD (`DeterminedAlone`), so that `config_disk_arrays` offers no mirror of one
drive. The bound on the retries needs that no copy outlives its rebuild
(`RamInv`): an error is counted at most once between two tests of the limit.

The proof has two lemmas per operator of `RaidMeta`: the state keeps its type
with no copy under way (`Rested`), and the drives stay in their bays (`Same`,
`Sane`, `Kept`); and one per action.

- `RaidPageProofs`, for the same constants under `FixedBays`: each drive has one
  bay, and each of the two members its own.

  | Theorem | States |
  |---|---|
  | `PagesInvHolds` | `Spec => []PagesInv` |
  | `WipesAreAsked` | `Spec => WipeAsked` |

`WipeAsked` says that `hw_raid_config` does not clean the first sector of a good
member unless the user turned the switch or the drives are of two arrays. The step
that cleans is one of the ordered writes, long after the decision, and power may
have failed in between and before. So the invariant speaks of the pages wherever
they are: in the flash, in RAM, in the orders not yet carried out, and in the
sector being programmed.

- A page about a drive lies at the place of that drive's bay (`Apt`), a mirror's
  names two drives, and a page about a single drive says it is good. So at power-on
  `populate_slot_mapping` gives each slot its own page or a leftover that
  `read_3rd_copy_raidParams` refuses.
- The firmware cleans sectors first and stores pages after (`IoInv`); a
  sector that is torn is the one being programmed, and a second one is torn
  only with both of them under way (`NvmInv`).
- The pages ordered together are of one mode (`BatchInv`), hence a cut between
  them leaves pages of the old mode and of the new one, never of a third.
- With `asked` false, all of these pages are of the mode of the switch
  (`AskedInv`). So a start that finds a good member and no second array cleans
  nothing (`NothingWiped`): with its partner, or alone, the member's array is found
  as it was; a mirror beside a new drive becomes a rebuild or is degraded, and
  neither is a conflict; a single drive beside a new one is configured again, but
  `raid_mbr_cleaner` then keeps the sectors.
- A mirror that runs is made of pages of the drives in its slots (`MirrorPages`):
  when a member fails, is pulled or is rebuilt, what is stored is a page of a mirror.

`FixedBays` is needed: `store_meta_data` seals `ram_rp[slot]` and stores
`ram_rp[slot_to_nvm[slot]]` (`raid.c:1194`), so drives that changed bays may have a
page stored with the CRC of another, and the next start cleans a good drive
(section 4). The instance for TLC assumes it as well.

- `RaidRebuildProofs`, for the same constants under `FixedBays`:

  | Theorem | States |
  |---|---|
  | `NothingSkippedHolds` | `Spec /\ [][LastCopyKept]_vars /\ []WritesPaged => []NothingSkipped` |
  | `AutoSkipsNothing` | with `AutoRebuild`: `Spec /\ [][LastCopyKept]_vars => []NothingSkipped` |
  | `OneCutHolds` | `Spec /\ []WritesPaged => []SkipInvOneCut` |
  | `AutoOneCut` | with `AutoRebuild`: `Spec => []SkipInvOneCut`, and `NothingSkipped` while there was at most one cut |

`NothingSkipped` says that below `rebuildLBA` the target of a rebuild has every
block the host was told is written. What breaks it is done long before: a
rebuild skips blocks when it is resumed at a check point that was stored for
another drive, or for a pair that was written to since, and the pages that let
`raid1_resume_rebuild` take it may have been stored by two functions with a cut
between them. So `SkipInv` does not speak of the rebuild that runs but of every
one that could be resumed:

- `Safe`: the media are good now, and after each of the writes already ordered,
  so wherever a cut stops them. Good media (`Good`): when both pages name one
  mirror, one slot good and the other being rebuilt, with equal generations
  (`Resumes`), the target has what lies below either copy of the source's check
  point less one threshold, which is where `raid1_resume_rebuild` goes on; and
  the page of a target is never newer than that of its source (`Behind`), so a
  store of both pages passes no state in which they agree by accident.
- When the source is slot 1, the check point that decides when both are advanced
  (`raid.c:3556`) is the target's. `Covers` says it is not behind the
  source's: it is for this that the OTHER page of slot 0 has to be written
  first (mutant `WriteOthers_SourceFirst`).
- `RamGood`: when all that was ordered is done, the pages in RAM are those in the
  flash, the blocks below `rebuildLBA` are copied, no drive that could resume a
  rebuild is served alone, and a degraded mirror is served by the drive that is
  whole.
- `PairInv`: the two copies of a check point are written one after the other
  (`Write_Disk_MetaData`, `raid.c:1674`), whatever function ordered them.
- `CmdInv`: only the write in execution has blocks newer than the last
  acknowledged one, and a mirror in which a rebuild could be resumed sends it to
  both drives.

The two hypotheses are those behaviours for which the code does skip blocks
(section 4). `LastCopyKept`: no cut tears the last readable copy of a check point;
`load_other_parms` restores none (`raid.c:1501`), and after two cuts that tear both
a third makes the rebuild skip blocks. `WritesPaged`: a mirror that writes has
stored pages about both of its drives; without automatic rebuild `raid1_degraded`
stores none for a new drive beside a good member, and the replaced one, put back,
resumes below what was written meanwhile. With automatic rebuild, the setting of
the run, it always holds (`AutoPaged`).

`OneCutHolds` and `AutoOneCut` need no `LastCopyKept`: they are about behaviours with
at most one power cut, and prove `SkipInvOneCut`, the invariant the run checks.
The first cut tears no last copy. Until it both copies of a check point can be read or
neither can, but for the moment between the two writes, when the first can
(`EvenInv`); by `PairInv` the second is then the next write, so the cut tears the
copy that is being written anew while the other can be read, or one of two that
could both be read. With a second cut that is no longer so (section 4), and what is
proved for any number of cuts is what the first two theorems say.

The proof carries the media along the code: `Ordered(r, m, n)` says that the
writes a function has ordered so far lead from media `m` to `n` through good
media only, and there is a lemma per function of `raid.c` and per action. What the
writes do is a recursive function of their number; facts about it are proved by
taking the least number for which they fail, from the well-foundedness of `<`
(`Least`).

The assumptions are the named ones of the modules: at least one CCM, a queue
depth of at least one and at most the number of CCMs, and null values that are
no tags and no commands; for the bulk-only transport that only READ, WRITE, INQ
and SEL move data, that START UNIT has an IN wrapper (with an
OUT wrapper the code answers on the wrong pipe, `scsi.c:2633`, section 4), and that the start-up timer has at least one
tick; for the mirror that it has two different drives, at least one block, a
check-point distance and a retry limit of at least one. TLC evaluates them in
every run.

Only model-checked: `NoLostWrite` of `RaidArray`, which holds
within the bounds of the run and not of every behaviour (section 4); all properties of the channel once a queued command has failed or a soft reset was
sent; and the liveness properties (`Answered`, `EveryCommandAnswered` and the
others), which are out of the prover's reach.

## 6. What is not modelled

- SATA channel: the RAID branches of `sata.c`, the order in which statuses reach
  the host, `sata_abort_ctxt` and `pop_SCM_usb_Que` (no caller), PHY power
  control, two channels at once under UAS, aborts of single commands.
- RAID: striped and spanned volumes, the HDD clone, the on-line verify, the
  volume commands of the host (`AC_CREATE`), the volume descriptors. The choice
  of the slot a mirrored READ is sent to is modelled as any good slot: the code
  asks a timer (`raid1_active_timer`, `bot.c:580`), under UAS only with `DATASTORE_LED`.
- Bulk-only transport: the second LUN, RAID and virtual-CD commands, IMMED,
  residues and sense data, USB 3 link states. `handle_rsp_unit_nrd`
  (`interlaken.c`) has no caller.
- Of the system: the components marked `not_modelled` in `PROJECT.json`, with the
  reason there: they build replies from tables, move contents, or have no state
  another part depends on.
