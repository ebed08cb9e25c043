----------------------------- MODULE RaidArray ------------------------------
(***************************************************************************)
(* The life of the mirror: the drives and what is on them, the flash with  *)
(* the RAID parameters, power cuts at every write of the metadata, drives  *)
(* pulled and replaced, host writes that fail on one drive, the rebuild    *)
(* with its check point, the mode switch and the configuration button.     *)
(* The pages and the decisions made from them are in RaidMeta.             *)
(***************************************************************************)
EXTENDS RaidMeta

CONSTANTS
  Size,          \* array_data_area_size, in rebuild steps
  MaxRetry,      \* maxRebuildRetryCnt
  MaxInstant,    \* instant_rebuild_threshold
  Own,           \* the drives of the mirror the bridge starts with, per slot
  Fits,          \* the bays a drive is ever put in
  Budget,        \* bound on each kind of event from outside, and on their sum
  FlashCuts,     \* power may fail while the flash sector is programmed
  SourceFails,   \* a host write may fail on the source of a rebuild
  StaleAlone,    \* a drive the other one has given up may be left alone
  ModesAsked     \* the positions the mode switch is moved to

Events == {"cut", "write", "plug", "fail", "timeout", "switch", "rebuild", "any"}

ASSUME ArrayAssumption ==
  /\ Size \in Nat \ {0} /\ MaxRetry \in Nat \ {0} /\ MaxInstant \in Nat
  /\ Own \in [Slots -> Drives] /\ Own[0] # Own[1]
  /\ Fits \in [Drives -> SUBSET Slots]
  /\ FlashCuts \in BOOLEAN /\ SourceFails \in BOOLEAN /\ StaleAlone \in BOOLEAN
  /\ ModesAsked \subseteq {"RAID1", "JBOD"}
  /\ Budget \in [Events -> Nat]

Blocks == 0..Size - 1
NoCmd == [at |-> -1]
\* A copy of the OTHER page that cannot be read.
Bad == -1

VARIABLES
  bay,     \* the drive in each bay
  flash,   \* the RAID parameter pages in the flash
  other,   \* the two copies of the OTHER page of each drive: its check point
  data,    \* version of each block on each drive
  acked,   \* version of each block the host was told is written
  gpio,    \* the mode switch
  asked,   \* the mode switch was moved since the array was last configured
  ram,     \* the state of the firmware, see RaidMeta
  cmd,     \* the host command in execution
  on,      \* the bridge is powered
  left     \* events that may still happen

vars == <<bay, flash, other, data, acked, gpio, asked, ram, cmd, on, left>>
media == <<bay, flash, other, data, acked, gpio, asked>>

\* The page hw_raid_config stores for a mirror of the drives in Own.
OwnPage(s) == [gen |-> 1, mode |-> "RAID1", disk_num |-> s,
               status |-> [d \in Slots |-> "GOOD"], id |-> Own]

Init ==
  /\ bay = Own /\ flash = [s \in Slots |-> OwnPage(s)]
  /\ other = [d \in Drives |-> [c \in 1..2 |-> IF d \in {Own[0], Own[1]} THEN Step ELSE Bad]]
  /\ data = [d \in Drives |-> [b \in Blocks |-> IF d \in {Own[0], Own[1]} THEN 1 ELSE 0]]
  /\ acked = [b \in Blocks |-> 1]
  /\ gpio = "RAID1" /\ asked = FALSE
  /\ ram = InitRam /\ cmd = NoCmd /\ on = FALSE /\ left = Budget

\* e happens, and may happen once less in the future.
Happens(e) == left[e] > 0 /\ left["any"] > 0 /\ left' = [left EXCEPT ![e] = @ - 1, !["any"] = @ - 1]

----------------------------------------------------------------------------
(* Starting, and the writes the firmware orders while it starts or         *)
(* changes the configuration: they are carried out one by one.             *)

\* Read_Disk_MetaData of the OTHER page: a copy that checks out.
Readable(copy) == copy # Bad

\* find_good_copy of the OTHER page: the first copy before the second.
find_good_copy(r, s) ==
  IF ~Ready(r, s) THEN Bad
  ELSE IF Readable(other[r.bay[s]][1]) THEN other[r.bay[s]][1] ELSE other[r.bay[s]][2]

load_other_parms(r) ==
  LET cp == [s \in Slots |-> IF find_good_copy(r, s) = Bad THEN 0 ELSE find_good_copy(r, s)]
      fresh(q, s) == IF find_good_copy(r, s) = Bad THEN WriteOther(q, s) ELSE q
  IN  fresh(fresh([r EXCEPT !.cp = cp], 0), 1)

\* A page of the flash that does not check out leaves the copy in RAM as it was.
read_nvm_raid_parms(r) ==
  [r EXCEPT !.nvm = [i \in Slots |-> IF Valid(flash[i]) THEN flash[i] ELSE @[i]]]

\* raid_init, for a mirror: no instant rebuild is under way.
raid_init(r) == IF r.mode = "RAID1" THEN [r EXCEPT !.inst = FALSE] ELSE r

ini_init(r) ==
  raid_init(raid_enumeration(read_nvm_raid_parms(load_other_parms([r EXCEPT !.bay = bay])), gpio))

PowerOn ==
  /\ ~on /\ \E s \in Slots : bay[s] # NoDrive
  /\ on' = TRUE /\ ram' = ini_init(InitRam)
  /\ UNCHANGED <<media, cmd, left>>

ReEnumerate ==
  /\ on /\ ram.reenum /\ ram.io = << >> /\ \E s \in Slots : bay[s] # NoDrive
  /\ ram' = ini_init([ram EXCEPT !.reenum = FALSE])
  /\ UNCHANGED <<media, cmd, on, left>>

\* Both pages are in one sector of the flash.
spi_erase_flash_sector == flash' = [i \in Slots |-> Torn]

\* The sector is erased, then programmed with what it held and the new page.
spi_write_flash(o, rest) ==
  LET page == [flash EXCEPT ![o.at] = o.page]
  IN  /\ spi_erase_flash_sector
      /\ ram' = [ram EXCEPT !.io = [i \in 1..2 |-> [op |-> "prog", at |-> i - 1, page |-> page[i - 1]]] \o rest]

ProgramPage(o) ==
  /\ flash' = [flash EXCEPT ![o.at] = o.page]
  /\ asked' = (asked /\ \E i \in Slots : flash'[i].mode # gpio)

IoStep ==
  LET o == Head(ram.io)
      drive == bay[o.at]
      Done == ram' = [ram EXCEPT !.io = Tail(@)]
  IN  /\ on /\ ram.io # << >>
      /\ \/ o.op = "other" /\ Done
            /\ other' = [other EXCEPT ![drive][o.copy] = o.cp]
            /\ UNCHANGED <<flash, data, acked, asked>>
         \/ o.op = "store"
            /\ spi_write_flash(o, Tail(ram.io))
            /\ UNCHANGED <<other, data, acked, asked>>
         \/ o.op = "prog" /\ Done /\ ProgramPage(o)
            /\ UNCHANGED <<other, data, acked>>
         \/ o.op = "mbr" /\ Done
            /\ data' = [data EXCEPT ![drive][0] = 0]
            /\ acked' = [b \in Blocks |-> 0]
            /\ UNCHANGED <<flash, other, asked>>
      /\ UNCHANGED <<bay, gpio, cmd, on, left>>

\* The write in execution is of kind op.
Writing(op) == ram.io # << >> /\ Head(ram.io).op = op

\* Everything in RAM is lost; a copy being written cannot be read afterwards.
PowerCut ==
  /\ on /\ Happens("cut")
  /\ ~FlashCuts => ~Writing("prog")
  /\ on' = FALSE /\ ram' = InitRam /\ cmd' = NoCmd
  /\ \/ UNCHANGED other
     \/ /\ Writing("other")
        /\ other' = [other EXCEPT ![bay[Head(ram.io).at]][Head(ram.io).copy] = Bad]
  /\ UNCHANGED <<bay, flash, data, acked, gpio, asked>>

\* The drives that hold every write the host was told is done.
Current == {d \in Drives : \A b \in Blocks : data[d][b] >= acked[b]}

HasCurrent(drives) == \E s \in Slots : drives[s] \in Current

\* The page of a good member records d as missing, failed or being rebuilt.
GivenUp(d) ==
  \E i, n \in Slots :
    /\ Owner(flash[i]) \notin {d, NoDrive} /\ flash[i].status[flash[i].disk_num] = "GOOD"
    /\ flash[i].id[n] = d /\ flash[i].status[n] # "GOOD"

\* A drive is pulled, put in or replaced.  Bound: a drive is put in, and the
\* host writes, while one that holds its last writes is there.  A stale drive
\* that serves alone makes a second history, which no page can tell.  Nor can
\* the pages when the two drives serve alone in turn, which StaleAlone allows.
Replug ==
  \E s \in Slots, d \in Drives \cup {NoDrive} :
    /\ d # bay[s] /\ (d # NoDrive => s \in Fits[d] /\ d # bay[Across(s)])
    /\ bay' = [bay EXCEPT ![s] = d]
    /\ d # NoDrive => HasCurrent(bay')
    /\ StaleAlone \/ \A t \in Slots : bay'[t] # NoDrive /\ bay'[Across(t)] = NoDrive => ~GivenUp(bay'[t])

ChangeDrives ==
  /\ ~on /\ Happens("plug") /\ Replug
  /\ UNCHANGED <<flash, other, data, acked, gpio, asked, ram, cmd, on>>

\* The main loop sees a drive come or go and enumerates again.
HotPlug ==
  /\ on /\ ram.io = << >> /\ Happens("plug") /\ Replug
  /\ ram' = [ram EXCEPT !.reenum = TRUE, !.mirror = FALSE, !.busy = FALSE]
  /\ cmd' = NoCmd
  /\ UNCHANGED <<flash, other, data, acked, gpio, asked, on>>

MoveSwitch ==
  /\ Happens("switch")
  /\ gpio' \in ModesAsked \ {gpio} /\ asked' = TRUE
  /\ UNCHANGED <<bay, flash, other, data, acked, ram, cmd, on>>

Idle == on /\ ram.io = << >> /\ ~ram.reenum
\* The array of LUN l is offered to the host.
Serving(l) == Idle /\ l < ram.num /\ ram.queue[l] \notin {"BROKEN", "NOT_CONFIGURED"}

\* hw_raid_config(1) leaves a whole array of the mode that is asked for alone.
AsConfigured(r) == r.mode = gpio /\ r.queue[0] = "GOOD" /\ \A s \in Slots : r.cur[s] = "GOOD"

\* hw_raid_enum_check, and the main loop: configure, then enumerate again.
ConfigButton ==
  /\ Idle /\ ~CannotConfig(ram, gpio)
  /\ ~(ram.mirror /\ (gpio = "RAID1" \/ ram.busy))
  /\ Happens("switch") /\ asked' = TRUE
  /\ ram' = [IF AsConfigured(ram) THEN ram ELSE hw_raid_config(ram, gpio)
               EXCEPT !.reenum = TRUE, !.busy = FALSE]
  /\ cmd' = NoCmd
  /\ UNCHANGED <<bay, flash, other, data, acked, gpio, on>>

----------------------------------------------------------------------------
(* Host writes.  A mirror is written on both drives whatever their status. *)

Targets(l) == IF ram.mode = "RAID1" THEN Slots
              ELSE IF l = 0 /\ Ready(ram, 0) THEN {0} ELSE {1}

HostWrite(l, b) ==
  /\ HasCurrent(bay)
  /\ Serving(l) /\ cmd = NoCmd /\ ~ram.busy /\ Happens("write")
  /\ \A s \in Targets(l) : Ready(ram, s)
  /\ cmd' = [at |-> b, ver |-> 2 + Budget["write"] - left["write"],
             disk |-> [s \in Slots |-> IF s \in Targets(l) THEN "busy" ELSE "none"]]
  /\ UNCHANGED <<media, ram, on>>

\* The source of a rebuild whose target is the other slot.
IsSource(s) == ram.mirror /\ ram.src = s

DiskWrite(s) ==
  /\ cmd # NoCmd /\ cmd.disk[s] = "busy"
  /\ \/ /\ cmd' = [cmd EXCEPT !.disk[s] = "ok"]
        /\ data' = [data EXCEPT ![bay[s]][cmd.at] = cmd.ver]
        /\ UNCHANGED left
     \/ /\ SourceFails \/ ~IsSource(s)
        /\ Happens("fail")
        /\ cmd' = [cmd EXCEPT !.disk[s] = "err"]
        /\ UNCHANGED data
  /\ UNCHANGED <<bay, flash, other, acked, gpio, asked, ram, on>>

\* What a failed write makes of the array: raid1_error_detection.
WriteFailed(r, bad) ==
  LET fail == IF 0 \in bad THEN 0 ELSE 1
      q == r.queue[0]
      r1 == IF q = "GOOD" \/ (q = "REBUILDING" /\ r.cur[fail] = "REBUILDING")
            THEN [r EXCEPT !.queue[0] = "DEGRADED", !.cur[fail] = "FAILED"] ELSE r
      r2 == IF q = "REBUILDING" THEN [r1 EXCEPT !.mirror = FALSE] ELSE r1
      r3 == IF r2.cur[0] = "FAILED" THEN update_slots_for_failed(r2, 1, 0)
            ELSE update_slots_for_failed(r2, 0, 1)
  IN  update_raid1_read_use_slot(store_slots(set_raid1_array_status([r3 EXCEPT !.num = 0], r3.cur)))

raid1_error_detection(r, bad) == IF r.mode = "RAID1" THEN WriteFailed(r, bad) ELSE r

WriteDone ==
  LET bad == {s \in Slots : cmd.disk[s] = "err"}
  IN  /\ cmd # NoCmd /\ \A s \in Slots : cmd.disk[s] # "busy"
      /\ IF bad = {} THEN acked' = [acked EXCEPT ![cmd.at] = cmd.ver] /\ UNCHANGED ram
         ELSE ram' = raid1_error_detection(ram, bad) /\ UNCHANGED acked
      /\ cmd' = NoCmd
      /\ UNCHANGED <<bay, flash, other, data, gpio, asked, on, left>>

----------------------------------------------------------------------------
(* Host reads that fail: the block is rebuilt at once from the other drive. *)

\* The slots a read may be sent to.
ReadSlots == IF ram.queue[0] = "GOOD" THEN Slots ELSE {ram.use}

ReadFails(s, b) ==
  LET failed == [ram EXCEPT !.cur[s] = "FAILED"]
      instant == ram.queue[0] = "GOOD" /\ ram.instCnt < MaxInstant
  IN  /\ Serving(0) /\ ram.mode = "RAID1" /\ cmd = NoCmd /\ ~ram.busy
      /\ s \in ReadSlots /\ ram.queue[0] # "REBUILDING" /\ Happens("fail")
      /\ ram' = IF instant
                THEN [failed EXCEPT !.queue[0] = "DEGRADED", !.instCnt = @ + 1, !.mirror = TRUE,
                                    !.src = Across(s), !.inst = TRUE, !.lba = b, !.busy = TRUE]
                ELSE update_raid1_read_use_slot([failed EXCEPT
                       !.queue[0] = IF @ = "GOOD" THEN "DEGRADED" ELSE "DATA_LOST", !.src = Across(s)])
      /\ UNCHANGED <<media, cmd, on>>

----------------------------------------------------------------------------
(* The rebuild: one step of 32 MB at a time while no host command runs. *)

\* raid_rebuild_initiated, at the host's request: the OTHER pages first.
RebuildCommand ==
  LET g == ram.use
      begun == [StartRebuild(ram, g, 0) EXCEPT !.queue[0] = "REBUILDING", !.cur = Pair(g, "REBUILDING")]
  IN  /\ Serving(0) /\ ram.mode = "RAID1" /\ ram.queue[0] = "DEGRADED"
      /\ cmd = NoCmd /\ ~ram.busy /\ Happens("rebuild")
      /\ ram' = update_raid1_read_use_slot(store_slots(
                  SetCheckPoint(update_slots_for_rebuilding(begun, g), Step)))
      /\ UNCHANGED <<media, cmd, on>>

\* raid_rebuild in RAID_RB_IDLE: not while a host command is in execution.
RebuildMayStart == Idle /\ ram.mirror /\ ~ram.busy /\ cmd = NoCmd

initiate_rb_IO ==
  /\ RebuildMayStart
  /\ ram' = [ram EXCEPT !.lba = ram.pos, !.busy = TRUE]
  /\ UNCHANGED <<media, cmd, on, left>>

\* The last block is copied: both slots are good.
RebuildDone(r) ==
  LET good == [s \in Slots |-> "GOOD"]
      pages == [s \in Slots |-> [r.rp[s] EXCEPT !.gen = r.rp[r.src].gen, !.status = good]]
      r1 == append_array_status([r EXCEPT !.mirror = FALSE, !.cur = good, !.queue[0] = "GOOD",
                                          !.rp = pages, !.num = 1], "GOOD")
  IN  store_slots([SetCheckPoint(r1, 0) EXCEPT !.need = Slots])

\* RAID_RB_DONE_UPDATE after a block was copied.
BlockDone(r0) ==
  LET r == [r0 EXCEPT !.pos = @ + 1, !.retry = 0]
  IN  IF r.pos >= Size THEN RebuildDone(r)
      ELSE IF r.pos > r.cp[0]
      THEN WriteOthers([r EXCEPT !.cp = [s \in Slots |-> @[s] + Step]])
      ELSE r

\* Mutant: one retry too many.
RebuildStops_OneMore(r) ==
  LET failed == {s \in Slots : r.cur[s] = "FAILED"}
      f == IF 0 \in failed THEN 0 ELSE 1
      r1 == [r EXCEPT !.mirror = FALSE]
      r2 == [update_slots_for_failed(r1, Across(f), f) EXCEPT !.num = 0]
  IN  IF r.retry <= MaxRetry THEN r
      ELSE IF failed = {} THEN r1
      ELSE update_raid1_read_use_slot(store_slots(set_raid1_array_status(r2, r2.cur)))

\* RAID_RB_DONE_UPDATE after an error.
RebuildStops(r) ==
  LET failed == {s \in Slots : r.cur[s] = "FAILED"}
      f == IF 0 \in failed THEN 0 ELSE 1
      r1 == [r EXCEPT !.mirror = FALSE]
      r2 == [update_slots_for_failed(r1, Across(f), f) EXCEPT !.num = 0]
  IN  IF r.retry < MaxRetry THEN r
      ELSE IF failed = {} THEN r1
      ELSE update_raid1_read_use_slot(store_slots(set_raid1_array_status(r2, r2.cur)))

\* Mutant: an error is never found to be at the block of the last one.
BlockFailed_NotCounted(r, bothDone) ==
  RebuildStops([r EXCEPT !.errAt = -Step - 1])

\* chk_rb_done: the error is counted when it is at the block of the last one;
\* the target takes the blame when both commands completed.
BlockFailed(r, bothDone) ==
  LET again == r.errAt = r.pos
      r1 == IF again THEN [r EXCEPT !.retry = @ + 1] ELSE [r EXCEPT !.errAt = r.pos]
  IN  RebuildStops(IF bothDone /\ r1.retry >= MaxRetry THEN [r1 EXCEPT !.cur[Across(r.src)] = "FAILED"] ELSE r1)

\* The end of an instant rebuild; raid1_use_slot is left as it is.
InstantDone(r, ok) ==
  LET r1 == [r EXCEPT !.inst = FALSE, !.mirror = FALSE]
  IN  IF ok THEN [r1 EXCEPT !.queue[0] = "GOOD", !.cur = [s \in Slots |-> "GOOD"]]
      ELSE store_slots(IF r.cur[0] = "FAILED" THEN update_slots_for_failed(r1, 1, 0)
                       ELSE update_slots_for_failed(r1, 0, 1))

\* Both drives have completed: the block is on the target.
CopyDone(r) ==
  /\ ram.lba \in Blocks
  /\ data' = [data EXCEPT ![bay[Across(ram.src)]][ram.lba] = data[bay[ram.src]][ram.lba]]
  /\ ram' = IF r.inst THEN InstantDone(r, TRUE) ELSE BlockDone(r)
  /\ UNCHANGED left

\* An error of one drive, with the other one completed or stuck and reset.  A
\* block below zero or past the last one is on neither drive.
CopyFails(r) ==
  /\ IF ram.lba \in Blocks THEN Happens("fail") ELSE UNCHANGED left
  /\ \E bothDone \in BOOLEAN :
       ram' = IF r.inst THEN InstantDone(r, FALSE) ELSE BlockFailed(r, bothDone)
  /\ UNCHANGED data

\* rw_time_out: both drives are reset and the block is copied again.
CopyTimesOut(r) ==
  /\ Happens("timeout")
  /\ ram' = IF r.inst THEN InstantDone(r, FALSE) ELSE r
  /\ UNCHANGED data

chk_rb_done ==
  LET r == [ram EXCEPT !.busy = FALSE]
  IN  /\ Idle /\ ram.busy
      /\ CopyDone(r) \/ CopyFails(r) \/ CopyTimesOut(r)
      /\ UNCHANGED <<bay, flash, other, acked, gpio, asked, cmd, on>>

----------------------------------------------------------------------------
\* usb_chk: raid_done_isr and raid_rebuild, from the main loop.
usb_chk == WriteDone \/ initiate_rb_IO \/ chk_rb_done

\* What the firmware and the drives do.
Firmware ==
  \/ PowerOn \/ ReEnumerate \/ IoStep \/ usb_chk
  \/ \E s \in Slots : DiskWrite(s)

Next ==
  \/ Firmware
  \/ PowerCut \/ ChangeDrives \/ HotPlug \/ MoveSwitch \/ ConfigButton
  \/ \E l \in Slots, b \in Blocks : HostWrite(l, b)
  \/ \E s \in Slots, b \in Blocks : ReadFails(s, b)
  \/ RebuildCommand

\* Firmware is enabled.  (ENABLED Firmware, written out: TLC takes too long
\* to find it from the operators of RaidMeta.)
CanRun ==
  LET some == \E s \in Slots : bay[s] # NoDrive
  IN  \/ ~on /\ some
      \/ on /\ (ram.io # << >> \/ (ram.reenum /\ some))
      \/ cmd # NoCmd
      \/ Idle /\ (ram.mirror \/ ram.busy)

\* The main loop runs while there is power, and the drives answer: weak
\* fairness of Firmware.
Fairness == []<>(~CanRun) \/ []<><<Firmware>>_vars

Spec == Init /\ [][Next]_vars /\ Fairness

----------------------------------------------------------------------------
TypeOK ==
  /\ bay \in [Slots -> Drives \cup {NoDrive}]
  /\ flash \in [Slots -> Page]
  /\ other \in [Drives -> [1..2 -> Nat \cup {Bad}]]
  /\ data \in [Drives -> [Blocks -> Nat]] /\ acked \in [Blocks -> Nat]
  /\ gpio \in {"RAID1", "JBOD"} /\ asked \in BOOLEAN /\ on \in BOOLEAN
  /\ ram.rp \in [Slots -> Page] /\ ram.cur \in [Slots -> SlotStatus]
  /\ ram.queue \in [Slots -> ArrayStatus] /\ ram.num \in 0..2
  /\ ram.mode \in Modes /\ ram.use \in Slots /\ ram.src \in Slots
  /\ ram.pos \in Int /\ ram.pos >= -Step /\ ram.retry \in 0..MaxRetry
  /\ left \in [Events -> Nat]

\* A mirror offered to the host, and a rebuild under way, have a drive in both
\* bays: a drive pulled out is noticed, and a mirror that starts with one drive
\* is not offered as a mirror (config_disk_arrays makes it JBOD).
TwoDrives ==
  Idle /\ (ram.mirror \/ (ram.mode = "RAID1" /\ Serving(0))) => \A s \in Slots : bay[s] # NoDrive

\* While a drive with every acknowledged write is in the bays, a mirror
\* offered to the host never reads an older block: not after power cuts, not
\* when one drive ran alone, not while or after the other one is rebuilt.  An
\* array whose last good drive failed a read (DATA_LOST) promises nothing.
NoLostWrite ==
  /\ Serving(0) /\ ram.mode = "RAID1" /\ ~ram.inst /\ bay = ram.bay
  /\ ram.queue[0] # "DATA_LOST"
  /\ HasCurrent(bay)
  => \A s \in ReadSlots : bay[s] \in Current

\* The rebuild copies every block: below rebuildLBA, the point it resumes at
\* after a power cut too, the target lags behind the source in no block except
\* by a write the host was never told is done.
NothingSkipped ==
  Serving(0) /\ ram.mirror /\ ~ram.inst /\ bay = ram.bay =>
    \A b \in Blocks : /\ b < ram.pos
                      /\ data[bay[ram.src]][b] <= acked[b]
                      => data[bay[Across(ram.src)]][b] >= data[bay[ram.src]][b]

\* The drives the flash records as good members of an array.
Members == {d \in Drives : \E i \in Slots : Owner(flash[i]) = d /\ flash[i].status[flash[i].disk_num] = "GOOD"}

\* The two drives in the bays are recorded in different arrays.
Conflict == flash[0].id # flash[1].id /\ {bay[0], bay[1]} = {Owner(flash[0]), Owner(flash[1])}

\* Sector 0 of a good member of an array is overwritten only after the user
\* moved the mode switch or pressed the button, or put it beside a member of
\* another array: no power cut makes raid_mbr_cleaner run on it.
WipeAsked == [][\A d \in Members :
                   Writing("mbr") /\ data'[d][0] # data[d][0] => asked \/ Conflict]_vars

\* A rebuild comes to an end, whatever fails meanwhile.
RebuildSettles == ram.mirror ~> ~ram.mirror

\* raid.c:3598 says "if w fail, F/W would set its cur_status to FAILED, then
\* saved": when a host write has failed on one slot only, it is not the other
\* slot that is newly recorded as failed.
FailedSlotRecorded ==
  [][\A s \in Slots :
       cmd # NoCmd /\ cmd.disk[s] = "ok" /\ on' /\ ram'.cur[s] = "FAILED" => ram.cur[s] = "FAILED"]_vars
=============================================================================
