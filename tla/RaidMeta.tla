------------------------------ MODULE RaidMeta ------------------------------
(***************************************************************************)
(* The RAID parameters of the bridge: the pages kept in its flash, the     *)
(* copies in RAM, and the functions of raid.c that decide from them what   *)
(* array the two drives make.  A function of the firmware is an operator   *)
(* from the RAID state to the next one; the writes it orders to the flash  *)
(* and to the drives are appended to the field io, in the firmware's       *)
(* order, because the power may fail between any two of them.              *)
(*                                                                         *)
(* Modes: mirror and JBOD.  Addresses are counted in rebuild steps.        *)
(***************************************************************************)
EXTENDS Integers, Sequences, FiniteSets

CONSTANTS
  Drives,       \* disk drives, told apart by model and serial number
  NoDrive,      \* an empty bay
  TooSmall,     \* drives smaller than the array
  Step,         \* REBUILD_METADATA_UPDATE_THRESHOLD, in rebuild steps
  AutoRebuild   \* enable_auto_rebuild

ASSUME DrivesAssumption == NoDrive \notin Drives /\ TooSmall \subseteq Drives
ASSUME StepAssumption == Step \in Nat \ {0} /\ AutoRebuild \in BOOLEAN

Slots == {0, 1}
Across(s) == 1 - s

SlotStatus == {"GOOD", "REBUILDING", "BLANK", "FAILED", "MISSING", "EMPTY", "SOFT_REJECTED"}
ArrayStatus == {"GOOD", "DEGRADED", "REBUILDING", "BROKEN", "NOT_CONFIGURED", "DATA_LOST"}
Modes == {"RAID1", "JBOD", "NOT_CONFIGURED"}

\* RAID_PARMS: the page of one drive.  disk_num = 2 + slot stands for
\* 0x80 | slot; a page whose CRC does not match is Torn.
Page == [gen : Nat, mode : Modes \cup {"TORN"}, disk_num : 0..3,
         status : [Slots -> SlotStatus], id : [Slots -> Drives \cup {NoDrive}]]

ClearPage(n) == [gen |-> 0, mode |-> "NOT_CONFIGURED", disk_num |-> n,
                 status |-> [s \in Slots |-> "EMPTY"], id |-> [s \in Slots |-> NoDrive]]
Torn == [ClearPage(0) EXCEPT !.mode = "TORN"]
Valid(p) == p.mode # "TORN"
\* The drive a page in the flash is about.
Owner(p) == IF Valid(p) /\ p.disk_num \in Slots THEN p.id[p.disk_num] ELSE NoDrive

----------------------------------------------------------------------------
(***************************************************************************)
(* The RAID state in RAM.  bay is what the firmware sees in its two slots, *)
(* sealed the page content the CRC in the header was last computed for,    *)
(* pos = rebuildLBA (negative when it wrapped below zero), lba the block   *)
(* being copied, busy = RAID_RB_IN_PROCESS, inst = instant_rebuild_flag.   *)
(***************************************************************************)
InitRam ==
  [nvm |-> [i \in Slots |-> Torn], rp |-> [s \in Slots |-> ClearPage(0)],
   sealed |-> [s \in Slots |-> Torn], map |-> [s \in Slots |-> s], newer |-> {},
   bay |-> [s \in Slots |-> NoDrive], cur |-> [s \in Slots |-> "EMPTY"], need |-> {},
   queue |-> [i \in Slots |-> "NOT_CONFIGURED"], num |-> 0, ids |-> 0, ms |-> "NO_VALID",
   mode |-> "NOT_CONFIGURED", use |-> 0, mirror |-> FALSE, src |-> 0, pos |-> 0, lba |-> 0,
   retry |-> 0, errAt |-> 0, busy |-> FALSE, inst |-> FALSE, instCnt |-> 0,
   cp |-> [s \in Slots |-> 0], reenum |-> FALSE, io |-> << >>]

Ready(r, s) == r.bay[s] # NoDrive

\* Write_Disk_MetaData of the OTHER page: two copies, none without a drive.
WriteOther(r, s) ==
  IF Ready(r, s)
  THEN [r EXCEPT !.io = @ \o [c \in 1..2 |-> [op |-> "other", at |-> s, copy |-> c, cp |-> r.cp[s]]]]
  ELSE r

\* Mutant: the OTHER pages are written in the other order.
WriteOthers_SourceFirst(r) == WriteOther(WriteOther(r, 1), 0)

WriteOthers(r) == WriteOther(WriteOther(r, 0), 1)
SetCheckPoint(r, v) == WriteOthers([r EXCEPT !.cp = [s \in Slots |-> v]])

----------------------------------------------------------------------------
(* Which page of the flash belongs to which slot. *)

populate_slot_mapping(r) ==
  LET found == [s \in Slots |->
                  IF \E i \in Slots : Ready(r, s) /\ r.bay[s] = Owner(r.nvm[i])
                  THEN CHOOSE i \in Slots : /\ r.bay[s] = Owner(r.nvm[i])
                                            /\ i = 1 => r.bay[s] # Owner(r.nvm[0])
                  ELSE 2]
      Leftover(m, i) ==
        LET open == {s \in Slots : m[s] = 2}
        IN  IF i \in {m[s] : s \in Slots} \/ open = {} THEN m
            ELSE [m EXCEPT ![IF 0 \in open THEN 0 ELSE 1] = i]
      map == Leftover(Leftover(found, 0), 1)
  IN  [r EXCEPT !.map = map, !.newer = {s \in Slots : map[s] # found[s]}]

get_disk_num(r, s, status) ==
  IF status = "GOOD" THEN r.rp[s].disk_num
  ELSE IF r.rp[Across(s)].disk_num = 0 THEN 1 ELSE 0

set_stat(r, s, status) ==
  [r EXCEPT !.rp[s].status[get_disk_num(r, s, status)] = status, !.cur[s] = status]

\* The page slot s is mapped to checks out and is about the drive in slot s.
read_3rd_copy_raidParams(r, s) == r.bay[s] = Owner(r.nvm[r.map[s]])

read_restore_slot_matadata(r, s) ==
  LET page == r.nvm[r.map[s]] IN [r EXCEPT !.rp[s] = page, !.sealed[s] = page]

use_meta_stat(r, s) == [r EXCEPT !.cur[s] = r.rp[s].status[r.rp[s].disk_num]]

determine_slot_status(r0, s) ==
  LET r == [r0 EXCEPT !.rp[s] = ClearPage(2 + s), !.cur[s] = "EMPTY"]
  IN  IF ~Ready(r, s) THEN r
      ELSE IF read_3rd_copy_raidParams(r, s) THEN use_meta_stat(read_restore_slot_matadata(r, s), s)
      ELSE set_stat(r, s, "BLANK")

----------------------------------------------------------------------------
(* What the statuses of the two slots are set to when one of them changes. *)

\* The two statuses when slot g is good and the other one has status o.
Pair(g, o) == [s \in Slots |-> IF s = g THEN "GOOD" ELSE o]
\* The page p with statuses pair, each written at its slot's disk number.
Marked(r, p, pair) ==
  LET n == [s \in Slots |-> get_disk_num(r, s, pair[s])]
  IN  [p EXCEPT !.status = [@ EXCEPT ![n[0]] = pair[0], ![n[1]] = pair[1]]]

update_slots_for_rebuilding(r, g) ==
  LET t == Across(g)
      pair == Pair(g, "REBUILDING")
      n == [s \in Slots |-> get_disk_num(r, s, pair[s])]
      good == [Marked(r, r.rp[g], pair) EXCEPT !.id = [@ EXCEPT ![n[0]] = r.bay[0], ![n[1]] = r.bay[1]]]
      new == [Marked(r, [r.rp[t] EXCEPT !.gen = good.gen, !.id = good.id, !.mode = good.mode], pair)
                EXCEPT !.disk_num = n[t]]
  IN  [r EXCEPT !.rp = [s \in Slots |-> IF s = g THEN good ELSE new],
                !.cur[t] = "REBUILDING", !.need = Slots]

update_slots_for_missing(r, g) ==
  [r EXCEPT !.rp[g] = Marked(r, @, Pair(g, "MISSING")), !.need = @ \cup {g}]

update_slots_for_failed(r, g, f) ==
  LET r1 == [r EXCEPT !.rp[g] = Marked(r, @, Pair(g, "FAILED"))]
  IN  [r1 EXCEPT !.rp[f] = Marked(r, @, Pair(g, "FAILED")), !.cur[f] = "FAILED", !.need = Slots]

----------------------------------------------------------------------------
(* The status of the array. *)

append_array_status(r, status) ==
  IF r.num < 2 THEN [r EXCEPT !.queue[r.num] = status, !.num = @ + 1] ELSE r

raid1_degraded(r, g, o) ==
  LET r1 == append_array_status(r, "DEGRADED")
  IN  IF \/ o \in {"GOOD", "REBUILDING", "BLANK", "FAILED"}
         \/ r.rp[g].status[get_disk_num(r, Across(g), o)] = "MISSING"
      THEN r1 ELSE update_slots_for_missing(r1, g)

\* raid_mirror_status, raid_mirror_operation, rebuildLBA and the state.
StartRebuild(r, g, at) == [r EXCEPT !.mirror = TRUE, !.src = g, !.pos = at, !.retry = 0, !.busy = FALSE]

raid1_might_be_auto_rebuild(r, g, o) ==
  IF AutoRebuild /\ o \in {"GOOD", "REBUILDING", "BLANK"}
  THEN SetCheckPoint([StartRebuild(update_slots_for_rebuilding(append_array_status(r, "REBUILDING"), g), g, 0)
                        EXCEPT !.newer = {}], Step)
  ELSE raid1_degraded(r, g, o)

\* Mutant: the rebuild is resumed at the address found in the OTHER page.
raid1_resume_rebuild_AtCheckPoint(r, g) ==
  LET gen == [s \in Slots |-> r.rp[s].gen]
      t == Across(g)
  IN  IF gen[g] = gen[t] THEN StartRebuild(append_array_status(r, "REBUILDING"), g, r.cp[g])
      ELSE IF gen[g] > gen[t] THEN raid1_might_be_auto_rebuild(r, g, "REBUILDING")
      ELSE raid1_degraded(r, g, "REBUILDING")

raid1_resume_rebuild(r, g) ==
  LET gen == [s \in Slots |-> r.rp[s].gen]
      t == Across(g)
  IN  IF gen[g] = gen[t] THEN StartRebuild(append_array_status(r, "REBUILDING"), g, r.cp[g] - Step)
      ELSE IF gen[g] > gen[t] THEN raid1_might_be_auto_rebuild(r, g, "REBUILDING")
      ELSE raid1_degraded(r, g, "REBUILDING")

\* Mutant: the older page is taken for the newer one.
raid1_both_are_good_Older(r) ==
  IF r.rp[0].gen = r.rp[1].gen
  THEN append_array_status(r, IF \A s, d \in Slots : r.rp[s].status[d] = "GOOD" THEN "GOOD" ELSE "BROKEN")
  ELSE raid1_might_be_auto_rebuild(r, IF r.rp[0].gen > r.rp[1].gen THEN 1 ELSE 0, "GOOD")

raid1_both_are_good(r) ==
  IF r.rp[0].gen = r.rp[1].gen
  THEN append_array_status(r, IF \A s, d \in Slots : r.rp[s].status[d] = "GOOD" THEN "GOOD" ELSE "BROKEN")
  ELSE raid1_might_be_auto_rebuild(r, IF r.rp[0].gen > r.rp[1].gen THEN 0 ELSE 1, "GOOD")

raid1_at_least_one_good(r, g, o) ==
  CASE o = "GOOD"       -> raid1_both_are_good(r)
    [] o = "REBUILDING" -> raid1_resume_rebuild(r, g)
    [] o = "BLANK"      -> raid1_might_be_auto_rebuild(r, g, o)
    [] OTHER            -> raid1_degraded(r, g, o)

set_raid1_array_status(r, pair) ==
  IF pair[0] = "GOOD" THEN raid1_at_least_one_good(r, 0, pair[1])
  ELSE IF pair[1] = "GOOD" THEN raid1_at_least_one_good(r, 1, pair[0])
  ELSE append_array_status(r, "BROKEN")

set_jbod_array_status(r, pair) ==
  append_array_status(r, IF \E s \in Slots : pair[s] = "GOOD" /\ pair[Across(s)] = "EMPTY"
                         THEN "GOOD" ELSE "BROKEN")

set_array_status(r, mode, pair) ==
  CASE mode = "JBOD"  -> set_jbod_array_status(r, pair)
    [] mode = "RAID1" -> set_raid1_array_status(r, pair)
    [] OTHER          -> append_array_status(r, "NOT_CONFIGURED")

same_array(r) ==
  /\ r.rp[0].id = r.rp[1].id
  /\ r.rp[0].mode = r.rp[1].mode
  /\ r.rp[0].disk_num # r.rp[1].disk_num
  /\ \/ r.rp[0].mode = "RAID1"
     \/ r.rp[0].mode # "JBOD" /\ r.rp[0].gen = r.rp[1].gen

\* The slot whose drive is new while the other one holds a mirror.
Newcomer(r) == {s \in Slots : /\ r.cur[s] = "BLANK" /\ r.cur[Across(s)] = "GOOD"
                              /\ r.rp[Across(s)].mode = "RAID1"}

can_be_same_array(r) ==
  \/ \E s \in Slots : r.cur[s] = "EMPTY"
  \/ \E s \in Newcomer(r) : r.bay[s] \notin TooSmall
  \/ Newcomer(r) = {} /\ \A s \in Slots : r.rp[s].mode = "NOT_CONFIGURED"
\* What can_be_same_array leaves behind for a newcomer.
Admitted(r) ==
  LET small == {s \in Newcomer(r) : r.bay[s] \in TooSmall}
  IN  IF small # {} THEN set_stat(r, CHOOSE s \in small : TRUE, "SOFT_REJECTED")
      ELSE IF 0 \in Newcomer(r) THEN [r EXCEPT !.rp[0].mode = "RAID1"] ELSE r

determine_array_status(r0) ==
  LET ids == Cardinality({d \in Slots : r0.rp[0].id[d] # r0.rp[1].id[d]})
      r == [r0 EXCEPT !.num = 0, !.ids = ids]
      occupied == IF r.cur[0] = "EMPTY" THEN 1 ELSE 0
      a == IF \E s \in Slots : r.cur[s] = "EMPTY" THEN r ELSE Admitted(r)
      alone(q, s) == set_array_status(q, q.rp[s].mode, [e \in Slots |-> IF e = s THEN q.cur[s] ELSE "EMPTY"])
  IN  IF same_array(r) THEN set_array_status(r, r.rp[0].mode, r.cur)
      ELSE IF can_be_same_array(r) THEN set_array_status(a, a.rp[occupied].mode, a.cur)
      ELSE alone(alone(a, 0), 1)

determine_metadata_status(r) ==
  [r EXCEPT !.ms =
     IF r.num = 1
     THEN CASE r.queue[0] = "NOT_CONFIGURED" -> "NO_VALID"
            [] r.queue[0] = "GOOD"           -> "GOOD"
            [] OTHER                         -> "STH_NOT_VALID"
     ELSE IF \A i \in Slots : r.queue[i] = "GOOD" THEN "GOOD"
     ELSE IF r.ids = 1 THEN "CONFLICT" ELSE "STH_NOT_VALID"]

----------------------------------------------------------------------------
(* Storing the pages, and configuring the array the mode switch asks for. *)

\* A page in RAM as it reaches the flash: only with a CRC of its own.
Written(r, x) == IF r.rp[x] = r.sealed[x] THEN r.rp[x] ELSE Torn

\* The page is taken from ram_rp[slot_to_nvm[s]], not from ram_rp[s].
store_meta_data(r, s) ==
  IF s \in r.need /\ r.ms \in {"GOOD", "STH_NOT_VALID"}
  THEN LET page == [r.rp[s] EXCEPT !.gen = @ + 1]
           r1 == [r EXCEPT !.rp[s] = page, !.sealed[s] = page, !.need = @ \ {s}]
       IN  [r1 EXCEPT !.io = Append(@, [op |-> "store", at |-> r.map[s], page |-> Written(r1, r.map[s])])]
  ELSE r

store_slots(r) ==
  IF r.cur[0] = "GOOD" THEN store_meta_data(store_meta_data(r, 0), 1)
  ELSE store_meta_data(store_meta_data(r, 1), 0)

update_raid1_read_use_slot(r) ==
  [r EXCEPT !.use = IF r.mode # "RAID1" \/ r.queue[0] = "GOOD" THEN 0
                    ELSE IF \A s \in Slots : r.cur[s] = "GOOD"
                    THEN IF r.rp[0].gen > r.rp[1].gen THEN 0 ELSE 1
                    ELSE IF r.cur[0] = "GOOD" THEN 0 ELSE 1]

\* Mutant: a mirror that lost a drive is offered to the host as a mirror.
config_disk_arrays_Alone(r) ==
  LET n == IF r.cur[0] = "GOOD" THEN 0 ELSE 1
      mode == IF r.num # 1 THEN "JBOD"
              ELSE IF r.ms = "GOOD" THEN r.rp[n].mode
              ELSE IF r.ms = "STH_NOT_VALID"
              THEN IF r.queue[0] \in {"REBUILDING", "DEGRADED"} THEN r.rp[n].mode ELSE "JBOD"
              ELSE r.mode
  IN  update_raid1_read_use_slot([r EXCEPT !.mode = mode])

config_disk_arrays(r) ==
  LET n == IF r.cur[0] = "GOOD" THEN 0 ELSE 1
      whole == \A s \in Slots : r.cur[s] # "EMPTY"
      mode == IF r.num # 1 THEN "JBOD"
              ELSE IF r.ms = "GOOD" THEN r.rp[n].mode
              ELSE IF r.ms = "STH_NOT_VALID"
              THEN IF r.queue[0] \in {"REBUILDING", "DEGRADED"} /\ whole THEN r.rp[n].mode ELSE "JBOD"
              ELSE r.mode
  IN  update_raid1_read_use_slot([r EXCEPT !.mode = mode])

\* raid_mbr_cleaner: sector 0 of each drive is overwritten, except when a
\* mirror, or drives never configured, become JBOD.
KeepsMbr(r, new) ==
  LET n == IF r.cur[0] = "GOOD" THEN 0 ELSE 1
      same == r.newer = {} \/ \E s \in Slots : r.cur[s] = "EMPTY"
  IN  /\ new = "JBOD"
      /\ IF same THEN r.rp[n].mode \in {"RAID1", "NOT_CONFIGURED"}
         ELSE r.rp[n].mode = "JBOD" \/ r.nvm[0].mode = "JBOD"
WipeMbr(r, s) == IF Ready(r, s) THEN [r EXCEPT !.io = Append(@, [op |-> "mbr", at |-> s])] ELSE r
raid_mbr_cleaner(r, new) == IF KeepsMbr(r, new) THEN r ELSE WipeMbr(WipeMbr(r, 0), 1)

fill_raid_parms(r, s, mode) ==
  [r EXCEPT !.rp[s] = [gen |-> @.gen, mode |-> mode, disk_num |-> s, id |-> r.bay,
                       status |-> [d \in Slots |-> IF Ready(r, d) THEN r.cur[d] ELSE "MISSING"]]]

\* The cases in which hw_raid_config returns 1.
CannotConfig(r, gpio) ==
  IF gpio = "RAID1" THEN \E s \in Slots : ~Ready(r, s) ELSE \A s \in Slots : ~Ready(r, s)

\* Mutant: the rebuild of the mirror that is replaced is not called off.
hw_raid_config_Mirroring(r, gpio) ==
  LET wiped == raid_mbr_cleaner(r, gpio)
      good == [wiped EXCEPT !.cur = [s \in Slots |-> IF Ready(r, s) THEN "GOOD" ELSE "EMPTY"]]
      filled == fill_raid_parms(fill_raid_parms(good, 0, gpio), 1, gpio)
      gen == IF r.rp[0].gen > r.rp[1].gen THEN r.rp[0].gen ELSE r.rp[1].gen
      synced == [filled EXCEPT !.rp[0].gen = gen, !.rp[1].gen = gen, !.ms = "GOOD",
                               !.need = {s \in Slots : Ready(r, s)}]
  IN  SetCheckPoint(store_slots(synced), Step)

hw_raid_config(r, gpio) ==
  LET wiped == raid_mbr_cleaner(r, gpio)
      good == [wiped EXCEPT !.cur = [s \in Slots |-> IF Ready(r, s) THEN "GOOD" ELSE "EMPTY"]]
      filled == fill_raid_parms(fill_raid_parms(good, 0, gpio), 1, gpio)
      gen == IF r.rp[0].gen > r.rp[1].gen THEN r.rp[0].gen ELSE r.rp[1].gen
      synced == [filled EXCEPT !.rp[0].gen = gen, !.rp[1].gen = gen, !.ms = "GOOD",
                               !.need = {s \in Slots : Ready(r, s)}]
  IN  SetCheckPoint([store_slots(synced) EXCEPT !.mirror = FALSE], Step)

\* Mutant: a mirror that lost a drive is configured again as well.
Reconfigures_Degraded(r, gpio) ==
  LET n == IF r.cur[0] = "GOOD" THEN 0 ELSE 1
  IN  /\ ~CannotConfig(r, gpio)
      /\ \/ \A s \in Slots : r.cur[s] # "GOOD"
         \/ r.rp[n].mode # gpio
         \/ r.ms \in {"STH_NOT_VALID", "CONFLICT"}

\* hdr2526_raid_power_on_config: is the array to be configured anew?
Reconfigures(r, gpio) ==
  LET n == IF r.cur[0] = "GOOD" THEN 0 ELSE 1
  IN  /\ ~CannotConfig(r, gpio)
      /\ \/ \A s \in Slots : r.cur[s] # "GOOD"
         \/ r.rp[n].mode # gpio
         \/ r.ms = "STH_NOT_VALID" /\ gpio # "RAID1"
         \/ r.ms = "CONFLICT"

Determined(r) == determine_metadata_status(determine_array_status(r))

raid_enumeration(r0, gpio) ==
  LET mapped == populate_slot_mapping(r0)
      r == Determined(determine_slot_status(determine_slot_status([mapped EXCEPT !.need = {}], 0), 1))
      settled == IF Reconfigures(r, gpio) THEN Determined(hw_raid_config(r, gpio)) ELSE r
  IN  config_disk_arrays(IF settled.need # {} THEN store_slots(settled) ELSE settled)
=============================================================================
