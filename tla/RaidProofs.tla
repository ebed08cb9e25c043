----------------------------- MODULE RaidProofs -----------------------------
(***************************************************************************)
(* The mirror for every set of drives, array size, threshold and number of *)
(* retries: the state of the firmware keeps its type, one lemma per        *)
(* operator of RaidMeta, and the counters of the rebuild their bounds.     *)
(***************************************************************************)
EXTENDS RaidArray, FiniteSetTheorems, TLAPS

Bays == [Slots -> Drives \cup {NoDrive}]
Pages == [Slots -> Page]
\* Pages in RAM: copied there only when they check out.
Sound == {p \in Page : Valid(p)}
Orders == [op : {"other"}, at : Slots, copy : 1..2, cp : Nat]
          \cup [op : {"store", "prog"}, at : Slots, page : Page] \cup [op : {"mbr"}, at : Slots]
MetaStatus == {"NO_VALID", "GOOD", "STH_NOT_VALID", "CONFLICT"}

RamType ==
  [nvm : Pages, rp : [Slots -> Sound], sealed : Pages, map : [Slots -> Slots], newer : SUBSET Slots,
   bay : Bays, cur : [Slots -> SlotStatus], need : SUBSET Slots, queue : [Slots -> ArrayStatus],
   num : 0..2, ids : Nat, ms : MetaStatus, mode : Modes, use : Slots, mirror : BOOLEAN, src : Slots,
   pos : {p \in Int : p >= -Step}, lba : Int, retry : 0..MaxRetry, errAt : Int, busy : BOOLEAN,
   inst : BOOLEAN, instCnt : Nat, cp : [Slots -> Nat], reenum : BOOLEAN, io : Seq(Orders)]

\* No block is being copied, and a rebuild under way has retries left.
Rested(r) == r \in RamType /\ ~r.busy /\ (r.mirror => r.retry < MaxRetry)

LEMMA Constants == Step \in Nat \ {0} /\ Size \in Nat \ {0} /\ MaxRetry \in Nat \ {0}
BY StepAssumption, ArrayAssumption

LEMMA WriteOtherRests == ASSUME NEW r, Rested(r), NEW s \in Slots PROVE Rested(WriteOther(r, s))
<1> DEFINE w == [c \in 1..2 |-> [op |-> "other", at |-> s, copy |-> c, cp |-> r.cp[s]]]
<1>1. w \in Seq(Orders)
  <2>1. \A c \in 1..2 : w[c] \in Orders
    BY DEF Rested, RamType, Orders
  <2>2. w \in [1..2 -> Orders]
    BY <2>1
  <2> QED BY <2>2
<1>2. r.io \o w \in Seq(Orders)
  BY <1>1 DEF Rested, RamType
<1> QED BY <1>2 DEF WriteOther, Rested, RamType

LEMMA WriteOthersRests == ASSUME NEW r, Rested(r) PROVE Rested(WriteOthers(r))
BY WriteOtherRests DEF WriteOthers, Slots

LEMMA SetCheckPointRests == ASSUME NEW r, Rested(r), NEW v \in Nat PROVE Rested(SetCheckPoint(r, v))
<1>1. Rested([r EXCEPT !.cp = [s \in Slots |-> v]])
  BY DEF Rested, RamType
<1> QED BY <1>1, WriteOthersRests DEF SetCheckPoint

LEMMA ClearPageIs == ASSUME NEW n \in 0..3 PROVE ClearPage(n) \in Sound
BY DEF ClearPage, Sound, Valid, Page, Modes, SlotStatus

LEMMA TornIs == Torn \in Page
BY ClearPageIs DEF Torn, Sound, Page

LEMMA OwnerIs ==
  ASSUME NEW p \in Page, Owner(p) # NoDrive
  PROVE p \in Sound /\ p.disk_num \in Slots
BY DEF Owner, Sound

LEMMA MappingRests == ASSUME NEW r, Rested(r) PROVE Rested(populate_slot_mapping(r))
<1> DEFINE found == [s \in Slots |->
                  IF \E i \in Slots : Ready(r, s) /\ r.bay[s] = Owner(r.nvm[i])
                  THEN CHOOSE i \in Slots : /\ r.bay[s] = Owner(r.nvm[i])
                                            /\ i = 1 => r.bay[s] # Owner(r.nvm[0])
                  ELSE 2]
           Leftover(m, i) ==
        LET open == {s \in Slots : m[s] = 2}
        IN  IF i \in {m[s] : s \in Slots} \/ open = {} THEN m
            ELSE [m EXCEPT ![IF 0 \in open THEN 0 ELSE 1] = i]
           map == Leftover(Leftover(found, 0), 1)
<1>1. found \in [Slots -> 0..2]
  <2>1. ASSUME NEW s \in Slots, \E i \in Slots : Ready(r, s) /\ r.bay[s] = Owner(r.nvm[i])
        PROVE \E i \in Slots : /\ r.bay[s] = Owner(r.nvm[i])
                               /\ i = 1 => r.bay[s] # Owner(r.nvm[0])
    BY <2>1 DEF Slots
  <2>2. ASSUME NEW s \in Slots PROVE found[s] \in 0..2
    BY <2>1 DEF Slots
  <2> QED BY <2>2
<1> HIDE DEF found
<1>2. ASSUME NEW m \in [Slots -> 0..2], NEW i \in Slots
      PROVE /\ Leftover(m, i) \in [Slots -> 0..2]
            /\ i \in {Leftover(m, i)[s] : s \in Slots} \/ \A s \in Slots : Leftover(m, i)[s] \in Slots
            /\ \A j : j \in {m[s] : s \in Slots} \ {2} => j \in {Leftover(m, i)[s] : s \in Slots}
  BY <1>2 DEF Slots
<1>3. map \in [Slots -> Slots]
  <2> DEFINE a == Leftover(found, 0)
  <2>1. a \in [Slots -> 0..2] /\ (0 \in {a[s] : s \in Slots} \/ \A s \in Slots : a[s] \in Slots)
    BY <1>1, <1>2 DEF Slots
  <2> HIDE DEF a
  <2>2. Leftover(a, 1) \in [Slots -> 0..2]
    BY <2>1, <1>2 DEF Slots
  <2>3. ASSUME NEW s \in Slots PROVE Leftover(a, 1)[s] \in Slots
    BY <2>1 DEF Slots
  <2>4. Leftover(a, 1) \in [Slots -> Slots]
    BY <2>2, <2>3
  <2> QED BY <2>4 DEF a
<1> HIDE DEF map, Leftover
<1>4. populate_slot_mapping(r) = [r EXCEPT !.map = map, !.newer = {s \in Slots : map[s] # found[s]}]
  BY DEF populate_slot_mapping, map, found, Leftover
<1> QED BY <1>3, <1>4, ZenonT(60) DEF Rested, RamType

LEMMA DiskNumIs ==
  ASSUME NEW r, Rested(r), NEW s \in Slots, NEW status
  PROVE get_disk_num(r, s, status) \in 0..3 /\ (status # "GOOD" => get_disk_num(r, s, status) \in Slots)
BY DEF get_disk_num, Rested, RamType, Sound, Page, Slots, Across

LEMMA SoundStatus ==
  ASSUME NEW p \in Sound, NEW status \in [Slots -> SlotStatus]
  PROVE [p EXCEPT !.status = status] \in Sound
BY DEF Sound, Page, Valid

LEMMA SetStatRests ==
  ASSUME NEW r, Rested(r), NEW s \in Slots, NEW status \in SlotStatus
  PROVE Rested(set_stat(r, s, status))
<1> DEFINE n == get_disk_num(r, s, status)
           page == [r.rp[s] EXCEPT !.status = [@ EXCEPT ![n] = status]]
<1>1. page \in Sound
  BY SoundStatus DEF Rested, RamType, Sound, Page
<1> HIDE DEF n
<1>2. set_stat(r, s, status) = [r EXCEPT !.rp = [@ EXCEPT ![s] = page], !.cur = [@ EXCEPT ![s] = status]]
  BY DEF set_stat, n, Rested, RamType, Sound, Page
<1> HIDE DEF page
<1> DEFINE rp == [r.rp EXCEPT ![s] = page]
           cur == [r.cur EXCEPT ![s] = status]
<1>3. rp \in [Slots -> Sound] /\ cur \in [Slots -> SlotStatus]
  BY <1>1 DEF Rested, RamType
<1>4. set_stat(r, s, status) = [r EXCEPT !.rp = rp, !.cur = cur]
  BY <1>2 DEF Rested, RamType
<1> HIDE DEF rp, cur
<1> QED BY <1>3, <1>4 DEF Rested, RamType

LEMMA RestoreRests ==
  ASSUME NEW r, Rested(r), NEW s \in Slots, Ready(r, s), read_3rd_copy_raidParams(r, s)
  PROVE Rested(use_meta_stat(read_restore_slot_matadata(r, s), s))
<1> DEFINE page == r.nvm[r.map[s]]
           q == [r EXCEPT !.rp = [@ EXCEPT ![s] = page], !.sealed = [@ EXCEPT ![s] = page]]
<1>1. page \in Sound /\ page.disk_num \in Slots /\ page \in Page
  BY OwnerIs DEF read_3rd_copy_raidParams, Ready, Rested, RamType, Pages
<1>2. read_restore_slot_matadata(r, s) = q
  BY DEF read_restore_slot_matadata
<1> HIDE DEF page
<1>3. Rested(q) /\ q.rp[s] = page
  BY <1>1 DEF Rested, RamType, Pages
<1> HIDE DEF q
<1>4. page.status[page.disk_num] \in SlotStatus
  BY <1>1 DEF Page
<1> QED BY <1>2, <1>3, <1>4 DEF use_meta_stat, Rested, RamType

LEMMA SlotStatusRests ==
  ASSUME NEW r, Rested(r), NEW s \in Slots PROVE Rested(determine_slot_status(r, s))
<1> DEFINE q == [r EXCEPT !.rp[s] = ClearPage(2 + s), !.cur[s] = "EMPTY"]
<1>1. ClearPage(2 + s) \in Sound
  BY ClearPageIs DEF Slots
<1>2. Rested(q)
  BY <1>1 DEF Rested, RamType, SlotStatus
<1> HIDE DEF q
<1>3. Rested(set_stat(q, s, "BLANK"))
  BY <1>2, SetStatRests DEF SlotStatus
<1> QED BY <1>2, <1>3, RestoreRests DEF determine_slot_status, q

LEMMA PairIs == ASSUME NEW g \in Slots, NEW o \in SlotStatus PROVE Pair(g, o) \in [Slots -> SlotStatus]
BY DEF Pair, SlotStatus

LEMMA MarkedIs ==
  ASSUME NEW r, Rested(r), NEW p \in Sound, NEW pair \in [Slots -> SlotStatus]
  PROVE /\ Marked(r, p, pair) \in Sound
        /\ Marked(r, p, pair).gen = p.gen /\ Marked(r, p, pair).mode = p.mode
        /\ Marked(r, p, pair).disk_num = p.disk_num /\ Marked(r, p, pair).id = p.id
<1> DEFINE n == [s \in Slots |-> get_disk_num(r, s, pair[s])]
           st == [p.status EXCEPT ![n[0]] = pair[0], ![n[1]] = pair[1]]
<1>1. st \in [Slots -> SlotStatus]
  <2>1. p.status \in [Slots -> SlotStatus] /\ pair[0] \in SlotStatus /\ pair[1] \in SlotStatus
    BY DEF Sound, Page, Slots
  <2> HIDE DEF n
  <2> QED BY <2>1
<1>2. Marked(r, p, pair) = [p EXCEPT !.status = st]
  BY DEF Marked, Sound, Page
<1> HIDE DEF st
<1> QED BY <1>1, <1>2, SoundStatus DEF Sound, Page

LEMMA StatusIs ==
  /\ {"GOOD", "REBUILDING", "BLANK", "FAILED", "MISSING", "EMPTY", "SOFT_REJECTED"} \subseteq SlotStatus
  /\ {"GOOD", "DEGRADED", "REBUILDING", "BROKEN", "NOT_CONFIGURED", "DATA_LOST"} \subseteq ArrayStatus
  /\ {"RAID1", "JBOD", "NOT_CONFIGURED"} \subseteq Modes
BY DEF SlotStatus, ArrayStatus, Modes

LEMMA RebuildingRests ==
  ASSUME NEW r, Rested(r), NEW g \in Slots
  PROVE Rested(update_slots_for_rebuilding(r, g))
<1> DEFINE t == Across(g)
           pair == Pair(g, "REBUILDING")
           n == [s \in Slots |-> get_disk_num(r, s, pair[s])]
           id == [Marked(r, r.rp[g], pair).id EXCEPT ![n[0]] = r.bay[0], ![n[1]] = r.bay[1]]
           good == [Marked(r, r.rp[g], pair) EXCEPT !.id = id]
           base == [r.rp[t] EXCEPT !.gen = good.gen, !.id = good.id, !.mode = good.mode]
           new == [Marked(r, base, pair) EXCEPT !.disk_num = n[t]]
           rp == [s \in Slots |-> IF s = g THEN good ELSE new]
           cur == [r.cur EXCEPT ![t] = "REBUILDING"]
<1>1. t \in Slots /\ pair \in [Slots -> SlotStatus]
  BY PairIs DEF Slots, Across, SlotStatus
<1>2. n[t] \in 0..3
  BY <1>1, DiskNumIs
<1>3. r.rp[g] \in Sound /\ r.rp[t] \in Sound
  BY <1>1 DEF Rested, RamType
<1>4. Marked(r, r.rp[g], pair) \in Sound
  BY <1>1, <1>3, MarkedIs
<1>5. id \in Bays
  <2>1. /\ Marked(r, r.rp[g], pair).id \in Bays
        /\ r.bay[0] \in Drives \cup {NoDrive} /\ r.bay[1] \in Drives \cup {NoDrive}
    BY <1>4 DEF Sound, Page, Rested, RamType, Bays, Slots
  <2> HIDE DEF n, pair
  <2> QED BY <2>1 DEF Bays
<1> HIDE DEF pair, id
<1>6. good \in Sound
  BY <1>4, <1>5 DEF Sound, Page, Valid, Bays
<1> HIDE DEF good
<1>7. base \in Sound
  BY <1>3, <1>6 DEF Sound, Page, Valid
<1> HIDE DEF base
<1>8. Marked(r, base, pair) \in Sound
  BY <1>1, <1>7, MarkedIs
<1> HIDE DEF n, t
<1>9. new \in Sound
  BY <1>2, <1>8 DEF Sound, Page, Valid
<1> HIDE DEF new
<1>10. rp \in [Slots -> Sound]
  BY <1>6, <1>9
<1>11. update_slots_for_rebuilding(r, g) =
         [r EXCEPT !.rp = rp, !.cur = cur, !.need = Slots]
  BY DEF update_slots_for_rebuilding, rp, new, base, good, id, n, t, pair
<1>12. cur \in [Slots -> SlotStatus] /\ Slots \in SUBSET Slots
  BY StatusIs DEF Rested, RamType
<1> HIDE DEF rp, cur
<1> QED BY <1>10, <1>11, <1>12, ZenonT(60) DEF Rested, RamType

LEMMA MissingRests ==
  ASSUME NEW r, Rested(r), NEW g \in Slots PROVE Rested(update_slots_for_missing(r, g))
<1> DEFINE page == Marked(r, r.rp[g], Pair(g, "MISSING"))
<1>1. page \in Sound
  BY PairIs, MarkedIs DEF SlotStatus, Rested, RamType
<1>2. update_slots_for_missing(r, g) = [r EXCEPT !.rp = [@ EXCEPT ![g] = page], !.need = @ \cup {g}]
  BY DEF update_slots_for_missing, Rested, RamType
<1>3. [r.rp EXCEPT ![g] = page] \in [Slots -> Sound] /\ r.need \cup {g} \in SUBSET Slots
  BY <1>1 DEF Rested, RamType
<1> HIDE DEF page
<1> QED BY <1>2, <1>3 DEF Rested, RamType

LEMMA FailedRests ==
  ASSUME NEW r, Rested(r), NEW g \in Slots, NEW f \in Slots PROVE Rested(update_slots_for_failed(r, g, f))
<1> DEFINE page == Marked(r, r.rp[g], Pair(g, "FAILED"))
           q == [r EXCEPT !.rp = [@ EXCEPT ![g] = page]]
           last == Marked(r, q.rp[f], Pair(g, "FAILED"))
           rp == [q.rp EXCEPT ![f] = last]
           cur == [q.cur EXCEPT ![f] = "FAILED"]
<1>1. page \in Sound
  BY PairIs, MarkedIs DEF SlotStatus, Rested, RamType
<1>2. [r EXCEPT !.rp[g] = Marked(r, @, Pair(g, "FAILED"))] = q
  BY DEF Rested, RamType
<1> HIDE DEF page
<1>3. Rested(q)
  BY <1>1 DEF Rested, RamType
<1> HIDE DEF q
<1>4. last \in Sound
  BY <1>3, PairIs, MarkedIs DEF SlotStatus, Rested, RamType
<1>5. update_slots_for_failed(r, g, f) =
        [q EXCEPT !.rp = rp, !.cur = cur, !.need = Slots]
  BY <1>2 DEF update_slots_for_failed, Rested, RamType
<1>6. rp \in [Slots -> Sound] /\ cur \in [Slots -> SlotStatus] /\ Slots \in SUBSET Slots
  BY <1>3, <1>4, StatusIs DEF Rested, RamType
<1> HIDE DEF last, rp, cur
<1> QED BY <1>3, <1>5, <1>6, ZenonT(60) DEF Rested, RamType

LEMMA AppendRests ==
  ASSUME NEW r, Rested(r), NEW status \in ArrayStatus PROVE Rested(append_array_status(r, status))
<1>1. CASE r.num < 2
  <2>1. r.num \in 0..2 /\ r.queue \in [Slots -> ArrayStatus]
    BY DEF Rested, RamType
  <2>3. r.num + 1 \in 0..2
    BY <1>1, <2>1
  <2>4. [r.queue EXCEPT ![r.num] = status] \in [Slots -> ArrayStatus]
    BY <2>1
  <2>2. append_array_status(r, status) = [r EXCEPT !.queue = [@ EXCEPT ![r.num] = status], !.num = @ + 1]
    BY <1>1 DEF append_array_status
  <2> QED BY <2>2, <2>3, <2>4 DEF Rested, RamType
<1> QED BY <1>1 DEF append_array_status

LEMMA DegradedRests ==
  ASSUME NEW r, Rested(r), NEW g \in Slots, NEW o PROVE Rested(raid1_degraded(r, g, o))
BY StatusIs, AppendRests, MissingRests DEF raid1_degraded

LEMMA StartRests ==
  ASSUME NEW r, Rested(r), NEW g \in Slots, NEW at \in Int, at >= -Step PROVE Rested(StartRebuild(r, g, at))
<1>1. 0 \in 0..MaxRetry /\ 0 < MaxRetry /\ at \in {p \in Int : p >= -Step}
  BY Constants
<1> QED BY <1>1 DEF StartRebuild, Rested, RamType

LEMMA AutoRests ==
  ASSUME NEW r, Rested(r), NEW g \in Slots, NEW o
  PROVE Rested(raid1_might_be_auto_rebuild(r, g, o))
<1> DEFINE a == append_array_status(r, "REBUILDING")
           b == StartRebuild(update_slots_for_rebuilding(a, g), g, 0)
<1>1. Rested(b)
  BY StatusIs, AppendRests, RebuildingRests, StartRests, Constants 
<1> HIDE DEF b
<1>2. Rested([b EXCEPT !.newer = {}])
  BY <1>1 DEF Rested, RamType
<1> QED BY <1>2, SetCheckPointRests, DegradedRests, Constants DEF raid1_might_be_auto_rebuild, b

LEMMA ResumeRests ==
  ASSUME NEW r, Rested(r), NEW g \in Slots PROVE Rested(raid1_resume_rebuild(r, g))
<1> DEFINE a == append_array_status(r, "REBUILDING")
<1>1. Rested(StartRebuild(a, g, r.cp[g] - Step))
  <2>1. r.cp[g] \in Nat
    BY DEF Rested, RamType
  <2>2. r.cp[g] - Step \in Int /\ r.cp[g] - Step >= -Step
    BY <2>1, Constants
  <2> QED BY <2>2, AppendRests, StartRests, StatusIs
<1> QED BY <1>1, AutoRests, DegradedRests DEF raid1_resume_rebuild

LEMMA Raid1Rests ==
  ASSUME NEW r, Rested(r), NEW pair PROVE Rested(set_raid1_array_status(r, pair))
<1>1. Rested(raid1_both_are_good(r))
  BY StatusIs, AppendRests, AutoRests DEF raid1_both_are_good, Slots
<1>2. ASSUME NEW g \in Slots, NEW o PROVE Rested(raid1_at_least_one_good(r, g, o))
  BY <1>1, ResumeRests, AutoRests, DegradedRests DEF raid1_at_least_one_good
<1> QED BY <1>2, AppendRests, StatusIs DEF set_raid1_array_status, Slots

LEMMA ArrayStatusRests ==
  ASSUME NEW r, Rested(r), NEW mode, NEW pair PROVE Rested(set_array_status(r, mode, pair))
<1>1. Rested(set_jbod_array_status(r, pair))
  BY AppendRests, StatusIs DEF set_jbod_array_status
<1> QED BY <1>1, Raid1Rests, AppendRests, StatusIs DEF set_array_status

LEMMA AdmittedRests == ASSUME NEW r, Rested(r) PROVE Rested(Admitted(r))
<1> DEFINE small == {s \in Newcomer(r) : r.bay[s] \in TooSmall}
<1>1. CASE small # {}
  <2>1. (CHOOSE s \in small : TRUE) \in Slots
    BY <1>1 DEF Newcomer
  <2> QED BY <1>1, <2>1, SetStatRests, StatusIs DEF Admitted
<1>2. ASSUME small = {}, 0 \in Newcomer(r) PROVE Rested(Admitted(r))
  <2> DEFINE page == [r.rp[0] EXCEPT !.mode = "RAID1"]
             rp == [r.rp EXCEPT ![0] = page]
  <2>1. r.rp \in [Slots -> Sound] /\ 0 \in Slots /\ "RAID1" \in Modes
    BY StatusIs DEF Rested, RamType, Slots
  <2>2. page \in Sound
    BY <2>1 DEF Sound, Page, Valid
  <2>3. rp \in [Slots -> Sound]
    BY <2>1, <2>2
  <2>4. Admitted(r) = [r EXCEPT !.rp = rp]
    BY <1>2, <2>1 DEF Admitted
  <2> HIDE DEF rp
  <2> QED BY <2>3, <2>4 DEF Rested, RamType
<1> QED BY <1>1, <1>2 DEF Admitted

\* The pages and the orders change, nothing else a rebuild depends on.
Same(q, r) == q.bay = r.bay /\ q.cur = r.cur /\ q.mirror = r.mirror

LEMMA MetaRests == ASSUME NEW q, Rested(q) PROVE Rested(determine_metadata_status(q))
<1> DEFINE ms == determine_metadata_status(q).ms
<1>1. determine_metadata_status(q) = [q EXCEPT !.ms = ms] /\ ms \in MetaStatus
  BY DEF determine_metadata_status, MetaStatus, Rested, RamType
<1> HIDE DEF ms
<1>2. Rested([q EXCEPT !.ms = ms])
  BY <1>1 DEF Rested, RamType
<1> QED BY <1>1, <1>2

\* What determine_array_status begins with.
Counted(r) ==
  [r EXCEPT !.num = 0, !.ids = Cardinality({d \in Slots : r.rp[0].id[d] # r.rp[1].id[d]})]

LEMMA CountedRests == ASSUME NEW r, Rested(r) PROVE Rested(Counted(r)) /\ Same(Counted(r), r)
<1> DEFINE ids == Cardinality({d \in Slots : r.rp[0].id[d] # r.rp[1].id[d]})
<1>1. ids \in Nat
  <2>1. IsFiniteSet(Slots)
    <3>1. IsFiniteSet(({} \cup {0}) \cup {1})
      BY FS_EmptySet, FS_AddElement
    <3>2. Slots = ({} \cup {0}) \cup {1}
      BY DEF Slots
    <3> QED BY <3>1, <3>2
  <2>2. IsFiniteSet({d \in Slots : r.rp[0].id[d] # r.rp[1].id[d]})
    BY <2>1, FS_Subset
  <2> QED BY <2>2, FS_CardinalityType
<1>2. Counted(r) = [r EXCEPT !.num = 0, !.ids = ids]
  BY DEF Counted
<1> HIDE DEF ids
<1>3. 0 \in 0..2
  OBVIOUS
<1> QED BY <1>1, <1>2, <1>3 DEF Rested, RamType, Same

\* The array of the drive in slot s, taken alone.
Alone(q, s) == set_array_status(q, q.rp[s].mode, [e \in Slots |-> IF e = s THEN q.cur[s] ELSE "EMPTY"])
Occupied(r) == IF r.cur[0] = "EMPTY" THEN 1 ELSE 0
Joined(r) == IF \E s \in Slots : r.cur[s] = "EMPTY" THEN r ELSE Admitted(r)

LEMMA DeterminedIs ==
  ASSUME NEW r
  PROVE LET q == Counted(r) IN
        determine_array_status(r) =
          IF same_array(q) THEN set_array_status(q, q.rp[0].mode, q.cur)
          ELSE IF can_be_same_array(q) THEN set_array_status(Joined(q), Joined(q).rp[Occupied(q)].mode, Joined(q).cur)
          ELSE Alone(Alone(Joined(q), 0), 1)
BY DEF determine_array_status, Counted, Alone, Occupied, Joined

LEMMA DeterminedArrayRests == ASSUME NEW r, Rested(r) PROVE Rested(determine_array_status(r))
<1> DEFINE q == Counted(r)
<1>1. Rested(q)
  BY CountedRests
<1> HIDE DEF q
<1>2. Rested(Joined(q))
  BY <1>1, AdmittedRests DEF Joined
<1>3. \A m, s : Rested(m) => Rested(Alone(m, s))
  BY ArrayStatusRests DEF Alone
<1> QED BY <1>1, <1>2, <1>3, ArrayStatusRests, DeterminedIs DEF q

LEMMA WrittenIs == ASSUME NEW r, Rested(r), NEW x \in Slots PROVE Written(r, x) \in Page
BY TornIs DEF Written, Rested, RamType, Sound

LEMMA StoreRests == ASSUME NEW r, Rested(r), NEW s \in Slots PROVE Rested(store_meta_data(r, s))
<1> DEFINE page == [r.rp[s] EXCEPT !.gen = @ + 1]
           rp == [r.rp EXCEPT ![s] = page]
           sealed == [r.sealed EXCEPT ![s] = page]
           r1 == [r EXCEPT !.rp = rp, !.sealed = sealed, !.need = @ \ {s}]
           o == [op |-> "store", at |-> r1.map[s], page |-> Written(r1, r1.map[s])]
<1>1. page \in Sound /\ page \in Page
  <2>1. r.rp[s] \in Sound
    BY DEF Rested, RamType
  <2>2. r.rp[s].gen + 1 \in Nat
    BY <2>1 DEF Sound, Page
  <2> QED BY <2>1, <2>2 DEF Sound, Page, Valid
<1> HIDE DEF page
<1>2. rp \in [Slots -> Sound] /\ sealed \in [Slots -> Page] /\ r.need \ {s} \in SUBSET Slots
  BY <1>1 DEF Rested, RamType, Pages
<1> HIDE DEF rp, sealed
<1>3. Rested(r1) /\ r1.map = r.map
  BY <1>2 DEF Rested, RamType, Pages
<1>4. r1 = [r EXCEPT !.rp[s] = page, !.sealed[s] = page, !.need = @ \ {s}]
  BY DEF rp, sealed, Rested, RamType
<1> HIDE DEF r1
<1>5. r1.map[s] \in Slots /\ r1.io \in Seq(Orders)
  BY <1>3 DEF Rested, RamType
<1>6. o \in Orders
  BY <1>3, <1>5, WrittenIs DEF Orders
<1>7. Append(r1.io, o) \in Seq(Orders)
  BY <1>5, <1>6
<1>8. Rested([r1 EXCEPT !.io = Append(@, o)])
  BY <1>3, <1>7 DEF Rested, RamType
<1> QED BY <1>3, <1>4, <1>8 DEF store_meta_data, page

LEMMA StoreSlotsRests == ASSUME NEW r, Rested(r) PROVE Rested(store_slots(r))
BY StoreRests DEF store_slots, Slots

LEMMA ReadSlotRests == ASSUME NEW r, Rested(r) PROVE Rested(update_raid1_read_use_slot(r))
<1> DEFINE use == update_raid1_read_use_slot(r).use
<1>1. use \in Slots /\ update_raid1_read_use_slot(r) = [r EXCEPT !.use = use]
  BY DEF update_raid1_read_use_slot, Rested, RamType, Slots
<1> HIDE DEF use
<1> QED BY <1>1 DEF Rested, RamType

LEMMA ConfigDisksRests == ASSUME NEW r, Rested(r) PROVE Rested(config_disk_arrays(r))
<1> DEFINE n == IF r.cur[0] = "GOOD" THEN 0 ELSE 1
           whole == \A s \in Slots : r.cur[s] # "EMPTY"
           mode == IF r.num # 1 THEN "JBOD"
              ELSE IF r.ms = "GOOD" THEN r.rp[n].mode
              ELSE IF r.ms = "STH_NOT_VALID"
              THEN IF r.queue[0] \in {"REBUILDING", "DEGRADED"} /\ whole THEN r.rp[n].mode ELSE "JBOD"
              ELSE r.mode
<1>1. r.mode \in Modes /\ r.rp[n].mode \in Modes
  <2>1. n \in Slots
    BY DEF Slots
  <2>2. r.mode \in Modes /\ r.rp[n] \in Sound
    BY <2>1 DEF Rested, RamType
  <2> QED BY <2>2 DEF Sound, Page, Valid
<1>2. mode \in Modes
  BY <1>1, StatusIs
<1>3. config_disk_arrays(r) = update_raid1_read_use_slot([r EXCEPT !.mode = mode])
  BY DEF config_disk_arrays
<1> HIDE DEF mode
<1>4. Rested([r EXCEPT !.mode = mode])
  BY <1>2 DEF Rested, RamType
<1> QED BY <1>3, <1>4, ReadSlotRests

LEMMA CleanerRests == ASSUME NEW r, Rested(r), NEW new PROVE Rested(raid_mbr_cleaner(r, new))
<1>1. ASSUME NEW q, Rested(q), NEW s \in Slots PROVE Rested(WipeMbr(q, s))
  <2> DEFINE io == Append(q.io, [op |-> "mbr", at |-> s])
  <2>1. q.io \in Seq(Orders) /\ [op |-> "mbr", at |-> s] \in Orders
    BY <1>1 DEF Rested, RamType, Orders
  <2>2. io \in Seq(Orders)
    BY <2>1
  <2> HIDE DEF io
  <2>3. Rested([q EXCEPT !.io = io])
    BY <1>1, <2>2 DEF Rested, RamType
  <2> QED BY <1>1, <2>3 DEF WipeMbr, io
<1> QED BY <1>1 DEF raid_mbr_cleaner, Slots

LEMMA FillRests ==
  ASSUME NEW r, Rested(r), NEW s \in Slots, NEW mode \in Modes PROVE Rested(fill_raid_parms(r, s, mode))
<1> DEFINE status == [d \in Slots |-> IF Ready(r, d) THEN r.cur[d] ELSE "MISSING"]
           page == [gen |-> r.rp[s].gen, mode |-> mode, disk_num |-> s, id |-> r.bay, status |-> status]
           rp == [r.rp EXCEPT ![s] = page]
<1>1. status \in [Slots -> SlotStatus]
  BY StatusIs DEF Rested, RamType
<1>2. r.rp[s] \in Sound /\ r.bay \in Bays
  BY DEF Rested, RamType
<1> HIDE DEF status
<1>3. page \in Sound
  <2>1. r.rp[s].gen \in Nat /\ s \in 0..3 /\ mode # "TORN"
    BY <1>2 DEF Sound, Page, Slots, Modes
  <2> QED BY <1>1, <1>2, <2>1 DEF Sound, Page, Valid, Bays
<1>4. fill_raid_parms(r, s, mode) = [r EXCEPT !.rp = rp]
  BY DEF fill_raid_parms, status
<1> HIDE DEF page
<1>5. rp \in [Slots -> Sound]
  BY <1>3 DEF Rested, RamType
<1> HIDE DEF rp
<1> QED BY <1>4, <1>5 DEF Rested, RamType

----------------------------------------------------------------------------
(* The drives the firmware sees: what it copies and where. *)

\* Both bays are occupied.
Whole(r) == \A s \in Slots : Ready(r, s)
\* A slot with a status has a drive.
Present(r) == \A s \in Slots : r.cur[s] # "EMPTY" => Ready(r, s)
\* A rebuild runs only between two drives.
Sane(r) == Rested(r) /\ Present(r) /\ (r.mirror => Whole(r))

LEMMA SameIsSane ==
  ASSUME NEW r, NEW q, Sane(r), Rested(q), Same(q, r) PROVE Sane(q) /\ q.bay = r.bay
BY DEF Sane, Present, Whole, Ready, Same

LEMMA WriteOtherSame == ASSUME NEW r, Rested(r), NEW s \in Slots PROVE Same(WriteOther(r, s), r)
BY DEF WriteOther, Same, Rested, RamType

LEMMA WriteOthersSame == ASSUME NEW r, Rested(r) PROVE Same(WriteOthers(r), r)
<1>1. Rested(WriteOther(r, 0)) /\ Same(WriteOther(r, 0), r)
  BY WriteOtherRests, WriteOtherSame DEF Slots
<1>2. Same(WriteOther(WriteOther(r, 0), 1), WriteOther(r, 0))
  BY <1>1, WriteOtherSame DEF Slots
<1> QED BY <1>1, <1>2 DEF WriteOthers, Same

LEMMA SetCheckPointSame == ASSUME NEW r, Rested(r), NEW v \in Nat PROVE Same(SetCheckPoint(r, v), r)
<1> DEFINE q == [r EXCEPT !.cp = [s \in Slots |-> v]]
<1>1. Rested(q) /\ Same(q, r)
  BY DEF Rested, RamType, Same
<1> HIDE DEF q
<1>2. Same(WriteOthers(q), q)
  BY <1>1, WriteOthersSame
<1> QED BY <1>1, <1>2 DEF SetCheckPoint, Same, q

LEMMA AppendSame == ASSUME NEW r, Rested(r), NEW status PROVE Same(append_array_status(r, status), r)
BY DEF append_array_status, Same, Rested, RamType

LEMMA DegradedSame ==
  ASSUME NEW r, Rested(r), NEW g \in Slots, NEW o PROVE Same(raid1_degraded(r, g, o), r)
<1> DEFINE r1 == append_array_status(r, "DEGRADED")
<1>1. Rested(r1) /\ Same(r1, r)
  BY AppendRests, AppendSame, StatusIs
<1> HIDE DEF r1
<1>2. Same(update_slots_for_missing(r1, g), r1)
  BY <1>1 DEF update_slots_for_missing, Same, Rested, RamType
<1> QED BY <1>1, <1>2 DEF raid1_degraded, r1, Same

LEMMA StoreSame == ASSUME NEW r, Rested(r), NEW s \in Slots PROVE Same(store_meta_data(r, s), r)
BY DEF store_meta_data, Same, Rested, RamType

LEMMA StoreSlotsSame == ASSUME NEW r, Rested(r) PROVE Same(store_slots(r), r)
<1>1. ASSUME NEW s \in Slots, NEW t \in Slots
      PROVE Same(store_meta_data(store_meta_data(r, s), t), r)
  <2>1. Rested(store_meta_data(r, s)) /\ Same(store_meta_data(r, s), r)
    BY StoreRests, StoreSame
  <2>2. Same(store_meta_data(store_meta_data(r, s), t), store_meta_data(r, s))
    BY <2>1, StoreSame
  <2> QED BY <2>1, <2>2 DEF Same
<1> QED BY <1>1 DEF store_slots, Slots

LEMMA ReadSlotSame == ASSUME NEW r, Rested(r) PROVE Same(update_raid1_read_use_slot(r), r)
BY DEF update_raid1_read_use_slot, Same, Rested, RamType

LEMMA ConfigDisksSame == ASSUME NEW r, Rested(r) PROVE Same(config_disk_arrays(r), r)
BY DEF config_disk_arrays, update_raid1_read_use_slot, Same, Rested, RamType

LEMMA RebuildingSane ==
  ASSUME NEW r, Sane(r), NEW g \in Slots, Whole(r)
  PROVE LET q == update_slots_for_rebuilding(r, g) IN Sane(q) /\ q.bay = r.bay
<1> DEFINE q == update_slots_for_rebuilding(r, g)
<1>1. Rested(q)
  BY RebuildingRests DEF Sane
<1>2. q.bay = r.bay
  BY DEF update_slots_for_rebuilding, Sane, Rested, RamType
<1> QED BY <1>1, <1>2 DEF Sane, Present, Whole, Ready

LEMMA FailedSane ==
  ASSUME NEW r, Sane(r), NEW g \in Slots, NEW f \in Slots, Whole(r)
  PROVE LET q == update_slots_for_failed(r, g, f) IN Sane(q) /\ q.bay = r.bay
<1> DEFINE q == update_slots_for_failed(r, g, f)
<1>1. Rested(q)
  BY FailedRests DEF Sane
<1>2. q.bay = r.bay
  BY DEF update_slots_for_failed, Sane, Rested, RamType
<1> QED BY <1>1, <1>2 DEF Sane, Present, Whole, Ready

LEMMA StartSane ==
  ASSUME NEW r, Sane(r), NEW g \in Slots, NEW at \in Int, at >= -Step, Whole(r)
  PROVE LET q == StartRebuild(r, g, at) IN Sane(q) /\ q.bay = r.bay /\ Whole(q)
<1> DEFINE q == StartRebuild(r, g, at)
<1>1. Rested(q)
  BY StartRests DEF Sane
<1>2. q.bay = r.bay
  BY DEF StartRebuild, Sane, Rested, RamType
<1> QED BY <1>1, <1>2 DEF Sane, Present, Whole, Ready

LEMMA AutoSane ==
  ASSUME NEW r, Sane(r), NEW g \in Slots, NEW o, o \in {"GOOD", "REBUILDING", "BLANK"} => Whole(r)
  PROVE LET q == raid1_might_be_auto_rebuild(r, g, o) IN Sane(q) /\ q.bay = r.bay
<1>1. CASE AutoRebuild /\ o \in {"GOOD", "REBUILDING", "BLANK"}
  <2> DEFINE a == append_array_status(r, "REBUILDING")
             b == update_slots_for_rebuilding(a, g)
             c == StartRebuild(b, g, 0)
             d == [c EXCEPT !.newer = {}]
             q == SetCheckPoint(d, Step)
  <2>1. Sane(a) /\ a.bay = r.bay /\ Whole(a)
    BY <1>1, AppendRests, AppendSame, SameIsSane, StatusIs DEF Sane, Whole, Ready
  <2> HIDE DEF a
  <2>2. Sane(b) /\ b.bay = r.bay /\ Whole(b)
    BY <2>1, RebuildingSane DEF Whole, Ready
  <2> HIDE DEF b
  <2>3. Sane(c) /\ c.bay = r.bay
    BY <2>2, StartSane, Constants
  <2> HIDE DEF c
  <2>4. Rested(d) /\ Same(d, c)
    BY <2>3 DEF Sane, Rested, RamType, Same
  <2>5. Sane(d) /\ d.bay = r.bay
    BY <2>3, <2>4, SameIsSane
  <2> HIDE DEF d
  <2>6. Rested(q) /\ Same(q, d)
    BY <2>4, SetCheckPointRests, SetCheckPointSame, Constants
  <2>7. Sane(q) /\ q.bay = r.bay
    BY <2>5, <2>6, SameIsSane
  <2> HIDE DEF q
  <2>8. raid1_might_be_auto_rebuild(r, g, o) = q
    BY <1>1 DEF raid1_might_be_auto_rebuild, q, d, c, b, a
  <2> QED BY <2>7, <2>8
<1>2. CASE ~(AutoRebuild /\ o \in {"GOOD", "REBUILDING", "BLANK"})
  <2> DEFINE q == raid1_degraded(r, g, o)
  <2>1. Rested(q) /\ Same(q, r)
    BY DegradedRests, DegradedSame DEF Sane
  <2>2. raid1_might_be_auto_rebuild(r, g, o) = q
    BY <1>2 DEF raid1_might_be_auto_rebuild
  <2> HIDE DEF q
  <2> QED BY <2>1, <2>2, SameIsSane
<1> QED BY <1>1, <1>2

LEMMA ResumeSane ==
  ASSUME NEW r, Sane(r), NEW g \in Slots, Whole(r)
  PROVE LET q == raid1_resume_rebuild(r, g) IN Sane(q) /\ q.bay = r.bay
<1> DEFINE a == append_array_status(r, "REBUILDING")
           b == StartRebuild(a, g, r.cp[g] - Step)
           c == raid1_might_be_auto_rebuild(r, g, "REBUILDING")
           d == raid1_degraded(r, g, "REBUILDING")
<1>1. Sane(a) /\ a.bay = r.bay /\ Whole(a)
  BY AppendRests, AppendSame, SameIsSane, StatusIs DEF Sane, Whole, Ready
<1> HIDE DEF a
<1>2. Sane(b) /\ b.bay = r.bay
  <2>1. r.cp[g] \in Nat
    BY DEF Sane, Rested, RamType
  <2>2. r.cp[g] - Step \in Int /\ r.cp[g] - Step >= -Step
    BY <2>1, Constants
  <2> QED BY <1>1, <2>2, StartSane
<1>3. Sane(c) /\ c.bay = r.bay
  BY AutoSane
<1>4. Sane(d) /\ d.bay = r.bay
  BY DegradedRests, DegradedSame, SameIsSane DEF Sane
<1>5. raid1_resume_rebuild(r, g) \in {b, c, d}
  BY DEF raid1_resume_rebuild, a, b, c, d
<1> HIDE DEF b, c, d
<1> QED BY <1>2, <1>3, <1>4, <1>5

\* A pair of statuses that gives none to an empty bay.
Fits2(r, pair) == \A s \in Slots : pair[s] # "EMPTY" => Ready(r, s)

LEMMA Raid1Sane ==
  ASSUME NEW r, Sane(r), NEW pair, Fits2(r, pair)
  PROVE LET q == set_raid1_array_status(r, pair) IN Sane(q) /\ q.bay = r.bay
<1>1. ASSUME NEW st \in ArrayStatus
      PROVE Sane(append_array_status(r, st)) /\ append_array_status(r, st).bay = r.bay
  BY AppendRests, AppendSame, SameIsSane DEF Sane
<1>2. ASSUME NEW g \in Slots, NEW o, o # "EMPTY" => Whole(r)
      PROVE LET q == raid1_at_least_one_good(r, g, o) IN Sane(q) /\ q.bay = r.bay
  <2>1. CASE o = "GOOD"
    <3>1. LET q == raid1_both_are_good(r) IN Sane(q) /\ q.bay = r.bay
      BY <1>1, <1>2, <2>1, AutoSane, StatusIs DEF raid1_both_are_good, Slots
    <3> QED BY <2>1, <3>1 DEF raid1_at_least_one_good
  <2>2. CASE o = "REBUILDING"
    BY <1>2, <2>2, ResumeSane DEF raid1_at_least_one_good
  <2>3. CASE o = "BLANK"
    BY <1>2, <2>3, AutoSane DEF raid1_at_least_one_good
  <2>4. CASE o \notin {"GOOD", "REBUILDING", "BLANK"}
    <3>1. raid1_at_least_one_good(r, g, o) = raid1_degraded(r, g, o)
      BY <2>4 DEF raid1_at_least_one_good
    <3> QED BY <3>1, DegradedRests, DegradedSame, SameIsSane DEF Sane
  <2> QED BY <2>1, <2>2, <2>3, <2>4
<1>3. CASE pair[0] = "GOOD"
  BY <1>2, <1>3 DEF set_raid1_array_status, Fits2, Whole, Slots
<1>4. CASE pair[0] # "GOOD" /\ pair[1] = "GOOD"
  BY <1>2, <1>4 DEF set_raid1_array_status, Fits2, Whole, Slots
<1>5. CASE pair[0] # "GOOD" /\ pair[1] # "GOOD"
  BY <1>1, <1>5, StatusIs DEF set_raid1_array_status
<1> QED BY <1>3, <1>4, <1>5

LEMMA ArrayStatusSane ==
  ASSUME NEW r, Sane(r), NEW mode, NEW pair, Fits2(r, pair)
  PROVE LET q == set_array_status(r, mode, pair) IN Sane(q) /\ q.bay = r.bay
<1>1. ASSUME NEW st \in ArrayStatus
      PROVE Sane(append_array_status(r, st)) /\ append_array_status(r, st).bay = r.bay
  BY AppendRests, AppendSame, SameIsSane DEF Sane
<1> QED BY <1>1, Raid1Sane, StatusIs DEF set_array_status, set_jbod_array_status

LEMMA AdmittedSane ==
  ASSUME NEW r, Sane(r) PROVE Sane(Admitted(r)) /\ Admitted(r).bay = r.bay
<1> DEFINE small == {s \in Newcomer(r) : r.bay[s] \in TooSmall}
           q == Admitted(r)
<1>1. Rested(q)
  BY AdmittedRests DEF Sane
<1>2. CASE small # {}
  <2>1. PICK s \in small : q = set_stat(r, s, "SOFT_REJECTED")
    BY <1>2 DEF Admitted
  <2>2. s \in Slots /\ r.cur[s] = "BLANK" /\ Ready(r, s)
    BY <2>1 DEF Newcomer, Sane, Present
  <2>3. q.bay = r.bay /\ q.mirror = r.mirror /\ \A t \in Slots : t # s => q.cur[t] = r.cur[t]
    BY <2>1, <2>2 DEF set_stat, Sane, Rested, RamType
  <2> HIDE DEF q
  <2> QED BY <1>1, <2>2, <2>3 DEF Sane, Present, Whole, Ready, q
<1>3. CASE small = {}
  <2>1. Same(q, r)
    BY <1>3 DEF Admitted, Same, Sane, Rested, RamType
  <2> QED BY <1>1, <2>1, SameIsSane
<1> QED BY <1>2, <1>3

LEMMA MetaSame == ASSUME NEW r, Rested(r) PROVE Same(determine_metadata_status(r), r)
BY DEF determine_metadata_status, Same, Rested, RamType

LEMMA DeterminedSane ==
  ASSUME NEW r, Sane(r) PROVE Sane(Determined(r)) /\ Determined(r).bay = r.bay
<1> DEFINE q == Counted(r)
           a == determine_array_status(r)
<1>1. Sane(q) /\ q.bay = r.bay
  BY CountedRests, SameIsSane DEF Sane
<1>2. ASSUME NEW m, Sane(m), NEW s \in Slots PROVE Sane(Alone(m, s)) /\ Alone(m, s).bay = m.bay
  <2>1. Fits2(m, [e \in Slots |-> IF e = s THEN m.cur[s] ELSE "EMPTY"])
    BY <1>2 DEF Sane, Present, Fits2
  <2> QED BY <1>2, <2>1, ArrayStatusSane DEF Alone
<1>3. \A m : Sane(m) => Fits2(m, m.cur)
  BY DEF Sane, Present, Fits2
<1>4. Sane(Joined(q)) /\ Joined(q).bay = r.bay
  BY <1>1, AdmittedSane DEF Joined
<1>5. Sane(Alone(Alone(Joined(q), 0), 1)) /\ Alone(Alone(Joined(q), 0), 1).bay = r.bay
  BY <1>2, <1>4 DEF Slots
<1> HIDE DEF q
<1>6. Sane(a) /\ a.bay = r.bay
  BY <1>1, <1>3, <1>4, <1>5, ArrayStatusSane, DeterminedIs DEF q
<1> HIDE DEF a
<1>7. Determined(r) = determine_metadata_status(a)
  BY DEF Determined, a
<1> QED BY <1>6, <1>7, MetaRests, MetaSame, SameIsSane DEF Sane

----------------------------------------------------------------------------
(* An array of two drives is offered only when both are there. *)

LEMMA AppendAdds ==
  ASSUME NEW r, Rested(r), r.num < 2, NEW st
  PROVE LET q == append_array_status(r, st)
        IN q.num = r.num + 1 /\ q.queue[r.num] = st /\ q.rp = r.rp /\ q.cur = r.cur
<1>1. r.num \in Slots /\ r.queue \in [Slots -> ArrayStatus]
  BY DEF Rested, RamType, Slots
<1>2. append_array_status(r, st) = [r EXCEPT !.queue[r.num] = st, !.num = @ + 1]
  BY DEF append_array_status
<1> QED BY <1>1, <1>2 DEF Rested, RamType

\* The statuses in the queue stay.
Counts(q, r) == q.num = r.num /\ q.queue = r.queue

LEMMA WriteOtherCounts == ASSUME NEW r, Rested(r), NEW s \in Slots PROVE Counts(WriteOther(r, s), r)
BY DEF WriteOther, Counts, Rested, RamType

LEMMA SetCheckPointCounts == ASSUME NEW r, Rested(r), NEW v \in Nat PROVE Counts(SetCheckPoint(r, v), r)
<1> DEFINE a == [r EXCEPT !.cp = [s \in Slots |-> v]]
           b == WriteOther(a, 0)
<1>1. Rested(a) /\ Counts(a, r)
  BY DEF Rested, RamType, Counts
<1> HIDE DEF a
<1>2. Rested(b) /\ Counts(b, a)
  BY <1>1, WriteOtherRests, WriteOtherCounts DEF Slots
<1> HIDE DEF b
<1>3. Counts(WriteOther(b, 1), b)
  BY <1>2, WriteOtherCounts DEF Slots
<1> QED BY <1>1, <1>2, <1>3 DEF SetCheckPoint, WriteOthers, Counts, a, b

LEMMA DegradedAdds ==
  ASSUME NEW r, Rested(r), r.num < 2, NEW g \in Slots, NEW o
  PROVE LET q == raid1_degraded(r, g, o) IN q.num = r.num + 1 /\ q.queue[r.num] = "DEGRADED"
<1> DEFINE a == append_array_status(r, "DEGRADED")
<1>1. Rested(a) /\ a.num = r.num + 1 /\ a.queue[r.num] = "DEGRADED"
  BY AppendRests, AppendAdds, StatusIs
<1> HIDE DEF a
<1>2. Counts(update_slots_for_missing(a, g), a)
  BY <1>1 DEF update_slots_for_missing, Counts, Rested, RamType
<1> QED BY <1>1, <1>2 DEF raid1_degraded, a, Counts

LEMMA AutoAdds ==
  ASSUME NEW r, Rested(r), r.num < 2, NEW g \in Slots, NEW o
  PROVE LET q == raid1_might_be_auto_rebuild(r, g, o)
        IN q.num = r.num + 1 /\ q.queue[r.num] \in {"REBUILDING", "DEGRADED"}
<1>1. CASE AutoRebuild /\ o \in {"GOOD", "REBUILDING", "BLANK"}
  <2> DEFINE a == append_array_status(r, "REBUILDING")
             b == update_slots_for_rebuilding(a, g)
             c == StartRebuild(b, g, 0)
             d == [c EXCEPT !.newer = {}]
             q == SetCheckPoint(d, Step)
  <2>1. Rested(a) /\ a.num = r.num + 1 /\ a.queue[r.num] = "REBUILDING"
    BY AppendRests, AppendAdds, StatusIs
  <2> HIDE DEF a
  <2>2. Rested(b) /\ Counts(b, a)
    BY <2>1, RebuildingRests, ZenonT(60) DEF update_slots_for_rebuilding, Counts, Rested, RamType
  <2> HIDE DEF b
  <2>3. Rested(c) /\ Counts(c, b)
    <3>1. Rested(c)
      BY <2>2, StartRests, Constants
    <3>2. Counts(c, b)
      BY <2>2 DEF StartRebuild, Counts, Rested, RamType
    <3> QED BY <3>1, <3>2
  <2> HIDE DEF c
  <2>4. Rested(d) /\ Counts(d, c)
    BY <2>3 DEF Rested, RamType, Counts
  <2> HIDE DEF d
  <2>5. Counts(q, d)
    BY <2>4, SetCheckPointCounts, Constants
  <2> HIDE DEF q
  <2>6. raid1_might_be_auto_rebuild(r, g, o) = q
    BY <1>1 DEF raid1_might_be_auto_rebuild, q, d, c, b, a
  <2> QED BY <2>1, <2>2, <2>3, <2>4, <2>5, <2>6 DEF Counts
<1>2. CASE ~(AutoRebuild /\ o \in {"GOOD", "REBUILDING", "BLANK"})
  BY <1>2, DegradedAdds DEF raid1_might_be_auto_rebuild
<1> QED BY <1>1, <1>2

LEMMA ResumeAdds ==
  ASSUME NEW r, Rested(r), r.num < 2, NEW g \in Slots
  PROVE LET q == raid1_resume_rebuild(r, g)
        IN q.num = r.num + 1 /\ q.queue[r.num] \in {"REBUILDING", "DEGRADED"}
<1> DEFINE a == append_array_status(r, "REBUILDING")
           b == StartRebuild(a, g, r.cp[g] - Step)
           c == raid1_might_be_auto_rebuild(r, g, "REBUILDING")
           d == raid1_degraded(r, g, "REBUILDING")
<1>1. Rested(a) /\ a.num = r.num + 1 /\ a.queue[r.num] = "REBUILDING"
  BY AppendRests, AppendAdds, StatusIs
<1> HIDE DEF a
<1>2. Counts(b, a)
  BY <1>1 DEF StartRebuild, Counts, Rested, RamType
<1>3. /\ c.num = r.num + 1 /\ c.queue[r.num] \in {"REBUILDING", "DEGRADED"}
      /\ d.num = r.num + 1 /\ d.queue[r.num] = "DEGRADED"
  BY AutoAdds, DegradedAdds
<1>4. raid1_resume_rebuild(r, g) \in {b, c, d}
  BY DEF raid1_resume_rebuild, a, b, c, d
<1> HIDE DEF b, c, d
<1> QED BY <1>1, <1>2, <1>3, <1>4 DEF Counts

LEMMA Raid1Adds ==
  ASSUME NEW r, Rested(r), r.num < 2, NEW pair
  PROVE LET q == set_raid1_array_status(r, pair)
        IN q.num = r.num + 1 /\ (q.queue[r.num] = "GOOD" => pair[0] = "GOOD" /\ pair[1] = "GOOD")
<1>1. LET q == raid1_both_are_good(r) IN q.num = r.num + 1
  BY AppendAdds, AutoAdds DEF raid1_both_are_good, Slots
<1>2. ASSUME NEW g \in Slots, NEW o
      PROVE LET q == raid1_at_least_one_good(r, g, o)
            IN q.num = r.num + 1 /\ (q.queue[r.num] = "GOOD" => o = "GOOD")
  <2>1. CASE o = "GOOD"
    BY <1>1, <2>1 DEF raid1_at_least_one_good
  <2>2. CASE o = "REBUILDING"
    BY <2>2, ResumeAdds DEF raid1_at_least_one_good
  <2>3. CASE o = "BLANK"
    BY <2>3, AutoAdds DEF raid1_at_least_one_good
  <2>4. CASE o \notin {"GOOD", "REBUILDING", "BLANK"}
    <3>1. raid1_at_least_one_good(r, g, o) = raid1_degraded(r, g, o)
      BY <2>4 DEF raid1_at_least_one_good
    <3> QED BY <3>1, DegradedAdds
  <2> QED BY <2>1, <2>2, <2>3, <2>4
<1>3. CASE pair[0] = "GOOD"
  BY <1>2, <1>3 DEF set_raid1_array_status, Slots
<1>4. CASE pair[0] # "GOOD" /\ pair[1] = "GOOD"
  BY <1>2, <1>4 DEF set_raid1_array_status, Slots
<1>5. CASE pair[0] # "GOOD" /\ pair[1] # "GOOD"
  BY <1>5, AppendAdds DEF set_raid1_array_status
<1> QED BY <1>3, <1>4, <1>5

\* One drive good, the other bay empty.
Single(pair) == \E s \in Slots : pair[s] = "GOOD" /\ pair[Across(s)] = "EMPTY"

LEMMA StatusAdds ==
  ASSUME NEW r, Rested(r), r.num < 2, NEW mode, NEW pair
  PROVE LET q == set_array_status(r, mode, pair)
        IN /\ q.num = r.num + 1
           /\ q.queue[r.num] = "GOOD" =>
                \/ pair[0] = "GOOD" /\ pair[1] = "GOOD"
                \/ mode = "JBOD" /\ Single(pair) /\ q.rp = r.rp /\ q.cur = r.cur
<1>1. CASE mode = "JBOD"
  BY <1>1, AppendAdds DEF set_array_status, set_jbod_array_status, Single
<1>2. CASE mode = "RAID1"
  BY <1>2, Raid1Adds DEF set_array_status
<1>3. CASE mode \notin {"JBOD", "RAID1"}
  BY <1>3, AppendAdds DEF set_array_status
<1> QED BY <1>1, <1>2, <1>3

\* The good drive, or the one in the second bay.
First(r) == IF r.cur[0] = "GOOD" THEN 0 ELSE 1

LEMMA DeterminedAlone ==
  ASSUME NEW r, Sane(r)
  PROVE LET a == determine_array_status(r)
        IN a.num = 1 /\ a.queue[0] = "GOOD" => Whole(a) \/ a.rp[First(a)].mode = "JBOD"
<1> DEFINE q == Counted(r)
           a == determine_array_status(r)
<1>1. Sane(q) /\ Rested(q) /\ q.num = 0
  <2>1. q.num = 0
    BY DEF Counted, Sane, Rested, RamType
  <2> QED BY <2>1, CountedRests, SameIsSane DEF Sane
<1>2. a = IF same_array(q) THEN set_array_status(q, q.rp[0].mode, q.cur)
          ELSE IF can_be_same_array(q) THEN set_array_status(Joined(q), Joined(q).rp[Occupied(q)].mode, Joined(q).cur)
          ELSE Alone(Alone(Joined(q), 0), 1)
  BY DeterminedIs
<1> HIDE DEF q, a
<1>3. Sane(Joined(q)) /\ Joined(q).num = 0 /\ Rested(Joined(q)) /\ Joined(q).bay = q.bay
  <2>1. Admitted(q).num = q.num
    BY <1>1 DEF Admitted, set_stat, Rested, RamType
  <2> QED BY <1>1, <2>1, AdmittedSane DEF Joined, Sane
<1>4. ASSUME NEW m, Sane(m), NEW mode, m.num = 0, a = set_array_status(m, mode, m.cur)
      PROVE a.queue[0] = "GOOD" => \/ Whole(a)
                                   \/ mode = "JBOD" /\ Single(m.cur) /\ a.rp = m.rp /\ a.cur = m.cur
  <2>1. a.bay = m.bay
    BY <1>4, ArrayStatusSane DEF Sane, Present, Fits2
  <2>2. m.cur[0] = "GOOD" /\ m.cur[1] = "GOOD" => Whole(a)
    BY <1>4, <2>1 DEF Sane, Present, Whole, Ready, Slots
  <2>3. m.num < 2 /\ Rested(m)
    BY <1>4 DEF Sane
  <2> QED BY <1>4, <2>2, <2>3, StatusAdds
<1>5. CASE same_array(q)
  <2>1. a = set_array_status(q, q.rp[0].mode, q.cur)
    BY <1>2, <1>5
  <2>2. q.rp[0].mode = q.rp[1].mode /\ q.rp[0].mode # "JBOD"
    BY <1>5 DEF same_array
  <2> QED BY <1>1, <1>4, <2>1, <2>2 DEF a
<1>6. CASE ~same_array(q) /\ can_be_same_array(q)
  <2> DEFINE m == Joined(q)
  <2>1. a = set_array_status(m, m.rp[Occupied(q)].mode, m.cur)
    BY <1>2, <1>6
  <2>2. Single(m.cur) => Occupied(q) = First(m)
    <3>1. CASE \E s \in Slots : q.cur[s] = "EMPTY"
      BY <3>1 DEF Joined, Single, Occupied, First, Across, Slots
    <3>2. CASE ~ \E s \in Slots : q.cur[s] = "EMPTY"
      <4>1. m = Admitted(q)
        BY <3>2 DEF Joined
      <4>2. \A s \in Slots : m.cur[s] # "EMPTY"
        BY <1>1, <3>2, <4>1 DEF Admitted, set_stat, Rested, RamType
      <4> QED BY <4>2 DEF Single, Across, Slots
    <3> QED BY <3>1, <3>2
  <2> HIDE DEF m
  <2>3. a.queue[0] = "GOOD" => Whole(a) \/ a.rp[First(a)].mode = "JBOD"
    BY <1>3, <1>4, <2>1, <2>2 DEF First, m
  <2> QED BY <2>3 DEF a
<1>7. CASE ~same_array(q) /\ ~can_be_same_array(q)
  <2> DEFINE m == Alone(Joined(q), 0)
  <2>1. a = Alone(m, 1)
    BY <1>2, <1>7
  <2>2. Rested(m) /\ m.num = 1
    BY <1>3, ArrayStatusRests, StatusAdds DEF Alone
  <2> HIDE DEF m
  <2>3. a.num = 2
    BY <2>1, <2>2, StatusAdds DEF Alone
  <2> QED BY <2>3 DEF a
<1> QED BY <1>5, <1>6, <1>7

LEMMA MappingSame == ASSUME NEW r, Rested(r) PROVE Same(populate_slot_mapping(r), r)
BY DEF populate_slot_mapping, Same, Rested, RamType

LEMMA SlotStatusSame ==
  ASSUME NEW r, Rested(r), NEW s \in Slots
  PROVE LET q == determine_slot_status(r, s)
        IN /\ q.bay = r.bay /\ q.mirror = r.mirror
           /\ q.cur[s] # "EMPTY" => Ready(r, s)
           /\ q.cur[Across(s)] = r.cur[Across(s)]
<1> DEFINE e == [r EXCEPT !.rp[s] = ClearPage(2 + s), !.cur[s] = "EMPTY"]
           q == determine_slot_status(r, s)
<1>1. Rested(e)
  <2>1. ClearPage(2 + s) \in Sound
    BY ClearPageIs DEF Slots
  <2> QED BY <2>1 DEF Rested, RamType, SlotStatus
<1>2. /\ e.bay = r.bay /\ e.mirror = r.mirror /\ e.cur[s] = "EMPTY"
      /\ e.cur[Across(s)] = r.cur[Across(s)]
  BY DEF Rested, RamType, Across, Slots
<1> HIDE DEF e
<1>3. CASE ~Ready(e, s)
  <2>1. q = e
    BY <1>3 DEF determine_slot_status, e
  <2> QED BY <1>2, <2>1
<1>4. CASE Ready(e, s)
  <2>1. Ready(r, s)
    BY <1>2, <1>4 DEF Ready
  <2>2. q \in {use_meta_stat(read_restore_slot_matadata(e, s), s), set_stat(e, s, "BLANK")}
    BY <1>4 DEF determine_slot_status, e
  <2> HIDE DEF q
  <2> DEFINE Fine(m) == /\ m.bay = r.bay /\ m.mirror = r.mirror
                        /\ m.cur[Across(s)] = r.cur[Across(s)]
  <2>3. Fine(use_meta_stat(read_restore_slot_matadata(e, s), s))
    BY <1>1, <1>2, SMTT(30) DEF use_meta_stat, read_restore_slot_matadata, Rested, RamType, Across, Slots
  <2>4. Fine(set_stat(e, s, "BLANK"))
    BY <1>1, <1>2, SMTT(30) DEF set_stat, Rested, RamType, Across, Slots
  <2>5. Fine(q)
    BY <2>2, <2>3, <2>4
  <2> QED BY <2>1, <2>5 DEF q
<1> QED BY <1>3, <1>4

LEMMA SlotsSane ==
  ASSUME NEW r, Rested(r), r.mirror => Whole(r)
  PROVE LET q == determine_slot_status(determine_slot_status(r, 0), 1) IN Sane(q) /\ q.bay = r.bay
<1> DEFINE a == determine_slot_status(r, 0)
           q == determine_slot_status(a, 1)
<1>1. Rested(a) /\ a.bay = r.bay /\ a.mirror = r.mirror /\ (a.cur[0] # "EMPTY" => Ready(r, 0))
  BY SlotStatusRests, SlotStatusSame DEF Slots
<1> HIDE DEF a
<1>2. /\ Rested(q) /\ q.bay = a.bay /\ q.mirror = a.mirror
      /\ q.cur[1] # "EMPTY" => Ready(a, 1)
      /\ q.cur[0] = a.cur[0]
  <2>1. Across(1) = 0 /\ 1 \in Slots
    BY DEF Across, Slots
  <2> QED BY <1>1, <2>1, SlotStatusRests, SlotStatusSame
<1> HIDE DEF q
<1>3. Sane(q) /\ q.bay = r.bay
  BY <1>1, <1>2 DEF Sane, Present, Whole, Ready, Slots
<1> QED BY <1>3 DEF q, a

LEMMA CleanerSame == ASSUME NEW r, Rested(r), NEW new PROVE Same(raid_mbr_cleaner(r, new), r)
<1> DEFINE w == WipeMbr(r, 0)
<1>1. /\ WipeMbr(w, 1).bay = r.bay /\ WipeMbr(w, 1).cur = r.cur /\ WipeMbr(w, 1).mirror = r.mirror
  BY DEF WipeMbr, Rested, RamType
<1> QED BY <1>1 DEF raid_mbr_cleaner, Same

LEMMA FillSame ==
  ASSUME NEW r, Rested(r), NEW s \in Slots, NEW mode PROVE Same(fill_raid_parms(r, s, mode), r)
BY DEF fill_raid_parms, Same, Rested, RamType

\* A configuration asked for: both statuses are those of the bays, and no rebuild runs.
LEMMA HwConfigSane ==
  ASSUME NEW r, Rested(r), NEW mode \in Modes
  PROVE Sane(hw_raid_config(r, mode)) /\ hw_raid_config(r, mode).bay = r.bay
<1> DEFINE wiped == raid_mbr_cleaner(r, mode)
           cur == [s \in Slots |-> IF Ready(r, s) THEN "GOOD" ELSE "EMPTY"]
           good == [wiped EXCEPT !.cur = cur]
           half == fill_raid_parms(good, 0, mode)
           filled == fill_raid_parms(half, 1, mode)
           gen == IF r.rp[0].gen > r.rp[1].gen THEN r.rp[0].gen ELSE r.rp[1].gen
           synced == [filled EXCEPT !.rp[0].gen = gen, !.rp[1].gen = gen, !.ms = "GOOD",
                                    !.need = {s \in Slots : Ready(r, s)}]
           stored == store_slots(synced)
           idle == [stored EXCEPT !.mirror = FALSE]
           q == SetCheckPoint(idle, Step)
<1>1. Rested(wiped) /\ wiped.bay = r.bay
  BY CleanerRests, CleanerSame DEF Same
<1> HIDE DEF wiped
<1>2. Rested(good) /\ good.bay = r.bay /\ good.cur = cur
  <2>1. cur \in [Slots -> SlotStatus]
    BY StatusIs
  <2> HIDE DEF cur
  <2> QED BY <1>1, <2>1 DEF Rested, RamType
<1> HIDE DEF good
<1>3. Rested(half) /\ half.bay = r.bay /\ half.cur = cur
  BY <1>2, FillRests, FillSame DEF Same, Slots
<1> HIDE DEF half
<1>4. Rested(filled) /\ filled.bay = r.bay /\ filled.cur = cur
  BY <1>3, FillRests, FillSame DEF Same, Slots
<1> HIDE DEF filled, cur
<1>5. Rested(synced) /\ synced.bay = r.bay /\ synced.cur = cur
  <2> DEFINE p0 == [filled.rp[0] EXCEPT !.gen = gen]
             p1 == [filled.rp[1] EXCEPT !.gen = gen]
             rp == [filled.rp EXCEPT ![0] = p0, ![1] = p1]
             need == {s \in Slots : Ready(r, s)}
  <2>1. gen \in Nat
    <3>1. r.rp[0] \in Sound /\ r.rp[1] \in Sound
      BY DEF Rested, RamType, Slots
    <3> QED BY <3>1 DEF Sound, Page
  <2> HIDE DEF gen
  <2>2. p0 \in Sound /\ p1 \in Sound /\ filled.rp \in [Slots -> Sound]
    <3>1. filled.rp[0] \in Sound /\ filled.rp[1] \in Sound /\ filled.rp \in [Slots -> Sound]
      BY <1>4 DEF Rested, RamType, Slots
    <3> QED BY <2>1, <3>1 DEF Sound, Page, Valid
  <2>3. synced = [filled EXCEPT !.rp = rp, !.ms = "GOOD", !.need = need]
    BY <1>4 DEF Rested, RamType, Slots
  <2> HIDE DEF p0, p1, synced
  <2>4. rp \in [Slots -> Sound] /\ need \in SUBSET Slots /\ "GOOD" \in MetaStatus
    BY <2>2 DEF need, MetaStatus, Slots
  <2> HIDE DEF rp, need
  <2> QED BY <1>4, <2>3, <2>4 DEF Rested, RamType
<1> HIDE DEF synced
<1>6. Rested(stored) /\ stored.bay = r.bay /\ stored.cur = cur
  BY <1>5, StoreSlotsRests, StoreSlotsSame DEF Same
<1> HIDE DEF stored
<1>7. Sane(idle) /\ idle.bay = r.bay
  <2>1. Rested(idle) /\ idle.bay = r.bay /\ idle.cur = cur /\ ~idle.mirror
    BY <1>6 DEF Rested, RamType
  <2> HIDE DEF idle
  <2> QED BY <2>1 DEF Sane, Present, Ready, cur
<1> HIDE DEF idle
<1>8. Sane(q) /\ q.bay = idle.bay
  BY <1>7, SetCheckPointRests, SetCheckPointSame, SameIsSane, Constants DEF Sane
<1>9. hw_raid_config(r, mode) = q
  BY DEF hw_raid_config, q, idle, stored, synced, filled, half, good, wiped, cur, gen
<1> HIDE DEF q
<1> QED BY <1>7, <1>8, <1>9

\* What the mode of the array is chosen from.
Choice(q, r) ==
  /\ q.num = r.num /\ q.queue = r.queue /\ q.ms = r.ms
  /\ \A s \in Slots : q.rp[s].mode = r.rp[s].mode

LEMMA StoreChoice == ASSUME NEW r, Rested(r), NEW s \in Slots PROVE Choice(store_meta_data(r, s), r)
BY DEF store_meta_data, Choice, Rested, RamType, Sound, Page

LEMMA StoreSlotsChoice == ASSUME NEW r, Rested(r) PROVE Choice(store_slots(r), r)
<1>1. ASSUME NEW s \in Slots, NEW t \in Slots
      PROVE Choice(store_meta_data(store_meta_data(r, s), t), r)
  <2>1. Rested(store_meta_data(r, s)) /\ Choice(store_meta_data(r, s), r)
    BY StoreRests, StoreChoice
  <2>2. Choice(store_meta_data(store_meta_data(r, s), t), store_meta_data(r, s))
    BY <2>1, StoreChoice
  <2> QED BY <2>1, <2>2 DEF Choice
<1> QED BY <1>1 DEF store_slots, Slots

\* What raid_enumeration has found out when it chooses the mode.
Found(r) ==
  r.num = 1 => /\ r.ms \in {"NO_VALID", "GOOD", "STH_NOT_VALID"}
               /\ r.ms = "NO_VALID" => r.queue[0] = "NOT_CONFIGURED"
               /\ r.ms = "GOOD" => Whole(r) \/ r.rp[First(r)].mode = "JBOD"

LEMMA DeterminedFound == ASSUME NEW r, Sane(r) PROVE Found(Determined(r))
<1> DEFINE a == determine_array_status(r)
           q == determine_metadata_status(a)
<1>1. a.num = 1 /\ a.queue[0] = "GOOD" => Whole(a) \/ a.rp[First(a)].mode = "JBOD"
  BY DeterminedAlone
<1>2. Rested(a)
  BY DeterminedArrayRests DEF Sane
<1> HIDE DEF a
<1>3. q.num = a.num /\ q.queue = a.queue /\ q.bay = a.bay /\ q.cur = a.cur /\ q.rp = a.rp
  BY <1>2 DEF determine_metadata_status, Rested, RamType
<1>4. q.num = 1 => /\ q.ms \in {"NO_VALID", "GOOD", "STH_NOT_VALID"}
                   /\ q.ms = "NO_VALID" => q.queue[0] = "NOT_CONFIGURED"
                   /\ q.ms = "GOOD" => q.queue[0] = "GOOD"
  BY <1>2 DEF determine_metadata_status, Rested, RamType
<1>5. Determined(r) = q
  BY DEF Determined, a
<1> HIDE DEF q
<1> QED BY <1>1, <1>3, <1>4, <1>5 DEF Found, Whole, Ready, First

\* A mirror is offered to the host only with a drive in both bays.
Offered(r) == r.mode = "RAID1" /\ r.queue[0] \notin {"BROKEN", "NOT_CONFIGURED"} => Whole(r)

LEMMA ConfigDisksOffered ==
  ASSUME NEW r, Sane(r), Found(r) PROVE Offered(config_disk_arrays(r))
<1> DEFINE q == config_disk_arrays(r)
           n == First(r)
           whole == \A s \in Slots : r.cur[s] # "EMPTY"
<1>1. q.queue = r.queue /\ q.bay = r.bay
  BY DEF config_disk_arrays, update_raid1_read_use_slot, Sane, Rested, RamType
<1>2. q.mode = IF r.num # 1 THEN "JBOD"
               ELSE IF r.ms = "GOOD" THEN r.rp[n].mode
               ELSE IF r.ms = "STH_NOT_VALID"
               THEN IF r.queue[0] \in {"REBUILDING", "DEGRADED"} /\ whole THEN r.rp[n].mode ELSE "JBOD"
               ELSE r.mode
  BY DEF config_disk_arrays, update_raid1_read_use_slot, First, Sane, Rested, RamType
<1> HIDE DEF q, n
<1>3. whole => Whole(r)
  BY DEF Sane, Present, Whole
<1>4. Whole(r) => Whole(q)
  BY <1>1 DEF Whole, Ready
<1>5. q.mode = "RAID1" /\ q.queue[0] \notin {"BROKEN", "NOT_CONFIGURED"} => Whole(q)
  BY <1>1, <1>2, <1>3, <1>4 DEF Found, n
<1> QED BY <1>5 DEF Offered, q

LEMMA EnumerationSane ==
  ASSUME NEW r0, Rested(r0), r0.mirror => Whole(r0), NEW mode \in Modes
  PROVE LET q == raid_enumeration(r0, mode) IN Sane(q) /\ q.bay = r0.bay /\ Offered(q)
<1> DEFINE mapped == populate_slot_mapping(r0)
           clean == [mapped EXCEPT !.need = {}]
           slots == determine_slot_status(determine_slot_status(clean, 0), 1)
           r == Determined(slots)
           settled == IF Reconfigures(r, mode) THEN Determined(hw_raid_config(r, mode)) ELSE r
           stored == IF settled.need # {} THEN store_slots(settled) ELSE settled
           q == config_disk_arrays(stored)
<1>1. Rested(mapped) /\ Same(mapped, r0)
  BY MappingRests, MappingSame
<1> HIDE DEF mapped
<1>2. Rested(clean) /\ Same(clean, r0)
  BY <1>1 DEF Rested, RamType, Same
<1> HIDE DEF clean
<1>3. Sane(slots) /\ slots.bay = r0.bay
  <2>1. clean.mirror => Whole(clean)
    BY <1>2 DEF Same, Whole, Ready
  <2> QED BY <1>2, <2>1, SlotsSane DEF Same
<1> HIDE DEF slots
<1>4. Sane(r) /\ r.bay = r0.bay /\ Found(r)
  BY <1>3, DeterminedSane, DeterminedFound
<1> HIDE DEF r
<1>5. Sane(settled) /\ settled.bay = r0.bay /\ Found(settled)
  <2>1. Sane(hw_raid_config(r, mode)) /\ hw_raid_config(r, mode).bay = r0.bay
    BY <1>4, HwConfigSane DEF Sane
  <2> QED BY <1>4, <2>1, DeterminedSane, DeterminedFound
<1> HIDE DEF settled
<1>6. Sane(stored) /\ stored.bay = r0.bay /\ Found(stored)
  <2> DEFINE w == store_slots(settled)
  <2>1. Rested(w) /\ Same(w, settled) /\ Choice(w, settled)
    BY <1>5, StoreSlotsRests, StoreSlotsSame, StoreSlotsChoice DEF Sane
  <2> HIDE DEF w
  <2>2. Sane(w) /\ w.bay = r0.bay
    BY <1>5, <2>1, SameIsSane
  <2>3. First(w) \in Slots /\ First(w) = First(settled)
    BY <2>1 DEF First, Slots, Same
  <2>4. Found(w)
    BY <1>5, <2>1, <2>3 DEF Found, Same, Choice, Whole, Ready
  <2> QED BY <1>5, <2>2, <2>4 DEF w
<1> HIDE DEF stored
<1>7. Offered(q)
  BY <1>6, ConfigDisksOffered
<1>8. Sane(q) /\ q.bay = r0.bay
  BY <1>6, ConfigDisksRests, ConfigDisksSame, SameIsSane DEF Sane
<1>9. raid_enumeration(r0, mode) = q
  BY DEF raid_enumeration, q, stored, settled, r, slots, clean, mapped
<1> HIDE DEF q
<1> QED BY <1>7, <1>8, <1>9

----------------------------------------------------------------------------
(* The inductive invariant, and the actions that keep it. *)

Commands == [at : Blocks, ver : Nat, disk : [Slots -> {"busy", "none", "ok", "err"}]]

\* What is outside the firmware, and the command in execution.
Typed ==
  /\ bay \in Bays /\ flash \in Pages
  /\ other \in [Drives -> [1..2 -> Nat \cup {Bad}]]
  /\ data \in [Drives -> [Blocks -> Nat]] /\ acked \in [Blocks -> Nat]
  /\ gpio \in {"RAID1", "JBOD"} /\ asked \in BOOLEAN /\ on \in BOOLEAN
  /\ cmd \in Commands \cup {NoCmd}
  /\ left \in [Events -> Nat] /\ left["write"] <= Budget["write"]

\* A block is being copied only for a rebuild, never while the drives are
\* enumerated; and a rebuild that may try a block has retries left.
RamInv(r) ==
  /\ r \in RamType
  /\ r.busy => r.mirror /\ ~r.reenum
  /\ r.mirror /\ ~(r.busy /\ r.inst) => r.retry < MaxRetry

\* What the firmware sees of the bays.  A rebuild copies between two drives;
\* a mirror is offered to the host, or written by it, only with a drive in
\* both bays; and the bays are as the firmware saw them until it finds that
\* it has to enumerate again.
DriveInv ==
  /\ ram.mirror => Whole(ram)
  /\ ram.reenum \/ Offered(ram)
  /\ on /\ (ram.mirror \/ ~ram.reenum) => ram.bay = bay
  /\ cmd # NoCmd => on /\ ~ram.reenum /\ (ram.mode = "RAID1" => Whole(ram))

\* A block is not copied while a host command runs.
TypeInv == Typed /\ RamInv(ram) /\ (cmd # NoCmd => ~ram.busy)

\* The inductive invariant.
RaidInv == TypeInv /\ DriveInv

LEMMA RestedIs == ASSUME NEW r PROVE Rested(r) <=> RamInv(r) /\ ~r.busy
BY DEF Rested, RamInv

\* With a drive in both bays, and no command, nothing else matters.
LEMMA SteadyDrives ==
  ASSUME Whole(ram), ram.bay = bay, ram'.bay = ram.bay, bay' = bay, cmd' = NoCmd
  PROVE DriveInv'
BY DEF DriveInv, Whole, Offered, Ready

LEMMA QuietDrives ==
  ASSUME DriveInv, UNCHANGED <<bay, on>>, cmd' # NoCmd => cmd # NoCmd,
         ram'.bay = ram.bay, ram'.mirror = ram.mirror, ram'.mode = ram.mode,
         ram'.queue = ram.queue, ram'.reenum = ram.reenum
  PROVE DriveInv'
BY DEF DriveInv, Whole, Offered, Ready

LEMMA HappensTyped ==
  ASSUME Typed, NEW e \in Events, Happens(e)
  PROVE left' \in [Events -> Nat] /\ left'["write"] <= Budget["write"]
<1>1. left \in [Events -> Nat] /\ left["write"] <= Budget["write"] /\ Budget \in [Events -> Nat]
  BY ArrayAssumption DEF Typed
<1>2. /\ left[e] \in Nat /\ left["any"] \in Nat /\ left["write"] \in Nat /\ Budget["write"] \in Nat
      /\ left[e] - 1 \in Nat /\ left["any"] - 1 \in Nat
      /\ left' = [left EXCEPT ![e] = left[e] - 1, !["any"] = left["any"] - 1]
  <2>1. "any" \in Events /\ "write" \in Events
    BY DEF Events
  <2>2. left[e] > 0 /\ left["any"] > 0
    BY DEF Happens
  <2>3. CASE e # "any"
    BY <1>1, <2>1, <2>2, <2>3 DEF Happens
  <2>4. CASE e = "any"
    BY <1>1, <2>1, <2>2, <2>4 DEF Happens
  <2> QED BY <2>3, <2>4
<1> QED BY <1>1, <1>2 DEF Events

LEMMA InitRamIs == Rested(InitRam)
<1>1. InitRam \in RamType
  <2>1. ClearPage(0) \in Sound /\ Torn \in Page
    BY ClearPageIs, TornIs
  <2>2. /\ [i \in Slots |-> Torn] \in Pages /\ [s \in Slots |-> ClearPage(0)] \in [Slots -> Sound]
        /\ [s \in Slots |-> s] \in [Slots -> Slots] /\ [s \in Slots |-> NoDrive] \in Bays
        /\ [s \in Slots |-> "EMPTY"] \in [Slots -> SlotStatus] /\ [s \in Slots |-> 0] \in [Slots -> Nat]
        /\ [i \in Slots |-> "NOT_CONFIGURED"] \in [Slots -> ArrayStatus]
    BY <2>1, StatusIs DEF Pages, Bays
  <2>3. /\ 0 \in 0..2 /\ 0 \in Nat /\ 0 \in Int /\ 0 >= -Step /\ 0 \in 0..MaxRetry /\ 0 \in Slots
        /\ << >> \in Seq(Orders) /\ "NO_VALID" \in MetaStatus /\ "NOT_CONFIGURED" \in Modes
    BY Constants, StatusIs DEF MetaStatus, Slots
  <2> QED BY <2>2, <2>3 DEF InitRam, RamType
<1> QED BY <1>1 DEF Rested, InitRam

LEMMA InitTyped == ASSUME Init PROVE RaidInv
<1>1. Rested(ram)
  BY InitRamIs DEF Init
<1>2. flash \in Pages
  <2>1. ASSUME NEW s \in Slots PROVE OwnPage(s) \in Page
    <3>1. Own \in [Slots -> Drives \cup {NoDrive}]
      BY ArrayAssumption
    <3>2. [d \in Slots |-> "GOOD"] \in [Slots -> SlotStatus] /\ "RAID1" \in Modes /\ s \in 0..3
      BY StatusIs DEF Slots
    <3> QED BY <3>1, <3>2 DEF OwnPage, Page
  <2> QED BY <2>1 DEF Init, Pages
<1>3. Typed
  <2>1. bay \in Bays
    BY ArrayAssumption DEF Init, Bays
  <2>2. other \in [Drives -> [1..2 -> Nat \cup {Bad}]]
    BY Constants DEF Init
  <2>3. data \in [Drives -> [Blocks -> Nat]] /\ acked \in [Blocks -> Nat]
    BY DEF Init
  <2>4. left \in [Events -> Nat] /\ left["write"] <= Budget["write"]
    BY ArrayAssumption DEF Init, Events
  <2> QED BY <1>2, <2>1, <2>2, <2>3, <2>4 DEF Init, Typed
<1>4. DriveInv
  BY DEF DriveInv, Offered, Init, InitRam
<1> QED BY <1>1, <1>3, <1>4, RestedIs DEF RaidInv, TypeInv, Init

LEMMA ModesIs == ASSUME Typed PROVE gpio \in Modes
BY StatusIs DEF Typed

LEMMA LoadRests == ASSUME Typed, NEW r, Rested(r) PROVE Rested(load_other_parms(r))
<1> DEFINE cp == [s \in Slots |-> IF find_good_copy(r, s) = Bad THEN 0 ELSE find_good_copy(r, s)]
           fresh(q, s) == IF find_good_copy(r, s) = Bad THEN WriteOther(q, s) ELSE q
<1>1. ASSUME NEW s \in Slots PROVE find_good_copy(r, s) \in Nat \cup {Bad}
  <2>1. CASE Ready(r, s)
    <3>1. r.bay[s] \in Drives
      BY <2>1 DEF Ready, Rested, RamType, Bays
    <3>2. other[r.bay[s]][1] \in Nat \cup {Bad} /\ other[r.bay[s]][2] \in Nat \cup {Bad}
      BY <3>1 DEF Typed
    <3> QED BY <2>1, <3>2 DEF find_good_copy
  <2> QED BY <2>1 DEF find_good_copy
<1>2. cp \in [Slots -> Nat]
  BY <1>1
<1> HIDE DEF cp
<1>3. Rested([r EXCEPT !.cp = cp])
  BY <1>2 DEF Rested, RamType
<1>4. ASSUME NEW q, Rested(q), NEW s \in Slots PROVE Rested(fresh(q, s))
  BY <1>4, WriteOtherRests
<1> HIDE DEF fresh
<1>5. Rested(fresh(fresh([r EXCEPT !.cp = cp], 0), 1))
  BY <1>3, <1>4 DEF Slots
<1> QED BY <1>5 DEF load_other_parms, fresh, cp

LEMMA LoadSame == ASSUME NEW r, Rested(r) PROVE Same(load_other_parms(r), r)
BY DEF load_other_parms, WriteOther, Ready, Same, Rested, RamType

LEMMA StartupSane ==
  ASSUME Typed, NEW r, r \in RamType, ~r.busy,
         r.mirror => r.retry < MaxRetry /\ r.bay = bay /\ Whole(r)
  PROVE LET q == ini_init(r) IN Sane(q) /\ q.bay = bay /\ Offered(q)
<1> DEFINE a == [r EXCEPT !.bay = bay]
           b == load_other_parms(a)
           nvm == [i \in Slots |-> IF Valid(flash[i]) THEN flash[i] ELSE b.nvm[i]]
           c == [b EXCEPT !.nvm = nvm]
           d == raid_enumeration(c, gpio)
           q == raid_init(d)
<1>1. Rested(a) /\ a.bay = bay /\ (a.mirror => Whole(a))
  <2>1. Rested(a) /\ a.bay = bay /\ a.mirror = r.mirror
    BY DEF Typed, Rested, RamType
  <2> HIDE DEF a
  <2> QED BY <2>1 DEF Whole, Ready
<1> HIDE DEF a
<1>2. Rested(b) /\ b.bay = bay /\ b.mirror = a.mirror
  BY <1>1, LoadRests, LoadSame DEF Same
<1>3. nvm \in Pages
  BY <1>2 DEF Typed, Pages, Rested, RamType
<1>4. read_nvm_raid_parms(b) = c
  BY <1>2 DEF read_nvm_raid_parms, Rested, RamType
<1> HIDE DEF b, nvm
<1>5. Rested(c) /\ c.bay = bay /\ c.mirror = a.mirror
  BY <1>2, <1>3 DEF Rested, RamType
<1> HIDE DEF c
<1>6. Sane(d) /\ d.bay = bay /\ Offered(d)
  <2>1. c.mirror => Whole(c)
    BY <1>1, <1>5 DEF Whole, Ready
  <2> QED BY <1>5, <2>1, EnumerationSane, ModesIs
<1> HIDE DEF d
<1>7. Rested(q) /\ Same(q, d) /\ q.mode = d.mode /\ q.queue = d.queue
  BY <1>6 DEF raid_init, Sane, Rested, RamType, Same
<1> HIDE DEF q
<1>8. Sane(q) /\ q.bay = bay /\ Offered(q)
  BY <1>6, <1>7, SameIsSane DEF Offered, Whole, Ready
<1> QED BY <1>4, <1>8 DEF ini_init, a, b, d, q

LEMMA PowerOnKeeps == ASSUME RaidInv, PowerOn PROVE RaidInv'
<1>1. Sane(ram') /\ ram'.bay = bay /\ Offered(ram')
  <2>1. InitRam \in RamType /\ ~InitRam.busy /\ ~InitRam.mirror
    BY InitRamIs DEF Rested, InitRam
  <2> QED BY <2>1, StartupSane DEF PowerOn, RaidInv, TypeInv
<1>2. Typed'
  BY DEF PowerOn, RaidInv, TypeInv, Typed, media
<1>3. DriveInv'
  BY <1>1 DEF PowerOn, RaidInv, DriveInv, media, Sane, Whole, Offered, Ready
<1> QED BY <1>1, <1>2, <1>3, RestedIs DEF RaidInv, TypeInv, PowerOn, Sane

LEMMA ReEnumerateKeeps == ASSUME RaidInv, ReEnumerate PROVE RaidInv'
<1> DEFINE r == [ram EXCEPT !.reenum = FALSE]
<1>1. r \in RamType /\ ~r.busy /\ (r.mirror => r.retry < MaxRetry)
      /\ r.bay = ram.bay /\ r.mirror = ram.mirror
  BY DEF RaidInv, TypeInv, RamInv, ReEnumerate, RamType
<1> HIDE DEF r
<1>2. Sane(ini_init(r)) /\ ini_init(r).bay = bay /\ Offered(ini_init(r))
  <2>1. r.mirror => r.bay = bay /\ Whole(r)
    BY <1>1 DEF ReEnumerate, RaidInv, DriveInv, Whole, Ready
  <2> QED BY <1>1, <2>1, StartupSane DEF RaidInv, TypeInv
<1>3. ram' = ini_init(r)
  BY DEF ReEnumerate, r
<1>4. Typed'
  BY DEF ReEnumerate, RaidInv, TypeInv, Typed, media
<1>5. DriveInv'
  BY <1>2, <1>3 DEF ReEnumerate, RaidInv, DriveInv, media, Sane, Whole, Offered, Ready
<1> QED BY <1>2, <1>3, <1>4, <1>5, RestedIs DEF RaidInv, TypeInv, Sane

LEMMA EntryTyped ==
  ASSUME NEW A, NEW B, NEW C, NEW f \in [A -> [B -> C]], NEW a, NEW b, NEW v \in C
  PROVE [f EXCEPT ![a][b] = v] \in [A -> [B -> C]]
<1> DEFINE g == [f[a] EXCEPT ![b] = v]
<1>1. a \in A => g \in [B -> C]
  OBVIOUS
<1> HIDE DEF g
<1>2. [f EXCEPT ![a] = g] \in [A -> [B -> C]]
  BY <1>1
<1> QED BY <1>2 DEF g

LEMMA IoStepKeeps == ASSUME RaidInv, IoStep PROVE RaidInv'
<1> DEFINE o == Head(ram.io)
<1>1. /\ ram.io \in Seq(Orders) /\ ram.io # << >> /\ ram \in RamType
      /\ o \in Orders /\ Tail(ram.io) \in Seq(Orders)
  BY DEF RaidInv, TypeInv, RamInv, RamType, IoStep
<1>2. PICK io \in Seq(Orders) : ram' = [ram EXCEPT !.io = io]
  <2>1. CASE o.op = "store"
    <3> DEFINE page == [flash EXCEPT ![o.at] = o.page]
               w == [i \in 1..2 |-> [op |-> "prog", at |-> i - 1, page |-> page[i - 1]]]
    <3>1. o.page \in Page
      BY <1>1, <2>1 DEF Orders
    <3>2. page \in [Slots -> Page]
      BY <3>1 DEF RaidInv, TypeInv, Typed, Pages
    <3> HIDE DEF page
    <3>3. \A i \in 1..2 : w[i] \in Orders
      BY <3>2 DEF Orders, Slots
    <3>4. w \in Seq(Orders)
      <4>1. w \in [1..2 -> Orders]
        BY <3>3
      <4> QED BY <4>1
    <3>5. w \o Tail(ram.io) \in Seq(Orders)
      BY <1>1, <3>4
    <3>6. ram' = [ram EXCEPT !.io = w \o Tail(ram.io)]
      BY <2>1 DEF IoStep, spi_write_flash, page
    <3> QED BY <3>5, <3>6
  <2>2. CASE o.op # "store"
    BY <1>1, <2>2 DEF IoStep
  <2> QED BY <2>1, <2>2
<1>3. RamInv(ram') /\ ram'.busy = ram.busy
  BY <1>1, <1>2 DEF RaidInv, TypeInv, RamInv, RamType
<1>4. flash' \in Pages
  <2>1. CASE o.op = "store"
    BY <2>1, TornIs DEF IoStep, spi_write_flash, spi_erase_flash_sector, Pages
  <2>2. CASE o.op = "prog"
    <3>1. o.page \in Page
      BY <1>1, <2>2 DEF Orders
    <3> QED BY <2>2, <3>1 DEF IoStep, ProgramPage, RaidInv, TypeInv, Typed, Pages
  <2>3. CASE o.op \notin {"store", "prog"}
    BY <2>3 DEF IoStep, RaidInv, TypeInv, Typed
  <2> QED BY <2>1, <2>2, <2>3
<1>5. other' \in [Drives -> [1..2 -> Nat \cup {Bad}]]
  <2>1. CASE o.op = "other"
    <3>1. o.cp \in Nat
      BY <1>1, <2>1 DEF Orders
    <3>2. other \in [Drives -> [1..2 -> Nat \cup {Bad}]] /\ o.cp \in Nat \cup {Bad}
      BY <3>1 DEF RaidInv, TypeInv, Typed
    <3>3. other' = [other EXCEPT ![bay[o.at]][o.copy] = o.cp]
      BY <2>1 DEF IoStep
    <3> HIDE DEF o
    <3> QED BY <3>2, <3>3, EntryTyped
  <2>2. CASE o.op # "other"
    BY <2>2 DEF IoStep, RaidInv, TypeInv, Typed
  <2> QED BY <2>1, <2>2
<1>6. data' \in [Drives -> [Blocks -> Nat]] /\ acked' \in [Blocks -> Nat]
  <2>1. data \in [Drives -> [Blocks -> Nat]] /\ acked \in [Blocks -> Nat]
    BY DEF RaidInv, TypeInv, Typed
  <2>2. CASE o.op = "mbr"
    <3>1. data' = [data EXCEPT ![bay[o.at]][0] = 0] /\ acked' = [b \in Blocks |-> 0]
      BY <2>2 DEF IoStep
    <3> HIDE DEF o
    <3>2. data' \in [Drives -> [Blocks -> Nat]]
      BY <2>1, <3>1, EntryTyped
    <3> QED BY <3>1, <3>2
  <2>3. CASE o.op # "mbr"
    BY <2>1, <2>3 DEF IoStep
  <2> QED BY <2>2, <2>3
<1>7. asked' \in BOOLEAN
  BY DEF IoStep, ProgramPage, RaidInv, TypeInv, Typed
<1>8. UNCHANGED <<bay, gpio, cmd, on, left>>
  BY DEF IoStep
<1>9. Typed'
  BY <1>4, <1>5, <1>6, <1>7, <1>8 DEF RaidInv, TypeInv, Typed
<1>10. DriveInv'
  <2>1. /\ ram'.bay = ram.bay /\ ram'.mirror = ram.mirror /\ ram'.mode = ram.mode
        /\ ram'.queue = ram.queue /\ ram'.reenum = ram.reenum
    BY <1>1, <1>2 DEF RamType
  <2> QED BY <1>8, <2>1, QuietDrives DEF RaidInv
<1> QED BY <1>3, <1>8, <1>9, <1>10 DEF RaidInv, TypeInv

LEMMA PowerCutKeeps == ASSUME RaidInv, PowerCut PROVE RaidInv'
<1>1. Rested(ram') /\ cmd' = NoCmd
  BY InitRamIs DEF PowerCut
<1>2. left' \in [Events -> Nat] /\ left'["write"] <= Budget["write"]
  BY HappensTyped DEF PowerCut, Events, RaidInv, TypeInv
<1>3. other' \in [Drives -> [1..2 -> Nat \cup {Bad}]]
  <2>1. other \in [Drives -> [1..2 -> Nat \cup {Bad}]] /\ Bad \in Nat \cup {Bad}
    BY DEF RaidInv, TypeInv, Typed
  <2> DEFINE d == bay[Head(ram.io).at]
             c == Head(ram.io).copy
  <2>2. other' = other \/ other' = [other EXCEPT ![d][c] = Bad]
    BY DEF PowerCut
  <2> HIDE DEF d, c
  <2>3. [other EXCEPT ![d][c] = Bad] \in [Drives -> [1..2 -> Nat \cup {Bad}]]
    BY <2>1, EntryTyped
  <2> QED BY <2>1, <2>2, <2>3
<1>4. on' \in BOOLEAN /\ UNCHANGED <<bay, flash, data, acked, gpio, asked>>
  BY DEF PowerCut
<1>5. Typed'
  BY <1>1, <1>2, <1>3, <1>4 DEF RaidInv, TypeInv, Typed
<1>6. DriveInv'
  BY <1>1 DEF PowerCut, InitRam, DriveInv, Offered
<1> QED BY <1>1, <1>5, <1>6, RestedIs DEF RaidInv, TypeInv

LEMMA ReplugTyped == ASSUME Typed, Replug PROVE bay' \in Bays
BY DEF Typed, Replug, Bays

LEMMA ChangeDrivesKeeps == ASSUME RaidInv, ChangeDrives PROVE RaidInv'
<1>1. left' \in [Events -> Nat] /\ left'["write"] <= Budget["write"]
  BY HappensTyped DEF ChangeDrives, Events, RaidInv, TypeInv
<1>2. bay' \in Bays
  BY ReplugTyped DEF ChangeDrives, RaidInv, TypeInv
<1>3. DriveInv'
  BY DEF ChangeDrives, RaidInv, DriveInv, Whole, Offered, Ready
<1>4. TypeInv'
  BY <1>1, <1>2 DEF ChangeDrives, RaidInv, TypeInv, Typed
<1> QED BY <1>3, <1>4 DEF RaidInv

LEMMA HotPlugKeeps == ASSUME RaidInv, HotPlug PROVE RaidInv'
<1>1. left' \in [Events -> Nat] /\ left'["write"] <= Budget["write"]
  BY HappensTyped DEF HotPlug, Events, RaidInv, TypeInv
<1>2. bay' \in Bays
  BY ReplugTyped DEF HotPlug, RaidInv, TypeInv
<1>3. Rested(ram')
  BY DEF HotPlug, RaidInv, TypeInv, RamInv, RamType, Rested
<1>4. Typed'
  BY <1>1, <1>2 DEF HotPlug, RaidInv, TypeInv, Typed
<1>5. DriveInv'
  <2>1. /\ ram'.bay = ram.bay /\ ram'.mode = ram.mode /\ ram'.queue = ram.queue
        /\ ram'.reenum /\ ~ram'.mirror /\ cmd' = NoCmd
    BY DEF HotPlug, RaidInv, TypeInv, RamInv, RamType
  <2> QED BY <2>1 DEF RaidInv, DriveInv, Whole, Offered, Ready
<1> QED BY <1>3, <1>4, <1>5, RestedIs DEF RaidInv, TypeInv, HotPlug

LEMMA MoveSwitchKeeps == ASSUME RaidInv, MoveSwitch PROVE RaidInv'
<1>1. left' \in [Events -> Nat] /\ left'["write"] <= Budget["write"]
  BY HappensTyped DEF MoveSwitch, Events, RaidInv, TypeInv
<1>2. gpio' \in {"RAID1", "JBOD"}
  BY ArrayAssumption DEF MoveSwitch
<1>3. DriveInv'
  BY QuietDrives DEF MoveSwitch, RaidInv
<1>4. TypeInv'
  BY <1>1, <1>2 DEF MoveSwitch, RaidInv, TypeInv, Typed
<1> QED BY <1>3, <1>4 DEF RaidInv

LEMMA ConfigButtonKeeps == ASSUME RaidInv, ConfigButton PROVE RaidInv'
<1>1. left' \in [Events -> Nat] /\ left'["write"] <= Budget["write"]
  BY HappensTyped DEF ConfigButton, Events, RaidInv, TypeInv
<1> DEFINE q == IF AsConfigured(ram) THEN ram ELSE hw_raid_config(ram, gpio)
<1>2. ram \in RamType /\ (ram.mirror => ~ram.busy) /\ (ram.busy => ram.mirror)
  BY DEF ConfigButton, RaidInv, TypeInv, RamInv, RamType, Rested
<1>3. Rested(ram)
  BY <1>2 DEF RaidInv, TypeInv, RamInv, Rested, RamType
<1>4. Rested(q) /\ q.bay = ram.bay /\ (q.mirror => Whole(q))
  BY <1>3, HwConfigSane, ModesIs DEF RaidInv, TypeInv, DriveInv, Sane
<1> HIDE DEF q
<1>5. ram' = [q EXCEPT !.reenum = TRUE, !.busy = FALSE]
  BY DEF ConfigButton, q
<1>6. Rested(ram')
  BY <1>4, <1>5 DEF Rested, RamType
<1>7. Typed'
  BY <1>1 DEF ConfigButton, RaidInv, TypeInv, Typed
<1>8. DriveInv'
  <2>1. /\ ram'.bay = q.bay /\ ram'.mirror = q.mirror /\ ram'.reenum
        /\ ram.bay = bay /\ bay' = bay /\ cmd' = NoCmd
    BY <1>4, <1>5 DEF ConfigButton, Idle, RaidInv, DriveInv, Rested, RamType
  <2> QED BY <1>4, <2>1 DEF DriveInv, Whole, Ready
<1> QED BY <1>6, <1>7, <1>8, RestedIs DEF RaidInv, TypeInv, ConfigButton

LEMMA HostWriteKeeps == ASSUME RaidInv, NEW l \in Slots, NEW b \in Blocks, HostWrite(l, b) PROVE RaidInv'
<1>1. left' \in [Events -> Nat] /\ left'["write"] <= Budget["write"]
  BY HappensTyped DEF HostWrite, Events, RaidInv, TypeInv
<1>2. 2 + Budget["write"] - left["write"] \in Nat
  <2>1. Budget["write"] \in Nat /\ left["write"] \in Nat /\ left["write"] <= Budget["write"]
    BY ArrayAssumption DEF RaidInv, TypeInv, Typed, Events
  <2> QED BY <2>1
<1>3. cmd' \in Commands
  BY <1>2 DEF HostWrite, Commands
<1>4. UNCHANGED <<media, ram, on>> /\ ~ram.busy
  BY DEF HostWrite
<1>5. Typed'
  BY <1>1, <1>3, <1>4 DEF media, RaidInv, TypeInv, Typed
<1>6. DriveInv'
  <2>1. on /\ ~ram.reenum
    BY DEF HostWrite, Serving, Idle
  <2>2. ram.mode = "RAID1" => Whole(ram)
    BY DEF HostWrite, Targets, Whole
  <2> QED BY <1>4, <2>1, <2>2 DEF RaidInv, DriveInv, media, Whole, Offered, Ready
<1> QED BY <1>4, <1>5, <1>6 DEF RaidInv, TypeInv

LEMMA DiskWriteKeeps == ASSUME RaidInv, NEW s \in Slots, DiskWrite(s) PROVE RaidInv'
<1>1. cmd \in Commands /\ ~ram.busy
  BY DEF DiskWrite, RaidInv, TypeInv, Typed
<1>2. left' \in [Events -> Nat] /\ left'["write"] <= Budget["write"]
  BY HappensTyped DEF DiskWrite, Events, RaidInv, TypeInv, Typed
<1>3. cmd' \in Commands
  <2>1. \E v \in {"ok", "err"} : cmd' = [cmd EXCEPT !.disk[s] = v]
    BY DEF DiskWrite
  <2> QED BY <1>1, <2>1 DEF Commands
<1>4. data' \in [Drives -> [Blocks -> Nat]]
  <2>1. data \in [Drives -> [Blocks -> Nat]] /\ cmd.ver \in Nat
    BY <1>1 DEF RaidInv, TypeInv, Typed, Commands
  <2>2. data' = data \/ data' = [data EXCEPT ![bay[s]][cmd.at] = cmd.ver]
    BY DEF DiskWrite
  <2>3. [data EXCEPT ![bay[s]][cmd.at] = cmd.ver] \in [Drives -> [Blocks -> Nat]]
    BY <2>1, EntryTyped
  <2> QED BY <2>1, <2>2, <2>3
<1>5. UNCHANGED <<bay, flash, other, acked, gpio, asked, ram, on>>
  BY DEF DiskWrite
<1>6. Typed'
  BY <1>2, <1>3, <1>4, <1>5 DEF RaidInv, TypeInv, Typed
<1>7. DriveInv'
  BY <1>5, QuietDrives DEF DiskWrite, RaidInv
<1> QED BY <1>1, <1>5, <1>6, <1>7 DEF RaidInv, TypeInv

LEMMA WholeSane == ASSUME NEW r, Rested(r), Whole(r) PROVE Sane(r)
BY DEF Sane, Present, Whole

\* An operator applied to an array of two drives: they stay in their bays.
Kept(q, r) == Rested(q) /\ Whole(q) /\ q.bay = r.bay

LEMMA SettledKept ==
  ASSUME NEW r, Rested(r), Whole(r), NEW pair
  PROVE Kept(update_raid1_read_use_slot(store_slots(set_raid1_array_status(r, pair))), r)
<1> DEFINE a == set_raid1_array_status(r, pair)
           b == store_slots(a)
<1>1. Rested(a) /\ a.bay = r.bay
  BY WholeSane, Raid1Sane DEF Fits2, Whole, Sane
<1> HIDE DEF a
<1>2. Rested(b) /\ b.bay = r.bay
  BY <1>1, StoreSlotsRests, StoreSlotsSame DEF Same
<1> HIDE DEF b
<1>3. Rested(update_raid1_read_use_slot(b)) /\ update_raid1_read_use_slot(b).bay = r.bay
  BY <1>2, ReadSlotRests, ReadSlotSame DEF Same
<1> QED BY <1>3 DEF Kept, Whole, Ready, b, a

LEMMA FailedKept ==
  ASSUME NEW r, Rested(r), Whole(r), NEW g \in Slots, NEW f \in Slots
  PROVE Kept(update_slots_for_failed(r, g, f), r)
BY WholeSane, FailedSane DEF Kept, Sane, Whole, Ready

LEMMA WriteFailedKept == ASSUME NEW r, Rested(r), Whole(r), NEW bad PROVE Kept(WriteFailed(r, bad), r)
<1> DEFINE fail == IF 0 \in bad THEN 0 ELSE 1
           q == r.queue[0]
           queue == [r.queue EXCEPT ![0] = "DEGRADED"]
           cur == [r.cur EXCEPT ![fail] = "FAILED"]
           r1 == IF q = "GOOD" \/ (q = "REBUILDING" /\ r.cur[fail] = "REBUILDING")
                 THEN [r EXCEPT !.queue[0] = "DEGRADED", !.cur[fail] = "FAILED"] ELSE r
           r2 == IF q = "REBUILDING" THEN [r1 EXCEPT !.mirror = FALSE] ELSE r1
           r3 == IF r2.cur[0] = "FAILED" THEN update_slots_for_failed(r2, 1, 0)
                 ELSE update_slots_for_failed(r2, 0, 1)
           r4 == [r3 EXCEPT !.num = 0]
<1>1. Rested(r1) /\ r1.bay = r.bay
  <2>1. queue \in [Slots -> ArrayStatus] /\ cur \in [Slots -> SlotStatus]
    BY StatusIs DEF Rested, RamType
  <2>2. [r EXCEPT !.queue[0] = "DEGRADED", !.cur[fail] = "FAILED"] = [r EXCEPT !.queue = queue, !.cur = cur]
    BY DEF Rested, RamType
  <2> HIDE DEF queue, cur
  <2>3. Rested([r EXCEPT !.queue = queue, !.cur = cur]) /\ [r EXCEPT !.queue = queue, !.cur = cur].bay = r.bay
    BY <2>1 DEF Rested, RamType
  <2> QED BY <2>2, <2>3
<1> HIDE DEF r1
<1>2. Rested(r2) /\ r2.bay = r.bay
  BY <1>1 DEF Rested, RamType
<1> HIDE DEF r2
<1>3. Rested(r3) /\ r3.bay = r.bay
  <2>1. Whole(r2)
    BY <1>2 DEF Whole, Ready
  <2> QED BY <1>2, <2>1, FailedKept DEF Kept, Slots
<1> HIDE DEF r3
<1>4. Rested(r4) /\ r4.bay = r.bay
  <2>1. 0 \in 0..2
    OBVIOUS
  <2> QED BY <1>3, <2>1 DEF Rested, RamType
<1> HIDE DEF r4
<1>5. Kept(update_raid1_read_use_slot(store_slots(set_raid1_array_status(r4, r3.cur))), r4)
  <2>1. Whole(r4)
    BY <1>4 DEF Whole, Ready
  <2> QED BY <1>4, <2>1, SettledKept
<1> QED BY <1>4, <1>5 DEF WriteFailed, Kept, r4, r3, r2, r1

\* A command has failed on a mirror with a drive in both bays.
LEMMA WriteDoneKeeps == ASSUME RaidInv, WriteDone PROVE RaidInv'
<1>1. /\ cmd \in Commands /\ Rested(ram) /\ cmd' = NoCmd /\ cmd # NoCmd
      /\ on /\ ~ram.reenum /\ (ram.mode = "RAID1" => Whole(ram)) /\ ram.bay = bay
  BY RestedIs DEF WriteDone, RaidInv, TypeInv, Typed, DriveInv
<1>2. ram' = ram \/ (ram.mode = "RAID1" /\ Kept(ram', ram))
  BY <1>1, WriteFailedKept DEF WriteDone, raid1_error_detection
<1>3. acked' \in [Blocks -> Nat]
  BY <1>1 DEF WriteDone, RaidInv, TypeInv, Typed, Commands
<1>4. UNCHANGED <<bay, flash, other, data, gpio, asked, on, left>>
  BY DEF WriteDone
<1>5. TypeInv'
  <2>1. Typed'
    BY <1>1, <1>3, <1>4 DEF RaidInv, TypeInv, Typed
  <2> QED BY <1>1, <1>2, <2>1, RestedIs DEF TypeInv, Kept
<1>6. DriveInv'
  <2>1. CASE ram' = ram
    BY <1>1, <1>4, <2>1, QuietDrives DEF RaidInv
  <2>2. CASE ram.mode = "RAID1" /\ Kept(ram', ram)
    BY <1>1, <1>4, <2>2, SteadyDrives DEF Kept
  <2> QED BY <1>2, <2>1, <2>2
<1> QED BY <1>5, <1>6 DEF RaidInv

LEMMA ReadFailsKeeps == ASSUME RaidInv, NEW s \in Slots, NEW b \in Blocks, ReadFails(s, b) PROVE RaidInv'
<1>1. left' \in [Events -> Nat] /\ left'["write"] <= Budget["write"]
  BY HappensTyped DEF ReadFails, Events, RaidInv, TypeInv
<1> DEFINE cur == [ram.cur EXCEPT ![s] = "FAILED"]
           failed == [ram EXCEPT !.cur = cur]
           degraded == [ram.queue EXCEPT ![0] = "DEGRADED"]
           lost == [ram.queue EXCEPT ![0] = IF @ = "GOOD" THEN "DEGRADED" ELSE "DATA_LOST"]
           copies == [failed EXCEPT !.queue = degraded, !.instCnt = @ + 1, !.mirror = TRUE,
                                    !.src = Across(s), !.inst = TRUE, !.lba = b, !.busy = TRUE]
           gives == [failed EXCEPT !.queue = lost, !.src = Across(s)]
<1>2. cur \in [Slots -> SlotStatus] /\ degraded \in [Slots -> ArrayStatus] /\ lost \in [Slots -> ArrayStatus]
  BY StatusIs DEF RaidInv, TypeInv, RamInv, RamType
<1>3. Rested(ram) /\ ~ram.reenum /\ Whole(ram) /\ ram.bay = bay
  BY RestedIs DEF ReadFails, RaidInv, TypeInv, DriveInv, Offered, Serving, Idle
<1>4. Across(s) \in Slots /\ b \in Int
  BY Constants DEF Across, Slots, Blocks
<1>5. ram' = copies \/ ram' = update_raid1_read_use_slot(gives)
  BY <1>3 DEF ReadFails, Rested, RamType
<1> HIDE DEF cur, degraded, lost
<1>6. Rested(failed) /\ failed.reenum = ram.reenum /\ failed.bay = ram.bay
  BY <1>2, <1>3 DEF Rested, RamType
<1> HIDE DEF failed
<1>7. Rested(gives) /\ gives.bay = ram.bay
  BY <1>2, <1>4, <1>6 DEF Rested, RamType
<1>8. RamInv(copies) /\ copies.bay = ram.bay
  <2>1. failed.instCnt + 1 \in Nat
    BY <1>6 DEF Rested, RamType
  <2> QED BY <1>2, <1>3, <1>4, <1>6, <2>1 DEF Rested, RamType, RamInv
<1> HIDE DEF copies, gives
<1>9. RamInv(ram') /\ ram'.bay = ram.bay
  BY <1>5, <1>7, <1>8, ReadSlotRests, ReadSlotSame, RestedIs DEF Same
<1>10. Typed' /\ cmd' = NoCmd /\ bay' = bay
  BY <1>1 DEF ReadFails, RaidInv, TypeInv, Typed, media
<1>11. DriveInv'
  BY <1>3, <1>9, <1>10, SteadyDrives
<1> QED BY <1>9, <1>10, <1>11 DEF RaidInv, TypeInv

LEMMA RebuildCommandKeeps == ASSUME RaidInv, RebuildCommand PROVE RaidInv'
<1>1. left' \in [Events -> Nat] /\ left'["write"] <= Budget["write"]
  BY HappensTyped DEF RebuildCommand, Events, RaidInv, TypeInv
<1> DEFINE g == ram.use
           a == StartRebuild(ram, g, 0)
           queue == [a.queue EXCEPT ![0] = "REBUILDING"]
           pair == Pair(g, "REBUILDING")
           begun == [a EXCEPT !.queue = queue, !.cur = pair]
           b == update_slots_for_rebuilding(begun, g)
           c == SetCheckPoint(b, Step)
           d == store_slots(c)
<1>2. Rested(ram) /\ g \in Slots /\ Whole(ram) /\ ram.bay = bay
  <2>1. Rested(ram)
    BY RestedIs DEF RebuildCommand, RaidInv, TypeInv
  <2>2. Whole(ram) /\ ram.bay = bay
    BY DEF RebuildCommand, RaidInv, DriveInv, Offered, Serving, Idle
  <2> QED BY <2>1, <2>2 DEF Rested, RamType
<1>3. Rested(a) /\ a.bay = ram.bay
  <2>1. Rested(a)
    BY <1>2, StartRests, Constants
  <2> QED BY <1>2, <2>1 DEF StartRebuild, Rested, RamType
<1>4. ram' = update_raid1_read_use_slot(d)
  BY <1>3 DEF RebuildCommand, Rested, RamType
<1>5. queue \in [Slots -> ArrayStatus] /\ pair \in [Slots -> SlotStatus]
  BY <1>2, <1>3, StatusIs, PairIs DEF Rested, RamType
<1> HIDE DEF a, queue, pair
<1>6. Rested(begun) /\ Whole(begun) /\ begun.bay = ram.bay
  <2>1. Rested(begun) /\ begun.bay = ram.bay
    BY <1>3, <1>5 DEF Rested, RamType
  <2> HIDE DEF begun
  <2> QED BY <1>2, <2>1 DEF Whole, Ready
<1> HIDE DEF begun, g
<1>7. Rested(b) /\ b.bay = ram.bay
  BY <1>2, <1>6, WholeSane, RebuildingSane DEF Sane
<1> HIDE DEF b
<1>8. Rested(c) /\ c.bay = ram.bay
  BY <1>7, SetCheckPointRests, SetCheckPointSame, Constants DEF Same
<1> HIDE DEF c
<1>9. Rested(d) /\ d.bay = ram.bay
  BY <1>8, StoreSlotsRests, StoreSlotsSame DEF Same
<1> HIDE DEF d
<1>10. Rested(ram') /\ ram'.bay = ram.bay
  BY <1>4, <1>9, ReadSlotRests, ReadSlotSame DEF Same
<1>11. Typed' /\ cmd' = NoCmd /\ bay' = bay
  BY <1>1 DEF RebuildCommand, RaidInv, TypeInv, Typed, media
<1>12. DriveInv'
  BY <1>2, <1>10, <1>11, SteadyDrives
<1> QED BY <1>10, <1>11, <1>12, RestedIs DEF RaidInv, TypeInv

LEMMA InitiateKeeps == ASSUME RaidInv, initiate_rb_IO PROVE RaidInv'
<1>1. /\ ram.pos \in Int /\ ram \in RamType /\ ram.mirror /\ ~ram.busy /\ ~ram.reenum
      /\ Whole(ram) /\ ram.bay = bay
  BY DEF initiate_rb_IO, RebuildMayStart, Idle, RaidInv, TypeInv, RamInv, RamType, DriveInv
<1>2. RamInv(ram') /\ cmd' = NoCmd /\ ram'.bay = ram.bay /\ bay' = bay
  BY <1>1 DEF initiate_rb_IO, RebuildMayStart, RaidInv, TypeInv, RamInv, RamType, media
<1>3. DriveInv'
  BY <1>1, <1>2, SteadyDrives
<1> QED BY <1>2, <1>3 DEF initiate_rb_IO, RaidInv, TypeInv, Typed, media

LEMMA RebuildDoneKept == ASSUME NEW r, Rested(r), Whole(r) PROVE Kept(RebuildDone(r), r)
<1> DEFINE good == [s \in Slots |-> "GOOD"]
           pages == [s \in Slots |-> [r.rp[s] EXCEPT !.gen = r.rp[r.src].gen, !.status = good]]
           queue == [r.queue EXCEPT ![0] = "GOOD"]
           q == [r EXCEPT !.mirror = FALSE, !.cur = good, !.queue = queue, !.rp = pages, !.num = 1]
           r1 == append_array_status(q, "GOOD")
           c == SetCheckPoint(r1, 0)
           d == [c EXCEPT !.need = Slots]
<1>1. good \in [Slots -> SlotStatus]
  BY StatusIs
<1>2. pages \in [Slots -> Sound]
  <2>1. r.rp[r.src].gen \in Nat /\ r.rp \in [Slots -> Sound]
    BY DEF Rested, RamType, Sound, Page
  <2> HIDE DEF good
  <2>2. ASSUME NEW s \in Slots PROVE pages[s] \in Sound
    BY <1>1, <2>1 DEF Sound, Page, Valid
  <2> QED BY <2>2
<1>3. queue \in [Slots -> ArrayStatus]
  BY StatusIs DEF Rested, RamType
<1>4. q = [r EXCEPT !.mirror = FALSE, !.cur = good, !.queue[0] = "GOOD", !.rp = pages, !.num = 1]
  BY DEF Rested, RamType
<1> HIDE DEF good, pages, queue
<1>5. Rested(q) /\ q.bay = r.bay
  <2>1. 1 \in 0..2
    OBVIOUS
  <2> QED BY <1>1, <1>2, <1>3, <2>1 DEF Rested, RamType
<1> HIDE DEF q
<1>6. Rested(r1) /\ r1.bay = r.bay
  BY <1>5, AppendRests, AppendSame, StatusIs DEF Same
<1> HIDE DEF r1
<1>7. Rested(c) /\ c.bay = r.bay
  BY <1>6, SetCheckPointRests, SetCheckPointSame DEF Same
<1> HIDE DEF c
<1>8. Rested(d) /\ d.bay = r.bay
  BY <1>7 DEF Rested, RamType
<1> HIDE DEF d
<1>9. Rested(store_slots(d)) /\ store_slots(d).bay = r.bay
  BY <1>8, StoreSlotsRests, StoreSlotsSame DEF Same
<1>10. RebuildDone(r) = store_slots(d)
  BY <1>4 DEF RebuildDone, d, c, r1, good, pages
<1> QED BY <1>9, <1>10 DEF Kept, Whole, Ready

LEMMA BlockDoneKept == ASSUME NEW r0, Rested(r0), Whole(r0) PROVE Kept(BlockDone(r0), r0)
<1> DEFINE r == [r0 EXCEPT !.pos = @ + 1, !.retry = 0]
           cp == [s \in Slots |-> r.cp[s] + Step]
           q == [r EXCEPT !.cp = cp]
<1>1. Rested(r) /\ r.bay = r0.bay
  <2>1. r0.pos + 1 \in {p \in Int : p >= -Step}
    BY Constants DEF Rested, RamType
  <2>2. 0 \in 0..MaxRetry /\ 0 < MaxRetry
    BY Constants
  <2> QED BY <2>1, <2>2 DEF Rested, RamType
<1> HIDE DEF r
<1>2. Whole(r)
  BY <1>1 DEF Whole, Ready
<1>3. cp \in [Slots -> Nat]
  <2>1. r.cp \in [Slots -> Nat]
    BY <1>1 DEF Rested, RamType
  <2> QED BY <2>1, Constants
<1>4. q = [r EXCEPT !.cp = [s \in Slots |-> @[s] + Step]]
  OBVIOUS
<1> HIDE DEF cp
<1>5. Rested(q) /\ q.bay = r0.bay
  BY <1>1, <1>3 DEF Rested, RamType
<1> HIDE DEF q
<1>6. Rested(WriteOthers(q)) /\ WriteOthers(q).bay = r0.bay
  BY <1>5, WriteOthersRests, WriteOthersSame DEF Same
<1>7. Kept(RebuildDone(r), r)
  BY <1>1, <1>2, RebuildDoneKept
<1>8. BlockDone(r0) \in {RebuildDone(r), WriteOthers(q), r}
  BY <1>4 DEF BlockDone, r
<1> QED BY <1>1, <1>2, <1>6, <1>7, <1>8 DEF Kept, Whole, Ready

\* A rebuild is given up at the last retry.
LEMMA StopsKept ==
  ASSUME NEW r, r \in RamType, ~r.busy, Whole(r) PROVE Kept(RebuildStops(r), r)
<1> DEFINE failed == {s \in Slots : r.cur[s] = "FAILED"}
           f == IF 0 \in failed THEN 0 ELSE 1
           r1 == [r EXCEPT !.mirror = FALSE]
           q == update_slots_for_failed(r1, Across(f), f)
           r2 == [q EXCEPT !.num = 0]
           u == update_raid1_read_use_slot(store_slots(set_raid1_array_status(r2, r2.cur)))
<1>1. Rested(r1) /\ r1.bay = r.bay
  BY DEF Rested, RamType
<1> HIDE DEF r1
<1>2. f \in Slots /\ Across(f) \in Slots
  BY DEF Across, Slots
<1> HIDE DEF f
<1>3. Whole(r1)
  BY <1>1 DEF Whole, Ready
<1>4. Rested(q) /\ q.bay = r.bay
  BY <1>1, <1>2, <1>3, FailedKept DEF Kept
<1> HIDE DEF q
<1>5. Rested(r2) /\ r2.bay = r.bay
  <2>1. 0 \in 0..2
    OBVIOUS
  <2> QED BY <1>4, <2>1 DEF Rested, RamType
<1> HIDE DEF r2
<1>6. Kept(u, r2)
  <2>1. Whole(r2)
    BY <1>5 DEF Whole, Ready
  <2> QED BY <1>5, <2>1, SettledKept
<1>7. RebuildStops(r) = u \/ RebuildStops(r) = r1 \/ (RebuildStops(r) = r /\ r.retry < MaxRetry)
  BY DEF RebuildStops, u, r2, q, f, r1
<1> HIDE DEF u
<1> QED BY <1>1, <1>3, <1>5, <1>6, <1>7 DEF Kept, Rested

LEMMA BlockFailedKept ==
  ASSUME NEW r, Rested(r), Whole(r), r.mirror, NEW bothDone PROVE Kept(BlockFailed(r, bothDone), r)
<1> DEFINE again == r.errAt = r.pos
           r1 == IF again THEN [r EXCEPT !.retry = @ + 1] ELSE [r EXCEPT !.errAt = r.pos]
           cur == [r1.cur EXCEPT ![Across(r.src)] = "FAILED"]
           q == [r1 EXCEPT !.cur = cur]
<1>1. r1 \in RamType /\ ~r1.busy /\ r1.bay = r.bay
  <2>1. r.retry + 1 \in 0..MaxRetry /\ r.pos \in Int
    BY Constants DEF Rested, RamType
  <2> QED BY <2>1 DEF Rested, RamType
<1> HIDE DEF r1
<1>2. cur \in [Slots -> SlotStatus]
  BY <1>1, StatusIs DEF RamType
<1>3. q = [r1 EXCEPT !.cur[Across(r.src)] = "FAILED"]
  OBVIOUS
<1> HIDE DEF cur
<1>4. q \in RamType /\ ~q.busy /\ q.bay = r.bay
  BY <1>1, <1>2 DEF RamType
<1> HIDE DEF q
<1>5. Kept(RebuildStops(r1), r1) /\ Kept(RebuildStops(q), q)
  <2>1. Whole(r1) /\ Whole(q)
    BY <1>1, <1>4 DEF Whole, Ready
  <2> QED BY <1>1, <1>4, <2>1, StopsKept
<1>6. BlockFailed(r, bothDone) = RebuildStops(q) \/ BlockFailed(r, bothDone) = RebuildStops(r1)
  BY <1>3 DEF BlockFailed, r1
<1> QED BY <1>1, <1>4, <1>5, <1>6 DEF Kept

LEMMA InstantDoneKept ==
  ASSUME NEW r, r \in RamType, ~r.busy, Whole(r), NEW ok PROVE Kept(InstantDone(r, ok), r)
<1> DEFINE r1 == [r EXCEPT !.inst = FALSE, !.mirror = FALSE]
           queue == [r1.queue EXCEPT ![0] = "GOOD"]
           good == [s \in Slots |-> "GOOD"]
           q == [r1 EXCEPT !.queue = queue, !.cur = good]
           a == update_slots_for_failed(r1, 1, 0)
           b == update_slots_for_failed(r1, 0, 1)
<1>1. Rested(r1) /\ r1.bay = r.bay
  BY DEF Rested, RamType
<1> HIDE DEF r1
<1>2. Whole(r1)
  BY <1>1 DEF Whole, Ready
<1>3. queue \in [Slots -> ArrayStatus] /\ good \in [Slots -> SlotStatus]
  BY <1>1, StatusIs DEF Rested, RamType
<1>4. q = [r1 EXCEPT !.queue[0] = "GOOD", !.cur = good]
  OBVIOUS
<1> HIDE DEF queue, good
<1>5. Rested(q) /\ q.bay = r.bay
  BY <1>1, <1>3 DEF Rested, RamType
<1> HIDE DEF q
<1>6. Kept(a, r1) /\ Kept(b, r1)
  BY <1>1, <1>2, FailedKept DEF Slots
<1> HIDE DEF a, b
<1>7. /\ Rested(store_slots(a)) /\ store_slots(a).bay = r.bay
      /\ Rested(store_slots(b)) /\ store_slots(b).bay = r.bay
  BY <1>1, <1>6, StoreSlotsRests, StoreSlotsSame DEF Same, Kept
<1>8. \/ InstantDone(r, ok) = q
      \/ InstantDone(r, ok) = store_slots(a)
      \/ InstantDone(r, ok) = store_slots(b)
  BY <1>4 DEF InstantDone, r1, good, a, b
<1> QED BY <1>5, <1>7, <1>8 DEF Kept, Whole, Ready

\* The block is copied from a drive to a drive: both bays are as the
\* firmware saw them when it began.
LEMMA ChkRbDoneKeeps == ASSUME RaidInv, chk_rb_done PROVE RaidInv'
<1> DEFINE r == [ram EXCEPT !.busy = FALSE]
<1>1. /\ r \in RamType /\ ~r.busy /\ r.mirror /\ (~r.inst => r.retry < MaxRetry)
      /\ r.src = ram.src /\ r.inst = ram.inst /\ r.bay = ram.bay
  BY DEF chk_rb_done, RaidInv, TypeInv, RamInv, RamType
<1>2. Whole(ram) /\ ram.bay = bay /\ cmd = NoCmd /\ ram.src \in Slots
  BY DEF chk_rb_done, Idle, RaidInv, TypeInv, RamInv, RamType, DriveInv
<1> HIDE DEF r
<1>3. CopyDone(r) \/ CopyFails(r) \/ CopyTimesOut(r)
  BY DEF chk_rb_done, r
<1>4. Whole(r)
  BY <1>1, <1>2 DEF Whole, Ready
<1>5. \A ok : Kept(InstantDone(r, ok), r)
  BY <1>1, <1>4, InstantDoneKept
<1>6. ~r.inst => Rested(r)
  BY <1>1 DEF Rested
<1>7. Kept(ram', r)
  <2>1. r.inst => Kept(ram', r)
    BY <1>3, <1>5 DEF CopyDone, CopyFails, CopyTimesOut
  <2>2. ~r.inst => Kept(ram', r)
    BY <1>1, <1>3, <1>4, <1>6, BlockDoneKept, BlockFailedKept DEF CopyDone, CopyFails, CopyTimesOut, Kept
  <2> QED BY <2>1, <2>2
<1>8. left' \in [Events -> Nat] /\ left'["write"] <= Budget["write"]
  <2>1. left' = left \/ Happens("fail") \/ Happens("timeout")
    BY <1>3 DEF CopyDone, CopyFails, CopyTimesOut
  <2>2. "fail" \in Events /\ "timeout" \in Events
    BY DEF Events
  <2> QED BY <2>1, <2>2, HappensTyped DEF RaidInv, TypeInv, Typed
<1>9. data' \in [Drives -> [Blocks -> Nat]]
  <2>1. data \in [Drives -> [Blocks -> Nat]] /\ bay \in Bays
    BY DEF RaidInv, TypeInv, Typed
  <2>2. CASE CopyDone(r)
    <3> DEFINE t == bay[Across(ram.src)]
               v == data[bay[ram.src]][ram.lba]
    <3>1. data' = [data EXCEPT ![t][ram.lba] = v]
      BY <2>2 DEF CopyDone
    <3>2. v \in Nat
      <4>1. bay[ram.src] \in Drives
        BY <1>2, <2>1 DEF Whole, Ready, Bays
      <4>2. ram.lba \in Blocks
        BY <2>2 DEF CopyDone
      <4> QED BY <2>1, <4>1, <4>2
    <3> HIDE DEF t, v
    <3> QED BY <2>1, <3>1, <3>2, EntryTyped
  <2>3. CASE ~CopyDone(r)
    BY <1>3, <2>1, <2>3 DEF CopyFails, CopyTimesOut
  <2> QED BY <2>2, <2>3
<1>10. UNCHANGED <<bay, flash, other, acked, gpio, asked, cmd, on>>
  BY DEF chk_rb_done
<1>11. Typed'
  BY <1>8, <1>9, <1>10 DEF RaidInv, TypeInv, Typed
<1>12. DriveInv'
  BY <1>1, <1>2, <1>7, <1>10, SteadyDrives DEF Kept
<1> QED BY <1>7, <1>11, <1>12, RestedIs DEF RaidInv, TypeInv, Kept

----------------------------------------------------------------------------
LEMMA NextKeeps == ASSUME RaidInv, [Next]_vars PROVE RaidInv'
<1>1. ASSUME UNCHANGED vars PROVE RaidInv'
  <2>1. Typed'
    BY <1>1 DEF vars, RaidInv, TypeInv, Typed
  <2>2. DriveInv'
    BY <1>1, QuietDrives DEF vars, RaidInv
  <2> QED BY <1>1, <2>1, <2>2 DEF vars, RaidInv, TypeInv
<1>2. ASSUME Firmware PROVE RaidInv'
  BY <1>2, PowerOnKeeps, ReEnumerateKeeps, IoStepKeeps, WriteDoneKeeps, InitiateKeeps, ChkRbDoneKeeps, DiskWriteKeeps
     DEF Firmware, usb_chk
<1> QED BY <1>1, <1>2, PowerCutKeeps, ChangeDrivesKeeps, HotPlugKeeps, MoveSwitchKeeps, ConfigButtonKeeps,
           HostWriteKeeps, ReadFailsKeeps, RebuildCommandKeeps DEF Next

THEOREM RaidInvHolds == Spec => []RaidInv
BY InitTyped, NextKeeps, PTL DEF Spec

LEMMA RaidInvTypes == RaidInv => TypeOK
<1> SUFFICES ASSUME RaidInv PROVE TypeOK
  OBVIOUS
<1>1. ram \in RamType /\ Typed
  BY DEF RaidInv, TypeInv, RamInv
<1>2. ram.rp \in [Slots -> Page]
  BY <1>1 DEF RamType, Sound
<1> QED BY <1>1, <1>2 DEF RamType, Typed, TypeOK, Bays, Pages

THEOREM TypeCorrect == Spec => []TypeOK
BY RaidInvHolds, RaidInvTypes, PTL

\* config_disk_arrays and the bays: a mirror offered to the host, and a rebuild
\* under way, have a drive in both bays.
THEOREM TwoDrivesHold == Spec => []TwoDrives
<1>1. RaidInv => TwoDrives
  <2> SUFFICES ASSUME RaidInv, Idle, ram.mirror \/ (ram.mode = "RAID1" /\ Serving(0))
               PROVE \A s \in Slots : bay[s] # NoDrive
    BY DEF TwoDrives
  <2>1. ram.bay = bay
    BY DEF RaidInv, DriveInv, Idle
  <2>2. Whole(ram)
    BY DEF RaidInv, DriveInv, Offered, Serving, Idle
  <2> QED BY <2>1, <2>2 DEF Whole, Ready
<1> QED BY <1>1, RaidInvHolds, PTL
=============================================================================
