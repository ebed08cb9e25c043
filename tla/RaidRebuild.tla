---------------------------- MODULE RaidRebuild ----------------------------
(***************************************************************************)
(* The data of the mirror: what holds in every state so that no rebuild    *)
(* skips a block (NothingSkipped).  A rebuild skips blocks long after the  *)
(* mistake: the pages and check points that let it resume too far were     *)
(* stored before a power cut, some of them for another drive.  So SkipInv  *)
(* asks of the media, in each state the writes already ordered lead to,    *)
(* that whatever could be resumed from them may be.                        *)
(***************************************************************************)
EXTENDS RaidInvariant

----------------------------------------------------------------------------
(* The media, and the writes that a function of raid.c has ordered. *)

\* What a power cut leaves, with the drives in the bays.
Media == [bay |-> bay, flash |-> flash, other |-> other, data |-> data, acked |-> acked]

\* One of the writes carried out.
Apply(m, o) ==
  CASE o.op \in {"store", "prog"} -> [m EXCEPT !.flash[o.at] = o.page]
    [] o.op = "other" -> [m EXCEPT !.other[m.bay[o.at]][o.copy] = o.cp]
    [] o.op = "mbr" -> [m EXCEPT !.data[m.bay[o.at]][0] = 0, !.acked = [b \in Blocks |-> 0]]

\* The media after the first k writes ordered, and after the last one.
Trace(m, io) == LET M[k \in 0..Len(io)] == IF k = 0 THEN m ELSE Apply(M[k - 1], io[k]) IN M
Last(m, io) == Trace(m, io)[Len(io)]

----------------------------------------------------------------------------
(* When a rebuild may be resumed. *)

\* The pages F are of the two members of one mirror.
Mates(F) == F[0].id = F[1].id /\ \A s \in Slots : Owned(F[s]) /\ F[s].mode = "RAID1"

\* raid1_resume_rebuild takes such pages for those of an interrupted rebuild
\* from slot g to the other one.
Resumes(F, g) ==
  /\ Mates(F) /\ F[g].status[g] = "GOOD" /\ F[Across(g)].status[Across(g)] = "REBUILDING"
  /\ F[0].gen = F[1].gen

\* Below n, drive t has what the host was told is written and drive g has.
Sync(m, g, t, n) ==
  \A b \in Blocks : b < n /\ m.data[g][b] <= m.acked[b] => m.data[t][b] >= m.data[g][b]

\* The check point of t, of slot 0, is at least that of g, of slot 1: both are
\* written in this order, and one torn copy of t's is not the last one.
Covers(m, g, t) ==
  /\ \E c \in 1..2 : m.other[t][c] # Bad
  /\ \A c \in 1..2 : m.other[t][c] # Bad =>
       m.other[t][c] >= Step /\ \A e \in 1..2 : m.other[g][e] <= m.other[t][c]

\* Each page is that of its own slot, which is not missing from it.
Stated(F) == \A s \in Slots : Owned(F[s]) => F[s].disk_num = s /\ F[s].status[s] \in {"GOOD", "REBUILDING", "FAILED"}

\* The page of the target of a rebuild is not newer than the source's.
Behind(F) == \A g \in Slots : Mates(F) /\ F[Across(g)].status[Across(g)] = "REBUILDING" => F[Across(g)].gen <= F[g].gen

\* A rebuild from slot g that is resumed from these media skips nothing: what
\* lies below the check point of its source is copied, and when the check
\* point of slot 0 is the target's, it is not behind.
Resumable(m, g) ==
  LET source == Owner(m.flash[g])
      target == Owner(m.flash[Across(g)])
  IN  /\ m.flash[g].status[Across(g)] # "MISSING"
      /\ \A c \in 1..2 : Sync(m, source, target, m.other[source][c] - Step)
      /\ g = 1 => Sync(m, source, target, Size) \/ Covers(m, source, target)

Good(m) == Stated(m.flash) /\ Behind(m.flash) /\ \A g \in Slots : Resumes(m.flash, g) => Resumable(m, g)

\* The media are good now and after each of the writes ordered.
Safe(m, io) == \A k \in 0..Len(io) : Good(Trace(m, io)[k])

----------------------------------------------------------------------------
(* What the firmware knows in RAM, against media n in which every write it *)
(* ordered is carried out.                                                 *)

\* The pages in RAM are about the drives in both bays.
Both(r) == \A s \in Slots : Ready(r, s) /\ Owner(r.rp[s]) = r.bay[s]

\* A page about the drive in the bay is the one stored.
PagesStored(r, n) ==
  \A s \in Slots : Ready(r, s) /\ (Owner(r.rp[s]) = r.bay[s] \/ Owner(n.flash[s]) = r.bay[s]) => r.rp[s] = n.flash[s]

\* Not set to a mirror, the firmware serves no drive of one that can resume.
NotServed(r, n) ==
  r.mode # "RAID1" /\ (\E g \in Slots : Resumes(n.flash, g)) => \A l \in 0..r.num-1 : r.queue[l] \in {"BROKEN", "NOT_CONFIGURED"}

\* A rebuild has copied what lies below rebuildLBA.  From slot 1, the check
\* point of slot 0, at which the next ones are saved, is not behind.
Copies(r, n) ==
  r.mirror /\ ~r.inst =>
    LET source == r.bay[r.src]
        target == r.bay[Across(r.src)]
    IN /\ r.queue[0] = "REBUILDING"
       /\ r.rp[r.src].status[r.src] = "GOOD"
       /\ r.busy => r.lba = r.pos
       /\ Sync(n, source, target, r.pos)
       /\ r.src = 1 => \/ Sync(n, source, target, Size)
                       \/ r.cp[1] <= r.cp[0] /\ \A e \in 1..2 : n.other[source][e] <= r.cp[0]

\* A mirror that is whole rebuilds none of its slots.
Whole1(r) == r.queue[0] = "GOOD" \/ (r.mirror /\ r.inst) => \A s \in Slots : r.rp[s].status[s] # "REBUILDING"

\* The pages in RAM are about the drives there.
Fitted(r) == \A s \in Slots : Owned(r.rp[s]) => Owner(r.rp[s]) = r.bay[s]

\* A page without its partner is not that of a drive being rebuilt.
Lonely(r) == \A s \in Slots : Owned(r.rp[s]) /\ ~Owned(r.rp[Across(s)]) => r.rp[s].status[s] # "REBUILDING"

\* The drives of a mirror that runs are of one array, and a degraded one is
\* served by a drive that is whole.
OneArray(r) ==
  Mirrors(r) =>
    /\ Fitted(r)
    /\ r.inst => r.busy
    /\ r.queue[0] \in {"DATA_LOST", "BROKEN"} => Lonely(r)
    /\ Both(r) => r.rp[0].id = r.rp[1].id
    /\ r.ms \in {"GOOD", "STH_NOT_VALID"}
    /\ Whole1(r)
    /\ r.queue[0] = "DEGRADED" => /\ r.rp[r.use].status[r.use] # "REBUILDING"
                                  /\ Both(r) => ~Resumes(r.rp, r.use)
    /\ AutoRebuild /\ r.queue[0] \in {"DEGRADED", "DATA_LOST", "BROKEN"} => Both(r)

RamGood(r, n) == PagesStored(r, n) /\ NotServed(r, n) /\ Copies(r, n) /\ OneArray(r)

----------------------------------------------------------------------------
(* A write of the host. *)

\* The version of the last write that has ended.
Now == (IF cmd = NoCmd THEN 1 ELSE 0) + Budget["write"] - left["write"]

\* Only the block of the write in execution is newer than the last that ended.
\* A mirror sends it to both drives; other drives are not in a rebuild.
CmdInv ==
  /\ \A b \in Blocks : acked[b] <= Now /\ \A d \in Drives : data[d][b] <= Now \/ (cmd # NoCmd /\ b = cmd.at /\ data[d][b] = cmd.ver)
  /\ cmd # NoCmd =>
       /\ Idle /\ cmd.ver = Now + 1 /\ ~ram.busy
       /\ \A s \in Slots : cmd.disk[s] # "none" => bay[s] # NoDrive
       /\ \A s \in Slots : cmd.disk[s] = "ok" => data[bay[s]][cmd.at] = cmd.ver
       /\ ram.mode = "RAID1" => \A s \in Slots : cmd.disk[s] # "none"
       /\ ram.mode # "RAID1" => ~\E g \in Slots : Resumes(flash, g)

----------------------------------------------------------------------------
(* The two copies of a check point. *)

\* Where the other copy of a check point is written, before it or after it.
Partner(io, k) == IF io[k].copy = 1 THEN k + 1 ELSE k - 1

\* The two copies of a check point are written one after the other.
Paired(io) ==
  \A k \in 1..Len(io) : io[k].op = "other" =>
    LET j == Partner(io, k)
    IN  j \in 1..Len(io) /\ io[j].op = "other" /\ io[j].at = io[k].at /\ io[j].copy # io[k].copy

\* The first copy is written, and the second one is the next write.
Between(s) == ram.io # << >> /\ LET o == Head(ram.io) IN o.op = "other" /\ o.copy = 2 /\ o.at = s

PairInv ==
  \/ Paired(ram.io)
  \/ /\ Paired(Tail(ram.io))
     /\ \E s \in Slots : Between(s) /\ (bay[s] \in Drives => other[bay[s]][1] # Bad)

\* Until the first power cut both copies of a check point can be read, or
\* neither, or the second one is the next write.
EvenInv ==
  /\ left["cut"] <= Budget["cut"]
  /\ left["cut"] = Budget["cut"] =>
       \A d \in Drives : \/ (other[d][1] = Bad <=> other[d][2] = Bad)
                         \/ other[d][1] # Bad /\ \E s \in Slots : Between(s) /\ bay[s] = d

----------------------------------------------------------------------------
(* The invariant, and what it rests on. *)

SkipInv ==
  /\ Safe(Media, ram.io) /\ PairInv
  /\ on /\ ~ram.reenum => RamGood(ram, Last(Media, ram.io))
  /\ CmdInv

\* A write that a mirror executes finds pages of both of its drives in the
\* flash.  Without automatic rebuild it need not: raid1_degraded (raid.c:894)
\* stores no page for a new drive beside a good member.
WritesPaged == cmd # NoCmd /\ ram.mode = "RAID1" => \A s \in Slots : Owner(flash[s]) = bay[s]

\* No power cut tears the last readable copy of a check point, which
\* load_other_parms (raid.c:1501) does not restore from the other one.
LastCopyKept == \A d \in Drives : (\E c \in 1..2 : other[d][c] # Bad) => \E c \in 1..2 : other'[d][c] # Bad

\* With one power cut, at most, whatever the media and the writes ordered let
\* a later start resume skips no block that the host was told is written.  The
\* order in which the check points of the two drives are written matters: it
\* is raid1_resume_rebuild (raid.c:945) that reads them, and
\* raid_rebuild (raid.c:3556) that advances both when it passes the first.
SkipInvOneCut == Budget["cut"] - left["cut"] <= 1 => SkipInv
=============================================================================
