--------------------------- MODULE RaidInvariant ---------------------------
(***************************************************************************)
(* What the RAID parameter pages say in every state of the mirror, when no *)
(* drive is moved from one bay to the other: what WipeAsked rests on.      *)
(***************************************************************************)
EXTENDS RaidArray

\* Each drive has one bay.
FixedBays ==
  /\ \A s \in Slots : s \in Fits[Own[s]]
  /\ \A d \in Drives : \A s, t \in Fits[d] : s = t

\* The drives are in bays of theirs.
Fit(b) == \A s \in Slots : b[s] # NoDrive => s \in Fits[b[s]]

Owned(p) == Owner(p) # NoDrive

\* A page about a drive, at the place of the pages of slot i: the page of a
\* member of a mirror of two drives, or of a single drive that is good.
Apt(p, i) ==
  Owned(p) => /\ i \in Fits[Owner(p)]
              /\ p.mode \in {"RAID1", "JBOD"}
              /\ p.mode = "JBOD" => p.status[p.disk_num] = "GOOD"
              /\ p.mode = "RAID1" => \A s \in Slots : p.id[s] # NoDrive

\* The page in RAM of slot s is about the drive there, a member of a mirror.
Belongs(r, s) == Ready(r, s) /\ Owner(r.rp[s]) = r.bay[s] /\ r.rp[s].mode = "RAID1"

\* The firmware runs a mirror.
Mirrors(r) == ~r.reenum /\ r.mode = "RAID1" /\ r.queue[0] # "NOT_CONFIGURED"

\* What a mirror that runs is made of: the slots it copies, reads or writes
\* with a good status belong to it.
MirrorPages(r) ==
  /\ r.mirror => Mirrors(r) /\ \A s \in Slots : Belongs(r, s)
  /\ ~r.reenum /\ r.mode = "RAID1" => Mirrors(r) \/ r.num <= 1
  /\ Mirrors(r) =>
       /\ \A s \in Slots : r.rp[s].mode # "JBOD"
       /\ \A s \in Slots : r.cur[s] \in {"GOOD", "REBUILDING"} => Belongs(r, s)
       /\ r.queue[0] \in {"GOOD", "REBUILDING"} => \A s \in Slots : Belongs(r, s)
       /\ r.queue[0] = "DEGRADED" => Belongs(r, r.use)

\* The pages in RAM, and what the firmware runs with them.
AptPages(r) ==
  /\ Fit(r.bay) /\ r.map = [s \in Slots |-> s]
  /\ \A s \in Slots : Apt(r.nvm[s], s) /\ Apt(r.rp[s], s)
RamPages(r) == AptPages(r) /\ MirrorPages(r)

Places(io) == 1..Len(io)

\* The writes ordered: the sectors to clean, then the pages to store, with
\* the sector being programmed before all of them.
IoInv(io) ==
  \A k \in Places(io) :
    /\ io[k].op = "mbr" => \A j \in 1..k - 1 : io[j].op \notin {"store", "prog"}
    /\ io[k].op = "store" => Valid(io[k].page) /\ Apt(io[k].page, io[k].at)
    /\ io[k].op = "prog" => /\ Apt(io[k].page, io[k].at) /\ flash[io[k].at] = Torn
                            /\ \A j \in 1..k - 1 : io[j].op = "prog" /\ io[j].at # io[k].at

\* The pages ordered together are all of one mode, that of the mirror when one
\* runs; and the sector being programmed holds one of them.
BatchInv(io) ==
  \E m \in {"RAID1", "JBOD"} :
    LET batch == {m, "NOT_CONFIGURED"}
    IN  /\ \A k \in Places(io) : io[k].op = "store" => io[k].page.mode \in batch
        /\ Mirrors(ram) => m = "RAID1"
        /\ (\E k \in Places(io) : io[k].op = "prog") =>
              \/ \E i \in Slots : flash[i].mode \in batch
              \/ \E k \in Places(io) : io[k].op = "prog" /\ io[k].page.mode \in batch

\* Unless the user asked for another mode, all pages about drives are of the
\* mode of the switch, and no sector of a good member is about to be cleaned.
AskedInv(io) ==
  ~asked => /\ \A i \in Slots : Owned(flash[i]) => flash[i].mode = gpio
            /\ \A k \in Places(io) : io[k].op \in {"store", "prog"} /\ Owned(io[k].page) => io[k].page.mode = gpio
            /\ \A k \in Places(io) : io[k].op = "mbr" => bay[io[k].at] \notin Members \/ Conflict
            /\ Mirrors(ram) => gpio = "RAID1"

\* A page in RAM that was read from the flash is still there, or in the sector
\* being programmed.
NvmInv(io) ==
  \A i \in Slots : Owned(ram.nvm[i]) =>
    \/ Valid(flash[i])
    \/ \E k \in Places(io) : io[k].op = "prog" /\ io[k].at = i /\ Valid(io[k].page)

\* The inductive invariant of the pages, in every state between two writes of
\* the flash: a page is about a drive of its own bay, the pages raid.c orders
\* together are of one mode, a mirror that runs is made of the pages of its own
\* drives, and what was not asked for is neither stored nor cleaned.
PagesInv ==
  /\ Fit(bay) /\ \A i \in Slots : Apt(flash[i], i)
  /\ ~on => ram = InitRam
  /\ cmd # NoCmd => ram.io = << >> /\ (ram.mode = "RAID1" => Mirrors(ram))
  /\ RamPages(ram)
  /\ IoInv(ram.io) /\ BatchInv(ram.io) /\ AskedInv(ram.io) /\ NvmInv(ram.io)
=============================================================================
