-------------------------- MODULE RaidPageProofs --------------------------
(***************************************************************************)
(* The pages of RAID parameters name the drives they are stored for, for   *)
(* every set of drives, array size, retry limit and budget, when no drive  *)
(* is moved from one bay to the other; and no configuration is wiped that  *)
(* the mode switch did not ask to replace.                                 *)
(***************************************************************************)
EXTENDS RaidProofs, RaidInvariant, SequenceTheorems

\* The orders are of check points only.
Others(io) == \A k \in Places(io) : io[k].op = "other"

\* Orders of check points, of sectors to clean in the bays w, and after these
\* of pages to store, all of mode m.
Filed(io, m, w) ==
  \A k \in Places(io) :
    /\ io[k].op \in {"other", "mbr", "store"}
    /\ io[k].op = "mbr" => io[k].at \in w /\ \A j \in 1..k - 1 : io[j].op # "store"
    /\ io[k].op = "store" => /\ Valid(io[k].page) /\ Apt(io[k].page, io[k].at)
                             /\ io[k].page.mode \in {m, "NOT_CONFIGURED"}

\* What is added to the orders of r are check points.
Adds(q, r) ==
  /\ Others(r.io) => Others(q.io)
  /\ \A m \in {"RAID1", "JBOD"}, w \in SUBSET Slots : Filed(r.io, m, w) => Filed(q.io, m, w)

LEMMA AddsTrans == ASSUME NEW p, NEW q, NEW r, Adds(p, q), Adds(q, r) PROVE Adds(p, r)
BY DEF Adds

LEMMA AddsSame == ASSUME NEW q, NEW r, q.io = r.io PROVE Adds(q, r)
BY DEF Adds

LEMMA OthersFiled == ASSUME NEW io, Others(io), NEW m, NEW w PROVE Filed(io, m, w)
BY DEF Others, Filed

LEMMA OneMore ==
  ASSUME NEW io \in Seq(Orders), NEW o \in Orders
  PROVE LET w == Append(io, o)
        IN /\ w \in Seq(Orders) /\ Places(w) = Places(io) \cup {Len(io) + 1} /\ Len(io) \in Nat
           /\ w[Len(io) + 1] = o /\ \A k \in Places(io) : w[k] = io[k]
BY DEF Places

LEMMA OneMoreOther ==
  ASSUME NEW io \in Seq(Orders), NEW o \in Orders, o.op = "other"
  PROVE /\ Others(io) => Others(Append(io, o))
        /\ \A m \in {"RAID1", "JBOD"}, w \in SUBSET Slots : Filed(io, m, w) => Filed(Append(io, o), m, w)
<1> DEFINE q == Append(io, o)
<1>1. /\ Places(q) = Places(io) \cup {Len(io) + 1} /\ Len(io) \in Nat
      /\ q[Len(io) + 1] = o /\ \A k \in Places(io) : q[k] = io[k]
  BY OneMore
<1> HIDE DEF q
<1>2. \A k \in Places(io) : 1..k - 1 \subseteq Places(io)
  BY <1>1 DEF Places
<1>3. Others(io) => Others(q)
  BY <1>1 DEF Others
<1>4. ASSUME NEW m \in {"RAID1", "JBOD"}, NEW w \in SUBSET Slots, Filed(io, m, w) PROVE Filed(q, m, w)
  <2>1. ASSUME NEW k \in Places(io)
        PROVE /\ q[k].op \in {"other", "mbr", "store"}
              /\ q[k].op = "mbr" => q[k].at \in w /\ \A j \in 1..k - 1 : q[j].op # "store"
              /\ q[k].op = "store" => /\ Valid(q[k].page) /\ Apt(q[k].page, q[k].at)
                                      /\ q[k].page.mode \in {m, "NOT_CONFIGURED"}
    <3>1. q[k] = io[k] /\ \A j \in 1..k - 1 : q[j] = io[j]
      BY <1>1, <1>2
    <3> QED BY <1>4, <3>1 DEF Filed
  <2> QED BY <1>1, <2>1 DEF Filed
<1> QED BY <1>3, <1>4 DEF q

LEMMA OneMoreStore ==
  ASSUME NEW io \in Seq(Orders), NEW o \in Orders, NEW m, NEW w, Filed(io, m, w),
         o.op = "store", Valid(o.page), Apt(o.page, o.at), o.page.mode \in {m, "NOT_CONFIGURED"}
  PROVE Filed(Append(io, o), m, w)
<1> DEFINE q == Append(io, o)
<1>1. /\ Places(q) = Places(io) \cup {Len(io) + 1} /\ Len(io) \in Nat
      /\ q[Len(io) + 1] = o /\ \A k \in Places(io) : q[k] = io[k]
  BY OneMore
<1> HIDE DEF q
<1>2. \A k \in Places(io) : 1..k - 1 \subseteq Places(io)
  BY <1>1 DEF Places
<1>3. ASSUME NEW k \in Places(io)
      PROVE /\ q[k].op \in {"other", "mbr", "store"}
            /\ q[k].op = "mbr" => q[k].at \in w /\ \A j \in 1..k - 1 : q[j].op # "store"
            /\ q[k].op = "store" => /\ Valid(q[k].page) /\ Apt(q[k].page, q[k].at)
                                    /\ q[k].page.mode \in {m, "NOT_CONFIGURED"}
  <2>1. q[k] = io[k] /\ \A j \in 1..k - 1 : q[j] = io[j]
    BY <1>1, <1>2
  <2> QED BY <2>1 DEF Filed
<1> QED BY <1>1, <1>3 DEF Filed, q

LEMMA OneMoreWipe ==
  ASSUME NEW io \in Seq(Orders), NEW o \in Orders, NEW m, NEW w, Filed(io, m, w),
         o.op = "mbr", o.at \in w, \A k \in Places(io) : io[k].op # "store"
  PROVE Filed(Append(io, o), m, w) /\ \A k \in Places(Append(io, o)) : Append(io, o)[k].op # "store"
<1> DEFINE q == Append(io, o)
<1>1. /\ Places(q) = Places(io) \cup {Len(io) + 1} /\ Len(io) \in Nat
      /\ q[Len(io) + 1] = o /\ \A k \in Places(io) : q[k] = io[k]
  BY OneMore
<1> HIDE DEF q
<1>2. /\ \A k \in Places(io) : 1..k - 1 \subseteq Places(io)
      /\ \A j \in 1..(Len(io) + 1) - 1 : j \in Places(io)
  BY <1>1 DEF Places
<1>3. ASSUME NEW k \in Places(io)
      PROVE /\ q[k].op \in {"other", "mbr", "store"}
            /\ q[k].op = "mbr" => q[k].at \in w /\ \A j \in 1..k - 1 : q[j].op # "store"
            /\ q[k].op = "store" => /\ Valid(q[k].page) /\ Apt(q[k].page, q[k].at)
                                    /\ q[k].page.mode \in {m, "NOT_CONFIGURED"}
  <2>1. q[k] = io[k] /\ \A j \in 1..k - 1 : q[j] = io[j]
    BY <1>1, <1>2
  <2> QED BY <2>1 DEF Filed
<1>4. \A j \in 1..(Len(io) + 1) - 1 : q[j].op # "store"
  BY <1>1, <1>2
<1> QED BY <1>1, <1>3, <1>4 DEF Filed, q

LEMMA WriteOtherAdds == ASSUME NEW r, Rested(r), NEW s \in Slots PROVE Adds(WriteOther(r, s), r)
<1> DEFINE o(c) == [op |-> "other", at |-> s, copy |-> c, cp |-> r.cp[s]]
           w == [c \in 1..2 |-> o(c)]
<1>1. CASE ~Ready(r, s)
  BY <1>1, AddsSame DEF WriteOther
<1>2. CASE Ready(r, s)
  <2>1. o(1) \in Orders /\ o(2) \in Orders /\ r.io \in Seq(Orders)
    BY DEF Orders, Rested, RamType
  <2>2. WriteOther(r, s).io = r.io \o w
    BY <1>2 DEF WriteOther, Rested, RamType
  <2>3. r.io \o w = Append(Append(r.io, o(1)), o(2))
    <3>1. w \in Seq(Orders)
      BY <2>1
    <3>2. Len(w) = 2 /\ w[1] = o(1) /\ w[2] = o(2)
      OBVIOUS
    <3> HIDE DEF o, w
    <3> DEFINE a == r.io \o w
               b == Append(Append(r.io, o(1)), o(2))
    <3>3. /\ a \in Seq(Orders) /\ b \in Seq(Orders) /\ Len(r.io) \in Nat
          /\ Len(a) = Len(r.io) + 2 /\ Len(b) = Len(r.io) + 2
      <4>1. Append(r.io, o(1)) \in Seq(Orders) /\ Len(Append(r.io, o(1))) = Len(r.io) + 1 /\ Len(r.io) \in Nat
        BY <2>1
      <4>2. a \in Seq(Orders) /\ Len(a) = Len(r.io) + Len(w)
        BY <2>1, <3>1
      <4> QED BY <2>1, <3>2, <4>1, <4>2
    <3>4. ASSUME NEW k \in 1..Len(r.io) + 2 PROVE a[k] = b[k]
      <4>1. CASE k <= Len(r.io)
        BY <2>1, <3>1, <3>2, <3>3, <4>1
      <4>2. CASE k = Len(r.io) + 1
        BY <2>1, <3>1, <3>2, <3>3, <4>2
      <4>3. CASE k = Len(r.io) + 2
        BY <2>1, <3>1, <3>2, <3>3, <4>3
      <4> QED BY <3>3, <4>1, <4>2, <4>3
    <3> QED BY <3>3, <3>4
  <2>4. o(1).op = "other" /\ o(2).op = "other"
    OBVIOUS
  <2> HIDE DEF o, w
  <2>5. Append(r.io, o(1)) \in Seq(Orders)
    BY <2>1
  <2> QED BY <2>1, <2>2, <2>3, <2>4, <2>5, OneMoreOther DEF Adds
<1> QED BY <1>1, <1>2

LEMMA WriteOthersAdds == ASSUME NEW r, Rested(r) PROVE Adds(WriteOthers(r), r)
<1>1. Rested(WriteOther(r, 0)) /\ Adds(WriteOther(r, 0), r)
  BY WriteOtherRests, WriteOtherAdds DEF Slots
<1>2. Adds(WriteOther(WriteOther(r, 0), 1), WriteOther(r, 0))
  BY <1>1, WriteOtherAdds DEF Slots
<1> QED BY <1>1, <1>2, AddsTrans DEF WriteOthers

LEMMA SetCheckPointAdds == ASSUME NEW r, Rested(r), NEW v \in Nat PROVE Adds(SetCheckPoint(r, v), r)
<1> DEFINE q == [r EXCEPT !.cp = [s \in Slots |-> v]]
<1>1. Rested(q) /\ q.io = r.io
  BY DEF Rested, RamType
<1> HIDE DEF q
<1>2. Adds(WriteOthers(q), q) /\ Adds(q, r)
  BY <1>1, WriteOthersAdds, AddsSame
<1> QED BY <1>2, AddsTrans DEF SetCheckPoint, q
\* The pages of q are about the same drives as those of r, in the same mode.
Retains(q, r) ==
  /\ q.bay = r.bay /\ q.map = r.map /\ q.nvm = r.nvm
  /\ \A s \in Slots : /\ q.rp[s].mode = r.rp[s].mode /\ q.rp[s].disk_num = r.rp[s].disk_num
                      /\ q.rp[s].id = r.rp[s].id
                      /\ r.rp[s].mode = "JBOD" => q.rp[s].status = r.rp[s].status

\* The array is as it was.
Quiet(q, r) ==
  /\ q.cur = r.cur /\ q.mode = r.mode /\ q.queue = r.queue /\ q.mirror = r.mirror
  /\ q.reenum = r.reenum /\ q.num = r.num /\ q.ms = r.ms /\ q.use = r.use /\ q.ids = r.ids

LEMMA RetainsPages ==
  ASSUME NEW r, NEW q, Rested(r), Rested(q), Retains(q, r)
  PROVE /\ AptPages(r) => AptPages(q)
        /\ \A s \in Slots : Belongs(r, s) <=> Belongs(q, s)
        /\ \A s \in Slots : Owner(q.rp[s]) = Owner(r.rp[s])
<1>1. \A s \in Slots : Valid(q.rp[s]) /\ Valid(r.rp[s])
  BY DEF Rested, RamType, Sound
<1>2. \A s \in Slots : Owner(q.rp[s]) = Owner(r.rp[s])
  BY <1>1 DEF Retains, Owner
<1>3. \A s \in Slots : Apt(r.rp[s], s) => Apt(q.rp[s], s)
  BY <1>2 DEF Retains, Apt, Owned
<1> QED BY <1>2, <1>3 DEF Retains, AptPages, Belongs, Ready

LEMMA QuietMirror ==
  ASSUME NEW r, NEW q, Rested(r), Rested(q), Retains(q, r), Quiet(q, r), MirrorPages(r)
  PROVE MirrorPages(q)
<1>1. \A s \in Slots : (Belongs(r, s) <=> Belongs(q, s)) /\ q.rp[s].mode = r.rp[s].mode
  BY RetainsPages DEF Retains
<1>2. (Mirrors(r) <=> Mirrors(q)) /\ r.use \in Slots
  BY DEF Quiet, Mirrors, Rested, RamType
<1> QED BY <1>1, <1>2 DEF MirrorPages, Quiet

LEMMA MarkedFace ==
  ASSUME NEW r, Rested(r), NEW p \in Sound, NEW g \in Slots, NEW o \in SlotStatus
  PROVE LET q == Marked(r, p, Pair(g, o))
        IN q \in Sound /\ q.mode = p.mode /\ q.disk_num = p.disk_num /\ q.id = p.id
BY PairIs, MarkedIs

LEMMA MissingRetains ==
  ASSUME NEW r, Rested(r), NEW g \in Slots, r.rp[g].mode = "RAID1"
  PROVE LET q == update_slots_for_missing(r, g)
        IN Retains(q, r) /\ Quiet(q, r) /\ q.io = r.io /\ q.need = r.need \cup {g}
<1> DEFINE page == Marked(r, r.rp[g], Pair(g, "MISSING"))
           q == update_slots_for_missing(r, g)
<1>1. /\ page.mode = r.rp[g].mode /\ page.disk_num = r.rp[g].disk_num /\ page.id = r.rp[g].id
  <2>1. r.rp[g] \in Sound /\ "MISSING" \in SlotStatus
    BY DEF Rested, RamType, SlotStatus
  <2> QED BY <2>1, MarkedFace
<1>2. q = [r EXCEPT !.rp = [@ EXCEPT ![g] = page], !.need = @ \cup {g}]
  BY DEF update_slots_for_missing, Rested, RamType
<1> HIDE DEF page, q
<1> QED BY <1>1, <1>2 DEF Retains, Quiet, Rested, RamType, q

LEMMA FailedRetains ==
  ASSUME NEW r, Rested(r), NEW g \in Slots, NEW f \in Slots, \A s \in Slots : r.rp[s].mode # "JBOD"
  PROVE LET q == update_slots_for_failed(r, g, f)
        IN /\ Retains(q, r) /\ Quiet([q EXCEPT !.cur = r.cur], r) /\ q.io = r.io
           /\ q.cur = [r.cur EXCEPT ![f] = "FAILED"]
<1> DEFINE page == Marked(r, r.rp[g], Pair(g, "FAILED"))
           q0 == [r EXCEPT !.rp = [@ EXCEPT ![g] = page]]
           last == Marked(r, q0.rp[f], Pair(g, "FAILED"))
           q == update_slots_for_failed(r, g, f)
<1>1. /\ page \in Sound
      /\ page.mode = r.rp[g].mode /\ page.disk_num = r.rp[g].disk_num /\ page.id = r.rp[g].id
  <2>1. r.rp[g] \in Sound /\ "FAILED" \in SlotStatus
    BY DEF Rested, RamType, SlotStatus
  <2> QED BY <2>1, MarkedFace
<1>2. [r EXCEPT !.rp[g] = Marked(r, @, Pair(g, "FAILED"))] = q0
  BY DEF Rested, RamType
<1> HIDE DEF page
<1>3. Rested(q0) /\ q0.rp = [r.rp EXCEPT ![g] = page]
  BY <1>1 DEF Rested, RamType
<1>4. q = [q0 EXCEPT !.rp = [@ EXCEPT ![f] = last], !.cur = [@ EXCEPT ![f] = "FAILED"], !.need = Slots]
  BY <1>2 DEF update_slots_for_failed, Rested, RamType
<1>5. /\ last.mode = q0.rp[f].mode /\ last.disk_num = q0.rp[f].disk_num /\ last.id = q0.rp[f].id
  <2>1. q0.rp[f] \in Sound /\ "FAILED" \in SlotStatus
    BY <1>3 DEF Rested, RamType, SlotStatus
  <2> QED BY <2>1, MarkedFace
<1> HIDE DEF last, q
<1>6. /\ q.rp = [q0.rp EXCEPT ![f] = last] /\ q.cur = [r.cur EXCEPT ![f] = "FAILED"] /\ q.io = r.io
      /\ q.bay = r.bay /\ q.map = r.map /\ q.nvm = r.nvm /\ Quiet([q EXCEPT !.cur = r.cur], r)
  BY <1>4 DEF Quiet, Rested, RamType
<1>7. Retains(q, r)
  <2>1. ASSUME NEW s \in Slots
        PROVE q.rp[s].mode = r.rp[s].mode /\ q.rp[s].disk_num = r.rp[s].disk_num /\ q.rp[s].id = r.rp[s].id
    <3>1. q0.rp[s].mode = r.rp[s].mode /\ q0.rp[s].disk_num = r.rp[s].disk_num /\ q0.rp[s].id = r.rp[s].id
      BY <1>1, <1>3 DEF Rested, RamType
    <3>2. q.rp[s] = IF s = f THEN last ELSE q0.rp[s]
      BY <1>3, <1>6 DEF Rested, RamType
    <3> QED BY <1>5, <3>1, <3>2
  <2> QED BY <1>6, <2>1 DEF Retains
<1> QED BY <1>6, <1>7 DEF q

LEMMA StoreRetains ==
  ASSUME NEW r, Rested(r), NEW s \in Slots
  PROVE LET q == store_meta_data(r, s)
        IN /\ Retains(q, r) /\ Quiet(q, r)
           /\ q.need = IF r.ms \in {"GOOD", "STH_NOT_VALID"} THEN r.need \ {s} ELSE r.need
<1> DEFINE page == [r.rp[s] EXCEPT !.gen = @ + 1]
           rp == [r.rp EXCEPT ![s] = page]
           q == store_meta_data(r, s)
<1>1. CASE s \in r.need /\ r.ms \in {"GOOD", "STH_NOT_VALID"}
  <2>1. /\ page.mode = r.rp[s].mode /\ page.disk_num = r.rp[s].disk_num
        /\ page.id = r.rp[s].id /\ page.status = r.rp[s].status
    BY DEF Rested, RamType, Sound, Page
  <2>2. /\ q.rp = rp /\ Quiet(q, r) /\ q.need = r.need \ {s}
        /\ q.bay = r.bay /\ q.map = r.map /\ q.nvm = r.nvm
    BY <1>1 DEF store_meta_data, Quiet, Rested, RamType
  <2> HIDE DEF page
  <2>3. rp[s] = page /\ \A x \in Slots : x # s => rp[x] = r.rp[x]
    BY DEF Rested, RamType
  <2> HIDE DEF rp, q
  <2> QED BY <1>1, <2>1, <2>2, <2>3 DEF Retains, q
<1>2. CASE ~(s \in r.need /\ r.ms \in {"GOOD", "STH_NOT_VALID"})
  <2>1. q = r
    BY <1>2 DEF store_meta_data
  <2>2. Retains(r, r) /\ Quiet(r, r)
    BY DEF Retains, Quiet
  <2> QED BY <1>2, <2>1, <2>2
<1> QED BY <1>1, <1>2

LEMMA StoreFiles ==
  ASSUME NEW r, Rested(r), NEW s \in Slots, AptPages(r), NEW m, NEW w, Filed(r.io, m, w),
         s \in r.need => r.rp[s].mode \in {m, "NOT_CONFIGURED"}
  PROVE Filed(store_meta_data(r, s).io, m, w)
<1> DEFINE page == [r.rp[s] EXCEPT !.gen = @ + 1]
           rp == [r.rp EXCEPT ![s] = page]
           sealed == [r.sealed EXCEPT ![s] = page]
           r1 == [r EXCEPT !.rp = rp, !.sealed = sealed, !.need = @ \ {s}]
           o == [op |-> "store", at |-> r.map[s], page |-> Written(r1, r.map[s])]
<1>1. CASE s \in r.need /\ r.ms \in {"GOOD", "STH_NOT_VALID"}
  <2>1. page \in Sound /\ page.mode = r.rp[s].mode /\ page.disk_num = r.rp[s].disk_num
        /\ page.id = r.rp[s].id /\ page.status = r.rp[s].status
    <3>1. r.rp[s] \in Page /\ Valid(r.rp[s])
      BY DEF Rested, RamType, Sound
    <3>2. r.rp[s].gen + 1 \in Nat
      BY <3>1 DEF Page
    <3> QED BY <3>1, <3>2 DEF Sound, Page, Valid
  <2>2. store_meta_data(r, s).io = Append(r.io, o)
    BY <1>1 DEF store_meta_data, Rested, RamType
  <2> HIDE DEF page
  <2>3. r.map[s] = s
    BY DEF AptPages
  <2>4. r1.rp[s] = page /\ r1.sealed[s] = page
    BY DEF Rested, RamType, Pages
  <2>5. Written(r1, s) = page
    BY <2>4 DEF Written
  <2> HIDE DEF r1
  <2>6. o = [op |-> "store", at |-> s, page |-> page]
    BY <2>3, <2>5
  <2> HIDE DEF o
  <2>7. Valid(page) /\ Valid(r.rp[s]) /\ page \in Page
    BY <2>1 DEF Sound, Rested, RamType
  <2>8. Owner(page) = Owner(r.rp[s])
    BY <2>1, <2>7 DEF Owner
  <2>9. Apt(page, s)
    BY <2>1, <2>8 DEF AptPages, Apt, Owned
  <2>10. o \in Orders /\ r.io \in Seq(Orders)
    BY <2>6, <2>7 DEF Orders, Rested, RamType
  <2> QED BY <1>1, <2>1, <2>2, <2>6, <2>7, <2>9, <2>10, OneMoreStore
<1>2. CASE ~(s \in r.need /\ r.ms \in {"GOOD", "STH_NOT_VALID"})
  BY <1>2 DEF store_meta_data
<1> QED BY <1>1, <1>2

LEMMA StoreSlotsFiles ==
  ASSUME NEW r, Rested(r), AptPages(r)
  PROVE LET q == store_slots(r)
        IN /\ Rested(q) /\ AptPages(q) /\ Retains(q, r) /\ Quiet(q, r)
           /\ r.ms \in {"GOOD", "STH_NOT_VALID"} => q.need = {}
           /\ \A m, w : /\ Filed(r.io, m, w)
                        /\ \A s \in r.need : r.rp[s].mode \in {m, "NOT_CONFIGURED"}
                        => Filed(q.io, m, w)
<1>1. ASSUME NEW s \in Slots, NEW t \in Slots, s # t
      PROVE LET q == store_meta_data(store_meta_data(r, s), t)
            IN /\ Rested(q) /\ AptPages(q) /\ Retains(q, r) /\ Quiet(q, r)
               /\ r.ms \in {"GOOD", "STH_NOT_VALID"} => q.need = {}
               /\ \A m, w : /\ Filed(r.io, m, w)
                            /\ \A x \in r.need : r.rp[x].mode \in {m, "NOT_CONFIGURED"}
                            => Filed(q.io, m, w)
  <2> DEFINE a == store_meta_data(r, s)
             b == store_meta_data(a, t)
  <2>1. Rested(a) /\ Retains(a, r) /\ Quiet(a, r)
        /\ a.need = IF r.ms \in {"GOOD", "STH_NOT_VALID"} THEN r.need \ {s} ELSE r.need
    BY StoreRests, StoreRetains
  <2>2. AptPages(a)
    BY <2>1, RetainsPages
  <2>3. \A m, w : /\ Filed(r.io, m, w)
                  /\ \A x \in r.need : r.rp[x].mode \in {m, "NOT_CONFIGURED"}
                  => Filed(a.io, m, w)
    BY StoreFiles
  <2> HIDE DEF a
  <2>4. Rested(b) /\ Retains(b, a) /\ Quiet(b, a)
        /\ b.need = IF a.ms \in {"GOOD", "STH_NOT_VALID"} THEN a.need \ {t} ELSE a.need
    BY <2>1, StoreRests, StoreRetains
  <2>5. AptPages(b)
    BY <2>1, <2>2, <2>4, RetainsPages
  <2>6. \A m, w : /\ Filed(a.io, m, w)
                  /\ \A x \in a.need : a.rp[x].mode \in {m, "NOT_CONFIGURED"}
                  => Filed(b.io, m, w)
    BY <2>1, <2>2, StoreFiles
  <2> HIDE DEF b
  <2>7. Retains(b, r) /\ Quiet(b, r)
    BY <2>1, <2>4 DEF Retains, Quiet
  <2>8. r.ms \in {"GOOD", "STH_NOT_VALID"} => b.need = {}
    BY <1>1, <2>1, <2>4, ZenonT(60) DEF Quiet, Slots, Rested, RamType
  <2>9. a.need \subseteq r.need /\ r.need \subseteq Slots /\ \A x \in Slots : a.rp[x].mode = r.rp[x].mode
    BY <2>1 DEF Rested, RamType, Retains
  <2> QED BY <2>3, <2>4, <2>5, <2>6, <2>7, <2>8, <2>9 DEF b, a
<1> QED BY <1>1 DEF store_slots, Slots

LEMMA RebuildingBelongs ==
  ASSUME NEW r, Rested(r), NEW g \in Slots, Whole(r), AptPages(r), Belongs(r, g)
  PROVE LET q == update_slots_for_rebuilding(r, g)
        IN /\ Rested(q) /\ AptPages(q) /\ \A s \in Slots : Belongs(q, s)
           /\ q.cur = [r.cur EXCEPT ![Across(g)] = "REBUILDING"] /\ q.io = r.io
           /\ Quiet([q EXCEPT !.cur = r.cur], r) /\ q.bay = r.bay
<1> DEFINE t == Across(g)
           pair == Pair(g, "REBUILDING")
           n == [s \in Slots |-> get_disk_num(r, s, pair[s])]
           id == [Marked(r, r.rp[g], pair).id EXCEPT ![n[0]] = r.bay[0], ![n[1]] = r.bay[1]]
           good == [Marked(r, r.rp[g], pair) EXCEPT !.id = id]
           base == [r.rp[t] EXCEPT !.gen = good.gen, !.id = good.id, !.mode = good.mode]
           new == [Marked(r, base, pair) EXCEPT !.disk_num = n[t]]
           rp == [s \in Slots |-> IF s = g THEN good ELSE new]
           q == update_slots_for_rebuilding(r, g)
<1>0. Rested(q)
  BY RebuildingRests
<1>1. t \in Slots /\ t # g /\ Slots = {g, t} /\ pair \in [Slots -> SlotStatus]
  BY PairIs DEF Slots, Across, SlotStatus
<1>2. r.rp[g] \in Sound /\ r.rp[t] \in Sound /\ r.bay \in Bays
  BY <1>1 DEF Rested, RamType
<1>3. LET p == Marked(r, r.rp[g], pair)
      IN p \in Sound /\ p.mode = "RAID1" /\ p.disk_num = r.rp[g].disk_num /\ p.id = r.rp[g].id
  BY <1>1, <1>2, MarkedIs DEF Belongs
<1>4. /\ r.rp[g].disk_num \in Slots /\ r.rp[g].id[r.rp[g].disk_num] = r.bay[g]
  BY <1>2 DEF Belongs, Owner, Ready
<1>5. n[g] = r.rp[g].disk_num /\ n[t] \in Slots /\ n[t] # n[g]
  <2>1. pair[g] = "GOOD" /\ pair[t] = "REBUILDING" /\ Across(t) = g
    BY <1>1 DEF Pair, Across, Slots
  <2> HIDE DEF pair
  <2> QED BY <1>1, <1>4, <2>1 DEF get_disk_num, Slots
<1> HIDE DEF pair
<1>6. id \in Bays /\ \A s \in Slots : id[n[s]] = r.bay[s]
  <2>1. r.rp[g].id \in Bays /\ r.bay[0] \in Drives \cup {NoDrive} /\ r.bay[1] \in Drives \cup {NoDrive}
    BY <1>2 DEF Sound, Page, Bays, Slots
  <2>2. n[0] \in Slots /\ n[1] \in Slots /\ n[0] # n[1]
    BY <1>1, <1>4, <1>5 DEF Slots
  <2> HIDE DEF n
  <2> QED BY <1>3, <2>1, <2>2 DEF Bays, Slots
<1> HIDE DEF n, id
<1>7. /\ good \in Sound /\ good.id = id /\ good.mode = "RAID1" /\ good.disk_num = n[g]
  BY <1>3, <1>5, <1>6 DEF Sound, Page, Valid, Bays
<1> HIDE DEF good
<1>8. base \in Sound /\ base.id = id /\ base.mode = "RAID1"
  BY <1>2, <1>7 DEF Sound, Page, Valid
<1> HIDE DEF base
<1>9. LET p == Marked(r, base, pair) IN p \in Sound /\ p.id = id /\ p.mode = "RAID1"
  BY <1>1, <1>8, MarkedIs
<1>10. new \in Sound /\ new.id = id /\ new.mode = "RAID1" /\ new.disk_num = n[t]
  BY <1>5, <1>9 DEF Sound, Page, Valid, Slots
<1> HIDE DEF new
<1>11. /\ q.rp = rp /\ q.cur = [r.cur EXCEPT ![t] = "REBUILDING"] /\ q.io = r.io
       /\ q.bay = r.bay /\ q.map = r.map /\ q.nvm = r.nvm /\ Quiet([q EXCEPT !.cur = r.cur], r)
  <2>1. q = [r EXCEPT !.rp = rp, !.cur = [r.cur EXCEPT ![t] = "REBUILDING"], !.need = Slots]
    BY DEF update_slots_for_rebuilding, rp, new, base, good, id, n, t, pair
  <2> HIDE DEF rp, q, t
  <2> QED BY <2>1 DEF Rested, RamType, Quiet
<1>12. ASSUME NEW s \in Slots
       PROVE /\ Valid(rp[s]) /\ rp[s].mode = "RAID1" /\ rp[s].id = id /\ rp[s].disk_num = n[s]
             /\ rp[s].disk_num \in Slots
  BY <1>1, <1>4, <1>5, <1>7, <1>10, <1>12 DEF Sound
<1> HIDE DEF rp, q, t
<1>13. ASSUME NEW s \in Slots PROVE Owner(rp[s]) = r.bay[s] /\ r.bay[s] # NoDrive /\ s \in Fits[r.bay[s]]
  BY <1>6, <1>12 DEF Owner, Whole, Ready, AptPages, Fit
<1>14. ASSUME NEW s \in Slots PROVE Apt(rp[s], s)
  <2>1. \A x \in Slots : id[x] # NoDrive
    <3>1. \A x \in Slots : x = n[0] \/ x = n[1]
      BY <1>1, <1>4, <1>5 DEF Slots
    <3> QED BY <1>6, <1>13, <3>1 DEF Slots
  <2> QED BY <1>12, <1>13, <2>1 DEF Apt, Owned
<1> QED BY <1>0, <1>11, <1>12, <1>13, <1>14 DEF AptPages, Belongs, Ready, q, t
\* The pages of q are about the same drives as those of r.
Alike(q, r) ==
  \A s \in Slots : q.rp[s].mode = r.rp[s].mode /\ Owner(q.rp[s]) = Owner(r.rp[s])

Belong(q) == \A s \in Slots : Belongs(q, s)

\* What a decision about the array keeps, as long as it starts a rebuild only
\* from a slot that belongs to a mirror.
Decided(q, r) ==
  /\ Rested(q) /\ AptPages(q) /\ Adds(q, r)
  /\ q.bay = r.bay /\ q.nvm = r.nvm /\ q.reenum = r.reenum /\ q.mode = r.mode /\ q.ids = r.ids
  /\ Alike(q, r) \/ (Belong(q) /\ \E g \in Slots : Belongs(r, g))
  /\ \A s \in Slots : q.cur[s] = r.cur[s] \/ (q.cur[s] = "REBUILDING" /\ Belongs(q, s))
  /\ \A s \in q.need : s \in r.need \/ Belongs(q, s)

\* The status the decision gives to the array.
Verdict(q, r) ==
  /\ q.num = r.num + 1 /\ q.queue[r.num] \in {"GOOD", "REBUILDING", "DEGRADED", "BROKEN"}
  /\ q.queue[r.num] \in {"GOOD", "REBUILDING"} => Belong(q)
  /\ q.queue[r.num] # "REBUILDING" => q.mirror = r.mirror /\ q.cur = r.cur

LEMMA AlikeBelongs ==
  ASSUME NEW q, NEW r, Alike(q, r), q.bay = r.bay, NEW s \in Slots
  PROVE Belongs(q, s) <=> Belongs(r, s)
BY DEF Alike, Belongs, Ready

LEMMA DecidedTrans ==
  ASSUME NEW p, NEW q, NEW r, Decided(p, q), Decided(q, r) PROVE Decided(p, r)
<1>1. \A s \in Slots : Belongs(q, s) => Belongs(p, s)
  BY AlikeBelongs DEF Decided, Belong
<1>2. Alike(p, r) \/ (Belong(p) /\ \E g \in Slots : Belongs(r, g))
  <2>1. CASE Alike(q, r)
    <3>1. \A s \in Slots : Belongs(q, s) <=> Belongs(r, s)
      BY <2>1, AlikeBelongs DEF Decided
    <3> QED BY <2>1, <3>1 DEF Decided, Alike
  <2>2. CASE Belong(q) /\ \E g \in Slots : Belongs(r, g)
    BY <1>1, <2>2 DEF Belong
  <2> QED BY <2>1, <2>2 DEF Decided
<1>3. Adds(p, r)
  BY AddsTrans DEF Decided
<1>4. \A s \in Slots : p.cur[s] = r.cur[s] \/ (p.cur[s] = "REBUILDING" /\ Belongs(p, s))
  BY <1>1 DEF Decided
<1>5. \A s \in p.need : s \in r.need \/ Belongs(p, s)
  <2>1. p.need \subseteq Slots
    BY DEF Decided, Rested, RamType
  <2> QED BY <1>1, <2>1 DEF Decided
<1> QED BY <1>2, <1>3, <1>4, <1>5 DEF Decided

LEMMA AppendDecides ==
  ASSUME NEW r, Rested(r), AptPages(r), r.num < 2, NEW st \in ArrayStatus
  PROVE LET q == append_array_status(r, st)
        IN /\ Decided(q, r) /\ q.rp = r.rp /\ q.cur = r.cur /\ q.mirror = r.mirror /\ q.need = r.need
           /\ q.cp = r.cp /\ q.num = r.num + 1 /\ q.queue[r.num] = st
<1> DEFINE q == append_array_status(r, st)
<1>1. Rested(q) /\ q.queue[r.num] = st /\ q.num = r.num + 1
  BY AppendRests, AppendAdds
<1>2. /\ q.bay = r.bay /\ q.nvm = r.nvm /\ q.map = r.map /\ q.reenum = r.reenum /\ q.mode = r.mode
      /\ q.ids = r.ids /\ q.rp = r.rp /\ q.cur = r.cur /\ q.mirror = r.mirror /\ q.need = r.need
      /\ q.io = r.io /\ q.cp = r.cp
  BY DEF append_array_status, Rested, RamType
<1> HIDE DEF q
<1>3. Adds(q, r)
  BY <1>2, AddsSame
<1>4. AptPages(q) /\ Alike(q, r)
  BY <1>2 DEF AptPages, Alike
<1> QED BY <1>1, <1>2, <1>3, <1>4 DEF Decided, q

LEMMA DegradedDecides ==
  ASSUME NEW r, Rested(r), AptPages(r), r.num < 2, NEW g \in Slots, NEW o, Belongs(r, g)
  PROVE LET q == raid1_degraded(r, g, o)
        IN /\ Decided(q, r) /\ Verdict(q, r) /\ q.queue[r.num] = "DEGRADED"
           /\ q.mirror = r.mirror /\ q.cur = r.cur /\ \A s \in Slots : Belongs(r, s) => Belongs(q, s)
<1> DEFINE a == append_array_status(r, "DEGRADED")
           b == update_slots_for_missing(a, g)
           q == raid1_degraded(r, g, o)
<1>1. /\ Decided(a, r) /\ a.rp = r.rp /\ a.cur = r.cur /\ a.mirror = r.mirror /\ a.need = r.need
      /\ a.num = r.num + 1 /\ a.queue[r.num] = "DEGRADED" /\ Rested(a) /\ a.bay = r.bay
  BY AppendDecides, StatusIs DEF Decided
<1>2. /\ Rested(b) /\ Retains(b, a) /\ Quiet(b, a) /\ b.io = a.io /\ b.need = a.need \cup {g}
  <2>1. a.rp[g].mode = "RAID1"
    BY <1>1 DEF Belongs
  <2> QED BY <1>1, <2>1, MissingRests, MissingRetains
<1>3. q \in {a, b}
  BY DEF raid1_degraded
<1> HIDE DEF a, b, q
<1>4. Decided(b, a)
  <2>1. AptPages(b) /\ \A s \in Slots : Owner(b.rp[s]) = Owner(a.rp[s])
    BY <1>1, <1>2, RetainsPages DEF Decided
  <2>2. Belongs(b, g)
    <3>1. Belongs(a, g)
      BY <1>1 DEF Belongs, Ready
    <3> QED BY <1>1, <1>2, <3>1, RetainsPages
  <2>3. Adds(b, a) /\ Alike(b, a)
    BY <1>2, <2>1, AddsSame DEF Alike, Retains
  <2> QED BY <1>2, <2>1, <2>2, <2>3 DEF Decided, Retains, Quiet
<1>5. /\ Decided(q, r) /\ q.num = r.num + 1 /\ q.queue[r.num] = "DEGRADED"
      /\ q.mirror = r.mirror /\ q.cur = r.cur
  BY <1>1, <1>2, <1>3, <1>4, DecidedTrans DEF Quiet
<1>6. \A s \in Slots : Belongs(r, s) => Belongs(q, s)
  BY <1>5, AlikeBelongs DEF Decided, Belong
<1> QED BY <1>5, <1>6 DEF Verdict, q

LEMMA StartKeepsPages ==
  ASSUME NEW r, Rested(r), NEW g \in Slots, NEW at \in Int, at >= -Step
  PROVE LET q == StartRebuild(r, g, at)
        IN /\ Rested(q) /\ q.rp = r.rp /\ q.bay = r.bay /\ q.cur = r.cur /\ q.io = r.io /\ q.need = r.need
           /\ q.num = r.num /\ q.queue = r.queue /\ q.map = r.map /\ q.nvm = r.nvm
           /\ q.mode = r.mode /\ q.reenum = r.reenum /\ q.ids = r.ids
<1>1. Rested(StartRebuild(r, g, at))
  BY StartRests
<1> QED BY <1>1 DEF StartRebuild, Rested, RamType

\* A rebuild decided on: both slots belong to the mirror.
LEMMA RebuildDecided ==
  ASSUME NEW q, NEW r, Rested(r), r.num < 2, NEW a, a = append_array_status(r, "REBUILDING"), AptPages(r),
         Rested(q), AptPages(q), Adds(q, a), Belong(q), \E g \in Slots : Belongs(r, g),
         q.bay = a.bay, q.nvm = a.nvm, q.reenum = a.reenum, q.mode = a.mode, q.ids = a.ids,
         q.num = a.num, q.queue = a.queue,
         \A s \in Slots : q.cur[s] = a.cur[s] \/ q.cur[s] = "REBUILDING"
  PROVE Decided(q, r) /\ Verdict(q, r) /\ q.queue[r.num] = "REBUILDING"
<1>1. /\ Decided(a, r) /\ a.cur = r.cur /\ a.num = r.num + 1 /\ a.queue[r.num] = "REBUILDING"
  BY AppendDecides, StatusIs
<1>2. Adds(q, r)
  BY <1>1, AddsTrans DEF Decided
<1>3. q.need \subseteq Slots
  BY DEF Rested, RamType
<1> QED BY <1>1, <1>2, <1>3 DEF Decided, Verdict, Belong

LEMMA AutoDecides ==
  ASSUME NEW r, Rested(r), AptPages(r), r.num < 2, NEW g \in Slots, NEW o, Belongs(r, g),
         o \in {"GOOD", "REBUILDING", "BLANK"} => Whole(r)
  PROVE LET q == raid1_might_be_auto_rebuild(r, g, o)
        IN /\ Decided(q, r) /\ Verdict(q, r) /\ q.queue[r.num] \in {"REBUILDING", "DEGRADED"}
           /\ q.queue[r.num] = "REBUILDING" => o \in {"GOOD", "REBUILDING", "BLANK"}
<1> DEFINE a == append_array_status(r, "REBUILDING")
           b == update_slots_for_rebuilding(a, g)
           c == StartRebuild(b, g, 0)
           d == [c EXCEPT !.newer = {}]
           e == SetCheckPoint(d, Step)
           q == raid1_might_be_auto_rebuild(r, g, o)
<1>1. CASE AutoRebuild /\ o \in {"GOOD", "REBUILDING", "BLANK"}
  <2>1. q = e
    BY <1>1 DEF raid1_might_be_auto_rebuild
  <2>2. /\ Rested(a) /\ AptPages(a) /\ a.rp = r.rp /\ a.bay = r.bay /\ a.cur = r.cur
        /\ Whole(a) /\ Belongs(a, g)
    <3>1. Decided(a, r) /\ a.rp = r.rp /\ a.cur = r.cur
      BY AppendDecides, StatusIs
    <3> HIDE DEF a
    <3> QED BY <1>1, <3>1 DEF Decided, Whole, Belongs, Ready
  <2> HIDE DEF a
  <2>3. /\ Rested(b) /\ AptPages(b) /\ Belong(b)
        /\ b.cur = [a.cur EXCEPT ![Across(g)] = "REBUILDING"] /\ b.io = a.io
        /\ b.bay = a.bay /\ Quiet([b EXCEPT !.cur = a.cur], a)
    BY <2>2, RebuildingBelongs DEF Belong
  <2>4. /\ b.mode = a.mode /\ b.queue = a.queue /\ b.reenum = a.reenum /\ b.num = a.num /\ b.ids = a.ids
        /\ b.nvm = a.nvm
    <3>1. b.nvm = a.nvm
      BY DEF update_slots_for_rebuilding
    <3> QED BY <2>3, <3>1 DEF Quiet, Rested, RamType
  <2> HIDE DEF b
  <2>5. /\ Rested(c) /\ c.rp = b.rp /\ c.bay = b.bay /\ c.cur = b.cur /\ c.io = b.io
        /\ c.num = b.num /\ c.queue = b.queue /\ c.map = b.map /\ c.nvm = b.nvm
        /\ c.mode = b.mode /\ c.reenum = b.reenum /\ c.ids = b.ids
    BY <2>3, StartKeepsPages, Constants
  <2> HIDE DEF c
  <2>6. /\ Rested(d) /\ d.rp = b.rp /\ d.bay = b.bay /\ d.cur = b.cur /\ d.io = b.io
        /\ d.num = b.num /\ d.queue = b.queue /\ d.map = b.map /\ d.nvm = b.nvm
        /\ d.mode = b.mode /\ d.reenum = b.reenum /\ d.ids = b.ids
    BY <2>5 DEF Rested, RamType
  <2> HIDE DEF d
  <2>7. /\ Rested(e) /\ e.rp = d.rp /\ e.bay = d.bay /\ e.cur = d.cur /\ Adds(e, d)
        /\ e.num = d.num /\ e.queue = d.queue /\ e.map = d.map /\ e.nvm = d.nvm
        /\ e.mode = d.mode /\ e.reenum = d.reenum /\ e.ids = d.ids
    <3>1. Rested(e) /\ Adds(e, d)
      BY <2>6, SetCheckPointRests, SetCheckPointAdds, Constants
    <3>2. /\ e.rp = d.rp /\ e.bay = d.bay /\ e.cur = d.cur
          /\ e.num = d.num /\ e.queue = d.queue /\ e.map = d.map /\ e.nvm = d.nvm
          /\ e.mode = d.mode /\ e.reenum = d.reenum /\ e.ids = d.ids
      BY <2>6 DEF SetCheckPoint, WriteOthers, WriteOther, Ready, Rested, RamType
    <3> QED BY <3>1, <3>2
  <2> HIDE DEF e, q
  <2>8. AptPages(e) /\ Belong(e)
    BY <2>3, <2>6, <2>7 DEF AptPages, Belong, Belongs, Ready
  <2>9. Adds(e, a)
    BY <2>3, <2>6, <2>7 DEF Adds
  <2>10. \A s \in Slots : e.cur[s] = a.cur[s] \/ e.cur[s] = "REBUILDING"
    BY <2>2, <2>3, <2>6, <2>7 DEF Rested, RamType
  <2>11. Decided(e, r) /\ Verdict(e, r) /\ e.queue[r.num] = "REBUILDING"
    <3>1. /\ e.bay = a.bay /\ e.nvm = a.nvm /\ e.reenum = a.reenum /\ e.mode = a.mode /\ e.ids = a.ids
          /\ e.num = a.num /\ e.queue = a.queue
      BY <2>3, <2>4, <2>6, <2>7
    <3>2. a = append_array_status(r, "REBUILDING")
      BY DEF a
    <3> QED BY <2>7, <2>8, <2>9, <2>10, <3>1, <3>2, RebuildDecided
  <2> QED BY <1>1, <2>1, <2>11 DEF q
<1>2. CASE ~(AutoRebuild /\ o \in {"GOOD", "REBUILDING", "BLANK"})
  <2>1. q = raid1_degraded(r, g, o)
    BY <1>2 DEF raid1_might_be_auto_rebuild
  <2> QED BY <2>1, DegradedDecides
<1> QED BY <1>1, <1>2
LEMMA ResumeDecides ==
  ASSUME NEW r, Rested(r), AptPages(r), r.num < 2, NEW g \in Slots, Belong(r)
  PROVE LET q == raid1_resume_rebuild(r, g)
        IN Decided(q, r) /\ Verdict(q, r) /\ q.queue[r.num] \in {"REBUILDING", "DEGRADED"}
<1> DEFINE a == append_array_status(r, "REBUILDING")
           b == StartRebuild(a, g, r.cp[g] - Step)
           q == raid1_resume_rebuild(r, g)
<1>1. Whole(r) /\ Belongs(r, g)
  BY DEF Belong, Belongs, Whole
<1>2. Decided(b, r) /\ Verdict(b, r) /\ b.queue[r.num] = "REBUILDING"
  <2>1. /\ Decided(a, r) /\ Rested(a) /\ AptPages(a) /\ a.rp = r.rp /\ a.cur = r.cur /\ a.bay = r.bay
    BY AppendDecides, StatusIs DEF Decided
  <2>2. a = append_array_status(r, "REBUILDING")
    OBVIOUS
  <2> HIDE DEF a
  <2>3. r.cp[g] - Step \in Int /\ r.cp[g] - Step >= -Step
    <3>1. r.cp[g] \in Nat
      BY DEF Rested, RamType
    <3> QED BY <3>1, Constants
  <2>4. /\ Rested(b) /\ b.rp = a.rp /\ b.bay = a.bay /\ b.cur = a.cur /\ b.io = a.io /\ b.need = a.need
        /\ b.num = a.num /\ b.queue = a.queue /\ b.map = a.map /\ b.nvm = a.nvm
        /\ b.mode = a.mode /\ b.reenum = a.reenum /\ b.ids = a.ids
    BY <2>1, <2>3, StartKeepsPages
  <2> HIDE DEF b
  <2>5. AptPages(b) /\ Belong(b) /\ Adds(b, a) /\ \E x \in Slots : Belongs(r, x)
    BY <1>1, <2>1, <2>4, AddsSame DEF AptPages, Belong, Belongs, Ready
  <2> QED BY <2>2, <2>4, <2>5, RebuildDecided
<1>3. /\ \A o : o \in {"GOOD", "REBUILDING", "BLANK"} => Whole(r)
      /\ LET c == raid1_might_be_auto_rebuild(r, g, "REBUILDING")
         IN Decided(c, r) /\ Verdict(c, r) /\ c.queue[r.num] \in {"REBUILDING", "DEGRADED"}
      /\ LET d == raid1_degraded(r, g, "REBUILDING")
         IN Decided(d, r) /\ Verdict(d, r) /\ d.queue[r.num] \in {"REBUILDING", "DEGRADED"}
  BY <1>1, AutoDecides, DegradedDecides
<1> HIDE DEF b
<1> QED BY <1>2, <1>3 DEF raid1_resume_rebuild, b

LEMMA GoodDecides ==
  ASSUME NEW r, Rested(r), AptPages(r), r.num < 2, Belong(r)
  PROVE LET q == raid1_both_are_good(r)
        IN Decided(q, r) /\ Verdict(q, r)
<1> DEFINE q == raid1_both_are_good(r)
<1>1. Whole(r)
  BY DEF Belong, Belongs, Whole
<1>2. ASSUME NEW st \in {"GOOD", "BROKEN"}
      PROVE LET a == append_array_status(r, st) IN Decided(a, r) /\ Verdict(a, r)
  <2> DEFINE a == append_array_status(r, st)
  <2>1. /\ Decided(a, r) /\ a.rp = r.rp /\ a.cur = r.cur /\ a.mirror = r.mirror
        /\ a.num = r.num + 1 /\ a.queue[r.num] = st
    BY AppendDecides, StatusIs
  <2> HIDE DEF a
  <2>2. Belong(a)
    BY <2>1 DEF Decided, Belong, Belongs, Ready
  <2> QED BY <2>1, <2>2 DEF Verdict, a
<1>3. ASSUME NEW g \in Slots
      PROVE LET a == raid1_might_be_auto_rebuild(r, g, "GOOD") IN Decided(a, r) /\ Verdict(a, r)
  BY <1>1, AutoDecides DEF Belong
<1> QED BY <1>2, <1>3 DEF raid1_both_are_good, Slots

LEMMA Raid1Decides ==
  ASSUME NEW r, Rested(r), AptPages(r), r.num < 2, NEW pair, Fits2(r, pair),
         \A s \in Slots : pair[s] \in {"GOOD", "REBUILDING"} => Belongs(r, s)
  PROVE LET q == set_raid1_array_status(r, pair)
            st == q.queue[r.num]
        IN /\ Decided(q, r) /\ Verdict(q, r)
           /\ st = "GOOD" => \A s \in Slots : pair[s] = "GOOD"
           /\ st = "REBUILDING" => \A s \in Slots : pair[s] \in {"GOOD", "REBUILDING", "BLANK"}
           /\ st \in {"REBUILDING", "DEGRADED"} => \E g \in Slots : pair[g] = "GOOD"
<1> DEFINE q == set_raid1_array_status(r, pair)
<1>1. ASSUME NEW g \in Slots, NEW t \in Slots, t = Across(g), pair[g] = "GOOD"
      PROVE LET a == raid1_at_least_one_good(r, g, pair[t])
            IN /\ Decided(a, r) /\ Verdict(a, r)
               /\ a.queue[r.num] = "REBUILDING" => pair[t] \in {"GOOD", "REBUILDING", "BLANK"}
  <2> DEFINE o == pair[t]
  <2>1. Belongs(r, g) /\ (o # "EMPTY" => Whole(r))
    <3>1. \A s \in Slots : s = g \/ s = t
      BY <1>1 DEF Slots, Across
    <3> QED BY <1>1, <3>1 DEF Fits2, Whole
  <2>2. o \in {"GOOD", "REBUILDING"} => Belong(r)
    <3>1. \A s \in Slots : s = g \/ s = t
      BY <1>1 DEF Slots, Across
    <3> QED BY <1>1, <3>1 DEF Belong
  <2> HIDE DEF o
  <2>3. CASE o = "GOOD"
    BY <2>2, <2>3, GoodDecides DEF raid1_at_least_one_good, o
  <2>4. CASE o = "REBUILDING"
    BY <2>2, <2>4, ResumeDecides DEF raid1_at_least_one_good, o
  <2>5. CASE o = "BLANK"
    <3>1. raid1_at_least_one_good(r, g, o) = raid1_might_be_auto_rebuild(r, g, o)
      BY <2>5 DEF raid1_at_least_one_good
    <3> QED BY <2>1, <2>5, <3>1, AutoDecides DEF o
  <2>6. CASE o \notin {"GOOD", "REBUILDING", "BLANK"}
    <3>1. raid1_at_least_one_good(r, g, o) = raid1_degraded(r, g, o)
      BY <2>6 DEF raid1_at_least_one_good
    <3>2. LET a == raid1_degraded(r, g, o)
          IN Decided(a, r) /\ Verdict(a, r) /\ a.queue[r.num] = "DEGRADED"
      BY <2>1, DegradedDecides
    <3> QED BY <3>1, <3>2 DEF o
  <2> QED BY <2>3, <2>4, <2>5, <2>6
<1>2. Across(0) = 1 /\ Across(1) = 0 /\ 0 \in Slots /\ 1 \in Slots
  BY DEF Across, Slots
<1>3. q.queue[r.num] = "GOOD" => pair[0] = "GOOD" /\ pair[1] = "GOOD"
  BY Raid1Adds
<1>4. CASE pair[0] = "GOOD"
  <2>1. q = raid1_at_least_one_good(r, 0, pair[1])
    BY <1>4 DEF set_raid1_array_status
  <2>2. /\ Decided(q, r) /\ Verdict(q, r)
        /\ q.queue[r.num] = "REBUILDING" => pair[1] \in {"GOOD", "REBUILDING", "BLANK"}
    BY <1>1, <1>2, <1>4, <2>1
  <2> HIDE DEF q
  <2> QED BY <1>2, <1>3, <1>4, <2>2 DEF q, Slots
<1>5. CASE pair[0] # "GOOD" /\ pair[1] = "GOOD"
  <2>1. q = raid1_at_least_one_good(r, 1, pair[0])
    BY <1>5 DEF set_raid1_array_status
  <2>2. /\ Decided(q, r) /\ Verdict(q, r)
        /\ q.queue[r.num] = "REBUILDING" => pair[0] \in {"GOOD", "REBUILDING", "BLANK"}
    BY <1>1, <1>2, <1>5, <2>1
  <2> HIDE DEF q
  <2> QED BY <1>2, <1>3, <1>5, <2>2 DEF q, Slots
<1>6. CASE pair[0] # "GOOD" /\ pair[1] # "GOOD"
  <2>1. q = append_array_status(r, "BROKEN")
    BY <1>6 DEF set_raid1_array_status
  <2>2. /\ Decided(q, r) /\ q.cur = r.cur /\ q.mirror = r.mirror
        /\ q.num = r.num + 1 /\ q.queue[r.num] = "BROKEN"
    BY <2>1, AppendDecides, StatusIs
  <2> HIDE DEF q
  <2> QED BY <2>2 DEF Verdict, q
<1> QED BY <1>4, <1>5, <1>6

\* Of a single drive, or of drives never configured: no page changes.
LEMMA OtherDecides ==
  ASSUME NEW r, Rested(r), AptPages(r), r.num < 2, NEW mode, mode # "RAID1", NEW pair
  PROVE LET q == set_array_status(r, mode, pair)
        IN /\ Decided(q, r) /\ q.rp = r.rp /\ q.cur = r.cur /\ q.mirror = r.mirror /\ q.need = r.need
           /\ q.num = r.num + 1 /\ q.newer = r.newer
           /\ q.queue[r.num] = IF mode # "JBOD" THEN "NOT_CONFIGURED"
                               ELSE IF Single(pair) THEN "GOOD" ELSE "BROKEN"
<1> DEFINE st == IF mode # "JBOD" THEN "NOT_CONFIGURED" ELSE IF Single(pair) THEN "GOOD" ELSE "BROKEN"
<1>1. set_array_status(r, mode, pair) = append_array_status(r, st)
  BY DEF set_array_status, set_jbod_array_status, Single
<1>2. st \in ArrayStatus
  BY StatusIs
<1> HIDE DEF st
<1>3. append_array_status(r, st).newer = r.newer
  BY DEF append_array_status, Rested, RamType
<1> QED BY <1>1, <1>2, <1>3, AppendDecides DEF st

LEMMA NoDriveOut == NoDrive \notin Drives
BY DrivesAssumption

\* Nobody is moved: the page of the drive in a bay is at the place of the bay.
LEMMA MappingIs ==
  ASSUME NEW r, Rested(r), FixedBays, Fit(r.bay), \A i \in Slots : Apt(r.nvm[i], i)
  PROVE LET q == populate_slot_mapping(r)
        IN /\ q.map = [s \in Slots |-> s]
           /\ q.newer = {s \in Slots : ~(Ready(r, s) /\ r.bay[s] = Owner(r.nvm[s]))}
           /\ q = [r EXCEPT !.map = q.map, !.newer = q.newer]
<1> DEFINE found == [s \in Slots |->
                  IF \E i \in Slots : Ready(r, s) /\ r.bay[s] = Owner(r.nvm[i])
                  THEN CHOOSE i \in Slots : /\ r.bay[s] = Owner(r.nvm[i])
                                            /\ i = 1 => r.bay[s] # Owner(r.nvm[0])
                  ELSE 2]
           Leftover(m, i) ==
        LET open == {s \in Slots : m[s] = 2}
        IN  IF i \in {m[s] : s \in Slots} \/ open = {} THEN m
            ELSE [m EXCEPT ![IF 0 \in open THEN 0 ELSE 1] = i]
           map == Leftover(Leftover(found, 0), 1)
           at == {s \in Slots : Ready(r, s) /\ r.bay[s] = Owner(r.nvm[s])}
<1>1. ASSUME NEW s \in Slots, NEW i \in Slots, Ready(r, s), r.bay[s] = Owner(r.nvm[i]) PROVE i = s
  <2>1. r.bay[s] \in Drives /\ s \in Fits[r.bay[s]]
    BY <1>1 DEF Ready, Fit, Rested, RamType, Bays
  <2>2. i \in Fits[r.bay[s]]
    BY <1>1, <2>1 DEF Apt, Owned, Ready
  <2> QED BY <2>1, <2>2 DEF FixedBays
<1>2. ASSUME NEW s \in Slots PROVE found[s] = IF s \in at THEN s ELSE 2
  <2>1. CASE s \in at
    <3>1. \E i \in Slots : /\ r.bay[s] = Owner(r.nvm[i])
                           /\ i = 1 => r.bay[s] # Owner(r.nvm[0])
      <4>1. s = 1 => r.bay[s] # Owner(r.nvm[0])
        BY <1>1, <2>1 DEF Slots
      <4> QED BY <2>1, <4>1
    <3>2. \A i \in Slots : r.bay[s] = Owner(r.nvm[i]) => i = s
      BY <1>1, <2>1
    <3> QED BY <2>1, <3>1, <3>2
  <2>2. CASE s \notin at
    BY <1>1, <2>2
  <2> QED BY <2>1, <2>2
<1>3. found = [s \in Slots |-> IF s \in at THEN s ELSE 2]
  BY <1>2
<1> HIDE DEF found
<1>4. map = [s \in Slots |-> s]
  <2>0. at \subseteq Slots
    OBVIOUS
  <2> HIDE DEF at
  <2> DEFINE a == Leftover(found, 0)
  <2>1. found \in [Slots -> 0..2] /\ \A s \in Slots : found[s] \in {s, 2}
    BY <1>3 DEF Slots
  <2>2. a[0] = 0 /\ a[1] = found[1] /\ a = [s \in Slots |-> a[s]]
    <3>1. CASE found[0] = 0
      <4>1. a = found
        BY <2>1, <3>1 DEF Slots
      <4> QED BY <2>1, <3>1, <4>1
    <3>2. CASE found[0] = 2
      <4>1. 0 \notin {found[s] : s \in Slots} /\ 0 \in {s \in Slots : found[s] = 2}
        BY <2>1, <3>2 DEF Slots
      <4>2. a = [found EXCEPT ![0] = 0]
        BY <4>1
      <4> HIDE DEF a
      <4> QED BY <2>1, <4>2 DEF Slots
    <3> QED BY <2>1, <3>1, <3>2 DEF Slots
  <2> HIDE DEF a
  <2>3. Leftover(a, 1) = [s \in Slots |-> s]
    <3>1. CASE a[1] = 1
      <4>1. Leftover(a, 1) = a
        BY <3>1 DEF Slots
      <4> QED BY <2>2, <3>1, <4>1 DEF Slots
    <3>2. CASE a[1] = 2
      <4>1. 1 \notin {a[s] : s \in Slots} /\ {s \in Slots : a[s] = 2} = {1}
        BY <2>2, <3>2 DEF Slots
      <4>2. Leftover(a, 1) = [a EXCEPT ![1] = 1]
        BY <4>1
      <4> HIDE DEF Leftover
      <4> QED BY <2>2, <4>2 DEF Slots
    <3> QED BY <2>1, <2>2, <3>1, <3>2 DEF Slots
  <2> QED BY <2>3 DEF a
<1> HIDE DEF map, Leftover
<1>5. {s \in Slots : map[s] # found[s]} = {s \in Slots : s \notin at}
  BY <1>3, <1>4 DEF Slots
<1>6. populate_slot_mapping(r) = [r EXCEPT !.map = map, !.newer = {s \in Slots : map[s] # found[s]}]
  BY DEF populate_slot_mapping, map, found, Leftover
<1> HIDE DEF found
<1> QED BY <1>4, <1>5, <1>6 DEF Rested, RamType

\* What determine_slot_status makes of slot s, the pages being in place.
Read(q, r, s) ==
  /\ Rested(q) /\ q.bay = r.bay /\ q.map = r.map /\ q.nvm = r.nvm /\ q.need = r.need /\ q.newer = r.newer
  /\ q.io = r.io /\ q.mirror = r.mirror /\ q.reenum = r.reenum /\ q.mode = r.mode
  /\ q.rp[Across(s)] = r.rp[Across(s)] /\ q.cur[Across(s)] = r.cur[Across(s)]
  /\ IF Ready(r, s) /\ r.bay[s] = Owner(r.nvm[s])
     THEN q.rp[s] = r.nvm[s] /\ q.cur[s] = r.nvm[s].status[r.nvm[s].disk_num]
     ELSE /\ ~Owned(q.rp[s]) /\ q.rp[s].mode = "NOT_CONFIGURED" /\ \A x \in Slots : q.rp[s].id[x] = NoDrive
          /\ q.cur[s] = IF Ready(r, s) THEN "BLANK" ELSE "EMPTY"

LEMMA SlotRead ==
  ASSUME NEW r, Rested(r), r.map = [x \in Slots |-> x], NEW s \in Slots
  PROVE Read(determine_slot_status(r, s), r, s)
<1> DEFINE clear == ClearPage(2 + s)
           e == [r EXCEPT !.rp[s] = clear, !.cur[s] = "EMPTY"]
           q == determine_slot_status(r, s)
<1>0. Rested(q)
  BY SlotStatusRests
<1>1. clear \in Sound /\ clear.mode = "NOT_CONFIGURED" /\ ~Owned(clear)
      /\ (\A x \in Slots : clear.id[x] = NoDrive) /\ clear.disk_num = 2 + s
  <2>1. clear \in Sound
    BY ClearPageIs DEF Slots
  <2> QED BY <2>1 DEF ClearPage, Owned, Owner, Slots
<1> HIDE DEF clear
<1>2. /\ Rested(e) /\ e.bay = r.bay /\ e.map = r.map /\ e.nvm = r.nvm /\ e.need = r.need /\ e.newer = r.newer
      /\ e.io = r.io /\ e.mirror = r.mirror /\ e.reenum = r.reenum /\ e.mode = r.mode
      /\ e.rp[s] = clear /\ e.cur[s] = "EMPTY"
      /\ e.rp[Across(s)] = r.rp[Across(s)] /\ e.cur[Across(s)] = r.cur[Across(s)]
  <2>1. "EMPTY" \in SlotStatus /\ Across(s) \in Slots /\ Across(s) # s
    BY StatusIs DEF Across, Slots
  <2> QED BY <1>1, <2>1 DEF Rested, RamType
<1>3. q = IF ~Ready(e, s) THEN e
          ELSE IF read_3rd_copy_raidParams(e, s) THEN use_meta_stat(read_restore_slot_matadata(e, s), s)
          ELSE set_stat(e, s, "BLANK")
  BY DEF determine_slot_status, clear
<1> HIDE DEF e, q
<1>4. Across(s) \in Slots /\ Across(s) # s
  BY DEF Across, Slots
<1>5. CASE ~Ready(e, s)
  <2>1. q = e
    BY <1>3, <1>5
  <2>2. ~Ready(r, s)
    BY <1>2, <1>5 DEF Ready
  <2> QED BY <1>1, <1>2, <2>1, <2>2 DEF Read, q
<1>6. CASE Ready(e, s) /\ read_3rd_copy_raidParams(e, s)
  <2> DEFINE page == r.nvm[s]
             m == [e EXCEPT !.rp = [@ EXCEPT ![s] = page], !.sealed = [@ EXCEPT ![s] = page]]
  <2>1. Ready(r, s) /\ r.bay[s] = Owner(r.nvm[s]) /\ e.map[s] = s
    BY <1>2, <1>6 DEF Ready, read_3rd_copy_raidParams
  <2>2. read_restore_slot_matadata(e, s) = m
    BY <1>2, <2>1 DEF read_restore_slot_matadata, Rested, RamType
  <2> HIDE DEF page
  <2>3. m.rp[s] = page /\ m.rp[Across(s)] = r.rp[Across(s)] /\ m.cur = e.cur
        /\ m.bay = r.bay /\ m.map = r.map /\ m.nvm = r.nvm /\ m.need = r.need /\ m.newer = r.newer
        /\ m.io = r.io /\ m.mirror = r.mirror /\ m.reenum = r.reenum /\ m.mode = r.mode
    BY <1>2, <1>4 DEF Rested, RamType
  <2>4. m = [m EXCEPT !.cur = e.cur]
    BY <1>2 DEF Rested, RamType
  <2>5. q = use_meta_stat(m, s)
    BY <1>3, <1>6, <2>2
  <2>6. /\ q.rp = m.rp /\ q.cur = [e.cur EXCEPT ![s] = page.status[page.disk_num]]
        /\ q.bay = m.bay /\ q.map = m.map /\ q.nvm = m.nvm /\ q.need = m.need /\ q.newer = m.newer
        /\ q.io = m.io /\ q.mirror = m.mirror /\ q.reenum = m.reenum /\ q.mode = m.mode
    BY <1>2, <2>3, <2>5 DEF use_meta_stat, Rested, RamType
  <2> HIDE DEF m
  <2>7. q.cur[s] = page.status[page.disk_num] /\ q.cur[Across(s)] = e.cur[Across(s)]
    BY <1>2, <1>4, <2>6 DEF Rested, RamType
  <2> QED BY <1>0, <1>2, <2>1, <2>3, <2>6, <2>7 DEF Read, q, page
<1>7. CASE Ready(e, s) /\ ~read_3rd_copy_raidParams(e, s)
  <2> DEFINE n == get_disk_num(e, s, "BLANK")
             page == [clear EXCEPT !.status[n] = "BLANK"]
  <2>1. Ready(r, s) /\ r.bay[s] # Owner(r.nvm[s])
    BY <1>2, <1>7 DEF Ready, read_3rd_copy_raidParams
  <2>2. q = set_stat(e, s, "BLANK")
    BY <1>3, <1>7
  <2>3. /\ q.rp[s] = page /\ q.rp[Across(s)] = e.rp[Across(s)]
        /\ q.cur[s] = "BLANK" /\ q.cur[Across(s)] = e.cur[Across(s)]
        /\ q.bay = e.bay /\ q.map = e.map /\ q.nvm = e.nvm /\ q.need = e.need /\ q.newer = e.newer
        /\ q.io = e.io /\ q.mirror = e.mirror /\ q.reenum = e.reenum /\ q.mode = e.mode
    <3> HIDE DEF n
    <3> QED BY <1>2, <1>4, <2>2 DEF set_stat, n, Rested, RamType
  <2> HIDE DEF n
  <2>4. page.mode = clear.mode /\ page.id = clear.id /\ page.disk_num = clear.disk_num
    BY <1>1 DEF Sound, Page
  <2> HIDE DEF page
  <2>5. ~Owned(page)
    BY <1>1, <2>4 DEF Owned, Owner, Slots
  <2> QED BY <1>0, <1>1, <1>2, <2>1, <2>3, <2>4, <2>5 DEF Read, q
<1> QED BY <1>5, <1>6, <1>7
\* The drive in bay s has a page in the flash.
Known(r, s) == Ready(r, s) /\ r.bay[s] = Owner(r.nvm[s])

\* The pages and the statuses as determine_slot_status finds them.
Listed(r) ==
  /\ r.newer = {s \in Slots : ~Known(r, s)}
  /\ \A s \in Slots :
       IF Known(r, s) THEN r.rp[s] = r.nvm[s] /\ r.cur[s] = r.nvm[s].status[r.nvm[s].disk_num]
       ELSE /\ ~Owned(r.rp[s]) /\ r.rp[s].mode = "NOT_CONFIGURED" /\ \A x \in Slots : r.rp[s].id[x] = NoDrive
            /\ r.cur[s] = IF Ready(r, s) THEN "BLANK" ELSE "EMPTY"

\* A slot is in use only with a page about the drive there, and a drive
\* without a page is in no array.
Paged(r) ==
  /\ \A s \in Slots : Owned(r.rp[s]) => /\ Owner(r.rp[s]) = r.bay[s]
                                        /\ r.rp[s].mode = "JBOD" => r.cur[s] = "GOOD"
  /\ \A s \in Slots : r.cur[s] \in {"GOOD", "REBUILDING"} => Owned(r.rp[s])
  /\ \A s \in Slots : ~Owned(r.rp[s]) /\ r.cur[s] # "EMPTY" => r.rp[s].mode = "NOT_CONFIGURED"

\* What determine_array_status starts from.
Enumerated(r) == Sane(r) /\ AptPages(r) /\ Paged(r) /\ r.need = {} /\ ~r.mirror

\* The result of the first half of raid_enumeration.
ListedSlots(r0) ==
  determine_slot_status(determine_slot_status([populate_slot_mapping(r0) EXCEPT !.need = {}], 0), 1)

LEMMA ListingIs ==
  ASSUME NEW r0, Rested(r0), FixedBays, Fit(r0.bay), \A i \in Slots : Apt(r0.nvm[i], i), ~r0.mirror
  PROVE LET q == ListedSlots(r0)
        IN /\ Listed(q) /\ Enumerated(q)
           /\ q.bay = r0.bay /\ q.nvm = r0.nvm /\ q.io = r0.io /\ q.reenum = r0.reenum /\ q.mode = r0.mode
<1> DEFINE m == populate_slot_mapping(r0)
           clean == [m EXCEPT !.need = {}]
           a == determine_slot_status(clean, 0)
           q == determine_slot_status(a, 1)
<1>1. /\ Rested(m) /\ m.map = [s \in Slots |-> s]
      /\ m.newer = {s \in Slots : ~Known(r0, s)}
      /\ m = [r0 EXCEPT !.map = m.map, !.newer = m.newer]
  BY MappingRests, MappingIs DEF Known
<1> HIDE DEF m
<1>2. /\ Rested(clean) /\ clean.map = [s \in Slots |-> s] /\ clean.newer = {s \in Slots : ~Known(r0, s)}
      /\ clean.bay = r0.bay /\ clean.nvm = r0.nvm /\ clean.io = r0.io /\ clean.reenum = r0.reenum
      /\ clean.mode = r0.mode /\ clean.need = {} /\ clean.mirror = r0.mirror
  BY <1>1 DEF Rested, RamType
<1> HIDE DEF clean
<1>3. Read(a, clean, 0)
  BY <1>2, SlotRead DEF Slots
<1>4. Sane(q) /\ q.bay = r0.bay
  BY <1>2, SlotsSane
<1> HIDE DEF a
<1>5. Read(q, a, 1)
  BY <1>2, <1>3, SlotRead DEF Slots, Read
<1> HIDE DEF q
<1>6. /\ q.map = [s \in Slots |-> s] /\ q.newer = {s \in Slots : ~Known(r0, s)}
      /\ q.bay = r0.bay /\ q.nvm = r0.nvm /\ q.io = r0.io /\ q.reenum = r0.reenum
      /\ q.mode = r0.mode /\ q.need = {} /\ ~q.mirror /\ Rested(q)
      /\ a.bay = r0.bay /\ a.nvm = r0.nvm
  BY <1>2, <1>3, <1>5 DEF Read
<1>7. q.rp[0] = a.rp[0] /\ q.cur[0] = a.cur[0]
  BY <1>5 DEF Read, Across
<1>8. Listed(q)
  <2>1. \A s \in Slots : Known(q, s) <=> Known(r0, s)
    BY <1>6 DEF Known, Ready
  <2>2. ASSUME NEW s \in Slots
        PROVE IF Known(q, s) THEN q.rp[s] = q.nvm[s] /\ q.cur[s] = q.nvm[s].status[q.nvm[s].disk_num]
              ELSE /\ ~Owned(q.rp[s]) /\ q.rp[s].mode = "NOT_CONFIGURED" /\ \A x \in Slots : q.rp[s].id[x] = NoDrive
                   /\ q.cur[s] = IF Ready(q, s) THEN "BLANK" ELSE "EMPTY"
    <3>1. CASE s = 0
      BY <1>2, <1>3, <1>6, <1>7, <3>1 DEF Read, Known, Ready
    <3>2. CASE s = 1
      BY <1>5, <1>6, <3>2 DEF Read, Known, Ready
    <3> QED BY <3>1, <3>2 DEF Slots
  <2>3. q.newer = {s \in Slots : ~Known(q, s)}
    BY <1>6, <2>1
  <2> QED BY <2>2, <2>3 DEF Listed
<1>9. AptPages(q)
  <2>1. ASSUME NEW s \in Slots PROVE Apt(q.rp[s], s) /\ Apt(q.nvm[s], s)
    <3>1. Apt(q.nvm[s], s)
      BY <1>6
    <3>2. CASE Known(q, s)
      BY <1>8, <3>1, <3>2 DEF Listed
    <3>3. CASE ~Known(q, s)
      BY <1>8, <3>1, <3>3 DEF Listed, Apt
    <3> QED BY <3>2, <3>3, <3>1
  <2> QED BY <1>6, <2>1 DEF AptPages
<1>10. Paged(q)
  <2>1. ASSUME NEW s \in Slots
        PROVE /\ Owned(q.rp[s]) => /\ Owner(q.rp[s]) = q.bay[s]
                                   /\ q.rp[s].mode = "JBOD" => q.cur[s] = "GOOD"
              /\ q.cur[s] \in {"GOOD", "REBUILDING"} => Owned(q.rp[s])
              /\ ~Owned(q.rp[s]) /\ q.cur[s] # "EMPTY" => q.rp[s].mode = "NOT_CONFIGURED"
    <3>1. CASE Known(q, s)
      <4>1. q.rp[s] = q.nvm[s] /\ q.cur[s] = q.rp[s].status[q.rp[s].disk_num] /\ Apt(q.rp[s], s)
        BY <1>8, <1>9, <3>1 DEF Listed, AptPages
      <4>2. Owner(q.rp[s]) = q.bay[s] /\ Owned(q.rp[s])
        BY <4>1, <3>1 DEF Known, Ready, Owned
      <4> QED BY <4>1, <4>2 DEF Apt
    <3>2. CASE ~Known(q, s)
      BY <1>8, <3>2 DEF Listed
    <3> QED BY <3>1, <3>2
  <2> QED BY <2>1 DEF Paged
<1> QED BY <1>4, <1>6, <1>8, <1>9, <1>10 DEF Enumerated, ListedSlots, q, a, clean, m
\* The drive that is good remains so while the other one is rebuilt.
Rebuilt(q, r, g) == q.cur = r.cur \/ q.cur = [r.cur EXCEPT ![Across(g)] = "REBUILDING"]

LEMMA AutoCur ==
  ASSUME NEW r, Rested(r), NEW g \in Slots, NEW o PROVE Rebuilt(raid1_might_be_auto_rebuild(r, g, o), r, g)
<1> DEFINE t == Across(g)
           a == append_array_status(r, "REBUILDING")
           b == update_slots_for_rebuilding(a, g)
           c == [StartRebuild(b, g, 0) EXCEPT !.newer = {}]
           e == SetCheckPoint(c, Step)
           d == raid1_degraded(r, g, o)
<1>1. Rested(a) /\ a.cur = r.cur
  BY AppendRests, StatusIs, ZenonT(60) DEF append_array_status, Rested, RamType
<1> HIDE DEF a
<1>2. Rested(b) /\ b.cur = [r.cur EXCEPT ![t] = "REBUILDING"]
  BY <1>1, RebuildingRests, ZenonT(60) DEF update_slots_for_rebuilding, Rested, RamType
<1> HIDE DEF b
<1>3. Rested(c) /\ c.cur = b.cur
  <2>1. Rested(StartRebuild(b, g, 0)) /\ StartRebuild(b, g, 0).cur = b.cur
    BY <1>2, StartKeepsPages, Constants
  <2> QED BY <2>1 DEF Rested, RamType
<1> HIDE DEF c
<1>4. e.cur = b.cur
  BY <1>3, SetCheckPointSame, Constants DEF Same
<1>5. d.cur = r.cur
  BY DegradedSame DEF Same
<1>6. raid1_might_be_auto_rebuild(r, g, o) \in {e, d}
  BY DEF raid1_might_be_auto_rebuild, a, b, c, d, e
<1> HIDE DEF d, e
<1> QED BY <1>2, <1>4, <1>5, <1>6 DEF Rebuilt

LEMMA Raid1Cur ==
  ASSUME NEW r, Rested(r), NEW pair
  PROVE LET q == set_raid1_array_status(r, pair)
        IN q.cur = r.cur \/ \E g \in Slots : pair[g] = "GOOD" /\ Rebuilt(q, r, g)
<1>1. ASSUME NEW st \in ArrayStatus PROVE append_array_status(r, st).cur = r.cur
  BY AppendSame DEF Same
<1>2. ASSUME NEW g \in Slots, NEW o PROVE raid1_degraded(r, g, o).cur = r.cur
  BY DegradedSame DEF Same
<1>3. ASSUME NEW g \in Slots, NEW o, o # "GOOD" PROVE Rebuilt(raid1_at_least_one_good(r, g, o), r, g)
  <2>1. CASE o = "REBUILDING"
    <3> DEFINE a == append_array_status(r, "REBUILDING")
               b == StartRebuild(a, g, r.cp[g] - Step)
               c == raid1_might_be_auto_rebuild(r, g, "REBUILDING")
               d == raid1_degraded(r, g, "REBUILDING")
    <3>1. Rested(a) /\ a.cur = r.cur
      BY <1>1, AppendRests, StatusIs
    <3> HIDE DEF a
    <3>2. b.cur = r.cur
      BY <3>1 DEF StartRebuild, Rested, RamType
    <3>3. Rebuilt(c, r, g) /\ d.cur = r.cur
      BY <1>2, AutoCur
    <3>4. raid1_at_least_one_good(r, g, o) \in {b, c, d}
      BY <2>1 DEF raid1_at_least_one_good, raid1_resume_rebuild, a, b, c, d
    <3> HIDE DEF b, c, d
    <3> QED BY <3>2, <3>3, <3>4 DEF Rebuilt
  <2>2. CASE o = "BLANK"
    BY <2>2, AutoCur DEF raid1_at_least_one_good
  <2>3. CASE o \notin {"REBUILDING", "BLANK"}
    <3>1. raid1_at_least_one_good(r, g, o) = raid1_degraded(r, g, o)
      BY <1>3, <2>3 DEF raid1_at_least_one_good
    <3> QED BY <1>2, <3>1 DEF Rebuilt
  <2> QED BY <2>1, <2>2, <2>3
<1>4. ASSUME NEW g \in Slots
      PROVE LET q == raid1_at_least_one_good(r, g, "GOOD")
            IN q.cur = r.cur \/ \E x \in Slots : Rebuilt(q, r, x)
  <2>1. raid1_at_least_one_good(r, g, "GOOD") = raid1_both_are_good(r)
    BY DEF raid1_at_least_one_good
  <2>2. /\ append_array_status(r, "GOOD").cur = r.cur /\ append_array_status(r, "BROKEN").cur = r.cur
        /\ \A x \in Slots : Rebuilt(raid1_might_be_auto_rebuild(r, x, "GOOD"), r, x)
    BY <1>1, AutoCur, StatusIs
  <2> QED BY <2>1, <2>2 DEF raid1_both_are_good, Slots
<1>5. CASE pair[0] = "GOOD"
  <2>1. set_raid1_array_status(r, pair) = raid1_at_least_one_good(r, 0, pair[1])
    BY <1>5 DEF set_raid1_array_status
  <2>2. 0 \in Slots
    BY DEF Slots
  <2>3. CASE pair[1] = "GOOD"
    <3>1. \A x \in Slots : pair[x] = "GOOD"
      BY <1>5, <2>3 DEF Slots
    <3> QED BY <1>4, <2>1, <2>2, <2>3, <3>1
  <2> QED BY <1>3, <1>5, <2>1, <2>2, <2>3
<1>6. CASE pair[0] # "GOOD" /\ pair[1] = "GOOD"
  <2>1. set_raid1_array_status(r, pair) = raid1_at_least_one_good(r, 1, pair[0])
    BY <1>6 DEF set_raid1_array_status
  <2>2. 1 \in Slots
    BY DEF Slots
  <2> QED BY <1>3, <1>6, <2>1, <2>2
<1>7. CASE pair[0] # "GOOD" /\ pair[1] # "GOOD"
  BY <1>1, <1>7, StatusIs DEF set_raid1_array_status
<1> QED BY <1>5, <1>6, <1>7

\* The array is admitted: the drive that is new takes the mode of the other one.
LEMMA JoinedIs ==
  ASSUME NEW r, Enumerated(r)
  PROVE LET q == Joined(r)
        IN /\ Sane(q) /\ AptPages(q)
           /\ q.bay = r.bay /\ q.nvm = r.nvm /\ q.io = r.io /\ q.need = r.need /\ q.newer = r.newer
           /\ q.mirror = r.mirror /\ q.reenum = r.reenum /\ q.mode = r.mode /\ q.ids = r.ids /\ q.num = r.num
           /\ \A s \in Slots : Owner(q.rp[s]) = Owner(r.rp[s])
           /\ \A s \in Slots : Owned(r.rp[s]) => q.rp[s].mode = r.rp[s].mode
           /\ \A s \in Slots : q.cur[s] = r.cur[s] \/ (r.cur[s] = "BLANK" /\ q.cur[s] = "SOFT_REJECTED")
           /\ Newcomer(r) = {} \/ (\E s \in Slots : r.cur[s] = "EMPTY") => q = r
           /\ (\A s \in Slots : r.cur[s] # "EMPTY") /\ (\E s \in Newcomer(r) : r.bay[s] \notin TooSmall)
              => q.rp[0].mode = "RAID1" /\ \A s \in Slots : q.rp[s].mode # "JBOD"
<1> DEFINE q == Joined(r)
           small == {s \in Newcomer(r) : r.bay[s] \in TooSmall}
<1>0. Rested(r) /\ Sane(r)
  BY DEF Enumerated, Sane
<1>1. Sane(q) /\ q.bay = r.bay
  BY <1>0, AdmittedSane DEF Joined
<1>2. CASE (\E s \in Slots : r.cur[s] = "EMPTY") \/ Newcomer(r) = {}
  <2>1. q = r
    BY <1>2 DEF Joined, Admitted
  <2> HIDE DEF q
  <2> QED BY <1>0, <1>2, <2>1 DEF Enumerated, q
<1>3. CASE (\A s \in Slots : r.cur[s] # "EMPTY") /\ small # {}
  <2>1. PICK s \in small : q = set_stat(r, s, "SOFT_REJECTED")
    BY <1>3 DEF Joined, Admitted
  <2> DEFINE n == get_disk_num(r, s, "SOFT_REJECTED")
             page == [r.rp[s] EXCEPT !.status[n] = "SOFT_REJECTED"]
  <2>2. s \in Slots /\ r.cur[s] = "BLANK" /\ Newcomer(r) = {s} /\ r.bay[s] \in TooSmall
    <3>1. s \in Newcomer(r) /\ r.bay[s] \in TooSmall
      BY <2>1
    <3>2. ASSUME NEW x \in Newcomer(r) PROVE x = s
      BY <3>1 DEF Newcomer, Across, Slots
    <3> QED BY <3>1, <3>2 DEF Newcomer
  <2>3. r.rp[s] \in Sound
    BY <1>0, <2>2 DEF Rested, RamType
  <2> HIDE DEF n
  <2>4. page.mode = r.rp[s].mode /\ page.disk_num = r.rp[s].disk_num /\ page.id = r.rp[s].id
    BY <2>3 DEF Sound, Page
  <2>5. q = [r EXCEPT !.rp = [@ EXCEPT ![s] = page], !.cur = [@ EXCEPT ![s] = "SOFT_REJECTED"]]
    BY <1>0, <2>1, <2>2 DEF set_stat, n, Rested, RamType
  <2> HIDE DEF page, q
  <2>6. /\ q.nvm = r.nvm /\ q.io = r.io /\ q.need = r.need /\ q.newer = r.newer /\ q.map = r.map
        /\ q.mirror = r.mirror /\ q.reenum = r.reenum /\ q.mode = r.mode /\ q.ids = r.ids /\ q.num = r.num
        /\ \A x \in Slots : /\ q.rp[x] = IF x = s THEN page ELSE r.rp[x]
                            /\ q.cur[x] = IF x = s THEN "SOFT_REJECTED" ELSE r.cur[x]
    BY <1>0, <2>5 DEF Rested, RamType
  <2>7. \A x \in Slots : q.rp[x] \in Sound /\ r.rp[x] \in Sound
    BY <1>0, <1>1 DEF Sane, Rested, RamType, q
  <2>8. \A x \in Slots : /\ Owner(q.rp[x]) = Owner(r.rp[x]) /\ q.rp[x].mode = r.rp[x].mode
                         /\ q.rp[x].id = r.rp[x].id
    BY <2>4, <2>6, <2>7 DEF Owner, Sound
  <2>9. ASSUME NEW x \in Slots PROVE Apt(q.rp[x], x)
    <3>1. Apt(r.rp[x], x)
      BY DEF Enumerated, AptPages
    <3>2. CASE x = s
      <4>1. Owned(r.rp[s]) => r.rp[s].mode # "JBOD"
        BY <2>2 DEF Enumerated, Paged
      <4> QED BY <2>8, <3>1, <3>2, <4>1 DEF Apt, Owned
    <3>3. CASE x # s
      BY <2>6, <3>1, <3>3
    <3> QED BY <3>2, <3>3
  <2>10. AptPages(q)
    BY <1>1, <2>6, <2>9 DEF AptPages, Enumerated, q
  <2> QED BY <1>1, <1>3, <2>2, <2>6, <2>8, <2>10 DEF q
<1>4. CASE (\A s \in Slots : r.cur[s] # "EMPTY") /\ small = {} /\ Newcomer(r) # {}
  <2>1. PICK s \in Newcomer(r) : Newcomer(r) = {s}
    <3>1. PICK s \in Newcomer(r) : TRUE
      BY <1>4
    <3>2. ASSUME NEW x \in Newcomer(r) PROVE x = s
      BY <3>1 DEF Newcomer, Across, Slots
    <3> QED BY <3>1, <3>2
  <2>2. s \in Slots /\ r.cur[s] = "BLANK" /\ r.rp[Across(s)].mode = "RAID1"
    BY <2>1 DEF Newcomer
  <2>3. /\ Owned(r.rp[s]) => r.rp[s].mode = "RAID1"
        /\ ~Owned(r.rp[s]) => r.rp[s].mode = "NOT_CONFIGURED"
    <3>1. Owned(r.rp[s]) => r.rp[s].mode # "JBOD" /\ r.rp[s].mode \in {"RAID1", "JBOD"}
      BY <2>2 DEF Enumerated, Paged, AptPages, Apt
    <3> QED BY <2>2, <3>1 DEF Enumerated, Paged
  <2>4. CASE s = 0
    <3> DEFINE page == [r.rp[0] EXCEPT !.mode = "RAID1"]
    <3>1. q = [r EXCEPT !.rp[0].mode = "RAID1"]
      BY <1>4, <2>1, <2>4 DEF Joined, Admitted
    <3>2. 0 \in Slots /\ r.rp[0] \in Sound
      BY <1>0 DEF Rested, RamType, Slots
    <3>3. page.mode = "RAID1" /\ page.disk_num = r.rp[0].disk_num /\ page.id = r.rp[0].id
      BY <3>2 DEF Sound, Page
    <3>4. q = [r EXCEPT !.rp = [@ EXCEPT ![0] = page]]
      BY <1>0, <3>1, <3>2 DEF Rested, RamType
    <3> HIDE DEF page, q
    <3>5. /\ q.nvm = r.nvm /\ q.io = r.io /\ q.need = r.need /\ q.newer = r.newer /\ q.map = r.map
          /\ q.mirror = r.mirror /\ q.reenum = r.reenum /\ q.mode = r.mode /\ q.ids = r.ids /\ q.num = r.num
          /\ q.cur = r.cur
          /\ \A x \in Slots : q.rp[x] = IF x = 0 THEN page ELSE r.rp[x]
      BY <1>0, <3>4 DEF Rested, RamType
    <3>6. \A x \in Slots : q.rp[x] \in Sound /\ r.rp[x] \in Sound
      BY <1>0, <1>1 DEF Sane, Rested, RamType, q
    <3>7. \A x \in Slots : Owner(q.rp[x]) = Owner(r.rp[x]) /\ q.rp[x].id = r.rp[x].id
      BY <3>3, <3>5, <3>6 DEF Owner, Sound
    <3>8. \A x \in Slots : Owned(r.rp[x]) => q.rp[x].mode = r.rp[x].mode
      BY <2>3, <2>4, <3>3, <3>5
    <3>9. ASSUME NEW x \in Slots PROVE Apt(q.rp[x], x)
      <4>1. Apt(r.rp[x], x)
        BY DEF Enumerated, AptPages
      <4>2. CASE x = 0
        BY <2>3, <2>4, <3>3, <3>5, <3>7, <4>1, <4>2 DEF Apt, Owned
      <4>3. CASE x # 0
        BY <3>5, <4>1, <4>3
      <4> QED BY <4>2, <4>3
    <3>10. AptPages(q)
      BY <1>1, <3>5, <3>9 DEF AptPages, Enumerated, q
    <3>11. q.rp[0].mode = "RAID1" /\ \A x \in Slots : q.rp[x].mode # "JBOD"
      BY <2>2, <2>4, <3>2, <3>3, <3>5 DEF Across, Slots
    <3> QED BY <1>1, <1>4, <2>1, <3>5, <3>7, <3>8, <3>10, <3>11 DEF q
  <2>5. CASE s = 1
    <3>1. q = r
      BY <1>4, <2>1, <2>5 DEF Joined, Admitted
    <3>2. r.rp[0].mode = "RAID1" /\ \A x \in Slots : r.rp[x].mode # "JBOD"
      BY <2>2, <2>3, <2>5 DEF Across, Slots
    <3> HIDE DEF q
    <3> QED BY <1>0, <3>1, <3>2 DEF Enumerated, q
  <2> QED BY <2>2, <2>4, <2>5 DEF Slots
<1> QED BY <1>2, <1>3, <1>4
\* The pages about drives are all of mode md.
OwnedModes(r, md) == \A s \in Slots : Owned(r.rp[s]) => r.rp[s].mode = md

\* A slot with a good status has the page of the drive there.
Manned(r) == \A s \in Slots : r.cur[s] \in {"GOOD", "REBUILDING"} => Owned(r.rp[s]) /\ Owner(r.rp[s]) = r.bay[s]

SomeGood(r) == \E g \in Slots : r.cur[g] = "GOOD"
NoneEmpty(r) == \A s \in Slots : r.cur[s] # "EMPTY"

\* What the status of the array says of the slots.
Settled(p) ==
  /\ p.mirror => p.num = 1 /\ p.queue[0] = "REBUILDING" /\ NoneEmpty(p)
  /\ p.num = 1 =>
       /\ p.queue[0] = "REBUILDING" => Belong(p)
       /\ p.queue[0] = "GOOD" /\ p.rp[First(p)].mode = "RAID1" => Belong(p)
       /\ p.queue[0] \in {"REBUILDING", "DEGRADED"} => SomeGood(p)
       /\ p.queue[0] = "DEGRADED" /\ NoneEmpty(p) =>
            \A s \in Slots : /\ p.rp[s].mode # "JBOD"
                             /\ p.cur[s] \in {"GOOD", "REBUILDING"} => Belongs(p, s)

LEMMA MannedBelongs ==
  ASSUME NEW r, Rested(r), Manned(r), NEW s \in Slots, r.cur[s] \in {"GOOD", "REBUILDING"}, r.rp[s].mode = "RAID1"
  PROVE Belongs(r, s)
BY DEF Manned, Belongs, Owned, Ready

LEMMA DecidedManned ==
  ASSUME NEW q, NEW r, Decided(q, r), Manned(r) PROVE Manned(q)
<1>1. ASSUME NEW s \in Slots, q.cur[s] \in {"GOOD", "REBUILDING"}
      PROVE Owned(q.rp[s]) /\ Owner(q.rp[s]) = q.bay[s]
  <2>1. CASE Belongs(q, s)
    BY <2>1 DEF Belongs, Ready, Owned
  <2>2. CASE ~Belongs(q, s)
    <3>1. Alike(q, r) /\ q.cur[s] = r.cur[s] /\ q.bay = r.bay
      BY <2>2 DEF Decided, Belong
    <3> QED BY <1>1, <3>1 DEF Manned, Alike, Owned
  <2> QED BY <2>1, <2>2
<1> QED BY <1>1 DEF Manned

LEMMA DecidedModes ==
  ASSUME NEW q, NEW r, Decided(q, r), NEW md, OwnedModes(r, md) PROVE OwnedModes(q, md)
<1>1. CASE Alike(q, r)
  BY <1>1 DEF Alike, OwnedModes, Owned
<1>2. CASE Belong(q) /\ \E g \in Slots : Belongs(r, g)
  <2>1. md = "RAID1"
    BY <1>2 DEF Belongs, Ready, OwnedModes, Owned
  <2> QED BY <1>2, <2>1 DEF Belong, Belongs, OwnedModes
<1> QED BY <1>1, <1>2 DEF Decided

LEMMA RebuiltGood ==
  ASSUME NEW q, NEW r, Rested(r), q.cur = r.cur \/ \E g \in Slots : r.cur[g] = "GOOD" /\ Rebuilt(q, r, g), SomeGood(r)
  PROVE SomeGood(q)
<1>1. CASE q.cur = r.cur
  BY <1>1 DEF SomeGood
<1>2. ASSUME NEW g \in Slots, r.cur[g] = "GOOD", Rebuilt(q, r, g) PROVE SomeGood(q)
  <2>1. Across(g) \in Slots /\ Across(g) # g
    BY DEF Across, Slots
  <2>2. q.cur[g] = "GOOD"
    BY <1>2, <2>1 DEF Rebuilt, Rested, RamType
  <2> QED BY <2>2 DEF SomeGood
<1> QED BY <1>1, <1>2

\* The status of the array of both slots together.
LEMMA TogetherSettles ==
  ASSUME NEW m, Sane(m), AptPages(m), m.num = 0, ~m.mirror, m.need = {}, Manned(m), NEW mode,
         mode = "RAID1" => /\ \A s \in Slots : m.cur[s] \in {"GOOD", "REBUILDING"} => m.rp[s].mode = "RAID1"
                           /\ NoneEmpty(m) => \A s \in Slots : m.rp[s].mode # "JBOD",
         mode = "JBOD" /\ Single(m.cur) => m.rp[First(m)].mode # "RAID1"
  PROVE LET q == set_array_status(m, mode, m.cur)
        IN /\ Decided(q, m) /\ Settled(q) /\ q.num = 1
           /\ SomeGood(m) => SomeGood(q)
           /\ \A s \in q.need : Belongs(q, s)
<1> DEFINE q == set_array_status(m, mode, m.cur)
<1>0. Rested(m) /\ m.num < 2
  BY DEF Sane
<1>1. CASE mode = "RAID1"
  <2>1. q = set_raid1_array_status(m, m.cur)
    BY <1>1 DEF set_array_status
  <2>2. \A s \in Slots : m.cur[s] \in {"GOOD", "REBUILDING"} => Belongs(m, s)
    BY <1>0, <1>1, MannedBelongs
  <2>3. Fits2(m, m.cur)
    BY DEF Sane, Present, Fits2
  <2>4. /\ Decided(q, m) /\ Verdict(q, m)
        /\ q.queue[0] = "REBUILDING" => \A s \in Slots : m.cur[s] \in {"GOOD", "REBUILDING", "BLANK"}
        /\ q.queue[0] \in {"REBUILDING", "DEGRADED"} => SomeGood(m)
    BY <1>0, <2>1, <2>2, <2>3, Raid1Decides DEF SomeGood
  <2>5. SomeGood(m) => SomeGood(q)
    BY <1>0, <2>1, Raid1Cur, RebuiltGood
  <2> HIDE DEF q
  <2>6. q.num = 1 /\ (q.queue[0] \in {"GOOD", "REBUILDING"} => Belong(q))
    BY <2>4 DEF Verdict
  <2>7. q.mirror => q.queue[0] = "REBUILDING" /\ NoneEmpty(q)
    <3>1. q.mirror => q.queue[0] = "REBUILDING"
      BY <2>4 DEF Verdict
    <3>2. q.queue[0] = "REBUILDING" => NoneEmpty(q)
      BY <2>4 DEF Decided, NoneEmpty
    <3> QED BY <3>1, <3>2
  <2>8. ASSUME q.queue[0] = "DEGRADED", NoneEmpty(q), NEW s \in Slots
        PROVE q.rp[s].mode # "JBOD" /\ (q.cur[s] \in {"GOOD", "REBUILDING"} => Belongs(q, s))
    <3>1. q.cur = m.cur /\ NoneEmpty(m)
      BY <2>4, <2>8 DEF Verdict, NoneEmpty
    <3>2. CASE Alike(q, m)
      <4>1. Belongs(m, s) => Belongs(q, s)
        BY <2>4, <3>2, AlikeBelongs DEF Decided
      <4> QED BY <1>1, <2>2, <3>1, <3>2, <4>1 DEF Alike
    <3>3. CASE Belong(q)
      BY <3>3 DEF Belong, Belongs
    <3> QED BY <2>4, <3>2, <3>3 DEF Decided
  <2>9. Settled(q)
    BY <2>4, <2>5, <2>6, <2>7, <2>8 DEF Settled
  <2>10. \A s \in q.need : Belongs(q, s)
    BY <2>4 DEF Decided
  <2> QED BY <2>4, <2>5, <2>6, <2>9, <2>10 DEF q
<1>2. CASE mode # "RAID1"
  <2>1. /\ Decided(q, m) /\ q.rp = m.rp /\ q.cur = m.cur /\ q.mirror = m.mirror /\ q.need = m.need
        /\ q.num = 1
        /\ q.queue[0] = IF mode # "JBOD" THEN "NOT_CONFIGURED" ELSE IF Single(m.cur) THEN "GOOD" ELSE "BROKEN"
    BY <1>0, <1>2, OtherDecides
  <2> HIDE DEF q
  <2>2. First(q) = First(m)
    BY <2>1 DEF First
  <2>3. Settled(q)
    BY <2>1, <2>2 DEF Settled
  <2> QED BY <2>1, <2>3 DEF SomeGood, q
<1> QED BY <1>1, <1>2

\* The status of the array of one slot alone: no rebuild.
LEMMA AloneSettles ==
  ASSUME NEW m, Sane(m), AptPages(m), m.num < 2, Manned(m), NEW s \in Slots
  PROVE LET q == Alone(m, s)
        IN Sane(q) /\ Decided(q, m) /\ q.num = m.num + 1 /\ q.cur = m.cur /\ q.mirror = m.mirror
<1> DEFINE pair == [e \in Slots |-> IF e = s THEN m.cur[s] ELSE "EMPTY"]
           q == Alone(m, s)
<1>0. Rested(m) /\ Across(s) \in Slots /\ pair[Across(s)] = "EMPTY" /\ Fits2(m, pair)
  BY DEF Sane, Across, Slots, Present, Fits2
<1>1. q = set_array_status(m, m.rp[s].mode, pair)
  BY DEF Alone
<1>2. Sane(q)
  BY <1>0, <1>1, ArrayStatusSane
<1>3. CASE m.rp[s].mode = "RAID1"
  <2>1. q = set_raid1_array_status(m, pair)
    BY <1>1, <1>3 DEF set_array_status
  <2>2. \A x \in Slots : pair[x] \in {"GOOD", "REBUILDING"} => Belongs(m, x)
    BY <1>0, <1>3, MannedBelongs
  <2> HIDE DEF pair
  <2>3. /\ Decided(q, m) /\ Verdict(q, m)
        /\ q.queue[m.num] = "REBUILDING" => \A x \in Slots : pair[x] \in {"GOOD", "REBUILDING", "BLANK"}
    BY <1>0, <2>1, <2>2, Raid1Decides
  <2> HIDE DEF q
  <2>4. q.queue[m.num] # "REBUILDING"
    BY <1>0, <2>3
  <2> QED BY <1>2, <2>3, <2>4 DEF Verdict, q
<1>4. CASE m.rp[s].mode # "RAID1"
  <2> HIDE DEF pair
  <2>1. Decided(q, m) /\ q.cur = m.cur /\ q.mirror = m.mirror /\ q.num = m.num + 1
    BY <1>0, <1>1, <1>4, OtherDecides
  <2> QED BY <1>2, <2>1
<1> QED BY <1>3, <1>4
\* What is decided about the array from the pages and statuses of r.
Outcome(p, r) ==
  /\ Sane(p) /\ AptPages(p) /\ Adds(p, r) /\ Manned(p) /\ Settled(p)
  /\ p.bay = r.bay /\ p.nvm = r.nvm /\ p.reenum = r.reenum /\ p.mode = r.mode /\ p.ids = Counted(r).ids
  /\ \A md : OwnedModes(r, md) => OwnedModes(p, md)
  /\ \A s \in p.need : Belongs(p, s)
  /\ SomeGood(r) => SomeGood(p)

LEMMA CountedIs ==
  ASSUME NEW r, Rested(r)
  PROVE LET q == Counted(r)
        IN /\ Rested(q) /\ q.num = 0 /\ q.bay = r.bay /\ q.nvm = r.nvm /\ q.map = r.map /\ q.rp = r.rp
           /\ q.cur = r.cur /\ q.mirror = r.mirror /\ q.need = r.need /\ q.io = r.io /\ q.newer = r.newer
           /\ q.reenum = r.reenum /\ q.mode = r.mode
<1>1. Rested(Counted(r))
  BY CountedRests
<1> QED BY <1>1 DEF Counted, Rested, RamType

LEMMA CountedEnumerated ==
  ASSUME NEW r, Enumerated(r) PROVE Enumerated(Counted(r))
<1>1. Rested(r)
  BY DEF Enumerated, Sane
<1> DEFINE q == Counted(r)
<1>2. /\ Rested(q) /\ q.num = 0 /\ q.bay = r.bay /\ q.nvm = r.nvm /\ q.map = r.map /\ q.rp = r.rp
      /\ q.cur = r.cur /\ q.mirror = r.mirror /\ q.need = r.need
  BY <1>1, CountedIs
<1> HIDE DEF q
<1>3. Enumerated(q)
  BY <1>2 DEF Enumerated, Sane, Present, Whole, Ready, AptPages, Paged
<1> QED BY <1>3 DEF q

LEMMA EnumeratedManned == ASSUME NEW r, Enumerated(r) PROVE Manned(r)
BY DEF Enumerated, Paged, Manned

LEMMA JoinedManned ==
  ASSUME NEW r, Enumerated(r)
  PROVE LET q == Joined(r)
        IN /\ Manned(q) /\ (SomeGood(r) => SomeGood(q))
           /\ \A md : OwnedModes(r, md) => OwnedModes(q, md)
<1> DEFINE q == Joined(r)
<1>1. /\ q.bay = r.bay
      /\ \A s \in Slots : Owner(q.rp[s]) = Owner(r.rp[s])
      /\ \A s \in Slots : Owned(r.rp[s]) => q.rp[s].mode = r.rp[s].mode
      /\ \A s \in Slots : q.cur[s] = r.cur[s] \/ (r.cur[s] = "BLANK" /\ q.cur[s] = "SOFT_REJECTED")
  BY JoinedIs
<1> HIDE DEF q
<1>2. Manned(q)
  BY <1>1, EnumeratedManned DEF Manned, Owned
<1>3. SomeGood(r) => SomeGood(q)
  BY <1>1 DEF SomeGood
<1>4. \A md : OwnedModes(r, md) => OwnedModes(q, md)
  BY <1>1 DEF OwnedModes, Owned
<1> QED BY <1>2, <1>3, <1>4 DEF q

\* The mode of the array that can be made of both slots fits their pages.
LEMMA JoinedMode ==
  ASSUME NEW r, Enumerated(r), can_be_same_array(r)
  PROVE LET m == Joined(r)
            mode == m.rp[Occupied(r)].mode
        IN /\ mode = "RAID1" => /\ \A s \in Slots : m.cur[s] \in {"GOOD", "REBUILDING"} => m.rp[s].mode = "RAID1"
                                /\ NoneEmpty(m) => \A s \in Slots : m.rp[s].mode # "JBOD"
           /\ mode = "JBOD" /\ Single(m.cur) => m.rp[First(m)].mode # "RAID1"
<1> DEFINE m == Joined(r)
           mode == m.rp[Occupied(r)].mode
<1>1. CASE \E s \in Slots : r.cur[s] = "EMPTY"
  <2>1. m = r
    BY <1>1, JoinedIs
  <2> HIDE DEF m
  <2>2. \A s \in Slots : r.cur[s] # "EMPTY" => s = Occupied(r)
    BY <1>1 DEF Occupied, Slots
  <2>3. \A s \in Slots : r.cur[s] \in {"GOOD", "REBUILDING"} => s = Occupied(r)
    BY <2>2
  <2>4. Single(r.cur) => First(r) = Occupied(r)
    BY <1>1 DEF First, Occupied, Single, Across, Slots
  <2>5. ~NoneEmpty(r)
    BY <1>1 DEF NoneEmpty
  <2> QED BY <2>1, <2>3, <2>4, <2>5 DEF m
<1>2. CASE \A s \in Slots : r.cur[s] # "EMPTY"
  <2>0. Occupied(r) = 0 /\ 0 \in Slots
    BY <1>2 DEF Occupied, Slots
  <2>1. CASE \E s \in Newcomer(r) : r.bay[s] \notin TooSmall
    <3>1. m.rp[0].mode = "RAID1" /\ \A s \in Slots : m.rp[s].mode # "JBOD"
      BY <1>2, <2>1, JoinedIs
    <3>2. Manned(m) /\ AptPages(m)
      BY JoinedManned, JoinedIs
    <3> HIDE DEF m
    <3>3. \A s \in Slots : m.cur[s] \in {"GOOD", "REBUILDING"} => m.rp[s].mode = "RAID1"
      BY <3>1, <3>2 DEF Manned, AptPages, Apt
    <3> QED BY <2>0, <3>1, <3>3 DEF m
  <2>2. CASE Newcomer(r) = {} /\ \A s \in Slots : r.rp[s].mode = "NOT_CONFIGURED"
    <3>1. m = r
      BY <2>2, JoinedIs
    <3> HIDE DEF m
    <3> QED BY <2>0, <2>2, <3>1 DEF m
  <2> QED BY <1>2, <2>1, <2>2 DEF can_be_same_array
<1> QED BY <1>1, <1>2

LEMMA ArrayDetermined ==
  ASSUME NEW r, Enumerated(r) PROVE Outcome(determine_array_status(r), r)
<1> DEFINE q == Counted(r)
           j == Joined(q)
           a == determine_array_status(r)
<1>0. Rested(r) /\ Sane(r)
  BY DEF Enumerated, Sane
<1>1. /\ Enumerated(q) /\ q.num = 0 /\ q.bay = r.bay /\ q.nvm = r.nvm /\ q.rp = r.rp
      /\ q.cur = r.cur /\ q.io = r.io /\ q.reenum = r.reenum /\ q.mode = r.mode
  BY <1>0, CountedEnumerated, CountedIs
<1>2. a = IF same_array(q) THEN set_array_status(q, q.rp[0].mode, q.cur)
          ELSE IF can_be_same_array(q) THEN set_array_status(j, j.rp[Occupied(q)].mode, j.cur)
          ELSE Alone(Alone(j, 0), 1)
  BY DeterminedIs
<1>3. (\A md : OwnedModes(r, md) => OwnedModes(q, md)) /\ (SomeGood(r) => SomeGood(q))
  BY <1>1 DEF OwnedModes, SomeGood
<1> HIDE DEF q
<1>4. /\ Sane(j) /\ AptPages(j) /\ j.bay = q.bay /\ j.nvm = q.nvm /\ j.io = q.io /\ j.need = {}
      /\ ~j.mirror /\ j.reenum = q.reenum /\ j.mode = q.mode /\ j.num = 0 /\ j.ids = q.ids
      /\ Manned(j) /\ (SomeGood(q) => SomeGood(j))
      /\ \A md : OwnedModes(q, md) => OwnedModes(j, md)
  BY <1>1, JoinedIs, JoinedManned DEF Enumerated
<1>5. ASSUME NEW m, m \in {q, j}, Decided(a, m), Settled(a), Sane(a), SomeGood(m) => SomeGood(a)
      PROVE Outcome(a, r)
  <2>1. /\ m.bay = r.bay /\ m.nvm = r.nvm /\ m.io = r.io /\ m.need = {} /\ m.reenum = r.reenum
        /\ m.mode = r.mode /\ m.ids = q.ids /\ Manned(m) /\ (SomeGood(r) => SomeGood(m))
        /\ \A md : OwnedModes(r, md) => OwnedModes(m, md)
    BY <1>1, <1>3, <1>4, <1>5, EnumeratedManned DEF Enumerated
  <2> HIDE DEF a, j
  <2>2. Adds(a, r) /\ Manned(a)
    BY <1>5, <2>1, DecidedManned, AddsSame, AddsTrans DEF Decided
  <2>3. \A md : OwnedModes(r, md) => OwnedModes(a, md)
    BY <1>5, <2>1, DecidedModes
  <2>4. \A s \in a.need : Belongs(a, s)
    BY <1>5, <2>1 DEF Decided
  <2> QED BY <1>5, <2>1, <2>2, <2>3, <2>4 DEF Outcome, Decided, q
<1>6. Sane(a)
  <2>1. /\ \A m, mode : Sane(m) => Sane(set_array_status(m, mode, m.cur))
        /\ \A m : Sane(m) => \A s \in Slots : Sane(Alone(m, s))
    <3>1. ASSUME NEW m, Sane(m), NEW mode PROVE Sane(set_array_status(m, mode, m.cur))
      BY <3>1, ArrayStatusSane DEF Sane, Present, Fits2
    <3>2. ASSUME NEW m, Sane(m), NEW s \in Slots PROVE Sane(Alone(m, s))
      BY <3>2, ArrayStatusSane DEF Alone, Sane, Present, Fits2
    <3> QED BY <3>1, <3>2
  <2>2. Sane(q) /\ Sane(j) /\ 0 \in Slots /\ 1 \in Slots
    BY <1>1, <1>4 DEF Enumerated, Slots
  <2> HIDE DEF a, j
  <2> QED BY <1>2, <2>1, <2>2
<1> HIDE DEF a, j
<1>7. ASSUME same_array(q) PROVE Outcome(a, r)
  <2>1. q.rp[0].mode = q.rp[1].mode /\ q.rp[0].mode # "JBOD"
    BY <1>7 DEF same_array
  <2>2. a = set_array_status(q, q.rp[0].mode, q.cur)
    BY <1>2, <1>7
  <2>3. Sane(q) /\ AptPages(q) /\ ~q.mirror /\ q.need = {} /\ Manned(q)
    BY <1>1, EnumeratedManned DEF Enumerated
  <2>4. \A s \in Slots : q.rp[s].mode = q.rp[0].mode
    BY <2>1 DEF Slots
  <2>5. Decided(a, q) /\ Settled(a) /\ (SomeGood(q) => SomeGood(a))
    BY <1>1, <2>1, <2>2, <2>3, <2>4, TogetherSettles
  <2> QED BY <1>5, <1>6, <2>5
<1>8. ASSUME ~same_array(q) /\ can_be_same_array(q) PROVE Outcome(a, r)
  <2> DEFINE mode == j.rp[Occupied(q)].mode
  <2>1. a = set_array_status(j, mode, j.cur)
    BY <1>2, <1>8
  <2>2. /\ mode = "RAID1" => /\ \A s \in Slots : j.cur[s] \in {"GOOD", "REBUILDING"} => j.rp[s].mode = "RAID1"
                             /\ NoneEmpty(j) => \A s \in Slots : j.rp[s].mode # "JBOD"
        /\ mode = "JBOD" /\ Single(j.cur) => j.rp[First(j)].mode # "RAID1"
    BY <1>1, <1>8, JoinedMode DEF j
  <2> HIDE DEF mode
  <2>3. Decided(a, j) /\ Settled(a) /\ (SomeGood(j) => SomeGood(a))
    BY <1>4, <2>1, <2>2, TogetherSettles
  <2> QED BY <1>5, <1>6, <2>3
<1>9. ASSUME ~same_array(q) /\ ~can_be_same_array(q) PROVE Outcome(a, r)
  <2> DEFINE b == Alone(j, 0)
  <2>1. a = Alone(b, 1) /\ 0 \in Slots /\ 1 \in Slots
    BY <1>2, <1>9 DEF Slots
  <2>2. Sane(b) /\ Decided(b, j) /\ b.num = 1 /\ b.cur = j.cur /\ ~b.mirror
    BY <1>4, <2>1, AloneSettles
  <2> HIDE DEF b
  <2>3. Sane(a) /\ Decided(a, b) /\ a.num = 2 /\ a.cur = b.cur /\ ~a.mirror
    <3>1. AptPages(b) /\ Manned(b)
      BY <1>4, <2>2, DecidedManned DEF Decided
    <3> QED BY <2>1, <2>2, <3>1, AloneSettles
  <2>4. Decided(a, j)
    BY <2>2, <2>3, DecidedTrans
  <2>5. Settled(a)
    BY <2>3 DEF Settled
  <2>6. SomeGood(j) => SomeGood(a)
    BY <2>2, <2>3 DEF SomeGood
  <2> QED BY <1>5, <1>6, <2>4, <2>5, <2>6
<1>10. Outcome(a, r)
  BY <1>7, <1>8, <1>9
<1> QED BY <1>10 DEF a

\* The status of the metadata changes nothing else.
LEMMA DeterminedPages ==
  ASSUME NEW r, Enumerated(r)
  PROVE LET p == Determined(r)
        IN /\ Outcome(p, r) /\ Found(p)
           /\ p.num = 1 => (p.ms = "GOOD" <=> p.queue[0] = "GOOD")
<1> DEFINE a == determine_array_status(r)
           p == Determined(r)
<1>1. Outcome(a, r) /\ Rested(a)
  BY ArrayDetermined DEF Outcome, Sane
<1>2. p = determine_metadata_status(a)
  BY DEF Determined
<1> HIDE DEF a, p
<1>3. /\ p.bay = a.bay /\ p.nvm = a.nvm /\ p.map = a.map /\ p.rp = a.rp /\ p.cur = a.cur /\ p.mirror = a.mirror
      /\ p.need = a.need /\ p.io = a.io /\ p.reenum = a.reenum /\ p.mode = a.mode
      /\ p.num = a.num /\ p.queue = a.queue /\ p.ids = a.ids
      /\ p.num = 1 => (p.ms = "GOOD" <=> p.queue[0] = "GOOD")
  BY <1>1, <1>2 DEF determine_metadata_status, Rested, RamType
<1>4. Sane(p) /\ Found(p)
  BY DeterminedSane, DeterminedFound DEF p, Enumerated
<1>5. \A s \in Slots : Belongs(a, s) <=> Belongs(p, s)
  BY <1>3 DEF Belongs, Ready
<1>6. Belong(a) => Belong(p)
  BY <1>5 DEF Belong
<1>7. Settled(p)
  <2>1. Settled(a) /\ First(p) = First(a)
    BY <1>1, <1>3 DEF Outcome, First
  <2>2. (SomeGood(a) => SomeGood(p)) /\ (NoneEmpty(a) <=> NoneEmpty(p))
    BY <1>3 DEF SomeGood, NoneEmpty
  <2> QED BY <1>3, <1>5, <1>6, <2>1, <2>2 DEF Settled
<1>8. Adds(p, r)
  <2>1. Adds(p, a)
    BY <1>3, AddsSame
  <2> QED BY <1>1, <2>1, AddsTrans DEF Outcome
<1>9. AptPages(p) /\ Manned(p)
  BY <1>1, <1>3 DEF Outcome, AptPages, Manned
<1>10. /\ \A md : OwnedModes(r, md) => OwnedModes(p, md)
       /\ SomeGood(r) => SomeGood(p)
  BY <1>1, <1>3 DEF Outcome, OwnedModes, SomeGood
<1>11. p.need \subseteq Slots
  BY <1>4 DEF Sane, Rested, RamType
<1>12. Outcome(p, r)
  BY <1>1, <1>3, <1>4, <1>5, <1>7, <1>8, <1>9, <1>10, <1>11 DEF Outcome
<1> QED BY <1>3, <1>4, <1>12 DEF p
\* The bays whose sector 0 is cleaned when r is configured for mode.
Cleaned(r, mode) == IF KeepsMbr(r, mode) THEN {} ELSE Slots

LEMMA CleanerFiles ==
  ASSUME NEW r, Rested(r), NEW mode, Others(r.io), NEW m
  PROVE LET q == raid_mbr_cleaner(r, mode)
        IN /\ Rested(q) /\ Filed(q.io, m, Cleaned(r, mode))
           /\ q.bay = r.bay /\ q.nvm = r.nvm /\ q.map = r.map /\ q.rp = r.rp /\ q.reenum = r.reenum /\ q.mode = r.mode
<1> DEFINE NoStore(io) == \A k \in Places(io) : io[k].op # "store"
<1>1. ASSUME NEW a, Rested(a), NEW s \in Slots, Filed(a.io, m, Slots), NoStore(a.io)
      PROVE LET q == WipeMbr(a, s)
            IN /\ Rested(q) /\ Filed(q.io, m, Slots) /\ NoStore(q.io)
               /\ q.bay = a.bay /\ q.nvm = a.nvm /\ q.map = a.map /\ q.rp = a.rp /\ q.reenum = a.reenum
               /\ q.mode = a.mode
  <2> DEFINE o == [op |-> "mbr", at |-> s]
             io == Append(a.io, o)
             q == [a EXCEPT !.io = io]
  <2>1. a.io \in Seq(Orders) /\ o \in Orders /\ o.op = "mbr" /\ o.at = s
    BY <1>1 DEF Rested, RamType, Orders
  <2> HIDE DEF o
  <2>2. Filed(io, m, Slots) /\ NoStore(io) /\ io \in Seq(Orders)
    <3>1. io \in Seq(Orders)
      BY <2>1
    <3>2. Filed(a.io, m, Slots) /\ \A k \in Places(a.io) : a.io[k].op # "store"
      BY <1>1
    <3>3. o.at \in Slots
      BY <2>1
    <3>4. Filed(io, m, Slots) /\ \A k \in Places(io) : io[k].op # "store"
      BY <2>1, <3>2, <3>3, OneMoreWipe
    <3> QED BY <3>1, <3>4
  <2> HIDE DEF io, NoStore
  <2>3. /\ Rested(q) /\ q.io = io /\ q.bay = a.bay /\ q.nvm = a.nvm /\ q.map = a.map /\ q.rp = a.rp
        /\ q.reenum = a.reenum /\ q.mode = a.mode
    BY <1>1, <2>2 DEF Rested, RamType
  <2>4. WipeMbr(a, s) \in {q, a}
    BY DEF WipeMbr, q, io, o
  <2> HIDE DEF q
  <2> QED BY <1>1, <2>2, <2>3, <2>4
<1>2. Filed(r.io, m, Slots) /\ Filed(r.io, m, {}) /\ NoStore(r.io)
  BY OthersFiled DEF Others
<1> HIDE DEF NoStore
<1>3. CASE KeepsMbr(r, mode)
  BY <1>2, <1>3 DEF raid_mbr_cleaner, Cleaned
<1>4. CASE ~KeepsMbr(r, mode)
  <2> DEFINE a == WipeMbr(r, 0)
  <2>1. /\ Rested(a) /\ Filed(a.io, m, Slots) /\ NoStore(a.io)
        /\ a.bay = r.bay /\ a.nvm = r.nvm /\ a.map = r.map /\ a.rp = r.rp /\ a.reenum = r.reenum /\ a.mode = r.mode
    BY <1>1, <1>2 DEF Slots
  <2>2. raid_mbr_cleaner(r, mode) = WipeMbr(a, 1)
    BY <1>4 DEF raid_mbr_cleaner
  <2> HIDE DEF a
  <2>3. 1 \in Slots
    BY DEF Slots
  <2> QED BY <1>1, <1>4, <2>1, <2>2, <2>3 DEF Cleaned
<1> QED BY <1>3, <1>4

LEMMA FillIs ==
  ASSUME NEW r, Rested(r), NEW s \in Slots, NEW mode \in Modes
  PROVE LET q == fill_raid_parms(r, s, mode)
        IN /\ Rested(q)
           /\ q.bay = r.bay /\ q.nvm = r.nvm /\ q.map = r.map /\ q.cur = r.cur /\ q.reenum = r.reenum
           /\ q.mode = r.mode /\ q.io = r.io
           /\ \A x \in Slots : x # s => q.rp[x] = r.rp[x]
           /\ q.rp[s].mode = mode /\ q.rp[s].disk_num = s /\ q.rp[s].id = r.bay
           /\ \A d \in Slots : q.rp[s].status[d] = IF Ready(r, d) THEN r.cur[d] ELSE "MISSING"
<1> DEFINE status == [d \in Slots |-> IF Ready(r, d) THEN r.cur[d] ELSE "MISSING"]
           page == [gen |-> r.rp[s].gen, mode |-> mode, disk_num |-> s, id |-> r.bay, status |-> status]
           q == fill_raid_parms(r, s, mode)
<1>1. Rested(q)
  BY FillRests
<1>2. q = [r EXCEPT !.rp = [@ EXCEPT ![s] = page]]
  BY DEF fill_raid_parms, Rested, RamType
<1> HIDE DEF q
<1>3. /\ page.mode = mode /\ page.disk_num = s /\ page.id = r.bay
      /\ \A d \in Slots : page.status[d] = IF Ready(r, d) THEN r.cur[d] ELSE "MISSING"
  OBVIOUS
<1> HIDE DEF page
<1>4. /\ q.bay = r.bay /\ q.nvm = r.nvm /\ q.map = r.map /\ q.cur = r.cur /\ q.reenum = r.reenum
      /\ q.mode = r.mode /\ q.io = r.io
      /\ \A x \in Slots : q.rp[x] = IF x = s THEN page ELSE r.rp[x]
  BY <1>2 DEF Rested, RamType
<1> QED BY <1>1, <1>3, <1>4 DEF q

\* What is configured: a good page for each drive, of the mode asked for.
LEMMA HwConfigPages ==
  ASSUME NEW r, Rested(r), AptPages(r), Others(r.io), NEW mode \in {"RAID1", "JBOD"}, ~CannotConfig(r, mode)
  PROVE LET q == hw_raid_config(r, mode)
        IN /\ Enumerated(q) /\ OwnedModes(q, mode) /\ Filed(q.io, mode, Cleaned(r, mode))
           /\ q.bay = r.bay /\ q.nvm = r.nvm /\ q.reenum = r.reenum /\ q.mode = r.mode
<1> DEFINE wiped == raid_mbr_cleaner(r, mode)
           cur == [s \in Slots |-> IF Ready(r, s) THEN "GOOD" ELSE "EMPTY"]
           good == [wiped EXCEPT !.cur = cur]
           half == fill_raid_parms(good, 0, mode)
           filled == fill_raid_parms(half, 1, mode)
           gen == IF r.rp[0].gen > r.rp[1].gen THEN r.rp[0].gen ELSE r.rp[1].gen
           synced == [filled EXCEPT !.rp[0].gen = gen, !.rp[1].gen = gen, !.ms = "GOOD",
                                    !.need = {s \in Slots : Ready(r, s)}]
           stored == store_slots(synced)
           idle == [stored EXCEPT !.mirror = FALSE]
           q == SetCheckPoint(idle, Step)
           w == Cleaned(r, mode)
           Still(m) == /\ Rested(m) /\ m.bay = r.bay /\ m.nvm = r.nvm /\ m.map = r.map /\ m.reenum = r.reenum
                       /\ m.mode = r.mode
           Filled(m, s) == /\ m.rp[s].mode = mode /\ m.rp[s].disk_num = s /\ m.rp[s].id = r.bay
                           /\ Ready(r, s) => m.rp[s].status[s] = "GOOD"
<1>0. mode \in Modes /\ 0 \in Slots /\ 1 \in Slots
  BY DEF Modes, Slots
<1>1. Still(wiped) /\ Filed(wiped.io, mode, w)
  BY CleanerFiles
<1> HIDE DEF wiped
<1>2. Still(good) /\ good.cur = cur /\ good.io = wiped.io
  <2>1. cur \in [Slots -> SlotStatus]
    BY StatusIs
  <2> HIDE DEF cur
  <2> QED BY <1>1, <2>1 DEF Rested, RamType
<1> HIDE DEF good
<1>3. Still(half) /\ half.cur = cur /\ half.io = wiped.io /\ Filled(half, 0)
  <2>1. Ready(r, 0) => Ready(good, 0) /\ good.cur[0] = "GOOD"
    BY <1>0, <1>2 DEF Ready
  <2> HIDE DEF cur
  <2> QED BY <1>0, <1>2, <2>1, FillIs
<1> HIDE DEF half
<1>4. /\ Still(filled) /\ filled.cur = cur /\ filled.io = wiped.io
      /\ Filled(filled, 0) /\ Filled(filled, 1)
  <2>1. Ready(r, 1) => Ready(half, 1) /\ half.cur[1] = "GOOD"
    BY <1>0, <1>3 DEF Ready
  <2> HIDE DEF cur
  <2> QED BY <1>0, <1>3, <2>1, FillIs, SMTT(30)
<1> HIDE DEF filled
<1>5. /\ Still(synced) /\ synced.cur = cur /\ synced.io = wiped.io
      /\ Filled(synced, 0) /\ Filled(synced, 1) /\ synced.ms = "GOOD"
  <2> DEFINE p0 == [filled.rp[0] EXCEPT !.gen = gen]
             p1 == [filled.rp[1] EXCEPT !.gen = gen]
             rp == [filled.rp EXCEPT ![0] = p0, ![1] = p1]
             need == {s \in Slots : Ready(r, s)}
  <2>1. gen \in Nat
    <3>1. r.rp[0] \in Sound /\ r.rp[1] \in Sound
      BY DEF Rested, RamType, Slots
    <3> QED BY <3>1 DEF Sound, Page
  <2> HIDE DEF gen
  <2>2. /\ p0 \in Sound /\ p1 \in Sound /\ filled.rp \in [Slots -> Sound]
        /\ p0.mode = filled.rp[0].mode /\ p0.disk_num = filled.rp[0].disk_num
        /\ p0.id = filled.rp[0].id /\ p0.status = filled.rp[0].status
        /\ p1.mode = filled.rp[1].mode /\ p1.disk_num = filled.rp[1].disk_num
        /\ p1.id = filled.rp[1].id /\ p1.status = filled.rp[1].status
    <3>1. filled.rp[0] \in Sound /\ filled.rp[1] \in Sound /\ filled.rp \in [Slots -> Sound]
      BY <1>4 DEF Rested, RamType, Slots
    <3> QED BY <2>1, <3>1 DEF Sound, Page, Valid
  <2>3. synced = [filled EXCEPT !.rp = rp, !.ms = "GOOD", !.need = need]
    BY <1>4, ZenonT(60) DEF Rested, RamType, Slots
  <2> HIDE DEF p0, p1, synced
  <2>4. /\ rp \in [Slots -> Sound] /\ need \in SUBSET Slots /\ "GOOD" \in MetaStatus
        /\ rp[0] = p0 /\ rp[1] = p1
    BY <2>2 DEF need, MetaStatus, Slots
  <2> HIDE DEF rp, need, cur
  <2>5. /\ Still(synced) /\ synced.cur = cur /\ synced.io = wiped.io /\ synced.ms = "GOOD" /\ synced.rp = rp
    BY <1>4, <2>3, <2>4 DEF Rested, RamType
  <2> QED BY <1>4, <2>2, <2>4, <2>5
<1> HIDE DEF synced
<1>6. AptPages(synced) /\ \A s \in Slots : synced.rp[s].mode = mode /\ Owner(synced.rp[s]) = r.bay[s]
  <2>1. ASSUME NEW s \in Slots
        PROVE synced.rp[s].mode = mode /\ Owner(synced.rp[s]) = r.bay[s] /\ Apt(synced.rp[s], s)
    <3>1. Filled(synced, s) /\ synced.rp[s] \in Sound
      BY <1>5 DEF Rested, RamType, Slots
    <3>2. Owner(synced.rp[s]) = r.bay[s] /\ synced.rp[s].mode = mode
      BY <3>1 DEF Owner, Sound
    <3>3. r.bay[s] # NoDrive => s \in Fits[r.bay[s]]
      BY DEF AptPages, Fit
    <3>4. mode = "RAID1" => \A x \in Slots : r.bay[x] # NoDrive
      BY DEF CannotConfig, Ready
    <3>5. Apt(synced.rp[s], s)
      BY <3>1, <3>2, <3>3, <3>4 DEF Apt, Owned, Ready
    <3> QED BY <3>2, <3>5
  <2> QED BY <1>5, <2>1 DEF AptPages
<1>7. /\ Rested(stored) /\ AptPages(stored) /\ Retains(stored, synced) /\ Quiet(stored, synced)
      /\ stored.need = {} /\ Filed(stored.io, mode, w)
  <2>1. synced.need \subseteq Slots
    BY <1>5 DEF Rested, RamType
  <2>2. \A s \in synced.need : synced.rp[s].mode \in {mode, "NOT_CONFIGURED"}
    BY <1>6, <2>1
  <2> HIDE DEF w
  <2> QED BY <1>1, <1>5, <1>6, <2>2, StoreSlotsFiles
<1> HIDE DEF stored, w
<1>8. /\ Still(idle) /\ idle.cur = cur /\ ~idle.mirror /\ idle.io = stored.io /\ idle.need = {} /\ AptPages(idle)
      /\ \A s \in Slots : idle.rp[s].mode = mode /\ Owner(idle.rp[s]) = r.bay[s]
  <2>1. \A s \in Slots : stored.rp[s].mode = mode /\ Owner(stored.rp[s]) = r.bay[s]
    BY <1>5, <1>6, <1>7, RetainsPages DEF Retains
  <2>2. /\ Still(stored) /\ stored.cur = cur
    BY <1>5, <1>7 DEF Retains, Quiet
  <2> HIDE DEF cur
  <2>3. /\ Still(idle) /\ idle.cur = cur /\ ~idle.mirror /\ idle.io = stored.io /\ idle.need = {}
        /\ idle.rp = stored.rp
    BY <1>7, <2>2 DEF Rested, RamType
  <2> QED BY <1>7, <2>1, <2>2, <2>3 DEF AptPages
<1> HIDE DEF idle
<1>9. /\ Still(q) /\ q.cur = cur /\ ~q.mirror /\ q.need = {} /\ Filed(q.io, mode, w) /\ q.rp = idle.rp
  <2>1. Rested(q) /\ Adds(q, idle)
    BY <1>8, SetCheckPointRests, SetCheckPointAdds, Constants
  <2>2. /\ q.bay = idle.bay /\ q.nvm = idle.nvm /\ q.map = idle.map /\ q.reenum = idle.reenum
        /\ q.mode = idle.mode /\ q.cur = idle.cur /\ q.mirror = idle.mirror /\ q.need = idle.need /\ q.rp = idle.rp
    BY <1>8 DEF SetCheckPoint, WriteOthers, WriteOther, Ready, Rested, RamType
  <2>3. w \in SUBSET Slots
    BY DEF w, Cleaned
  <2> HIDE DEF q, cur
  <2> QED BY <1>7, <1>8, <2>1, <2>2, <2>3 DEF Adds
<1> HIDE DEF q
<1>10. Paged(q) /\ OwnedModes(q, mode)
  <2>1. ASSUME NEW s \in Slots
        PROVE /\ q.rp[s].mode = mode /\ Owner(q.rp[s]) = q.bay[s]
              /\ q.cur[s] = IF q.bay[s] # NoDrive THEN "GOOD" ELSE "EMPTY"
    BY <1>8, <1>9 DEF Ready
  <2>2. Paged(q)
    BY <2>1 DEF Paged, Owned
  <2> QED BY <2>1, <2>2 DEF OwnedModes
<1>11. AptPages(q)
  BY <1>8, <1>9 DEF AptPages
<1>12. hw_raid_config(r, mode) = q
  BY DEF hw_raid_config, q, idle, stored, synced, filled, half, good, wiped, cur, gen
<1>13. Sane(q)
  BY <1>0, <1>12, HwConfigSane
<1> HIDE DEF cur
<1>14. Enumerated(q)
  BY <1>9, <1>10, <1>11, <1>13 DEF Enumerated
<1> QED BY <1>9, <1>10, <1>12, <1>14 DEF w
\* A mirror that runs has a slot that belongs to it.
LEMMA MirrorHas ==
  ASSUME NEW r, Rested(r), MirrorPages(r), Mirrors(r), r.queue[0] \in {"GOOD", "REBUILDING", "DEGRADED"},
         NEW md, OwnedModes(r, md)
  PROVE md = "RAID1"
<1>1. \E s \in Slots : Belongs(r, s)
  <2>1. r.use \in Slots /\ 0 \in Slots
    BY DEF Rested, RamType, Slots
  <2> QED BY <2>1 DEF MirrorPages
<1> QED BY <1>1 DEF Belongs, Ready, OwnedModes, Owned

\* The mode chosen for the array, and what a mirror then consists of.
LEMMA ConfigPages ==
  ASSUME NEW r, Sane(r), AptPages(r), Settled(r), Manned(r), Found(r), ~r.reenum,
         r.num = 1 => (r.ms = "GOOD" <=> r.queue[0] = "GOOD")
  PROVE LET q == config_disk_arrays(r)
        IN /\ Rested(q) /\ RamPages(q) /\ q.io = r.io /\ q.rp = r.rp /\ q.nvm = r.nvm /\ q.bay = r.bay /\ q.reenum = r.reenum
           /\ Mirrors(q) => q.queue[0] \in {"GOOD", "REBUILDING", "DEGRADED"}
<1> DEFINE q == config_disk_arrays(r)
           n == First(r)
<1>0. Rested(r) /\ Rested(q) /\ n \in Slots
  BY ConfigDisksRests DEF Sane, First, Slots
<1> DEFINE mode == IF r.num # 1 THEN "JBOD"
                   ELSE IF r.ms = "GOOD" THEN r.rp[n].mode
                   ELSE IF r.ms = "STH_NOT_VALID"
                   THEN IF r.queue[0] \in {"REBUILDING", "DEGRADED"} /\ NoneEmpty(r) THEN r.rp[n].mode ELSE "JBOD"
                   ELSE r.mode
           a == [r EXCEPT !.mode = mode]
<1>1. /\ q.queue = r.queue /\ q.bay = r.bay /\ q.io = r.io /\ q.rp = r.rp /\ q.nvm = r.nvm /\ q.map = r.map
      /\ q.cur = r.cur /\ q.num = r.num /\ q.mirror = r.mirror /\ q.reenum = r.reenum
      /\ q.mode = mode
      /\ q.use = IF q.mode # "RAID1" \/ q.queue[0] = "GOOD" THEN 0
                 ELSE IF \A s \in Slots : q.cur[s] = "GOOD"
                 THEN IF q.rp[0].gen > q.rp[1].gen THEN 0 ELSE 1
                 ELSE IF q.cur[0] = "GOOD" THEN 0 ELSE 1
  <2>1. mode \in Modes
    <3>1. r.mode \in Modes /\ r.rp[n] \in Sound
      BY <1>0 DEF Rested, RamType
    <3>2. r.rp[n].mode \in Modes
      BY <3>1 DEF Sound, Page, Valid
    <3> QED BY <3>1, <3>2, StatusIs
  <2>2. q = update_raid1_read_use_slot(a)
    BY DEF config_disk_arrays, First, NoneEmpty
  <2> HIDE DEF mode, q
  <2>3. /\ Rested(a) /\ a.queue = r.queue /\ a.bay = r.bay /\ a.io = r.io /\ a.rp = r.rp /\ a.nvm = r.nvm
        /\ a.map = r.map /\ a.cur = r.cur /\ a.num = r.num /\ a.mirror = r.mirror /\ a.reenum = r.reenum
        /\ a.mode = mode
    BY <1>0, <2>1 DEF Rested, RamType
  <2> HIDE DEF a
  <2>4. /\ q.queue = a.queue /\ q.bay = a.bay /\ q.io = a.io /\ q.rp = a.rp /\ q.nvm = a.nvm
        /\ q.map = a.map /\ q.cur = a.cur /\ q.num = a.num /\ q.mirror = a.mirror /\ q.reenum = a.reenum
        /\ q.mode = a.mode
    BY <2>2, <2>3 DEF update_raid1_read_use_slot, Rested, RamType
  <2>5. q.use = IF a.mode # "RAID1" \/ a.queue[0] = "GOOD" THEN 0
                ELSE IF \A s \in Slots : a.cur[s] = "GOOD"
                THEN IF a.rp[0].gen > a.rp[1].gen THEN 0 ELSE 1
                ELSE IF a.cur[0] = "GOOD" THEN 0 ELSE 1
    BY <2>2, <2>3 DEF update_raid1_read_use_slot, Rested, RamType
  <2> QED BY <2>3, <2>4, <2>5
<1>2. q.mode = IF r.num # 1 THEN "JBOD"
               ELSE IF r.ms = "GOOD" THEN r.rp[n].mode
               ELSE IF r.ms = "STH_NOT_VALID"
               THEN IF r.queue[0] \in {"REBUILDING", "DEGRADED"} /\ NoneEmpty(r) THEN r.rp[n].mode ELSE "JBOD"
               ELSE r.mode
  BY <1>1
<1> HIDE DEF mode, a
<1>3. q.use = IF q.mode # "RAID1" \/ q.queue[0] = "GOOD" THEN 0
              ELSE IF \A s \in Slots : q.cur[s] = "GOOD"
              THEN IF q.rp[0].gen > q.rp[1].gen THEN 0 ELSE 1
              ELSE IF q.cur[0] = "GOOD" THEN 0 ELSE 1
  BY <1>1
<1> HIDE DEF q, n
<1>4. \A s \in Slots : Belongs(q, s) <=> Belongs(r, s)
  BY <1>1 DEF Belongs, Ready
<1>5. AptPages(q)
  BY <1>1 DEF AptPages
<1>6. ASSUME q.mode = "RAID1"
      PROVE /\ q.num = 1
            /\ \/ q.queue[0] = "NOT_CONFIGURED"
               \/ q.queue[0] = "GOOD" /\ Belong(r)
               \/ q.queue[0] = "REBUILDING" /\ Belong(r)
               \/ q.queue[0] = "DEGRADED" /\ NoneEmpty(r)
  BY <1>1, <1>2, <1>6 DEF Settled, Found, n
<1>7. ASSUME Mirrors(q) PROVE q.queue[0] \in {"GOOD", "REBUILDING", "DEGRADED"}
  BY <1>6, <1>7 DEF Mirrors
<1>8. ASSUME Mirrors(q)
      PROVE /\ \A s \in Slots : q.rp[s].mode # "JBOD"
            /\ \A s \in Slots : q.cur[s] \in {"GOOD", "REBUILDING"} => Belongs(q, s)
            /\ q.queue[0] \in {"GOOD", "REBUILDING"} => \A s \in Slots : Belongs(q, s)
            /\ q.queue[0] = "DEGRADED" => Belongs(q, q.use)
  <2>1. q.mode = "RAID1" /\ q.num = 1 /\ q.queue[0] # "NOT_CONFIGURED"
    BY <1>6, <1>8 DEF Mirrors
  <2>2. CASE q.queue[0] \in {"GOOD", "REBUILDING"}
    <3>1. Belong(r)
      BY <1>6, <2>1, <2>2
    <3> QED BY <1>1, <1>4, <2>2, <3>1 DEF Belong, Belongs
  <2>3. CASE q.queue[0] = "DEGRADED"
    <3>1. NoneEmpty(r) /\ SomeGood(r)
      BY <1>1, <1>6, <2>1, <2>3 DEF Settled
    <3>2. \A s \in Slots : r.rp[s].mode # "JBOD" /\ (r.cur[s] \in {"GOOD", "REBUILDING"} => Belongs(r, s))
      BY <1>1, <2>1, <2>3, <3>1 DEF Settled
    <3>3. q.use \in Slots /\ r.cur[q.use] = "GOOD"
      BY <1>1, <1>3, <2>1, <2>3, <3>1 DEF SomeGood, Slots
    <3> QED BY <1>1, <1>4, <2>3, <3>2, <3>3
  <2> QED BY <1>7, <1>8, <2>2, <2>3
<1>9. ASSUME q.mirror PROVE Mirrors(q)
  <2>1. r.num = 1 /\ r.queue[0] = "REBUILDING" /\ NoneEmpty(r) /\ Belong(r)
    BY <1>1, <1>9 DEF Settled
  <2>2. r.ms = "STH_NOT_VALID"
    BY <2>1 DEF Found
  <2>3. q.mode = "RAID1"
    BY <1>0, <1>2, <2>1, <2>2 DEF Belong, Belongs
  <2> QED BY <1>1, <2>1, <2>3 DEF Mirrors
<1>10. ASSUME q.mirror PROVE \A s \in Slots : Belongs(q, s)
  BY <1>1, <1>4, <1>10 DEF Settled, Belong
<1>11. q.mode = "RAID1" => q.num <= 1
  BY <1>6
<1>12. MirrorPages(q)
  BY <1>8, <1>9, <1>10, <1>11 DEF MirrorPages
<1> QED BY <1>0, <1>1, <1>5, <1>7, <1>12 DEF q, RamPages

\* Whether sector 0 of the drives is cleaned at the start.
Wiped(r0, mode) ==
  LET r == Determined(ListedSlots(r0)) IN IF Reconfigures(r, mode) THEN Cleaned(r, mode) ELSE {}

\* The writes ordered by the enumeration are of one mode, that of a mirror
\* when one runs then; and of the mode of the switch, when the pages are.
LEMMA EnumerationPages ==
  ASSUME NEW r0, Rested(r0), FixedBays, Fit(r0.bay), \A i \in Slots : Apt(r0.nvm[i], i), ~r0.mirror, ~r0.reenum,
         Others(r0.io), NEW mode \in {"RAID1", "JBOD"}
  PROVE LET q == raid_enumeration(r0, mode)
        IN /\ Rested(q) /\ RamPages(q) /\ q.nvm = r0.nvm /\ q.bay = r0.bay /\ q.reenum = r0.reenum
           /\ \E m \in {"RAID1", "JBOD"} :
                /\ Filed(q.io, m, Wiped(r0, mode))
                /\ Mirrors(q) => m = "RAID1"
                /\ OwnedModes(ListedSlots(r0), mode) => m = mode
<1> DEFINE slots == ListedSlots(r0)
           r == Determined(slots)
           h == hw_raid_config(r, mode)
           settled == IF Reconfigures(r, mode) THEN Determined(h) ELSE r
           stored == IF settled.need # {} THEN store_slots(settled) ELSE settled
           q == config_disk_arrays(stored)
           w == Wiped(r0, mode)
           m == IF Reconfigures(r, mode) \/ OwnedModes(slots, mode) THEN mode ELSE "RAID1"
           Goes(p) == /\ Sane(p) /\ AptPages(p) /\ Settled(p) /\ Manned(p) /\ Found(p)
                      /\ p.num = 1 => (p.ms = "GOOD" <=> p.queue[0] = "GOOD")
                      /\ p.nvm = r0.nvm /\ p.bay = r0.bay /\ p.reenum = r0.reenum
                      /\ m = "RAID1" \/ OwnedModes(p, m)
                      /\ Filed(p.io, m, w)
<1>0. raid_enumeration(r0, mode) = q
  BY DEF raid_enumeration, q, stored, settled, h, r, slots, ListedSlots
<1>1. /\ Enumerated(slots) /\ slots.bay = r0.bay /\ slots.nvm = r0.nvm /\ slots.io = r0.io
      /\ slots.reenum = r0.reenum
  BY ListingIs
<1>2. w = IF Reconfigures(r, mode) THEN Cleaned(r, mode) ELSE {}
  BY DEF Wiped
<1> HIDE DEF w, slots
<1>3. /\ Outcome(r, slots) /\ Found(r)
      /\ r.num = 1 => (r.ms = "GOOD" <=> r.queue[0] = "GOOD")
  BY <1>1, DeterminedPages
<1> HIDE DEF r
<1>4. m \in {"RAID1", "JBOD"} /\ w \in SUBSET Slots
  BY <1>2 DEF Cleaned
<1>5. Rested(r) /\ AptPages(r) /\ Others(r.io) /\ r.nvm = r0.nvm /\ r.bay = r0.bay /\ r.reenum = r0.reenum
  BY <1>1, <1>3 DEF Outcome, Sane, Adds
<1>6. ASSUME Reconfigures(r, mode) PROVE Goes(Determined(h)) /\ \A s \in Determined(h).need : Belongs(Determined(h), s)
  <2>1. ~CannotConfig(r, mode) /\ m = mode /\ w = Cleaned(r, mode)
    BY <1>2, <1>6 DEF Reconfigures
  <2>2. /\ Enumerated(h) /\ OwnedModes(h, mode) /\ Filed(h.io, m, w)
        /\ h.bay = r.bay /\ h.nvm = r.nvm /\ h.reenum = r.reenum
    BY <1>5, <2>1, HwConfigPages
  <2> HIDE DEF h
  <2> DEFINE d == Determined(h)
  <2>3. /\ Outcome(d, h) /\ Found(d)
        /\ d.num = 1 => (d.ms = "GOOD" <=> d.queue[0] = "GOOD")
    BY <2>2, DeterminedPages
  <2> HIDE DEF d
  <2>4. Filed(d.io, m, w)
    BY <1>4, <2>2, <2>3 DEF Outcome, Adds
  <2>5. OwnedModes(d, m)
    BY <2>1, <2>2, <2>3 DEF Outcome
  <2> HIDE DEF m
  <2> QED BY <1>5, <2>2, <2>3, <2>4, <2>5 DEF Outcome, d
<1>7. ASSUME ~Reconfigures(r, mode) PROVE Goes(r) /\ \A s \in r.need : Belongs(r, s)
  <2>1. Filed(r.io, m, w)
    BY <1>5, OthersFiled
  <2>2. m = "RAID1" \/ OwnedModes(r, m)
    BY <1>3, <1>7 DEF Outcome
  <2> HIDE DEF m
  <2> QED BY <1>3, <1>5, <2>1, <2>2 DEF Outcome
<1>8. Goes(settled) /\ \A s \in settled.need : Belongs(settled, s)
  <2> HIDE DEF Goes, h
  <2> QED BY <1>6, <1>7
<1> HIDE DEF settled, h
<1>9. Rested(settled) /\ settled.need \subseteq Slots
  BY <1>8 DEF Sane, Rested, RamType
<1>10. Goes(store_slots(settled))
  <2> DEFINE p == store_slots(settled)
  <2>1. \A s \in settled.need : settled.rp[s].mode \in {m, "NOT_CONFIGURED"}
    <3>1. ASSUME NEW s \in settled.need PROVE settled.rp[s].mode = m
      <4>1. Belongs(settled, s) /\ s \in Slots
        BY <1>8, <1>9
      <4>2. settled.rp[s].mode = "RAID1" /\ Owned(settled.rp[s])
        BY <4>1 DEF Belongs, Ready, Owned
      <4> HIDE DEF m
      <4> QED BY <1>8, <4>1, <4>2 DEF OwnedModes
    <3> QED BY <3>1
  <2> HIDE DEF m
  <2>2. Rested(p) /\ AptPages(p) /\ Retains(p, settled) /\ Quiet(p, settled) /\ Filed(p.io, m, w)
    BY <1>8, <1>9, <2>1, StoreSlotsFiles
  <2>3. Same(p, settled) /\ Choice(p, settled)
    BY <1>9, StoreSlotsSame, StoreSlotsChoice
  <2> HIDE DEF p
  <2>4. Sane(p)
    BY <1>8, <2>2, <2>3, SameIsSane
  <2>5. (\A s \in Slots : Belongs(settled, s) <=> Belongs(p, s)) /\ \A s \in Slots : Owner(p.rp[s]) = Owner(settled.rp[s])
    BY <1>9, <2>2, RetainsPages
  <2>6. First(p) = First(settled) /\ First(p) \in Slots /\ \A s \in Slots : p.rp[s].mode = settled.rp[s].mode
    BY <2>2 DEF First, Slots, Quiet, Retains
  <2>7. Settled(p)
    <3>1. (Belong(settled) => Belong(p)) /\ (SomeGood(settled) => SomeGood(p)) /\ (NoneEmpty(p) <=> NoneEmpty(settled))
      BY <2>2, <2>5 DEF Belong, SomeGood, NoneEmpty, Quiet
    <3> QED BY <1>8, <2>2, <2>5, <2>6, <3>1 DEF Settled, Quiet
  <2>8. Manned(p)
    BY <1>8, <2>2, <2>5 DEF Manned, Owned, Quiet, Retains
  <2>9. Found(p)
    BY <1>8, <2>3, <2>6 DEF Found, Same, Choice, Whole, Ready
  <2>10. m = "RAID1" \/ OwnedModes(p, m)
    BY <1>8, <2>5, <2>6 DEF OwnedModes, Owned
  <2> QED BY <1>8, <2>2, <2>4, <2>7, <2>8, <2>9, <2>10 DEF Retains, Quiet, p
<1>11. Goes(stored)
  <2> HIDE DEF Goes
  <2> QED BY <1>8, <1>10
<1> HIDE DEF stored
<1>12. /\ Rested(q) /\ RamPages(q) /\ q.io = stored.io /\ q.rp = stored.rp /\ q.nvm = r0.nvm /\ q.bay = r0.bay
       /\ q.reenum = r0.reenum
       /\ Mirrors(q) => q.queue[0] \in {"GOOD", "REBUILDING", "DEGRADED"}
  <2> HIDE DEF m
  <2>1. ~stored.reenum
    BY <1>11
  <2> QED BY <1>11, <2>1, ConfigPages
<1> HIDE DEF q
<1>13. Mirrors(q) => m = "RAID1"
  <2> HIDE DEF m
  <2>1. m = "RAID1" \/ OwnedModes(q, m)
    BY <1>11, <1>12 DEF OwnedModes
  <2> QED BY <1>12, <2>1, MirrorHas DEF RamPages
<1>14. OwnedModes(slots, mode) => m = mode
  OBVIOUS
<1> HIDE DEF m
<1> QED BY <1>0, <1>4, <1>11, <1>12, <1>13, <1>14 DEF slots, w

\* The status of the metadata of two arrays.
LEMMA StatusOfMeta ==
  ASSUME NEW r, Rested(r)
  PROVE LET a == determine_array_status(r)
            p == Determined(r)
        IN /\ p.num = a.num /\ p.newer = a.newer /\ p.ids = a.ids /\ p.rp = a.rp /\ p.cur = a.cur
           /\ p.ms = "CONFLICT" => a.num # 1 /\ a.ids = 1
           /\ a.num = 1 /\ a.queue[0] = "GOOD" => p.ms = "GOOD"
           /\ a.num # 1 /\ a.queue[0] = "GOOD" /\ a.queue[1] = "GOOD" => p.ms = "GOOD"
<1> DEFINE a == determine_array_status(r)
<1>1. Rested(a)
  BY DeterminedArrayRests
<1>2. Determined(r) = determine_metadata_status(a)
  BY DEF Determined
<1> HIDE DEF a
<1> DEFINE p == determine_metadata_status(a)
<1>3. /\ p.num = a.num /\ p.newer = a.newer /\ p.ids = a.ids /\ p.rp = a.rp /\ p.cur = a.cur
      /\ p.ms = IF a.num = 1
                THEN CASE a.queue[0] = "NOT_CONFIGURED" -> "NO_VALID"
                       [] a.queue[0] = "GOOD"           -> "GOOD"
                       [] OTHER                         -> "STH_NOT_VALID"
                ELSE IF \A i \in Slots : a.queue[i] = "GOOD" THEN "GOOD"
                ELSE IF a.ids = 1 THEN "CONFLICT" ELSE "STH_NOT_VALID"
  BY <1>1 DEF determine_metadata_status, Rested, RamType
<1>4. Determined(r) = p
  BY <1>2
<1> HIDE DEF p
<1>5. p.ms = "CONFLICT" => a.num # 1 /\ a.ids = 1
  BY <1>3
<1>6. ASSUME a.num = 1, a.queue[0] = "GOOD" PROVE p.ms = "GOOD"
  BY <1>3, <1>6
<1>7. ASSUME a.num # 1, a.queue[0] = "GOOD", a.queue[1] = "GOOD" PROVE p.ms = "GOOD"
  BY <1>3, <1>7 DEF Slots
<1> QED BY <1>3, <1>4, <1>5, <1>6, <1>7 DEF a

\* Both slots together: one array.
LEMMA TogetherOne ==
  ASSUME NEW r, Enumerated(r), same_array(Counted(r)) \/ can_be_same_array(Counted(r))
  PROVE determine_array_status(r).num = 1
<1> DEFINE q == Counted(r)
           j == Joined(q)
<1>1. Enumerated(q) /\ q.num = 0 /\ Rested(r)
  BY CountedEnumerated, CountedIs DEF Enumerated, Sane
<1>2. determine_array_status(r) =
        IF same_array(q) THEN set_array_status(q, q.rp[0].mode, q.cur)
        ELSE IF can_be_same_array(q) THEN set_array_status(j, j.rp[Occupied(q)].mode, j.cur)
        ELSE Alone(Alone(j, 0), 1)
  BY DeterminedIs
<1> HIDE DEF q
<1>3. Sane(j) /\ j.num = 0
  BY <1>1, JoinedIs
<1> HIDE DEF j
<1>4. Rested(q) /\ Rested(j) /\ q.num < 2 /\ j.num < 2 /\ q.num + 1 = 1 /\ j.num + 1 = 1
  BY <1>1, <1>3 DEF Enumerated, Sane
<1>5. /\ \A mode, pair : set_array_status(q, mode, pair).num = 1
      /\ \A mode, pair : set_array_status(j, mode, pair).num = 1
  BY <1>4, StatusAdds
<1> QED BY <1>2, <1>5 DEF q

\* A single drive beside an empty bay is an array that is good.
LEMMA OnlyJbod ==
  ASSUME NEW r, Enumerated(r), NEW t \in Slots, r.cur[t] = "GOOD", r.rp[t].mode = "JBOD",
         r.cur[Across(t)] = "EMPTY", r.rp[Across(t)].mode = "NOT_CONFIGURED"
  PROVE Determined(r).ms = "GOOD"
<1> DEFINE q == Counted(r)
           a == determine_array_status(r)
<1>1. /\ Enumerated(q) /\ q.num = 0 /\ q.rp = r.rp /\ q.cur = r.cur
  BY CountedEnumerated, CountedIs DEF Enumerated, Sane
<1>2. a = IF same_array(q) THEN set_array_status(q, q.rp[0].mode, q.cur)
          ELSE IF can_be_same_array(q) THEN set_array_status(Joined(q), Joined(q).rp[Occupied(q)].mode, Joined(q).cur)
          ELSE Alone(Alone(Joined(q), 0), 1)
  BY DeterminedIs
<1> HIDE DEF q
<1>3. ~same_array(q) /\ can_be_same_array(q) /\ Joined(q) = q /\ Occupied(q) = t /\ Single(q.cur)
  BY <1>1 DEF same_array, can_be_same_array, Joined, Occupied, Single, Slots, Across
<1>4. a = set_array_status(q, "JBOD", q.cur)
  BY <1>1, <1>2, <1>3
<1> HIDE DEF a
<1>5. Rested(q) /\ AptPages(q) /\ q.num < 2 /\ 0 \in Slots
  BY <1>1 DEF Enumerated, Sane, Slots
<1>6. a.num = 1 /\ a.queue[0] = "GOOD"
  BY <1>1, <1>3, <1>4, <1>5, OtherDecides
<1>7. Rested(r)
  BY DEF Enumerated, Sane
<1> QED BY <1>6, <1>7, StatusOfMeta DEF a

\* Two drives on their own: each slot is decided alone, and no page changes.
LEMMA ApartIs ==
  ASSUME NEW r, Enumerated(r), ~same_array(Counted(r)), ~can_be_same_array(Counted(r)), Newcomer(Counted(r)) = {},
         \A s \in Slots : r.rp[s].mode # "RAID1"
  PROVE LET a == determine_array_status(r)
        IN /\ a.num = 2 /\ a.newer = r.newer /\ a.rp = r.rp /\ a.cur = r.cur
           /\ \A s \in Slots : r.rp[s].mode = "JBOD" /\ r.cur[s] = "GOOD" => a.queue[s] = "GOOD"
<1> DEFINE q == Counted(r)
           a == determine_array_status(r)
           only(s) == [e \in Slots |-> IF e = s THEN q.cur[s] ELSE "EMPTY"]
           b == set_array_status(q, q.rp[0].mode, only(0))
           c == set_array_status(b, b.rp[1].mode, [e \in Slots |-> IF e = 1 THEN b.cur[1] ELSE "EMPTY"])
<1>1. /\ Enumerated(q) /\ q.num = 0 /\ q.rp = r.rp /\ q.cur = r.cur /\ q.newer = r.newer /\ 0 \in Slots /\ 1 \in Slots
  BY CountedEnumerated, CountedIs DEF Enumerated, Sane, Slots
<1>2. Joined(q) = q
  BY <1>1, JoinedIs
<1>3. a = c
  BY <1>2, DeterminedIs DEF Alone
<1> HIDE DEF q, a
<1>4. /\ Rested(q) /\ AptPages(q) /\ q.num < 2 /\ q.rp[0].mode # "RAID1" /\ q.rp[1].mode # "RAID1"
  BY <1>1 DEF Enumerated, Sane
<1>5. \A s \in Slots : q.cur[s] = "GOOD" => Single(only(s))
  BY DEF Single, Slots, Across
<1>6. /\ Rested(b) /\ AptPages(b) /\ b.rp = q.rp /\ b.cur = q.cur /\ b.newer = q.newer /\ b.num = 1
      /\ q.rp[0].mode = "JBOD" /\ q.cur[0] = "GOOD" => b.queue[0] = "GOOD"
  <2> HIDE DEF only
  <2>1. /\ Decided(b, q) /\ b.rp = q.rp /\ b.cur = q.cur /\ b.newer = q.newer /\ b.num = q.num + 1
        /\ b.queue[q.num] = IF q.rp[0].mode # "JBOD" THEN "NOT_CONFIGURED"
                            ELSE IF Single(only(0)) THEN "GOOD" ELSE "BROKEN"
    BY <1>4, OtherDecides
  <2> HIDE DEF b
  <2> QED BY <1>1, <1>5, <2>1 DEF Decided
<1> HIDE DEF b
<1>7. c = set_array_status(b, q.rp[1].mode, only(1))
  BY <1>6
<1> HIDE DEF c, only
<1>8. /\ c.rp = b.rp /\ c.cur = b.cur /\ c.newer = b.newer /\ c.num = 2
      /\ q.rp[1].mode = "JBOD" /\ q.cur[1] = "GOOD" => c.queue[1] = "GOOD"
  BY <1>1, <1>4, <1>5, <1>6, <1>7, OtherDecides
<1>9. c.queue[0] = b.queue[0]
  <2>1. \E st : c = append_array_status(b, st)
    BY <1>4, <1>7 DEF set_array_status, set_jbod_array_status
  <2> QED BY <1>6, <2>1 DEF append_array_status, Rested, RamType, Slots
<1> QED BY <1>1, <1>3, <1>6, <1>8, <1>9 DEF Slots, a

\* A sector is cleaned at the start only of a drive that is no good member, or
\* beside a member of another array, unless the pages are of another mode.
LEMMA NothingWiped ==
  ASSUME NEW r0, Rested(r0), FixedBays, Fit(r0.bay), \A i \in Slots : Apt(r0.nvm[i], i), ~r0.mirror,
         NEW mode \in {"RAID1", "JBOD"}, OwnedModes(ListedSlots(r0), mode),
         NEW t \in Slots, Known(r0, t), r0.nvm[t].status[r0.nvm[t].disk_num] = "GOOD",
         (\A s \in Slots : Known(r0, s)) => r0.nvm[0].id = r0.nvm[1].id
  PROVE Wiped(r0, mode) = {}
<1> DEFINE e == ListedSlots(r0)
           a == determine_array_status(e)
           p == Determined(e)
           n == First(p)
           u == Across(t)
<1>1. Listed(e) /\ Enumerated(e) /\ e.bay = r0.bay /\ e.nvm = r0.nvm
  BY ListingIs
<1>2. Wiped(r0, mode) = IF Reconfigures(p, mode) THEN Cleaned(p, mode) ELSE {}
  BY DEF Wiped
<1> HIDE DEF e
<1>3. /\ Known(e, t) /\ e.rp[t] = e.nvm[t] /\ e.cur[t] = "GOOD" /\ Owned(e.rp[t]) /\ e.rp[t].mode = mode
      /\ Apt(e.rp[t], t)
  <2>1. Known(e, t) /\ e.rp[t] = e.nvm[t] /\ e.cur[t] = "GOOD"
    BY <1>1 DEF Known, Ready, Listed
  <2>2. Owned(e.rp[t])
    BY <2>1 DEF Known, Ready, Owned
  <2> QED BY <1>1, <2>1, <2>2 DEF OwnedModes, e, Enumerated, AptPages
<1>4. Rested(e) /\ u \in Slots /\ Slots = {t, u} /\ u # t
  BY <1>1 DEF Enumerated, Sane, Slots, Across
<1>5. /\ Outcome(p, e) /\ p.num = a.num /\ p.newer = a.newer /\ p.rp = a.rp /\ p.cur = a.cur
      /\ p.ms = "CONFLICT" => a.num # 1 /\ Counted(e).ids = 1
      /\ a.num = 1 /\ a.queue[0] = "GOOD" => p.ms = "GOOD"
      /\ a.num # 1 /\ a.queue[0] = "GOOD" /\ a.queue[1] = "GOOD" => p.ms = "GOOD"
  <2>1. Outcome(p, e)
    BY <1>1, DeterminedPages
  <2>2. p.ids = Counted(e).ids
    BY <2>1 DEF Outcome
  <2> HIDE DEF p, a
  <2> QED BY <1>4, <2>1, <2>2, StatusOfMeta DEF p, a
<1> HIDE DEF p
<1>6. p.cur[n] = "GOOD" /\ p.rp[n].mode = mode /\ n \in Slots
  <2>1. n \in Slots /\ p.cur[n] = "GOOD"
    BY <1>3, <1>5 DEF Outcome, SomeGood, First, Slots
  <2>2. Owned(p.rp[n]) /\ OwnedModes(p, mode)
    BY <1>5, <2>1 DEF Outcome, Manned, e
  <2> QED BY <2>1, <2>2 DEF OwnedModes
<1>7. Reconfigures(p, mode) => (p.ms = "STH_NOT_VALID" /\ mode = "JBOD") \/ p.ms = "CONFLICT"
  BY <1>6 DEF Reconfigures, First
<1>8. Counted(e).ids = Cardinality({d \in Slots : e.rp[0].id[d] # e.rp[1].id[d]})
  BY <1>4 DEF Counted, Rested, RamType
<1>9. CASE Known(e, u)
  <2>1. e.rp[0].id = e.rp[1].id
    <3>1. \A s \in Slots : Known(r0, s) /\ e.rp[s] = e.nvm[s]
      BY <1>1, <1>3, <1>4, <1>9 DEF Known, Ready, Listed
    <3>2. 0 \in Slots /\ 1 \in Slots
      BY DEF Slots
    <3> QED BY <1>1, <3>1, <3>2
  <2>2. Counted(e).ids = 0
    BY <1>8, <2>1, FS_EmptySet
  <2>3. p.ms # "CONFLICT"
    BY <1>5, <2>2
  <2>4. ASSUME mode = "JBOD" PROVE p.ms = "GOOD"
    <3>1. \A s \in Slots : Owned(e.rp[s]) /\ e.rp[s].mode = "JBOD" /\ e.cur[s] = "GOOD"
      <4>1. Owned(e.rp[u])
        BY <1>1, <1>4, <1>9 DEF Known, Ready, Listed, Owned
      <4>2. e.rp[u].mode = "JBOD"
        BY <1>4, <2>4, <4>1 DEF OwnedModes, e
      <4>3. e.cur[u] = "GOOD"
        BY <1>1, <1>4, <4>1, <4>2 DEF Enumerated, Paged
      <4> QED BY <1>3, <1>4, <2>4, <4>1, <4>2, <4>3
    <3>2. LET q == Counted(e) IN ~same_array(q) /\ ~can_be_same_array(q) /\ Newcomer(q) = {}
      BY <1>4, <3>1, CountedIs DEF same_array, can_be_same_array, Newcomer, Slots, Across
    <3>3. a.num = 2 /\ \A s \in Slots : a.queue[s] = "GOOD"
      BY <1>1, <3>1, <3>2, ApartIs
    <3> HIDE DEF a
    <3> QED BY <1>5, <3>3 DEF Slots
  <2> QED BY <1>2, <1>7, <2>3, <2>4
<1>10. CASE ~Ready(e, u)
  <2>1. ~Known(e, u) /\ e.cur[u] = "EMPTY" /\ e.rp[u].mode = "NOT_CONFIGURED"
    BY <1>1, <1>4, <1>10 DEF Known, Listed
  <2>2. can_be_same_array(Counted(e))
    BY <1>4, <2>1, CountedIs DEF can_be_same_array
  <2>3. p.ms # "CONFLICT"
    BY <1>1, <1>5, <2>2, TogetherOne
  <2>4. mode = "JBOD" => p.ms = "GOOD"
    BY <1>1, <1>3, <2>1, OnlyJbod DEF p
  <2> QED BY <1>2, <1>7, <2>3, <2>4
<1>11. CASE Ready(e, u) /\ ~Known(e, u)
  <2>1. /\ e.cur[u] = "BLANK" /\ e.rp[u].mode = "NOT_CONFIGURED" /\ \A x \in Slots : e.rp[u].id[x] = NoDrive
        /\ e.newer = {u}
    BY <1>1, <1>3, <1>4, <1>11 DEF Listed
  <2>2. CASE mode = "RAID1"
    <3>1. \A x \in Slots : e.rp[t].id[x] # NoDrive
      BY <1>3, <2>2 DEF Apt
    <3>2. {d \in Slots : e.rp[0].id[d] # e.rp[1].id[d]} = {0, 1}
      BY <2>1, <3>1, <1>4 DEF Slots, Across
    <3>3. Counted(e).ids = 2
      <4>1. Cardinality(0..1) = 2
        <5>1. 0 \in Int /\ 1 \in Int /\ ~(0 > 1)
          OBVIOUS
        <5>2. Cardinality(0..1) = 1 - 0 + 1
          BY <5>1, FS_Interval, Zenon
        <5> QED BY <5>2
      <4>2. {0, 1} = 0..1
        OBVIOUS
      <4> QED BY <1>8, <3>2, <4>1, <4>2
    <3> QED BY <1>2, <1>5, <1>7, <2>2, <3>3
  <2>3. CASE mode = "JBOD"
    <3>1. LET q == Counted(e) IN ~same_array(q) /\ ~can_be_same_array(q) /\ Newcomer(q) = {}
      BY <1>3, <1>4, <2>1, <2>3, CountedIs DEF same_array, can_be_same_array, Newcomer, Slots, Across
    <3>2. \A s \in Slots : e.rp[s].mode # "RAID1"
      BY <1>3, <1>4, <2>1, <2>3
    <3>3. a.newer = e.newer /\ a.cur = e.cur
      BY <1>1, <3>1, <3>2, ApartIs
    <3> HIDE DEF a
    <3>4. p.newer # {} /\ \A s \in Slots : p.cur[s] # "EMPTY"
      BY <1>3, <1>4, <1>5, <2>1, <3>3
    <3>5. KeepsMbr(p, mode)
      BY <1>6, <2>3, <3>4 DEF KeepsMbr, First
    <3> QED BY <1>2, <3>5 DEF Cleaned
  <2> QED BY <2>2, <2>3
<1> QED BY <1>9, <1>10, <1>11

----------------------------------------------------------------------------
(* The pages while the mirror runs. *)

\* A mirror that runs, with no page to store.
Mirroring(r) == RamPages(r) /\ Mirrors(r) /\ Others(r.io)

\* What becomes of it: the pages ordered are those of a mirror.
Runs(q, r) == RamPages(q) /\ Filed(q.io, "RAID1", {}) /\ q.nvm = r.nvm

LEMMA UseIs ==
  ASSUME NEW r, Rested(r)
  PROVE LET q == update_raid1_read_use_slot(r)
        IN /\ Rested(q) /\ q.rp = r.rp /\ q.bay = r.bay /\ q.map = r.map /\ q.nvm = r.nvm /\ q.io = r.io
           /\ q.cur = r.cur /\ q.mode = r.mode /\ q.queue = r.queue /\ q.mirror = r.mirror /\ q.reenum = r.reenum
           /\ q.num = r.num
           /\ q.mode = "RAID1" /\ q.queue[0] # "GOOD" /\ SomeGood(q) => q.cur[q.use] = "GOOD"
<1> DEFINE q == update_raid1_read_use_slot(r)
<1>1. /\ Rested(q) /\ q.rp = r.rp /\ q.bay = r.bay /\ q.map = r.map /\ q.nvm = r.nvm /\ q.io = r.io
      /\ q.cur = r.cur /\ q.mode = r.mode /\ q.queue = r.queue /\ q.mirror = r.mirror /\ q.reenum = r.reenum
      /\ q.num = r.num
  <2> DEFINE u == IF r.mode # "RAID1" \/ r.queue[0] = "GOOD" THEN 0
                  ELSE IF \A s \in Slots : r.cur[s] = "GOOD"
                  THEN IF r.rp[0].gen > r.rp[1].gen THEN 0 ELSE 1
                  ELSE IF r.cur[0] = "GOOD" THEN 0 ELSE 1
  <2>1. Rested(q) /\ q = [r EXCEPT !.use = u]
    BY ReadSlotRests DEF update_raid1_read_use_slot
  <2> HIDE DEF u, q
  <2> QED BY <2>1 DEF Rested, RamType
<1>2. q.use = IF r.mode # "RAID1" \/ r.queue[0] = "GOOD" THEN 0
              ELSE IF \A s \in Slots : r.cur[s] = "GOOD"
              THEN IF r.rp[0].gen > r.rp[1].gen THEN 0 ELSE 1
              ELSE IF r.cur[0] = "GOOD" THEN 0 ELSE 1
  BY DEF update_raid1_read_use_slot, Rested, RamType
<1> HIDE DEF q
<1>3. q.mode = "RAID1" /\ q.queue[0] # "GOOD" /\ SomeGood(q) => q.cur[q.use] = "GOOD"
  BY <1>1, <1>2 DEF SomeGood, Slots
<1> QED BY <1>1, <1>3 DEF q

\* Any page in RAM that is not about a single drive fits a mirror.
LEMMA MirrorMode ==
  ASSUME NEW r, Rested(r), NEW s \in Slots, r.rp[s].mode # "JBOD" PROVE r.rp[s].mode \in {"RAID1", "NOT_CONFIGURED"}
<1>1. r.rp[s] \in Sound
  BY DEF Rested, RamType
<1> QED BY <1>1 DEF Sound, Page, Valid, Modes

\* A mirror whose slots in use belong to it.
Manning(m) ==
  /\ Rested(m) /\ Whole(m) /\ AptPages(m) /\ m.mode = "RAID1" /\ ~m.reenum /\ Others(m.io)
  /\ \A s \in Slots : m.rp[s].mode # "JBOD"
  /\ \A s \in Slots : m.cur[s] \in {"GOOD", "REBUILDING"} => Belongs(m, s)
  /\ m.mirror => Belong(m)

LEMMA MirroringMans == ASSUME NEW r, Rested(r), Whole(r), Mirroring(r) PROVE Manning(r)
BY DEF Mirroring, Manning, RamPages, MirrorPages, Mirrors, Belong

\* Another state of the same drives and pages, in which slots may have failed.
Fallen(m, r) ==
  /\ Rested(m) /\ Retains(m, r) /\ m.io = r.io /\ m.mode = r.mode /\ m.reenum = r.reenum
  /\ m.mirror => r.mirror
  /\ \A s \in Slots : m.cur[s] = r.cur[s] \/ m.cur[s] \notin {"GOOD", "REBUILDING"}

LEMMA FallenMans == ASSUME NEW r, Manning(r), NEW m, Fallen(m, r) PROVE Manning(m)
<1>1. AptPages(m) /\ \A s \in Slots : Belongs(r, s) <=> Belongs(m, s)
  <2> HIDE DEF AptPages
  <2> QED BY RetainsPages DEF Manning, Fallen
<1> QED BY <1>1 DEF Manning, Fallen, Retains, Whole, Ready, Belong

\* The array is decided anew from the statuses of the slots.
LEMMA Rearrayed ==
  ASSUME NEW m, Manning(m), m.num = 0
  PROVE Runs(update_raid1_read_use_slot(store_slots(set_raid1_array_status(m, m.cur))), m)
<1>0. /\ Rested(m) /\ Whole(m) /\ AptPages(m) /\ m.mode = "RAID1" /\ ~m.reenum /\ Others(m.io)
      /\ \A s \in Slots : m.rp[s].mode # "JBOD"
      /\ \A s \in Slots : m.cur[s] \in {"GOOD", "REBUILDING"} => Belongs(m, s)
      /\ m.mirror => Belong(m)
  BY DEF Manning
<1> DEFINE a == set_raid1_array_status(m, m.cur)
           b == store_slots(a)
           q == update_raid1_read_use_slot(b)
<1>1. /\ Decided(a, m) /\ Verdict(a, m)
      /\ a.queue[0] = "DEGRADED" => SomeGood(m)
  <2>1. Fits2(m, m.cur) /\ m.num < 2
    BY <1>0 DEF Fits2, Whole
  <2> HIDE DEF a
  <2>2. /\ Decided(a, m) /\ Verdict(a, m)
        /\ a.queue[m.num] \in {"REBUILDING", "DEGRADED"} => \E g \in Slots : m.cur[g] = "GOOD"
    BY <1>0, <2>1, Raid1Decides DEF a
  <2> QED BY <2>2 DEF SomeGood
<1> HIDE DEF a
<1>2. \A s \in Slots : a.rp[s].mode # "JBOD"
  BY <1>0, <1>1 DEF Decided, Alike, Belong, Belongs
<1>3. \A s \in Slots : Belongs(m, s) => Belongs(a, s)
  BY <1>1, AlikeBelongs DEF Decided, Belong
<1>4. \A s \in Slots : a.cur[s] \in {"GOOD", "REBUILDING"} => Belongs(a, s)
  BY <1>0, <1>1, <1>3 DEF Decided
<1>5. a.mirror => Belong(a)
  BY <1>0, <1>1, <1>3 DEF Verdict, Belong
<1>6. a.queue[0] \in {"GOOD", "REBUILDING"} => Belong(a)
  BY <1>0, <1>1 DEF Verdict
<1>7. /\ Rested(a) /\ AptPages(a) /\ Others(a.io) /\ a.mode = "RAID1" /\ ~a.reenum /\ a.nvm = m.nvm
      /\ a.queue[0] # "NOT_CONFIGURED" /\ (a.queue[0] = "DEGRADED" => SomeGood(a))
  BY <1>0, <1>1 DEF Decided, Verdict, Adds, SomeGood
<1>8. /\ Rested(b) /\ AptPages(b) /\ Retains(b, a) /\ Quiet(b, a) /\ Filed(b.io, "RAID1", {})
  <2>1. \A s \in a.need : a.rp[s].mode \in {"RAID1", "NOT_CONFIGURED"}
    <3>1. a.need \subseteq Slots
      BY <1>7 DEF Rested, RamType
    <3> QED BY <1>2, <1>7, <3>1, MirrorMode
  <2> QED BY <1>7, <2>1, OthersFiled, StoreSlotsFiles
<1> HIDE DEF b
<1>9. /\ Rested(q) /\ q.rp = b.rp /\ q.bay = b.bay /\ q.map = b.map /\ q.nvm = b.nvm /\ q.io = b.io
      /\ q.cur = b.cur /\ q.mode = b.mode /\ q.queue = b.queue /\ q.mirror = b.mirror /\ q.reenum = b.reenum
      /\ q.mode = "RAID1" /\ q.queue[0] # "GOOD" /\ SomeGood(q) => q.cur[q.use] = "GOOD"
  BY <1>8, UseIs
<1> HIDE DEF q
<1>10. \A s \in Slots : (Belongs(a, s) <=> Belongs(q, s)) /\ q.rp[s].mode = a.rp[s].mode
  BY <1>7, <1>8, <1>9, RetainsPages DEF Belongs, Ready, Retains
<1>11. /\ q.cur = a.cur /\ q.mode = "RAID1" /\ q.queue = a.queue /\ q.mirror = a.mirror /\ ~q.reenum
       /\ Mirrors(q)
  BY <1>7, <1>8, <1>9 DEF Quiet, Mirrors
<1>12. q.queue[0] = "DEGRADED" => Belongs(q, q.use)
  <2>1. q.use \in Slots
    BY <1>9 DEF Rested, RamType
  <2> QED BY <1>4, <1>7, <1>9, <1>10, <1>11, <2>1 DEF SomeGood
<1>13. MirrorPages(q)
  BY <1>2, <1>4, <1>5, <1>6, <1>10, <1>11, <1>12 DEF MirrorPages, Belong
<1>14. AptPages(q)
  BY <1>8, <1>9 DEF AptPages
<1> QED BY <1>7, <1>8, <1>9, <1>13, <1>14 DEF Runs, RamPages, Retains, q, b, a

\* A slot is marked as failed in both pages, and the array decided anew.
LEMMA FailedRuns ==
  ASSUME NEW m, Manning(m), NEW g \in Slots, NEW f \in Slots
  PROVE LET q == [update_slots_for_failed(m, g, f) EXCEPT !.num = 0]
        IN Runs(update_raid1_read_use_slot(store_slots(set_raid1_array_status(q, q.cur))), m)
<1> DEFINE x == update_slots_for_failed(m, g, f)
           q == [x EXCEPT !.num = 0]
<1>1. /\ Retains(x, m) /\ Quiet([x EXCEPT !.cur = m.cur], m) /\ x.io = m.io
      /\ x.cur = [m.cur EXCEPT ![f] = "FAILED"]
  <2>1. Rested(m) /\ \A s \in Slots : m.rp[s].mode # "JBOD"
    BY DEF Manning
  <2> HIDE DEF x
  <2> QED BY <2>1, FailedRetains DEF x
<1>2. Rested(x)
  BY FailedKept DEF Kept, Manning
<1> HIDE DEF x
<1>3. x.mode = m.mode /\ x.reenum = m.reenum /\ x.mirror = m.mirror
  BY <1>1, <1>2 DEF Quiet, Rested, RamType
<1>4. \A s \in Slots : x.cur[s] = m.cur[s] \/ x.cur[s] = "FAILED"
  BY <1>1 DEF Manning, Rested, RamType
<1>5. Fallen(q, m) /\ q.num = 0
  <2>1. /\ Rested(q) /\ q.rp = x.rp /\ q.bay = x.bay /\ q.map = x.map /\ q.nvm = x.nvm /\ q.io = x.io
        /\ q.mode = x.mode /\ q.reenum = x.reenum /\ q.mirror = x.mirror /\ q.cur = x.cur /\ q.num = 0
    <3>1. 0 \in 0..2
      OBVIOUS
    <3> QED BY <1>2, <3>1 DEF Rested, RamType
  <2> HIDE DEF q
  <2> QED BY <1>1, <1>3, <1>4, <2>1 DEF Fallen, Retains
<1> HIDE DEF q
<1>6. Runs(update_raid1_read_use_slot(store_slots(set_raid1_array_status(q, q.cur))), q) /\ q.nvm = m.nvm
  BY <1>5, FallenMans, Rearrayed DEF Fallen, Retains
<1> QED BY <1>6 DEF Runs, q, x

LEMMA WriteFailedRuns ==
  ASSUME NEW r, Rested(r), Whole(r), Mirroring(r), NEW bad PROVE Runs(WriteFailed(r, bad), r)
<1> DEFINE fail == IF 0 \in bad THEN 0 ELSE 1
           q == r.queue[0]
           queue == [r.queue EXCEPT ![0] = "DEGRADED"]
           cur == [r.cur EXCEPT ![fail] = "FAILED"]
           r1 == IF q = "GOOD" \/ (q = "REBUILDING" /\ r.cur[fail] = "REBUILDING")
                 THEN [r EXCEPT !.queue[0] = "DEGRADED", !.cur[fail] = "FAILED"] ELSE r
           r2 == IF q = "REBUILDING" THEN [r1 EXCEPT !.mirror = FALSE] ELSE r1
           r3 == IF r2.cur[0] = "FAILED" THEN update_slots_for_failed(r2, 1, 0)
                 ELSE update_slots_for_failed(r2, 0, 1)
           r4 == [r3 EXCEPT !.num = 0]
           Settle(m) == update_raid1_read_use_slot(store_slots(set_raid1_array_status(m, m.cur)))
<1>1. Fallen(r1, r)
  <2>1. queue \in [Slots -> ArrayStatus] /\ cur \in [Slots -> SlotStatus]
        /\ \A s \in Slots : cur[s] = r.cur[s] \/ cur[s] = "FAILED"
    BY StatusIs DEF Rested, RamType
  <2>2. [r EXCEPT !.queue[0] = "DEGRADED", !.cur[fail] = "FAILED"] = [r EXCEPT !.queue = queue, !.cur = cur]
    BY DEF Rested, RamType
  <2> HIDE DEF queue, cur
  <2> DEFINE x == [r EXCEPT !.queue = queue, !.cur = cur]
  <2>3. Rested(x) /\ x.rp = r.rp /\ x.bay = r.bay /\ x.map = r.map /\ x.nvm = r.nvm /\ x.io = r.io
        /\ x.mode = r.mode /\ x.reenum = r.reenum /\ x.mirror = r.mirror /\ x.cur = cur
    BY <2>1 DEF Rested, RamType
  <2> HIDE DEF x
  <2>4. Fallen(x, r) /\ Fallen(r, r)
    BY <2>1, <2>3 DEF Fallen, Retains
  <2> QED BY <2>2, <2>4 DEF x
<1> HIDE DEF r1
<1>2. Fallen(r2, r)
  <2> DEFINE x == [r1 EXCEPT !.mirror = FALSE]
  <2>1. /\ Rested(x) /\ x.rp = r1.rp /\ x.bay = r1.bay /\ x.map = r1.map /\ x.nvm = r1.nvm /\ x.io = r1.io
        /\ x.mode = r1.mode /\ x.reenum = r1.reenum /\ ~x.mirror /\ x.cur = r1.cur
    BY <1>1 DEF Rested, RamType, Fallen
  <2> HIDE DEF x
  <2>2. Fallen(x, r)
    BY <1>1, <2>1 DEF Fallen, Retains
  <2> QED BY <1>1, <2>2 DEF x
<1> HIDE DEF r2
<1>3. Manning(r2) /\ r2.nvm = r.nvm
  BY <1>2, MirroringMans, FallenMans DEF Fallen, Retains
<1>4. Runs(Settle(r4), r2)
  BY <1>3, FailedRuns DEF Slots
<1>5. WriteFailed(r, bad) = Settle(r4)
  <2>1. r4.cur = r3.cur
    <3>1. Rested(r3)
      BY <1>3, FailedKept DEF Kept, Manning, Slots
    <3> HIDE DEF r3
    <3> QED BY <3>1 DEF Rested, RamType
  <2> QED BY <2>1 DEF WriteFailed, r4, r3, r2, r1
<1> QED BY <1>3, <1>4, <1>5 DEF Runs
\* The same drives and pages, with the same array on them; slots may have failed.
Calm(m, r) ==
  /\ m.rp = r.rp /\ m.bay = r.bay /\ m.map = r.map /\ m.nvm = r.nvm /\ m.io = r.io
  /\ m.mode = r.mode /\ m.reenum = r.reenum /\ m.queue = r.queue /\ m.num = r.num /\ m.use = r.use
  /\ m.mirror => r.mirror
  /\ \A s \in Slots : m.cur[s] = r.cur[s] \/ m.cur[s] = "FAILED"

LEMMA CalmMirrors ==
  ASSUME NEW r, Mirroring(r), NEW m, Calm(m, r) PROVE Mirroring(m) /\ Runs(m, r)
<1>1. AptPages(m) /\ AptPages(r) /\ Others(m.io) /\ Mirrors(m) /\ MirrorPages(r) /\ m.nvm = r.nvm
  BY DEF Mirroring, Calm, AptPages, RamPages, Mirrors
<1>2. \A s \in Slots : Belongs(r, s) => Belongs(m, s)
  BY DEF Calm, Belongs, Ready
<1>3. Belongs(r, r.use) => Belongs(m, m.use)
  BY DEF Calm, Belongs, Ready
<1>4. MirrorPages(m)
  BY <1>1, <1>2, <1>3 DEF MirrorPages, Calm, Mirrors
<1> QED BY <1>1, <1>4, OthersFiled DEF Mirroring, Runs, RamPages

\* store_slots in a mirror that runs.
LEMMA StoredRuns ==
  ASSUME NEW r, Rested(r), Mirroring(r) PROVE Runs(store_slots(r), r)
<1> DEFINE q == store_slots(r)
<1>1. Rested(q) /\ AptPages(q) /\ Retains(q, r) /\ Quiet(q, r) /\ Filed(q.io, "RAID1", {})
  <2>1. \A s \in r.need : r.rp[s].mode \in {"RAID1", "NOT_CONFIGURED"}
    <3>1. r.need \subseteq Slots
      BY DEF Rested, RamType
    <3>2. \A s \in Slots : r.rp[s].mode # "JBOD"
      BY DEF Mirroring, RamPages, MirrorPages
    <3> QED BY <3>1, <3>2, MirrorMode
  <2> QED BY <2>1, OthersFiled, StoreSlotsFiles DEF Mirroring, RamPages
<1> HIDE DEF q
<1> QED BY <1>1, QuietMirror DEF Runs, Mirroring, RamPages, Retains, q

\* A slot is marked as failed in both pages; the array is as it was.
LEMMA FailedPages ==
  ASSUME NEW r, Rested(r), Whole(r), Mirroring(r), ~r.mirror, NEW g \in Slots, NEW f \in Slots
  PROVE LET x == update_slots_for_failed(r, g, f)
        IN Rested(x) /\ Mirroring(x) /\ x.nvm = r.nvm
<1> DEFINE x == update_slots_for_failed(r, g, f)
<1>1. /\ Retains(x, r) /\ Quiet([x EXCEPT !.cur = r.cur], r) /\ x.io = r.io
      /\ x.cur = [r.cur EXCEPT ![f] = "FAILED"]
  <2>1. \A s \in Slots : r.rp[s].mode # "JBOD"
    BY DEF Mirroring, RamPages, MirrorPages
  <2> HIDE DEF x
  <2> QED BY <2>1, FailedRetains DEF x
<1>2. Rested(x)
  BY FailedKept DEF Kept
<1> HIDE DEF x
<1>3. x.mode = r.mode /\ x.reenum = r.reenum /\ x.mirror = r.mirror /\ x.queue = r.queue /\ x.use = r.use /\ x.num = r.num
  BY <1>1, <1>2 DEF Quiet, Rested, RamType
<1>4. AptPages(x) /\ \A s \in Slots : Belongs(r, s) <=> Belongs(x, s)
  <2>1. AptPages(r)
    BY DEF Mirroring, RamPages
  <2> HIDE DEF AptPages
  <2> QED BY <1>1, <1>2, <2>1, RetainsPages
<1>5. \A s \in Slots : x.cur[s] = r.cur[s] \/ x.cur[s] = "FAILED"
  BY <1>1 DEF Rested, RamType
<1>6. MirrorPages(r) /\ Mirrors(r) /\ r.use \in Slots /\ \A s \in Slots : x.rp[s].mode = r.rp[s].mode
  BY <1>1 DEF Mirroring, RamPages, Rested, RamType, Retains
<1>7. MirrorPages(x) /\ Mirrors(x)
  BY <1>3, <1>4, <1>5, <1>6 DEF MirrorPages, Mirrors
<1> QED BY <1>1, <1>2, <1>4, <1>7 DEF Mirroring, RamPages, Retains, x

LEMMA StopsRuns ==
  ASSUME NEW r, r \in RamType, ~r.busy, Whole(r), Mirroring(r) PROVE Runs(RebuildStops(r), r)
<1> DEFINE failed == {s \in Slots : r.cur[s] = "FAILED"}
           f == IF 0 \in failed THEN 0 ELSE 1
           r1 == [r EXCEPT !.mirror = FALSE]
           r2 == [update_slots_for_failed(r1, Across(f), f) EXCEPT !.num = 0]
           u == update_raid1_read_use_slot(store_slots(set_raid1_array_status(r2, r2.cur)))
<1>1. Rested(r1) /\ Calm(r1, r) /\ Calm(r, r)
  BY DEF Rested, RamType, Calm
<1> HIDE DEF r1
<1>2. f \in Slots /\ Across(f) \in Slots
  BY DEF Across, Slots
<1> HIDE DEF f
<1>3. Whole(r1) /\ r1.nvm = r.nvm
  BY <1>1 DEF Whole, Ready, Calm
<1>4. Mirroring(r1) /\ Runs(r1, r) /\ Runs(r, r)
  BY <1>1, CalmMirrors
<1>5. Runs(u, r1)
  BY <1>1, <1>2, <1>3, <1>4, MirroringMans, FailedRuns
<1>6. RebuildStops(r) \in {r, r1, u}
  BY DEF RebuildStops, u, r2, r1, f
<1> HIDE DEF u
<1> QED BY <1>3, <1>4, <1>5, <1>6 DEF Runs

LEMMA BlockFailedRuns ==
  ASSUME NEW r, Rested(r), Whole(r), r.mirror, Mirroring(r), NEW bothDone PROVE Runs(BlockFailed(r, bothDone), r)
<1> DEFINE again == r.errAt = r.pos
           r1 == IF again THEN [r EXCEPT !.retry = @ + 1] ELSE [r EXCEPT !.errAt = r.pos]
           cur == [r1.cur EXCEPT ![Across(r.src)] = "FAILED"]
           q == [r1 EXCEPT !.cur = cur]
<1>1. r1 \in RamType /\ ~r1.busy /\ Calm(r1, r)
  <2>1. r.retry + 1 \in 0..MaxRetry /\ r.pos \in Int
    BY Constants DEF Rested, RamType
  <2> QED BY <2>1 DEF Rested, RamType, Calm
<1> HIDE DEF r1
<1>2. cur \in [Slots -> SlotStatus] /\ \A s \in Slots : cur[s] = r1.cur[s] \/ cur[s] = "FAILED"
  BY <1>1, StatusIs DEF RamType
<1>3. q = [r1 EXCEPT !.cur[Across(r.src)] = "FAILED"]
  OBVIOUS
<1> HIDE DEF cur
<1>4. q \in RamType /\ ~q.busy /\ Calm(q, r)
  BY <1>1, <1>2, ZenonT(60) DEF RamType, Calm
<1> HIDE DEF q
<1>5. Whole(r1) /\ Whole(q) /\ q.nvm = r.nvm /\ r1.nvm = r.nvm
  BY <1>1, <1>4 DEF Whole, Ready, Calm
<1>6. Runs(RebuildStops(r1), r1) /\ Runs(RebuildStops(q), q)
  BY <1>1, <1>4, <1>5, CalmMirrors, StopsRuns
<1>7. BlockFailed(r, bothDone) = RebuildStops(q) \/ BlockFailed(r, bothDone) = RebuildStops(r1)
  BY <1>3 DEF BlockFailed, r1
<1> QED BY <1>5, <1>6, <1>7 DEF Runs

LEMMA InstantDoneRuns ==
  ASSUME NEW r, r \in RamType, ~r.busy, Whole(r), Mirroring(r), r.mirror, NEW ok PROVE Runs(InstantDone(r, ok), r)
<1> DEFINE r1 == [r EXCEPT !.inst = FALSE, !.mirror = FALSE]
           queue == [r1.queue EXCEPT ![0] = "GOOD"]
           good == [s \in Slots |-> "GOOD"]
           q == [r1 EXCEPT !.queue = queue, !.cur = good]
           a == update_slots_for_failed(r1, 1, 0)
           b == update_slots_for_failed(r1, 0, 1)
<1>1. Rested(r1) /\ Calm(r1, r) /\ ~r1.mirror
  BY DEF Rested, RamType, Calm
<1> HIDE DEF r1
<1>2. Whole(r1) /\ r1.nvm = r.nvm /\ Mirroring(r1) /\ Belong(r1)
  <2>1. Belong(r) /\ Whole(r1) /\ r1.nvm = r.nvm
    BY <1>1 DEF Whole, Ready, Calm, Mirroring, RamPages, MirrorPages, Belong
  <2>2. Belong(r1)
    BY <1>1, <2>1 DEF Belong, Belongs, Ready, Calm
  <2> QED BY <1>1, <2>1, <2>2, CalmMirrors
<1>3. queue \in [Slots -> ArrayStatus] /\ good \in [Slots -> SlotStatus] /\ queue[0] = "GOOD"
  BY <1>1, StatusIs DEF Rested, RamType, Slots
<1>4. q = [r1 EXCEPT !.queue[0] = "GOOD", !.cur = good]
  OBVIOUS
<1> HIDE DEF queue, good
<1>5. Runs(q, r1)
  <2>1. /\ q.rp = r1.rp /\ q.bay = r1.bay /\ q.map = r1.map /\ q.nvm = r1.nvm /\ q.io = r1.io /\ q.mode = r1.mode
        /\ q.reenum = r1.reenum /\ q.queue[0] = "GOOD" /\ ~q.mirror
    BY <1>1, <1>3 DEF Rested, RamType
  <2> HIDE DEF q
  <2>2. Belong(q) /\ Mirrors(q) /\ AptPages(q) /\ \A s \in Slots : q.rp[s].mode # "JBOD"
    BY <1>2, <2>1 DEF Belong, Belongs, Ready, Mirroring, Mirrors, RamPages, AptPages
  <2>3. MirrorPages(q)
    BY <2>1, <2>2 DEF MirrorPages, Belong
  <2> QED BY <1>2, <2>1, <2>2, <2>3, OthersFiled DEF Runs, RamPages, Mirroring
<1> HIDE DEF q
<1>6. /\ Rested(a) /\ Mirroring(a) /\ a.nvm = r.nvm
      /\ Rested(b) /\ Mirroring(b) /\ b.nvm = r.nvm
  BY <1>1, <1>2, FailedPages DEF Slots
<1> HIDE DEF a, b
<1>7. Runs(store_slots(a), a) /\ Runs(store_slots(b), b)
  BY <1>6, StoredRuns
<1>8. \/ InstantDone(r, ok) = q
      \/ InstantDone(r, ok) = store_slots(a)
      \/ InstantDone(r, ok) = store_slots(b)
  BY <1>4 DEF InstantDone, r1, good, a, b
<1> QED BY <1>2, <1>5, <1>6, <1>7, <1>8 DEF Runs

LEMMA RebuildDoneRuns ==
  ASSUME NEW r, Rested(r), Whole(r), Mirroring(r), Belong(r) PROVE Runs(RebuildDone(r), r)
<1> DEFINE good == [s \in Slots |-> "GOOD"]
           pages == [s \in Slots |-> [r.rp[s] EXCEPT !.gen = r.rp[r.src].gen, !.status = good]]
           queue == [r.queue EXCEPT ![0] = "GOOD"]
           q == [r EXCEPT !.mirror = FALSE, !.cur = good, !.queue = queue, !.rp = pages, !.num = 1]
           r1 == append_array_status(q, "GOOD")
           c == SetCheckPoint(r1, 0)
           d == [c EXCEPT !.need = Slots]
           Stays(m) == /\ Rested(m) /\ m.bay = r.bay /\ m.map = r.map /\ m.nvm = r.nvm /\ m.mode = r.mode
                       /\ m.reenum = r.reenum /\ ~m.mirror /\ m.rp = pages /\ m.queue[0] = "GOOD"
<1>1. good \in [Slots -> SlotStatus]
  BY StatusIs
<1>2. /\ pages \in [Slots -> Sound]
      /\ \A s \in Slots : /\ pages[s].mode = r.rp[s].mode /\ pages[s].disk_num = r.rp[s].disk_num
                          /\ pages[s].id = r.rp[s].id
  <2>1. r.rp[r.src].gen \in Nat /\ r.rp \in [Slots -> Sound]
    BY DEF Rested, RamType, Sound, Page
  <2> HIDE DEF good
  <2>2. ASSUME NEW s \in Slots
        PROVE /\ pages[s] \in Sound /\ pages[s].mode = r.rp[s].mode /\ pages[s].disk_num = r.rp[s].disk_num
              /\ pages[s].id = r.rp[s].id
    BY <1>1, <2>1 DEF Sound, Page, Valid
  <2> QED BY <2>2
<1>3. queue \in [Slots -> ArrayStatus] /\ queue[0] = "GOOD"
  BY StatusIs DEF Rested, RamType, Slots
<1>4. q = [r EXCEPT !.mirror = FALSE, !.cur = good, !.queue[0] = "GOOD", !.rp = pages, !.num = 1]
  BY DEF Rested, RamType
<1> HIDE DEF good, pages, queue
<1>5. Stays(q) /\ q.io = r.io /\ q.num = 1
  <2>1. 1 \in 0..2
    OBVIOUS
  <2> QED BY <1>1, <1>2, <1>3, <2>1 DEF Rested, RamType
<1> HIDE DEF q
<1>6. Stays(r1) /\ r1.io = q.io
  <2>1. Rested(r1)
    BY <1>5, AppendRests, StatusIs
  <2>2. /\ r1.bay = q.bay /\ r1.map = q.map /\ r1.nvm = q.nvm /\ r1.mode = q.mode /\ r1.reenum = q.reenum
        /\ r1.mirror = q.mirror /\ r1.rp = q.rp /\ r1.io = q.io /\ r1.queue[0] = q.queue[0]
    BY <1>5 DEF append_array_status, Rested, RamType, Slots
  <2> HIDE DEF r1
  <2> QED BY <1>5, <2>1, <2>2
<1> HIDE DEF r1
<1>7. Stays(c) /\ Others(c.io)
  <2>1. Rested(c) /\ Adds(c, r1)
    BY <1>6, SetCheckPointRests, SetCheckPointAdds
  <2>2. /\ c.bay = r1.bay /\ c.nvm = r1.nvm /\ c.map = r1.map /\ c.reenum = r1.reenum
        /\ c.mode = r1.mode /\ c.mirror = r1.mirror /\ c.rp = r1.rp /\ c.queue = r1.queue
    BY <1>6 DEF SetCheckPoint, WriteOthers, WriteOther, Ready, Rested, RamType
  <2> HIDE DEF c
  <2> QED BY <1>5, <1>6, <2>1, <2>2 DEF Adds, Mirroring
<1> HIDE DEF c
<1>8. Stays(d) /\ Others(d.io)
  BY <1>7 DEF Rested, RamType
<1> HIDE DEF d
<1>9. Retains(d, r)
  BY <1>2, <1>8 DEF Retains, Belong, Belongs
<1>10. Mirroring(d)
  <2>1. AptPages(d) /\ Belong(d) /\ Mirrors(d)
    <3>1. AptPages(r) /\ Rested(d)
      BY <1>8 DEF Mirroring, RamPages
    <3>2. AptPages(d) /\ Belong(d)
      BY <1>9, <3>1, RetainsPages DEF Belong
    <3> QED BY <1>8, <3>2 DEF Mirroring, Mirrors
  <2>2. MirrorPages(d)
    BY <1>8, <2>1 DEF MirrorPages, Belong, Belongs
  <2> QED BY <1>8, <2>1, <2>2 DEF Mirroring, RamPages
<1>11. Runs(store_slots(d), d) /\ d.nvm = r.nvm
  BY <1>8, <1>10, StoredRuns
<1>12. RebuildDone(r) = store_slots(d)
  BY <1>4 DEF RebuildDone, d, c, r1, good, pages
<1> QED BY <1>11, <1>12 DEF Runs

LEMMA BlockDoneRuns ==
  ASSUME NEW r0, Rested(r0), Whole(r0), Mirroring(r0), r0.mirror PROVE Runs(BlockDone(r0), r0)
<1> DEFINE r == [r0 EXCEPT !.pos = @ + 1, !.retry = 0]
           cp == [s \in Slots |-> r.cp[s] + Step]
           q == [r EXCEPT !.cp = cp]
           w == WriteOthers(q)
<1>1. Rested(r) /\ Calm(r, r0) /\ r.mirror
  <2>1. r0.pos + 1 \in {p \in Int : p >= -Step}
    BY Constants DEF Rested, RamType
  <2>2. 0 \in 0..MaxRetry /\ 0 < MaxRetry
    BY Constants
  <2> QED BY <2>1, <2>2 DEF Rested, RamType, Calm
<1> HIDE DEF r
<1>2. Whole(r) /\ r.nvm = r0.nvm /\ Mirroring(r) /\ Runs(r, r0)
  BY <1>1, CalmMirrors DEF Whole, Ready, Calm
<1>3. cp \in [Slots -> Nat]
  <2>1. r.cp \in [Slots -> Nat]
    BY <1>1 DEF Rested, RamType
  <2> QED BY <2>1, Constants
<1>4. q = [r EXCEPT !.cp = [s \in Slots |-> @[s] + Step]]
  OBVIOUS
<1> HIDE DEF cp
<1>5. Rested(q) /\ Calm(q, r)
  BY <1>1, <1>3 DEF Rested, RamType, Calm
<1> HIDE DEF q
<1>6. Runs(w, r0)
  <2>1. Rested(w) /\ Adds(w, q) /\ Mirroring(q)
    BY <1>2, <1>5, WriteOthersRests, WriteOthersAdds, CalmMirrors
  <2>2. /\ w.bay = q.bay /\ w.nvm = q.nvm /\ w.map = q.map /\ w.reenum = q.reenum /\ w.num = q.num /\ w.use = q.use
        /\ w.mode = q.mode /\ w.mirror = q.mirror /\ w.rp = q.rp /\ w.queue = q.queue /\ w.cur = q.cur
    BY <1>5 DEF WriteOthers, WriteOther, Ready, Rested, RamType
  <2> HIDE DEF w
  <2>3. Others(w.io) /\ w.nvm = r0.nvm
    BY <1>2, <1>5, <2>1, <2>2 DEF Adds, Mirroring, Calm
  <2>4. AptPages(w) /\ MirrorPages(w)
    BY <2>1, <2>2 DEF Mirroring, RamPages, AptPages, MirrorPages, Mirrors, Belongs, Ready
  <2> QED BY <2>3, <2>4, OthersFiled DEF Runs, RamPages
<1>7. Runs(RebuildDone(r), r)
  BY <1>1, <1>2, RebuildDoneRuns DEF Mirroring, RamPages, MirrorPages, Belong
<1>8. BlockDone(r0) \in {RebuildDone(r), w, r}
  BY <1>4 DEF BlockDone, r
<1> HIDE DEF w
<1> QED BY <1>2, <1>6, <1>7, <1>8 DEF Runs
----------------------------------------------------------------------------
(* The pages in every state. *)

\* What orders of pages of mode m, and of sectors in the bays w, leave of the
\* invariant when nothing else changes.
LEMMA OrdersKeep ==
  ASSUME PagesInv, UNCHANGED <<bay, flash, gpio, asked>>, on', ram' \in RamType, RamPages(ram'),
         NEW m \in {"RAID1", "JBOD"}, NEW w \in SUBSET Slots, Filed(ram'.io, m, w), Mirrors(ram') => m = "RAID1",
         \A i \in Slots : Owned(ram'.nvm[i]) => Valid(flash[i]),
         ~asked => m = gpio /\ \A i \in w : bay[i] \notin Members \/ Conflict,
         cmd' # NoCmd => ram'.io = << >> /\ (ram'.mode = "RAID1" => Mirrors(ram'))
  PROVE PagesInv'
<1> DEFINE io == ram'.io
<1>0. Len(io) \in Nat
  BY DEF RamType
<1>1. IoInv(ram.io)'
  <2> HIDE DEF io
  <2>1. \A k \in Places(io) :
          /\ io[k].op \in {"other", "mbr", "store"}
          /\ io[k].op = "mbr" => \A j \in 1..k - 1 : io[j].op # "store"
          /\ io[k].op = "store" => Valid(io[k].page) /\ Apt(io[k].page, io[k].at)
    BY DEF Filed, io
  <2>2. \A k \in Places(io) : \A j \in 1..k - 1 : j \in Places(io)
    BY <1>0 DEF Places
  <2> QED BY <2>1, <2>2 DEF IoInv, io
<1>2. BatchInv(ram.io)'
  <2>1. \A k \in Places(io) : /\ io[k].op # "prog"
                              /\ io[k].op = "store" => io[k].page.mode \in {m, "NOT_CONFIGURED"}
    BY DEF Filed
  <2> HIDE DEF io
  <2>2. m \in {"RAID1", "JBOD"} /\ (Mirrors(ram') => m = "RAID1")
    OBVIOUS
  <2> QED BY <2>1, <2>2 DEF BatchInv, io
<1>3. AskedInv(ram.io)'
  <2> SUFFICES ASSUME ~asked PROVE AskedInv(ram.io)'
    BY DEF AskedInv
  <2>1. \A i \in Slots : Owned(flash[i]) => flash[i].mode = gpio
    BY DEF PagesInv, AskedInv
  <2>2. \A k \in Places(io) : /\ io[k].op # "prog"
                              /\ io[k].op = "store" /\ Owned(io[k].page) => io[k].page.mode = m
                              /\ io[k].op = "mbr" => io[k].at \in w
    <3>1. ASSUME NEW p, NEW i, Apt(p, i), Owned(p), p.mode \in {m, "NOT_CONFIGURED"} PROVE p.mode = m
      BY <3>1 DEF Apt
    <3> QED BY <3>1 DEF Filed
  <2>3. (Members)' = Members /\ (Conflict)' = Conflict
    BY DEF Members, Conflict
  <2> HIDE DEF io
  <2> QED BY <2>1, <2>2, <2>3 DEF AskedInv, io
<1>4. NvmInv(ram.io)'
  BY DEF NvmInv
<1> QED BY <1>1, <1>2, <1>3, <1>4 DEF PagesInv

\* A step of the mirror.
LEMMA MirrorKeeps ==
  ASSUME PagesInv, UNCHANGED <<bay, flash, gpio, asked>>, on', ram' \in RamType, Mirrors(ram), ram.io = << >>,
         NEW r, r.nvm = ram.nvm, Runs(ram', r), cmd' = NoCmd
  PROVE PagesInv'
<1>1. \A i \in Slots : Owned(ram'.nvm[i]) => Valid(flash[i])
  BY DEF PagesInv, NvmInv, Runs, Places
<1>2. ~asked => gpio = "RAID1"
  BY DEF PagesInv, AskedInv
<1>3. RamPages(ram') /\ Filed(ram'.io, "RAID1", {})
  BY DEF Runs
<1> QED BY <1>1, <1>2, <1>3, OrdersKeep

\* load_other_parms changes no page, and orders only check points.
LEMMA LoadPages ==
  ASSUME Typed, NEW r, Rested(r), Others(r.io)
  PROVE LET q == load_other_parms(r)
        IN /\ Rested(q) /\ Others(q.io) /\ q.nvm = r.nvm /\ q.bay = r.bay /\ q.mirror = r.mirror /\ q.reenum = r.reenum
<1> DEFINE cp == [s \in Slots |-> IF find_good_copy(r, s) = Bad THEN 0 ELSE find_good_copy(r, s)]
           a == [r EXCEPT !.cp = cp]
           fresh(q, s) == IF find_good_copy(r, s) = Bad THEN WriteOther(q, s) ELSE q
<1>1. Rested(load_other_parms(r))
  BY LoadRests
<1>2. cp \in [Slots -> Nat]
  <2>1. ASSUME NEW s \in Slots PROVE find_good_copy(r, s) \in Nat \cup {Bad}
    <3>1. CASE Ready(r, s)
      <4>1. r.bay[s] \in Drives
        BY <3>1 DEF Ready, Rested, RamType, Bays
      <4>2. other[r.bay[s]][1] \in Nat \cup {Bad} /\ other[r.bay[s]][2] \in Nat \cup {Bad}
        BY <4>1 DEF Typed
      <4> QED BY <3>1, <4>2 DEF find_good_copy
    <3>2. CASE ~Ready(r, s)
      BY <3>2 DEF find_good_copy
    <3> QED BY <3>1, <3>2
  <2> QED BY <2>1
<1> HIDE DEF cp
<1>3. /\ Rested(a) /\ Others(a.io) /\ a.nvm = r.nvm /\ a.bay = r.bay /\ a.mirror = r.mirror /\ a.reenum = r.reenum
  BY <1>2 DEF Rested, RamType
<1> HIDE DEF a
<1>4. ASSUME NEW q, Rested(q), Others(q.io), NEW s \in Slots
      PROVE LET f == fresh(q, s)
            IN Rested(f) /\ Others(f.io) /\ f.nvm = q.nvm /\ f.bay = q.bay /\ f.mirror = q.mirror /\ f.reenum = q.reenum
  <2> DEFINE f == WriteOther(q, s)
  <2>1. Rested(f) /\ Others(f.io)
    BY <1>4, WriteOtherRests, WriteOtherAdds DEF Adds
  <2>2. f.nvm = q.nvm /\ f.bay = q.bay /\ f.mirror = q.mirror /\ f.reenum = q.reenum
    BY <1>4 DEF WriteOther, Rested, RamType
  <2> HIDE DEF f
  <2> QED BY <1>4, <2>1, <2>2 DEF f
<1> HIDE DEF fresh
<1>5. LET f == fresh(fresh(a, 0), 1)
      IN Rested(f) /\ Others(f.io) /\ f.nvm = a.nvm /\ f.bay = a.bay /\ f.mirror = a.mirror /\ f.reenum = a.reenum
  <2> DEFINE f == fresh(a, 0)
  <2>1. Rested(f) /\ Others(f.io) /\ f.nvm = a.nvm /\ f.bay = a.bay /\ f.mirror = a.mirror /\ f.reenum = a.reenum
    BY <1>3, <1>4 DEF Slots
  <2> HIDE DEF f
  <2> QED BY <1>4, <2>1 DEF Slots, f
<1> QED BY <1>3, <1>5 DEF load_other_parms, fresh, a, cp

\* The drive of a page in the flash is in the bay of the page, if in any.
LEMMA OwnBay ==
  ASSUME FixedBays, Fit(bay), NEW i \in Slots, NEW j \in Slots, Apt(flash[j], j), Owned(flash[j]), Owner(flash[j]) = bay[i],
         Owner(flash[j]) \in Drives
  PROVE i = j
BY DEF FixedBays, Fit, Apt, Owned

\* The drives are enumerated, from what a restart or the main loop left in RAM.
LEMMA StartPages ==
  ASSUME RaidInv, PagesInv, FixedBays, UNCHANGED <<bay, flash, gpio, asked>>, on', cmd' = NoCmd, ram' \in RamType,
         NEW r, Rested(r), ~r.mirror, ~r.reenum, r.io = << >>,
         \A i \in Slots : Apt(r.nvm[i], i) /\ (Owned(r.nvm[i]) => Valid(flash[i])),
         ram' = ini_init(r)
  PROVE PagesInv'
<1> DEFINE a == [r EXCEPT !.bay = bay]
           b == load_other_parms(a)
           nvm == [i \in Slots |-> IF Valid(flash[i]) THEN flash[i] ELSE b.nvm[i]]
           c == [b EXCEPT !.nvm = nvm]
           d == raid_enumeration(c, gpio)
           q == raid_init(d)
<1>0. Typed /\ Fit(bay) /\ \A i \in Slots : Apt(flash[i], i)
  BY DEF RaidInv, TypeInv, PagesInv
<1>1. /\ Rested(a) /\ a.bay = bay /\ ~a.mirror /\ ~a.reenum /\ a.nvm = r.nvm /\ Others(a.io)
  <2>1. /\ Rested(a) /\ a.bay = bay /\ ~a.mirror /\ ~a.reenum /\ a.nvm = r.nvm /\ a.io = << >>
    BY <1>0 DEF Typed, Rested, RamType
  <2> HIDE DEF a
  <2> QED BY <2>1 DEF Others, Places
<1> HIDE DEF a
<1>2. /\ Rested(b) /\ b.bay = bay /\ ~b.mirror /\ ~b.reenum /\ b.nvm = r.nvm /\ Others(b.io)
  BY <1>0, <1>1, LoadPages
<1>3. nvm \in Pages
  BY <1>0, <1>2 DEF Typed, Pages, Rested, RamType
<1>4. read_nvm_raid_parms(b) = c
  BY <1>2 DEF read_nvm_raid_parms, Rested, RamType
<1>5. \A i \in Slots : Apt(nvm[i], i) /\ (Owned(nvm[i]) => Valid(flash[i]) /\ nvm[i] = flash[i])
  BY <1>0, <1>2
<1> HIDE DEF b, nvm
<1>6. Rested(c) /\ c.bay = bay /\ ~c.mirror /\ ~c.reenum /\ c.nvm = nvm /\ Others(c.io)
  BY <1>2, <1>3 DEF Rested, RamType
<1> HIDE DEF c
<1> DEFINE w == Wiped(c, gpio)
<1>7. gpio \in {"RAID1", "JBOD"}
  BY <1>0 DEF Typed
<1>8. PICK m \in {"RAID1", "JBOD"} :
        /\ Rested(d) /\ RamPages(d) /\ d.nvm = nvm /\ Filed(d.io, m, w)
        /\ Mirrors(d) => m = "RAID1"
        /\ OwnedModes(ListedSlots(c), gpio) => m = gpio
  BY <1>0, <1>5, <1>6, <1>7, EnumerationPages
<1>9. Listed(ListedSlots(c)) /\ ListedSlots(c).bay = bay /\ ListedSlots(c).nvm = nvm
  BY <1>0, <1>5, <1>6, ListingIs
<1> HIDE DEF d
<1>10. /\ RamPages(q) /\ q.nvm = nvm /\ q.io = d.io /\ (Mirrors(q) => m = "RAID1")
  <2>1. /\ q.nvm = d.nvm /\ q.io = d.io /\ q.bay = d.bay /\ q.map = d.map /\ q.rp = d.rp /\ q.mirror = d.mirror
        /\ q.reenum = d.reenum /\ q.mode = d.mode /\ q.num = d.num /\ q.queue = d.queue /\ q.cur = d.cur /\ q.use = d.use
    BY <1>8 DEF raid_init, Rested, RamType
  <2> HIDE DEF q
  <2>2. AptPages(q) /\ MirrorPages(q) /\ (Mirrors(q) <=> Mirrors(d))
    BY <1>8, <2>1 DEF RamPages, AptPages, MirrorPages, Mirrors, Belongs, Ready
  <2> QED BY <1>8, <2>1, <2>2 DEF RamPages
<1> HIDE DEF q
<1>11. ASSUME ~asked PROVE OwnedModes(ListedSlots(c), gpio)
  <2>1. \A i \in Slots : Owned(flash[i]) => flash[i].mode = gpio
    BY <1>11 DEF PagesInv, AskedInv
  <2>2. ASSUME NEW s \in Slots, Owned(ListedSlots(c).rp[s]) PROVE ListedSlots(c).rp[s].mode = gpio
    <3>1. ListedSlots(c).rp[s] = nvm[s]
      BY <1>9, <2>2 DEF Listed
    <3> QED BY <1>5, <2>1, <2>2, <3>1
  <2> QED BY <2>2 DEF OwnedModes
<1>12. ASSUME ~asked, NEW i \in w, bay[i] \in Members, ~Conflict PROVE FALSE
  <2>0. w \subseteq Slots
    BY DEF Wiped, Cleaned
  <2>1. PICK j \in Slots : Owner(flash[j]) = bay[i] /\ flash[j].status[flash[j].disk_num] = "GOOD" /\ bay[i] \in Drives
    BY <1>12 DEF Members
  <2>2. Owned(flash[j]) /\ Valid(flash[j])
    BY <2>1, NoDriveOut DEF Owned, Owner
  <2>3. i = j
    BY <1>0, <2>0, <2>1, <2>2, OwnBay
  <2>4. nvm[i] = flash[i]
    BY <1>5, <2>0, <2>2, <2>3 DEF nvm
  <2>5. Known(c, i) /\ nvm[i].status[nvm[i].disk_num] = "GOOD"
    BY <1>6, <2>1, <2>3, <2>4, NoDriveOut DEF Known, Ready
  <2>6. ASSUME \A s \in Slots : Known(c, s) PROVE nvm[0].id = nvm[1].id
    <3>1. \A s \in Slots : bay[s] = Owner(flash[s]) /\ nvm[s] = flash[s]
      BY <1>5, <1>6, <2>6 DEF Known, Ready, Owned
    <3>2. {bay[0], bay[1]} = {Owner(flash[0]), Owner(flash[1])}
      BY <3>1 DEF Slots
    <3> QED BY <1>12, <3>1, <3>2 DEF Conflict, Slots
  <2>7. w = {}
    BY <1>0, <1>5, <1>6, <1>7, <1>11, <1>12, <2>0, <2>5, <2>6, NothingWiped
  <2> QED BY <2>7
<1>13. ini_init(r) = q
  BY <1>4 DEF ini_init, a, b, c, d, q
<1>14. w \in SUBSET Slots
  BY DEF Wiped, Cleaned
<1> HIDE DEF w
<1>15. ~asked => m = gpio /\ \A i \in w : bay[i] \notin Members \/ Conflict
  BY <1>8, <1>11, <1>12
<1> QED BY <1>5, <1>8, <1>10, <1>13, <1>14, <1>15, OrdersKeep

LEMMA InitRamPages ==
  /\ Rested(InitRam) /\ RamPages(InitRam) /\ ~Mirrors(InitRam) /\ InitRam.io = << >> /\ ~InitRam.mirror /\ ~InitRam.reenum
  /\ \A i \in Slots : Apt(InitRam.nvm[i], i) /\ ~Owned(InitRam.nvm[i])
<1>1. ~Owned(Torn) /\ ~Owned(ClearPage(0))
  BY DEF Owned, Owner, Torn, Valid, ClearPage, Slots
<1>2. \A i \in Slots : Apt(Torn, i) /\ Apt(ClearPage(0), i)
  BY <1>1 DEF Apt
<1>3. AptPages(InitRam) /\ MirrorPages(InitRam) /\ ~Mirrors(InitRam)
  BY <1>2 DEF AptPages, MirrorPages, Mirrors, InitRam, Fit
<1> QED BY <1>1, <1>2, <1>3, InitRamIs DEF RamPages, InitRam
LEMMA PowerOnPages == ASSUME RaidInv, RaidInv', FixedBays, PagesInv, PowerOn PROVE PagesInv'
<1>1. cmd' = NoCmd /\ on' /\ UNCHANGED <<bay, flash, gpio, asked>> /\ ram' \in RamType
  BY DEF PowerOn, media, RaidInv, TypeInv, RamInv, DriveInv
<1> QED BY <1>1, InitRamPages, StartPages DEF PowerOn

LEMMA ReEnumeratePages == ASSUME RaidInv, RaidInv', FixedBays, PagesInv, ReEnumerate PROVE PagesInv'
<1> DEFINE r == [ram EXCEPT !.reenum = FALSE]
<1>1. cmd' = NoCmd /\ on' /\ UNCHANGED <<bay, flash, gpio, asked>> /\ ram' \in RamType
  BY DEF ReEnumerate, media, RaidInv, TypeInv, RamInv, DriveInv
<1>2. ~ram.mirror
  BY DEF ReEnumerate, PagesInv, RamPages, MirrorPages, Mirrors
<1>3. Rested(r) /\ ~r.mirror /\ ~r.reenum /\ r.io = << >> /\ r.nvm = ram.nvm
  BY <1>2 DEF ReEnumerate, RaidInv, TypeInv, RamInv, RamType, Rested
<1>4. ram' = ini_init(r)
  BY DEF ReEnumerate
<1> HIDE DEF r
<1>5. \A i \in Slots : Apt(ram.nvm[i], i) /\ (Owned(ram.nvm[i]) => Valid(flash[i]))
  BY DEF ReEnumerate, PagesInv, RamPages, AptPages, NvmInv, Places
<1> QED BY <1>1, <1>3, <1>4, <1>5, StartPages

\* RAM with no mirror, and nothing ordered.
LEMMA IdlePages ==
  ASSUME PagesInv, UNCHANGED <<flash, gpio, asked>>, Fit(bay'), RamPages(ram'), ~Mirrors(ram'), ram'.io = << >>,
         \A i \in Slots : Owned(ram'.nvm[i]) => Valid(flash[i]), ~on' => ram' = InitRam, cmd' = NoCmd
  PROVE PagesInv'
<1>1. IoInv(ram.io)' /\ BatchInv(ram.io)' /\ NvmInv(ram.io)'
  BY DEF IoInv, BatchInv, NvmInv, Places
<1>2. AskedInv(ram.io)'
  BY DEF PagesInv, AskedInv, Places
<1> QED BY <1>1, <1>2 DEF PagesInv

LEMMA PowerCutPages == ASSUME PagesInv, PowerCut PROVE PagesInv'
<1>1. Fit(bay') /\ UNCHANGED <<flash, gpio, asked>>
  BY DEF PowerCut, PagesInv
<1> QED BY <1>1, InitRamPages, IdlePages DEF PowerCut

LEMMA ReplugFit == ASSUME Fit(bay), Replug, Typed PROVE Fit(bay')
<1>1. PICK s \in Slots, d \in Drives \cup {NoDrive} :
        (d # NoDrive => s \in Fits[d]) /\ bay' = [bay EXCEPT ![s] = d]
  BY DEF Replug
<1> QED BY <1>1 DEF Fit, Typed, Bays

LEMMA ChangeDrivesPages == ASSUME RaidInv, PagesInv, ChangeDrives PROVE PagesInv'
<1>1. Fit(bay') /\ UNCHANGED <<flash, gpio, asked>>
  BY ReplugFit DEF ChangeDrives, PagesInv, RaidInv, TypeInv
<1>2. ram' = InitRam /\ cmd' = NoCmd
  BY DEF ChangeDrives, PagesInv, RaidInv, DriveInv
<1> QED BY <1>1, <1>2, InitRamPages, IdlePages

LEMMA HotPlugPages == ASSUME RaidInv, PagesInv, HotPlug PROVE PagesInv'
<1>1. Fit(bay') /\ UNCHANGED <<flash, gpio, asked>> /\ cmd' = NoCmd /\ on'
  BY ReplugFit DEF HotPlug, PagesInv, RaidInv, TypeInv
<1>2. /\ ram'.rp = ram.rp /\ ram'.bay = ram.bay /\ ram'.map = ram.map /\ ram'.nvm = ram.nvm /\ ram'.io = << >>
      /\ ram'.reenum /\ ~ram'.mirror
  BY DEF HotPlug, RaidInv, TypeInv, RamInv, RamType
<1>3. RamPages(ram') /\ ~Mirrors(ram')
  BY <1>2 DEF PagesInv, RamPages, AptPages, MirrorPages, Mirrors
<1>4. \A i \in Slots : Owned(ram'.nvm[i]) => Valid(flash[i])
  BY <1>2 DEF HotPlug, PagesInv, NvmInv, Places
<1> QED BY <1>1, <1>2, <1>3, <1>4, IdlePages

LEMMA MoveSwitchPages == ASSUME PagesInv, MoveSwitch PROVE PagesInv'
<1>1. UNCHANGED <<bay, flash, ram, cmd, on>> /\ asked'
  BY DEF MoveSwitch
<1>2. AskedInv(ram.io)'
  BY <1>1 DEF AskedInv
<1>3. IoInv(ram.io)' /\ BatchInv(ram.io)' /\ NvmInv(ram.io)'
  BY <1>1 DEF PagesInv, IoInv, BatchInv, NvmInv
<1> QED BY <1>1, <1>2, <1>3 DEF PagesInv

LEMMA ConfigButtonPages == ASSUME RaidInv, PagesInv, ConfigButton PROVE PagesInv'
<1> DEFINE q == IF AsConfigured(ram) THEN ram ELSE hw_raid_config(ram, gpio)
<1>1. ram \in RamType /\ (ram.mirror => ~ram.busy) /\ (ram.busy => ram.mirror) /\ Idle
  BY DEF ConfigButton, RaidInv, TypeInv, RamInv, RamType, Rested
<1>2. Rested(ram)
  BY <1>1 DEF RaidInv, TypeInv, RamInv, Rested, RamType
<1>3. /\ gpio \in {"RAID1", "JBOD"} /\ AptPages(ram) /\ MirrorPages(ram) /\ ram.io = << >>
      /\ \A i \in Slots : Owned(ram.nvm[i]) => Valid(flash[i])
  BY <1>1 DEF RaidInv, TypeInv, Typed, PagesInv, RamPages, Idle, NvmInv, Places
<1>4. PICK w \in SUBSET Slots :
        Rested(q) /\ AptPages(q) /\ ~q.mirror /\ q.nvm = ram.nvm /\ Filed(q.io, gpio, w)
  <2>0. Others(ram.io)
    BY <1>3 DEF Others, Places
  <2>1. ASSUME AsConfigured(ram) PROVE ~ram.mirror
    BY <1>3, <2>1 DEF AsConfigured, MirrorPages, Mirrors, ConfigButton
  <2>2. ASSUME ~AsConfigured(ram)
        PROVE /\ Rested(q) /\ AptPages(q) /\ ~q.mirror /\ q.nvm = ram.nvm
              /\ Filed(q.io, gpio, Cleaned(ram, gpio)) /\ Cleaned(ram, gpio) \in SUBSET Slots
    <3>1. ~CannotConfig(ram, gpio)
      BY DEF ConfigButton
    <3>2. q = hw_raid_config(ram, gpio)
      BY <2>2
    <3> HIDE DEF q
    <3>3. Enumerated(q) /\ Filed(q.io, gpio, Cleaned(ram, gpio)) /\ q.nvm = ram.nvm
      BY <1>2, <1>3, <2>0, <3>1, <3>2, HwConfigPages
    <3> QED BY <3>3 DEF Enumerated, Sane, Cleaned
  <2>3. AsConfigured(ram) => q = ram
    OBVIOUS
  <2> HIDE DEF q
  <2>4. CASE AsConfigured(ram)
    <3>1. Filed(ram.io, gpio, {})
      BY <2>0, OthersFiled
    <3>2. {} \in SUBSET Slots
      OBVIOUS
    <3> QED BY <1>2, <1>3, <2>1, <2>3, <2>4, <3>1, <3>2
  <2>5. CASE ~AsConfigured(ram)
    BY <2>2, <2>5
  <2> QED BY <2>4, <2>5
<1> HIDE DEF q
<1>5. ram' = [q EXCEPT !.reenum = TRUE, !.busy = FALSE] /\ UNCHANGED <<bay, flash, gpio, on>> /\ asked' /\ cmd' = NoCmd
  BY DEF ConfigButton, q
<1>6. /\ ram'.rp = q.rp /\ ram'.bay = q.bay /\ ram'.map = q.map /\ ram'.nvm = q.nvm /\ ram'.io = q.io
      /\ ram'.reenum /\ ram'.mirror = q.mirror /\ ram' \in RamType
  BY <1>4, <1>5 DEF Rested, RamType
<1>7. RamPages(ram') /\ ~Mirrors(ram')
  BY <1>4, <1>6 DEF RamPages, AptPages, MirrorPages, Mirrors
<1>8. IoInv(ram.io)' /\ BatchInv(ram.io)'
  <2> DEFINE io == ram'.io
  <2>0. Len(io) \in Nat /\ Filed(io, gpio, w)
    BY <1>4, <1>6 DEF RamType
  <2> HIDE DEF io
  <2>1. \A k \in Places(io) :
          /\ io[k].op \in {"other", "mbr", "store"}
          /\ io[k].op = "mbr" => \A j \in 1..k - 1 : io[j].op # "store"
          /\ io[k].op = "store" => /\ Valid(io[k].page) /\ Apt(io[k].page, io[k].at)
                                   /\ io[k].page.mode \in {gpio, "NOT_CONFIGURED"}
    BY <2>0 DEF Filed
  <2>2. \A k \in Places(io) : \A j \in 1..k - 1 : j \in Places(io)
    BY <2>0 DEF Places
  <2>3. IoInv(ram.io)'
    BY <2>1, <2>2 DEF IoInv, io
  <2>4. BatchInv(ram.io)'
    BY <1>3, <1>7, <2>1 DEF BatchInv, io
  <2> QED BY <2>3, <2>4
<1>9. AskedInv(ram.io)' /\ NvmInv(ram.io)'
  BY <1>3, <1>4, <1>5, <1>6 DEF AskedInv, NvmInv
<1>10. (on' <=> on) /\ on /\ Fit(bay') /\ \A i \in Slots : Apt(flash'[i], i)
  BY <1>1, <1>5 DEF Idle, PagesInv
<1> QED BY <1>5, <1>7, <1>8, <1>9, <1>10 DEF PagesInv

\* Only the drives change, or the command.
LEMMA SamePages ==
  ASSUME PagesInv, UNCHANGED <<bay, flash, gpio, asked, ram, on>>,
         cmd' # NoCmd => ram.io = << >> /\ (ram.mode = "RAID1" => Mirrors(ram))
  PROVE PagesInv'
BY SMTT(30) DEF PagesInv, IoInv, BatchInv, AskedInv, NvmInv, Members, Conflict

LEMMA HostWritePages ==
  ASSUME RaidInv, PagesInv, NEW l \in Slots, NEW b, HostWrite(l, b) PROVE PagesInv'
<1>1. /\ ram.io = << >> /\ ~ram.reenum /\ l < ram.num /\ ram.queue[l] # "NOT_CONFIGURED" /\ ram.num \in 0..2
      /\ UNCHANGED <<bay, flash, gpio, asked, ram, on>>
  BY DEF HostWrite, Serving, Idle, media, RaidInv, TypeInv, RamInv, RamType
<1>2. ram.mode = "RAID1" => Mirrors(ram)
  <2>1. l = 0 \/ l = 1
    BY DEF Slots
  <2>2. ram.mode = "RAID1" => Mirrors(ram) \/ ram.num <= 1
    BY <1>1 DEF PagesInv, RamPages, MirrorPages
  <2> QED BY <1>1, <2>1, <2>2 DEF Mirrors
<1> QED BY <1>1, <1>2, SamePages

LEMMA DiskWritePages == ASSUME PagesInv, NEW s \in Slots, DiskWrite(s) PROVE PagesInv'
<1>1. UNCHANGED <<bay, flash, gpio, asked, ram, on>> /\ cmd # NoCmd
  BY DEF DiskWrite
<1>2. ram.io = << >> /\ (ram.mode = "RAID1" => Mirrors(ram))
  BY <1>1 DEF PagesInv
<1> QED BY <1>1, <1>2, SamePages

LEMMA WriteDonePages == ASSUME RaidInv, RaidInv', PagesInv, WriteDone PROVE PagesInv'
<1> DEFINE bad == {s \in Slots : cmd.disk[s] = "err"}
<1>1. UNCHANGED <<bay, flash, gpio, asked, on>> /\ cmd # NoCmd /\ cmd' = NoCmd /\ on' /\ ram' \in RamType
  BY DEF WriteDone, RaidInv, TypeInv, RamInv, DriveInv
<1>2. ram' = ram \/ (ram.mode = "RAID1" /\ ram' = WriteFailed(ram, bad))
  BY DEF WriteDone, raid1_error_detection
<1> HIDE DEF bad
<1>3. CASE ram' = ram
  BY <1>1, <1>3, SamePages
<1>4. CASE ram.mode = "RAID1" /\ ram' = WriteFailed(ram, bad)
  <2>1. ram.io = << >> /\ Mirrors(ram) /\ RamPages(ram)
    BY <1>1, <1>4 DEF PagesInv
  <2>2. Mirroring(ram)
    BY <2>1 DEF Mirroring, Others, Places
  <2>3. Rested(ram) /\ Whole(ram)
    BY <1>1, <1>4, RestedIs DEF RaidInv, TypeInv, DriveInv
  <2>4. Runs(ram', ram)
    BY <1>4, <2>2, <2>3, WriteFailedRuns
  <2> QED BY <1>1, <2>1, <2>4, MirrorKeeps
<1> QED BY <1>2, <1>3, <1>4

LEMMA InitiatePages == ASSUME RaidInv, RaidInv', PagesInv, initiate_rb_IO PROVE PagesInv'
<1>1. /\ UNCHANGED <<bay, flash, gpio, asked, on>> /\ cmd' = NoCmd /\ ram.mirror /\ ram.io = << >> /\ on'
      /\ ram' \in RamType
  BY DEF initiate_rb_IO, RebuildMayStart, Idle, media, RaidInv, TypeInv, RamInv
<1>2. RamPages(ram) /\ Mirrors(ram)
  BY <1>1 DEF PagesInv, RamPages, MirrorPages
<1>3. Mirroring(ram)
  BY <1>1, <1>2 DEF Mirroring, Others, Places
<1>4. Calm(ram', ram)
  BY DEF initiate_rb_IO, Calm, RaidInv, TypeInv, RamInv, RamType
<1>5. Runs(ram', ram)
  BY <1>3, <1>4, CalmMirrors
<1> QED BY <1>1, <1>2, <1>5, MirrorKeeps

LEMMA ChkRbDonePages == ASSUME RaidInv, RaidInv', PagesInv, chk_rb_done PROVE PagesInv'
<1> DEFINE r == [ram EXCEPT !.busy = FALSE]
<1>1. /\ r \in RamType /\ ~r.busy /\ r.mirror /\ (~r.inst => r.retry < MaxRetry)
      /\ Calm(r, ram) /\ ram.mirror
  BY DEF chk_rb_done, RaidInv, TypeInv, RamInv, RamType, Calm
<1>2. /\ UNCHANGED <<bay, flash, gpio, asked, on>> /\ cmd' = NoCmd /\ ram.io = << >> /\ on' /\ ram' \in RamType
      /\ Whole(ram)
  BY DEF chk_rb_done, Idle, RaidInv, TypeInv, RamInv, DriveInv
<1> HIDE DEF r
<1>3. CopyDone(r) \/ CopyFails(r) \/ CopyTimesOut(r)
  BY DEF chk_rb_done, r
<1>4. RamPages(ram) /\ Mirrors(ram)
  BY <1>1 DEF PagesInv, RamPages, MirrorPages
<1>5. Mirroring(ram)
  BY <1>2, <1>4 DEF Mirroring, Others, Places
<1>6. Mirroring(r) /\ Runs(r, ram)
  BY <1>1, <1>5, CalmMirrors
<1>7. Whole(r) /\ r.nvm = ram.nvm
  BY <1>1, <1>2 DEF Calm, Whole, Ready
<1>8. Runs(r, r)
  BY <1>6, <1>7 DEF Runs
<1>9. \A ok : Runs(InstantDone(r, ok), r)
  BY <1>1, <1>6, <1>7, InstantDoneRuns
<1>10. ASSUME ~r.inst PROVE Runs(BlockDone(r), r) /\ \A bothDone : Runs(BlockFailed(r, bothDone), r)
  <2>1. Rested(r)
    BY <1>1, <1>10 DEF Rested
  <2> QED BY <1>1, <1>6, <1>7, <2>1, BlockDoneRuns, BlockFailedRuns
<1>11. Runs(ram', r)
  BY <1>3, <1>8, <1>9, <1>10 DEF CopyDone, CopyFails, CopyTimesOut
<1> QED BY <1>2, <1>4, <1>7, <1>11, MirrorKeeps
LEMMA ReadFailsPages ==
  ASSUME RaidInv, RaidInv', PagesInv, NEW s \in Slots, NEW b \in Blocks, ReadFails(s, b) PROVE PagesInv'
<1> DEFINE cur == [ram.cur EXCEPT ![s] = "FAILED"]
           failed == [ram EXCEPT !.cur = cur]
           degraded == [ram.queue EXCEPT ![0] = "DEGRADED"]
           lost == [ram.queue EXCEPT ![0] = IF @ = "GOOD" THEN "DEGRADED" ELSE "DATA_LOST"]
           copies == [failed EXCEPT !.queue = degraded, !.instCnt = @ + 1, !.mirror = TRUE,
                                    !.src = Across(s), !.inst = TRUE, !.lba = b, !.busy = TRUE]
           gives == [failed EXCEPT !.queue = lost, !.src = Across(s)]
           q == update_raid1_read_use_slot(gives)
           Face(m) == /\ m.rp = ram.rp /\ m.bay = ram.bay /\ m.map = ram.map /\ m.nvm = ram.nvm /\ m.io = ram.io
                      /\ m.mode = ram.mode /\ m.reenum = ram.reenum
                      /\ \A x \in Slots : m.cur[x] = ram.cur[x] \/ m.cur[x] = "FAILED"
                      /\ m.use \in Slots
<1>1. /\ cur \in [Slots -> SlotStatus] /\ degraded \in [Slots -> ArrayStatus] /\ lost \in [Slots -> ArrayStatus]
      /\ \A x \in Slots : cur[x] = ram.cur[x] \/ cur[x] = "FAILED"
      /\ degraded[0] = "DEGRADED" /\ lost[0] = (IF ram.queue[0] = "GOOD" THEN "DEGRADED" ELSE "DATA_LOST")
  BY StatusIs DEF RaidInv, TypeInv, RamInv, RamType, Slots
<1>2. /\ Rested(ram) /\ ram.io = << >> /\ ram' \in RamType /\ on' /\ cmd' = NoCmd /\ UNCHANGED <<bay, flash, gpio, asked, on>>
      /\ Mirrors(ram) /\ ram.queue[0] # "REBUILDING"
  BY RestedIs DEF ReadFails, RaidInv, TypeInv, RamInv, Serving, Idle, Mirrors, media
<1>3. (ram' = copies /\ ram.queue[0] = "GOOD") \/ ram' = q
  BY <1>2 DEF ReadFails, Rested, RamType
<1> HIDE DEF cur, degraded, lost
<1>4. Rested(failed) /\ Face(failed) /\ failed.queue = ram.queue /\ failed.mirror = ram.mirror
  BY <1>1, <1>2 DEF Rested, RamType
<1> HIDE DEF failed
<1>5. Face(copies) /\ copies.queue[0] = "DEGRADED"
  BY <1>1, <1>4 DEF Rested, RamType
<1> HIDE DEF copies
<1>6. Rested(gives) /\ Face(gives) /\ gives.queue[0] = lost[0] /\ gives.mirror = ram.mirror
  <2>1. Across(s) \in Slots
    BY DEF Across, Slots
  <2> QED BY <1>1, <1>4, <2>1 DEF Rested, RamType
<1> HIDE DEF gives
<1>7. Face(q) /\ q.queue[0] = lost[0] /\ q.mirror = ram.mirror
  <2>1. /\ Rested(q) /\ q.rp = gives.rp /\ q.bay = gives.bay /\ q.map = gives.map /\ q.nvm = gives.nvm
        /\ q.io = gives.io /\ q.cur = gives.cur /\ q.mode = gives.mode /\ q.queue = gives.queue
        /\ q.mirror = gives.mirror /\ q.reenum = gives.reenum
    BY <1>6, UseIs
  <2> HIDE DEF q
  <2> QED BY <1>6, <2>1 DEF Rested, RamType
<1> HIDE DEF q
<1>8. AptPages(ram) /\ MirrorPages(ram)
  BY DEF PagesInv, RamPages
<1>9. ram.queue[0] = "GOOD" => Belong(ram)
  BY <1>2, <1>8 DEF MirrorPages, Belong
<1>10. ASSUME NEW m, Face(m), m.queue[0] \in {"DEGRADED", "DATA_LOST"},
              m.queue[0] = "DEGRADED" => Belong(ram), m.mirror => Belong(ram)
       PROVE RamPages(m)
  <2>1. AptPages(m) /\ Mirrors(m)
    BY <1>2, <1>8, <1>10 DEF AptPages, Mirrors
  <2>2. \A x \in Slots : Belongs(ram, x) => Belongs(m, x)
    BY <1>10 DEF Belongs, Ready
  <2>3. MirrorPages(m)
    BY <1>2, <1>8, <1>10, <2>1, <2>2 DEF MirrorPages, Belong
  <2> QED BY <2>1, <2>3 DEF RamPages
<1>11. RamPages(ram') /\ ram'.nvm = ram.nvm /\ ram'.io = << >>
  <2>1. ram.mirror => Belong(ram)
    BY <1>8 DEF MirrorPages, Belong
  <2>2. CASE ram' = copies /\ ram.queue[0] = "GOOD"
    BY <1>2, <1>5, <1>9, <1>10, <2>2
  <2>3. CASE ram' = q
    <3>1. q.queue[0] = "DEGRADED" \/ q.queue[0] = "DATA_LOST"
      BY <1>1, <1>7
    <3>2. q.queue[0] = "DEGRADED" => Belong(ram)
      BY <1>1, <1>7, <1>9
    <3> QED BY <1>2, <1>7, <1>10, <2>1, <2>3, <3>1, <3>2
  <2> QED BY <1>3, <2>2, <2>3
<1>12. Runs(ram', ram)
  <2>1. Others(ram'.io)
    BY <1>11 DEF Others, Places
  <2> QED BY <1>11, <2>1, OthersFiled DEF Runs
<1> QED BY <1>2, <1>12, MirrorKeeps

LEMMA RebuildCommandPages == ASSUME RaidInv, RaidInv', PagesInv, RebuildCommand PROVE PagesInv'
<1> DEFINE g == ram.use
           a == StartRebuild(ram, g, 0)
           queue == [a.queue EXCEPT ![0] = "REBUILDING"]
           pair == Pair(g, "REBUILDING")
           begun == [a EXCEPT !.queue = queue, !.cur = pair]
           b == update_slots_for_rebuilding(begun, g)
           c == SetCheckPoint(b, Step)
           d == store_slots(c)
           q == update_raid1_read_use_slot(d)
<1>1. /\ Rested(ram) /\ g \in Slots /\ Whole(ram) /\ Mirrors(ram) /\ ram.queue[0] = "DEGRADED" /\ ram.io = << >>
      /\ ram' \in RamType /\ on' /\ cmd' = NoCmd /\ UNCHANGED <<bay, flash, gpio, asked, on>>
  <2>1. Rested(ram) /\ Mirrors(ram) /\ ram.queue[0] = "DEGRADED" /\ ram.io = << >>
    BY RestedIs DEF RebuildCommand, RaidInv, TypeInv, Serving, Idle, Mirrors
  <2>2. Whole(ram)
    BY DEF RebuildCommand, RaidInv, DriveInv, Offered, Serving, Idle
  <2>3. ram' \in RamType /\ on' /\ cmd' = NoCmd /\ UNCHANGED <<bay, flash, gpio, asked, on>>
    BY DEF RebuildCommand, Serving, Idle, media, RaidInv, TypeInv, RamInv
  <2> QED BY <2>1, <2>2, <2>3 DEF Rested, RamType
<1>2. AptPages(ram) /\ Belongs(ram, g)
  BY <1>1 DEF PagesInv, RamPages, MirrorPages
<1>3. /\ Rested(a) /\ a.rp = ram.rp /\ a.bay = ram.bay /\ a.io = ram.io /\ a.map = ram.map /\ a.nvm = ram.nvm
      /\ a.mode = ram.mode /\ a.reenum = ram.reenum
  BY <1>1, StartKeepsPages, Constants
<1>4. ram' = q
  BY <1>3 DEF RebuildCommand, Rested, RamType
<1>5. queue \in [Slots -> ArrayStatus] /\ pair \in [Slots -> SlotStatus] /\ queue[0] = "REBUILDING"
  BY <1>1, <1>3, StatusIs, PairIs DEF Rested, RamType, Slots
<1> HIDE DEF a, queue, pair
<1>6. /\ Rested(begun) /\ begun.rp = ram.rp /\ begun.bay = ram.bay /\ begun.io = ram.io /\ begun.map = ram.map
      /\ begun.nvm = ram.nvm /\ begun.mode = ram.mode /\ begun.reenum = ram.reenum /\ begun.queue[0] = "REBUILDING"
  BY <1>3, <1>5 DEF Rested, RamType
<1> HIDE DEF begun, g
<1>7. /\ Rested(b) /\ AptPages(b) /\ Belong(b) /\ b.io = << >> /\ b.mode = "RAID1" /\ ~b.reenum
      /\ b.queue[0] = "REBUILDING" /\ b.nvm = ram.nvm
  <2>1. Whole(begun) /\ AptPages(begun) /\ Belongs(begun, g)
    BY <1>1, <1>2, <1>6 DEF Whole, Ready, AptPages, Belongs
  <2>2. /\ Rested(b) /\ AptPages(b) /\ Belong(b) /\ b.io = begun.io /\ Quiet([b EXCEPT !.cur = begun.cur], begun)
    BY <1>1, <1>6, <2>1, RebuildingBelongs DEF Belong
  <2>3. b.nvm = begun.nvm
    BY <1>6 DEF update_slots_for_rebuilding, Rested, RamType
  <2> HIDE DEF b
  <2>4. b.mode = begun.mode /\ b.reenum = begun.reenum /\ b.queue = begun.queue
    BY <2>2 DEF Quiet, Rested, RamType
  <2> QED BY <1>1, <1>6, <2>2, <2>3, <2>4 DEF Mirrors
<1> HIDE DEF b
<1>8. /\ Rested(c) /\ AptPages(c) /\ Belong(c) /\ Others(c.io) /\ c.mode = "RAID1" /\ ~c.reenum
      /\ c.queue[0] = "REBUILDING" /\ c.nvm = ram.nvm
  <2>1. Rested(c) /\ Adds(c, b) /\ Others(b.io)
    BY <1>7, SetCheckPointRests, SetCheckPointAdds, Constants DEF Others, Places
  <2>2. /\ c.bay = b.bay /\ c.nvm = b.nvm /\ c.map = b.map /\ c.reenum = b.reenum
        /\ c.mode = b.mode /\ c.rp = b.rp /\ c.queue = b.queue
    BY <1>7 DEF SetCheckPoint, WriteOthers, WriteOther, Ready, Rested, RamType
  <2> HIDE DEF c
  <2> QED BY <1>7, <2>1, <2>2 DEF Adds, AptPages, Belong, Belongs, Ready
<1> HIDE DEF c
<1>9. Mirroring(c)
  BY <1>8 DEF Mirroring, RamPages, MirrorPages, Mirrors, Belong, Belongs
<1>10. Runs(d, c) /\ Rested(d) /\ d.queue[0] = "REBUILDING"
  <2>1. Quiet(d, c) /\ Rested(d)
    BY <1>8, StoreSlotsFiles
  <2> HIDE DEF d
  <2> QED BY <1>8, <1>9, <2>1, StoredRuns DEF Quiet, d
<1> HIDE DEF d
<1>11. Runs(q, d)
  <2>1. /\ q.rp = d.rp /\ q.bay = d.bay /\ q.map = d.map /\ q.nvm = d.nvm /\ q.io = d.io /\ q.num = d.num
        /\ q.cur = d.cur /\ q.mode = d.mode /\ q.queue = d.queue /\ q.mirror = d.mirror /\ q.reenum = d.reenum
    BY <1>10, UseIs
  <2> HIDE DEF q
  <2>2. AptPages(q) /\ MirrorPages(q)
    BY <1>10, <2>1 DEF Runs, RamPages, AptPages, MirrorPages, Mirrors, Belongs, Ready
  <2> QED BY <1>10, <2>1, <2>2 DEF Runs, RamPages
<1>12. Runs(ram', ram)
  BY <1>4, <1>8, <1>10, <1>11 DEF Runs
<1> QED BY <1>1, <1>12, MirrorKeeps
LEMMA TailIs ==
  ASSUME NEW io \in Seq(Orders), io # << >>
  PROVE /\ Len(io) \in Nat /\ 1 \in Places(io) /\ Head(io) = io[1] /\ Head(io) \in Orders
        /\ Tail(io) \in Seq(Orders) /\ Places(Tail(io)) = 1..Len(io) - 1
        /\ \A k \in Places(Tail(io)) : k + 1 \in Places(io) /\ Tail(io)[k] = io[k + 1]
BY DEF Places

\* The pages in RAM are not written with the orders.
LEMMA OrdersAside ==
  ASSUME NEW r \in RamType, NEW io PROVE LET q == [r EXCEPT !.io = io]
                              IN /\ RamPages(r) => RamPages(q)
                                 /\ Mirrors(q) <=> Mirrors(r)
                                 /\ q.nvm = r.nvm /\ q.io = io
<1> DEFINE q == [r EXCEPT !.io = io]
<1>1. /\ q.rp = r.rp /\ q.bay = r.bay /\ q.map = r.map /\ q.nvm = r.nvm /\ q.io = io /\ q.mirror = r.mirror
      /\ q.cur = r.cur /\ q.mode = r.mode /\ q.queue = r.queue /\ q.use = r.use /\ q.reenum = r.reenum /\ q.num = r.num
  BY DEF RamType
<1> HIDE DEF q
<1>2. RamPages(r) => RamPages(q)
  BY <1>1 DEF RamPages, AptPages, MirrorPages, Mirrors, Belongs, Ready
<1> QED BY <1>1, <1>2 DEF Mirrors, q

LEMMA ApartTorn == \A i : Apt(Torn, i) /\ ~Owned(Torn) /\ ~Valid(Torn) /\ Torn.mode = "TORN"
BY DEF Apt, Owned, Owner, Torn, Valid, ClearPage

\* An order is carried out that leaves the flash alone.
LEMMA PassPages ==
  ASSUME PagesInv, RaidInv, IoStep, Head(ram.io).op \in {"other", "mbr"} PROVE PagesInv'
<1> DEFINE io == ram.io
           t == Tail(io)
<1>1. /\ io \in Seq(Orders) /\ io # << >> /\ ram \in RamType /\ on
      /\ ram' = [ram EXCEPT !.io = t] /\ UNCHANGED <<bay, flash, gpio, asked, cmd, on>>
  BY DEF IoStep, RaidInv, TypeInv, RamInv, RamType
<1>2. /\ Len(io) \in Nat /\ 1 \in Places(io) /\ Head(io) = io[1] /\ Places(t) = 1..Len(io) - 1
      /\ \A k \in Places(t) : k + 1 \in Places(io) /\ t[k] = io[k + 1]
  BY <1>1, TailIs
<1>3. RamPages(ram') /\ (Mirrors(ram') <=> Mirrors(ram)) /\ ram'.nvm = ram.nvm /\ ram'.io = t
  <2> HIDE DEF t
  <2> QED BY <1>1, OrdersAside DEF PagesInv
<1>4. (Members)' = Members /\ (Conflict)' = Conflict
  BY <1>1 DEF Members, Conflict
<1>5. IoInv(io) /\ BatchInv(io) /\ AskedInv(io) /\ NvmInv(io)
  BY DEF PagesInv
<1>6. io[1].op \in {"other", "mbr"}
  BY <1>2
<1> HIDE DEF io, t
<1>7. \A k \in Places(t) : \A j \in 1..k - 1 : t[j] = io[j + 1] /\ j + 1 \in 1..(k + 1) - 1
  BY <1>2
<1>8. IoInv(ram.io)'
  <2> SUFFICES ASSUME NEW k \in Places(t)
               PROVE /\ t[k].op = "mbr" => \A j \in 1..k - 1 : t[j].op \notin {"store", "prog"}
                     /\ t[k].op = "store" => Valid(t[k].page) /\ Apt(t[k].page, t[k].at)
                     /\ t[k].op = "prog" => /\ Apt(t[k].page, t[k].at) /\ flash[t[k].at] = Torn
                                            /\ \A j \in 1..k - 1 : t[j].op = "prog" /\ t[j].at # t[k].at
    BY <1>1, <1>3 DEF IoInv
  <2>1. t[k] = io[k + 1] /\ k + 1 \in Places(io)
    BY <1>2
  <2> QED BY <1>5, <1>7, <2>1 DEF IoInv
<1>9. ASSUME NEW k \in Places(io), io[k].op = "prog"
      PROVE k - 1 \in Places(t) /\ t[k - 1] = io[k]
  <2>1. k # 1
    BY <1>6, <1>9
  <2> QED BY <1>2, <2>1 DEF Places
<1>10. BatchInv(ram.io)'
  <2>1. PICK m \in {"RAID1", "JBOD"} :
          /\ \A k \in Places(io) : io[k].op = "store" => io[k].page.mode \in {m, "NOT_CONFIGURED"}
          /\ Mirrors(ram) => m = "RAID1"
          /\ (\E k \in Places(io) : io[k].op = "prog") =>
                \/ \E i \in Slots : flash[i].mode \in {m, "NOT_CONFIGURED"}
                \/ \E k \in Places(io) : io[k].op = "prog" /\ io[k].page.mode \in {m, "NOT_CONFIGURED"}
    BY <1>5 DEF BatchInv
  <2>2. /\ \A k \in Places(t) : t[k].op = "store" => t[k].page.mode \in {m, "NOT_CONFIGURED"}
        /\ (\E k \in Places(t) : t[k].op = "prog") =>
              \/ \E i \in Slots : flash[i].mode \in {m, "NOT_CONFIGURED"}
              \/ \E k \in Places(t) : t[k].op = "prog" /\ t[k].page.mode \in {m, "NOT_CONFIGURED"}
    <3>1. \A k \in Places(t) : k + 1 \in Places(io) /\ t[k] = io[k + 1]
      BY <1>2
    <3> QED BY <1>9, <2>1, <3>1
  <2> QED BY <1>1, <1>3, <2>1, <2>2 DEF BatchInv
<1>11. AskedInv(ram.io)'
  <2>1. \A k \in Places(t) : k + 1 \in Places(io) /\ t[k] = io[k + 1]
    BY <1>2
  <2> QED BY <1>1, <1>3, <1>4, <1>5, <2>1 DEF AskedInv
<1>12. NvmInv(ram.io)'
  BY <1>1, <1>3, <1>5, <1>9 DEF NvmInv
<1>13. cmd' = NoCmd
  BY <1>1 DEF PagesInv, io
<1> QED BY <1>1, <1>3, <1>8, <1>10, <1>11, <1>12, <1>13 DEF PagesInv

LEMMA TwoMore ==
  ASSUME NEW S, NEW w \in Seq(S), NEW t \in Seq(S), Len(w) = 2
  PROVE /\ Len(w \o t) = 2 + Len(t) /\ Len(t) \in Nat
        /\ \A k \in 1..2 : (w \o t)[k] = w[k]
        /\ \A k \in 3..Len(w \o t) : (w \o t)[k] = t[k - 2]
<1>0. Len(t) \in Nat
  OBVIOUS
<1>1. /\ Len(w \o t) = Len(w) + Len(t)
      /\ \A k \in 1..Len(w) + Len(t) : (w \o t)[k] = IF k <= Len(w) THEN w[k] ELSE t[k - Len(w)]
  BY ConcatProperties, Zenon
<1>2. \A k \in 1..2 + Len(t) : (w \o t)[k] = IF k <= 2 THEN w[k] ELSE t[k - 2]
  BY <1>1
<1> DEFINE q == w \o t
<1> HIDE DEF q
<1>3. (\A k \in 1..2 : q[k] = w[k]) /\ \A k \in 3..2 + Len(t) : q[k] = t[k - 2]
  BY <1>0, <1>1, <1>2 DEF q
<1> QED BY <1>0, <1>1, <1>3 DEF q

\* The sector is erased, to be programmed with what it held and the new page.
LEMMA ErasePages ==
  ASSUME PagesInv, RaidInv, IoStep, Head(ram.io).op = "store" PROVE PagesInv'
<1> DEFINE io == ram.io
           o == Head(io)
           t == Tail(io)
           page == [flash EXCEPT ![o.at] = o.page]
           w == [i \in 1..2 |-> [op |-> "prog", at |-> i - 1, page |-> page[i - 1]]]
           q == w \o t
<1>1. /\ io \in Seq(Orders) /\ io # << >> /\ ram \in RamType /\ on /\ ram' = [ram EXCEPT !.io = q]
      /\ flash' = [i \in Slots |-> Torn] /\ UNCHANGED <<bay, gpio, asked, cmd, on>> /\ flash \in Pages
  BY DEF IoStep, spi_write_flash, spi_erase_flash_sector, RaidInv, TypeInv, Typed, RamInv, RamType
<1>2. /\ Len(io) \in Nat /\ 1 \in Places(io) /\ o = io[1] /\ o \in Orders /\ t \in Seq(Orders)
      /\ Places(t) = 1..Len(io) - 1 /\ \A k \in Places(t) : k + 1 \in Places(io) /\ t[k] = io[k + 1]
  BY <1>1, TailIs
<1>3. IoInv(io) /\ BatchInv(io) /\ AskedInv(io) /\ NvmInv(io) /\ \A i \in Slots : Apt(flash[i], i)
  BY DEF PagesInv
<1>4. o.op = "store" /\ o.at \in Slots /\ Valid(o.page) /\ Apt(o.page, o.at)
  BY <1>2, <1>3 DEF IoInv, Orders
<1>5. \A i \in Slots : page[i] = (IF i = o.at THEN o.page ELSE flash[i]) /\ Apt(page[i], i)
  BY <1>1, <1>3, <1>4 DEF Pages
<1> HIDE DEF page
<1>6. \A k \in Places(t) : t[k].op \in {"other", "store"} /\ t[k] = io[k + 1] /\ k + 1 \in Places(io)
  <2> SUFFICES ASSUME NEW k \in Places(t) PROVE io[k + 1].op \in {"other", "store"}
    BY <1>2
  <2>1. k + 1 \in Places(io) /\ io[k + 1] \in Orders /\ 1 \in 1..(k + 1) - 1
    BY <1>1, <1>2 DEF Places
  <2> QED BY <1>2, <1>3, <1>4, <2>1 DEF IoInv, Orders
<1>7. /\ \A k \in Places(q) : (k \in {1, 2} /\ q[k] = w[k]) \/ (k - 2 \in Places(t) /\ q[k] = t[k - 2])
      /\ 1 \in Places(q) /\ 2 \in Places(q) /\ q[1] = w[1] /\ q[2] = w[2]
      /\ \A k \in Places(q) : k \in 1..Len(q)
  <2>1. w \in Seq(Orders) /\ Len(w) = 2
    <3>1. page[0] \in Page /\ page[1] \in Page /\ 0 \in Slots /\ 1 \in Slots
      BY <1>1, <1>2, <1>4, <1>5 DEF Pages, Orders, Slots
    <3>2. \A i \in 1..2 : w[i] \in Orders
      BY <3>1 DEF Orders
    <3>3. w \in [1..2 -> Orders]
      BY <3>2
    <3> QED BY <3>3
  <2> HIDE DEF w, o, t
  <2>2. /\ Len(q) = 2 + Len(t) /\ Len(t) \in Nat
        /\ \A k \in 1..2 : q[k] = w[k]
        /\ \A k \in 3..Len(q) : q[k] = t[k - 2]
    BY <1>2, <2>1, TwoMore
  <2> HIDE DEF q
  <2> QED BY <2>2 DEF Places
<1>8. /\ w[1] = [op |-> "prog", at |-> 0, page |-> page[0]]
      /\ w[2] = [op |-> "prog", at |-> 1, page |-> page[1]]
  OBVIOUS
<1>9. RamPages(ram') /\ (Mirrors(ram') <=> Mirrors(ram)) /\ ram'.nvm = ram.nvm /\ ram'.io = q
  <2> HIDE DEF q
  <2> QED BY <1>1, OrdersAside DEF PagesInv
<1> HIDE DEF io, o, t, w, q
<1>10. \A k \in Places(q) :
         \/ k = 1 /\ q[k].op = "prog" /\ q[k].at = 0 /\ q[k].page = page[0]
         \/ k = 2 /\ q[k].op = "prog" /\ q[k].at = 1 /\ q[k].page = page[1]
         \/ k \notin {1, 2} /\ q[k].op \in {"other", "store"} /\ \E j \in Places(io) : q[k] = io[j]
  BY <1>6, <1>7, <1>8
<1>11. IoInv(ram.io)'
  <2> SUFFICES ASSUME NEW k \in Places(q)
               PROVE /\ q[k].op = "mbr" => \A j \in 1..k - 1 : q[j].op \notin {"store", "prog"}
                     /\ q[k].op = "store" => Valid(q[k].page) /\ Apt(q[k].page, q[k].at)
                     /\ q[k].op = "prog" => /\ Apt(q[k].page, q[k].at) /\ flash'[q[k].at] = Torn
                                            /\ \A j \in 1..k - 1 : q[j].op = "prog" /\ q[j].at # q[k].at
    BY <1>9 DEF IoInv
  <2>1. CASE k = 1
    BY <1>1, <1>5, <1>7, <1>8, <2>1 DEF Slots
  <2>2. CASE k = 2
    BY <1>1, <1>5, <1>7, <1>8, <2>2 DEF Slots
  <2>3. CASE k \notin {1, 2}
    BY <1>3, <1>10, <2>3 DEF IoInv
  <2> QED BY <2>1, <2>2, <2>3
<1>12. BatchInv(ram.io)'
  <2>1. PICK m \in {"RAID1", "JBOD"} :
          /\ \A k \in Places(io) : io[k].op = "store" => io[k].page.mode \in {m, "NOT_CONFIGURED"}
          /\ Mirrors(ram) => m = "RAID1"
    BY <1>3 DEF BatchInv
  <2>2. \A k \in Places(q) : q[k].op = "store" => q[k].page.mode \in {m, "NOT_CONFIGURED"}
    BY <1>10, <2>1
  <2>3. \E k \in Places(q) : q[k].op = "prog" /\ q[k].page.mode \in {m, "NOT_CONFIGURED"}
    <3>1. o.page.mode \in {m, "NOT_CONFIGURED"}
      BY <1>2, <1>4, <2>1
    <3>2. \E k \in Places(q) : q[k].op = "prog" /\ q[k].page = o.page
      BY <1>4, <1>5, <1>7, <1>8 DEF Slots
    <3> QED BY <3>1, <3>2
  <2> QED BY <1>9, <2>1, <2>2, <2>3 DEF BatchInv
<1>13. AskedInv(ram.io)'
  <2> SUFFICES ASSUME ~asked PROVE AskedInv(ram.io)'
    BY <1>1 DEF AskedInv
  <2>1. \A i \in Slots : ~Owned(flash'[i])
    BY <1>1, ApartTorn
  <2>2. \A i \in Slots : Owned(page[i]) => page[i].mode = gpio
    BY <1>2, <1>3, <1>4, <1>5 DEF AskedInv
  <2>3. \A k \in Places(q) : /\ q[k].op # "mbr"
                             /\ q[k].op \in {"store", "prog"} /\ Owned(q[k].page) => q[k].page.mode = gpio
    <3>1. \A j \in Places(io) : io[j].op \in {"store", "prog"} /\ Owned(io[j].page) => io[j].page.mode = gpio
      BY <1>3 DEF AskedInv
    <3>2. 0 \in Slots /\ 1 \in Slots
      BY DEF Slots
    <3> QED BY <1>10, <2>2, <3>1, <3>2
  <2>4. Mirrors(ram) => gpio = "RAID1"
    BY <1>3 DEF AskedInv
  <2> QED BY <1>1, <1>9, <2>1, <2>3, <2>4 DEF AskedInv
<1>14. NvmInv(ram.io)'
  <2> SUFFICES ASSUME NEW i \in Slots, Owned(ram.nvm[i])
               PROVE \E k \in Places(q) : q[k].op = "prog" /\ q[k].at = i /\ Valid(q[k].page)
    BY <1>9 DEF NvmInv
  <2>1. ASSUME NEW k \in Places(io), io[k].op = "prog" PROVE FALSE
    <3>1. k # 1
      BY <1>2, <1>4, <2>1
    <3>2. 1 \in 1..k - 1
      BY <3>1 DEF Places
    <3> QED BY <1>2, <1>3, <1>4, <2>1, <3>2 DEF IoInv
  <2>2. Valid(flash[i])
    BY <1>3, <2>1 DEF NvmInv
  <2>3. Valid(page[i])
    BY <1>4, <1>5, <2>2
  <2> QED BY <1>7, <1>8, <2>3 DEF Slots
<1>15. cmd' = NoCmd /\ Fit(bay') /\ \A i \in Slots : Apt(flash'[i], i)
  BY <1>1, ApartTorn DEF PagesInv, io
<1> QED BY <1>1, <1>9, <1>11, <1>12, <1>13, <1>14, <1>15 DEF PagesInv

\* A page of the sector is programmed.
LEMMA ProgramPages ==
  ASSUME PagesInv, RaidInv, IoStep, Head(ram.io).op = "prog" PROVE PagesInv'
<1> DEFINE io == ram.io
           o == Head(io)
           t == Tail(io)
<1>1. /\ io \in Seq(Orders) /\ io # << >> /\ ram \in RamType /\ on /\ ram' = [ram EXCEPT !.io = t]
      /\ flash' = [flash EXCEPT ![o.at] = o.page]
      /\ asked' = (asked /\ \E i \in Slots : flash'[i].mode # gpio)
      /\ UNCHANGED <<bay, gpio, cmd, on>> /\ flash \in Pages /\ gpio \in {"RAID1", "JBOD"} /\ asked \in BOOLEAN
  BY DEF IoStep, ProgramPage, RaidInv, TypeInv, Typed, RamInv, RamType
<1>2. /\ Len(io) \in Nat /\ 1 \in Places(io) /\ o = io[1] /\ o \in Orders
      /\ Places(t) = 1..Len(io) - 1 /\ \A k \in Places(t) : k + 1 \in Places(io) /\ t[k] = io[k + 1]
  BY <1>1, TailIs
<1>3. IoInv(io) /\ BatchInv(io) /\ AskedInv(io) /\ NvmInv(io) /\ \A i \in Slots : Apt(flash[i], i)
  BY DEF PagesInv
<1>4. o.op = "prog" /\ o.at \in Slots /\ Apt(o.page, o.at) /\ flash[o.at] = Torn
  BY <1>2, <1>3 DEF IoInv, Orders
<1>5. RamPages(ram') /\ (Mirrors(ram') <=> Mirrors(ram)) /\ ram'.nvm = ram.nvm /\ ram'.io = t
  <2> HIDE DEF t
  <2> QED BY <1>1, OrdersAside DEF PagesInv
<1>6. \A i \in Slots : flash'[i] = (IF i = o.at THEN o.page ELSE flash[i]) /\ Apt(flash'[i], i)
  BY <1>1, <1>3, <1>4 DEF Pages
<1>7. \A k \in Places(t) : /\ t[k] = io[k + 1] /\ k + 1 \in Places(io) /\ t[k].op # "mbr"
                           /\ t[k].op = "prog" => t[k].at # o.at /\ t[k].at \in Slots
  <2> SUFFICES ASSUME NEW k \in Places(t)
               PROVE io[k + 1].op # "mbr" /\ (io[k + 1].op = "prog" => io[k + 1].at # o.at /\ io[k + 1].at \in Slots)
    BY <1>2
  <2>1. k + 1 \in Places(io) /\ io[k + 1] \in Orders /\ 1 \in 1..(k + 1) - 1
    BY <1>1, <1>2 DEF Places
  <2> QED BY <1>2, <1>3, <1>4, <2>1 DEF IoInv, Orders
<1>8. \A k \in Places(io) : k = 1 \/ (k - 1 \in Places(t) /\ t[k - 1] = io[k])
  BY <1>2 DEF Places
<1>9. \A k \in Places(t) : \A j \in 1..k - 1 : t[j] = io[j + 1] /\ j + 1 \in 1..(k + 1) - 1
  BY <1>2 DEF Places
<1> HIDE DEF io, o, t
<1>10. IoInv(ram.io)'
  <2> SUFFICES ASSUME NEW k \in Places(t)
               PROVE /\ t[k].op = "mbr" => \A j \in 1..k - 1 : t[j].op \notin {"store", "prog"}
                     /\ t[k].op = "store" => Valid(t[k].page) /\ Apt(t[k].page, t[k].at)
                     /\ t[k].op = "prog" => /\ Apt(t[k].page, t[k].at) /\ flash'[t[k].at] = Torn
                                            /\ \A j \in 1..k - 1 : t[j].op = "prog" /\ t[j].at # t[k].at
    BY <1>5 DEF IoInv
  <2>1. t[k] = io[k + 1] /\ k + 1 \in Places(io)
    BY <1>7
  <2>2. t[k].op = "prog" => flash'[t[k].at] = flash[t[k].at]
    BY <1>6, <1>7
  <2> QED BY <1>3, <1>7, <1>9, <2>1, <2>2 DEF IoInv
<1>11. PICK m \in {"RAID1", "JBOD"} :
         /\ \A k \in Places(io) : io[k].op = "store" => io[k].page.mode \in {m, "NOT_CONFIGURED"}
         /\ Mirrors(ram) => m = "RAID1"
         /\ \/ \E i \in Slots : flash[i].mode \in {m, "NOT_CONFIGURED"}
            \/ \E k \in Places(io) : io[k].op = "prog" /\ io[k].page.mode \in {m, "NOT_CONFIGURED"}
  <2>1. \E k \in Places(io) : io[k].op = "prog"
    BY <1>2, <1>4
  <2> QED BY <1>3, <2>1 DEF BatchInv
<1>12. \/ \E i \in Slots : flash'[i].mode \in {m, "NOT_CONFIGURED"}
       \/ \E k \in Places(t) : t[k].op = "prog" /\ t[k].page.mode \in {m, "NOT_CONFIGURED"}
  <2>1. CASE \E i \in Slots : flash[i].mode \in {m, "NOT_CONFIGURED"}
    <3>1. PICK i \in Slots : flash[i].mode \in {m, "NOT_CONFIGURED"}
      BY <2>1
    <3>2. i # o.at
      BY <1>4, <1>11, <3>1, ApartTorn
    <3> QED BY <1>6, <3>1, <3>2
  <2>2. CASE \E k \in Places(io) : io[k].op = "prog" /\ io[k].page.mode \in {m, "NOT_CONFIGURED"}
    <3>1. PICK k \in Places(io) : io[k].op = "prog" /\ io[k].page.mode \in {m, "NOT_CONFIGURED"}
      BY <2>2
    <3>2. CASE k = 1
      BY <1>2, <1>4, <1>6, <3>1, <3>2
    <3>3. CASE k # 1
      BY <1>8, <3>1, <3>3
    <3> QED BY <3>2, <3>3
  <2> QED BY <1>11, <2>1, <2>2
<1>13. BatchInv(ram.io)'
  <2>1. \A k \in Places(t) : t[k].op = "store" => t[k].page.mode \in {m, "NOT_CONFIGURED"}
    BY <1>7, <1>11
  <2> QED BY <1>5, <1>11, <1>12, <2>1 DEF BatchInv
<1>14. AskedInv(ram.io)'
  <2> SUFFICES ASSUME ~asked' PROVE AskedInv(ram.io)'
    BY DEF AskedInv
  <2>1. CASE ~asked
    <3>1. /\ \A i \in Slots : Owned(flash[i]) => flash[i].mode = gpio
          /\ \A k \in Places(io) : io[k].op \in {"store", "prog"} /\ Owned(io[k].page) => io[k].page.mode = gpio
          /\ Mirrors(ram) => gpio = "RAID1"
      BY <1>3, <2>1 DEF AskedInv
    <3>2. \A i \in Slots : Owned(flash'[i]) => flash'[i].mode = gpio
      BY <1>2, <1>4, <1>6, <3>1
    <3> QED BY <1>1, <1>5, <1>7, <3>1, <3>2 DEF AskedInv
  <2>2. CASE \A i \in Slots : flash'[i].mode = gpio
    <3>1. \A k \in Places(t) : t[k].op # "prog"
      <4> SUFFICES ASSUME NEW k \in Places(t), t[k].op = "prog" PROVE FALSE
        OBVIOUS
      <4>1. t[k].at \in Slots /\ t[k].at # o.at /\ flash[t[k].at] = Torn
        BY <1>3, <1>7 DEF IoInv
      <4>2. flash'[t[k].at] = Torn
        BY <1>6, <4>1
      <4> QED BY <1>1, <2>2, <4>1, <4>2, ApartTorn
    <3>2. m = gpio
      BY <1>1, <1>12, <2>2, <3>1
    <3>3. \A k \in Places(t) : t[k].op = "store" /\ Owned(t[k].page) => t[k].page.mode = gpio
      BY <1>3, <1>7, <1>11, <3>2 DEF IoInv, Apt
    <3> QED BY <1>1, <1>5, <1>7, <1>11, <2>2, <3>1, <3>2, <3>3 DEF AskedInv
  <2> QED BY <1>1, <2>1, <2>2
<1>15. NvmInv(ram.io)'
  <2> SUFFICES ASSUME NEW i \in Slots, Owned(ram.nvm[i])
               PROVE \/ Valid(flash'[i])
                     \/ \E k \in Places(t) : t[k].op = "prog" /\ t[k].at = i /\ Valid(t[k].page)
    BY <1>5 DEF NvmInv
  <2>1. CASE Valid(flash[i])
    <3>1. i # o.at
      BY <1>4, <2>1, ApartTorn
    <3> QED BY <1>6, <2>1, <3>1
  <2>2. CASE \E k \in Places(io) : io[k].op = "prog" /\ io[k].at = i /\ Valid(io[k].page)
    <3>1. PICK k \in Places(io) : io[k].op = "prog" /\ io[k].at = i /\ Valid(io[k].page)
      BY <2>2
    <3>2. CASE k = 1
      BY <1>2, <1>6, <3>1, <3>2
    <3>3. CASE k # 1
      BY <1>8, <3>1, <3>3
    <3> QED BY <3>2, <3>3
  <2> QED BY <1>3, <2>1, <2>2 DEF NvmInv
<1>16. cmd' = NoCmd /\ Fit(bay') /\ \A i \in Slots : Apt(flash'[i], i)
  BY <1>1, <1>6 DEF PagesInv, io
<1> QED BY <1>1, <1>5, <1>10, <1>13, <1>14, <1>15, <1>16 DEF PagesInv
LEMMA IoStepPages == ASSUME RaidInv, PagesInv, IoStep PROVE PagesInv'
<1>1. Head(ram.io).op \in {"other", "mbr", "store", "prog"}
  BY DEF IoStep
<1> QED BY <1>1, PassPages, ErasePages, ProgramPages

LEMMA InitPages == ASSUME Init, FixedBays PROVE PagesInv
<1>1. bay = Own /\ ram = InitRam /\ cmd = NoCmd /\ gpio = "RAID1" /\ flash = [s \in Slots |-> OwnPage(s)]
  BY DEF Init
<1>2. \A s \in Slots : Own[s] # NoDrive
  BY ArrayAssumption, NoDriveOut
<1>3. \A s \in Slots : Owner(flash[s]) = Own[s] /\ flash[s].mode = "RAID1" /\ Apt(flash[s], s)
  <2>1. ASSUME NEW s \in Slots
        PROVE /\ Owner(OwnPage(s)) = Own[s] /\ OwnPage(s).mode = "RAID1" /\ OwnPage(s).id = Own
    BY DEF OwnPage, Owner, Valid
  <2>2. \A s \in Slots : Apt(OwnPage(s), s)
    BY <1>2, <2>1 DEF Apt, FixedBays
  <2> QED BY <1>1, <2>1, <2>2
<1>4. Fit(bay)
  BY <1>1 DEF Fit, FixedBays
<1>5. IoInv(ram.io) /\ BatchInv(ram.io) /\ NvmInv(ram.io)
  BY <1>1, InitRamPages DEF IoInv, BatchInv, NvmInv, Places
<1>6. AskedInv(ram.io)
  BY <1>1, <1>3, InitRamPages DEF AskedInv, Places
<1> QED BY <1>1, <1>3, <1>4, <1>5, <1>6, InitRamPages DEF PagesInv

LEMMA NextPages == ASSUME RaidInv, FixedBays, PagesInv, [Next]_vars PROVE PagesInv'
<1>0. RaidInv'
  BY NextKeeps
<1>1. ASSUME UNCHANGED vars PROVE PagesInv'
  BY <1>1, SamePages DEF vars, PagesInv
<1>2. ASSUME Firmware PROVE PagesInv'
  BY <1>0, <1>2, PowerOnPages, ReEnumeratePages, IoStepPages, WriteDonePages, InitiatePages, ChkRbDonePages, DiskWritePages
     DEF Firmware, usb_chk
<1> QED BY <1>0, <1>1, <1>2, PowerCutPages, ChangeDrivesPages, HotPlugPages, MoveSwitchPages, ConfigButtonPages,
           HostWritePages, ReadFailsPages, RebuildCommandPages DEF Next

\* The RAID parameter pages, with every drive kept to its bay: a page in the
\* flash or in RAM is about a drive of that bay, what the firmware orders is of
\* one mode, and of the mode of the switch unless the user asked for another.
THEOREM PagesInvHolds == ASSUME FixedBays PROVE Spec => []PagesInv
<1>1. Init => PagesInv
  BY InitPages
<1>2. RaidInv /\ PagesInv /\ [Next]_vars => PagesInv'
  BY NextPages
<1> QED BY <1>1, <1>2, RaidInvHolds, PTL DEF Spec

\* raid_mbr_cleaner, with every drive kept to its bay: sector 0 of a good member
\* is overwritten only after the user moved the switch or pressed the button,
\* or beside a member of another array, wherever the power failed before.
THEOREM WipesAreAsked == ASSUME FixedBays PROVE Spec => WipeAsked
<1>1. ASSUME RaidInv, PagesInv, [Next]_vars, NEW d \in Members, Writing("mbr"), data'[d][0] # data[d][0]
      PROVE asked \/ Conflict
  <2>1. ram.io # << >> /\ Head(ram.io).op = "mbr" /\ cmd = NoCmd
    BY <1>1 DEF Writing, PagesInv
  <2>2. IoStep
    BY <1>1, <2>1 DEF Next, vars, media, Firmware, usb_chk, PowerOn, ReEnumerate, WriteDone, initiate_rb_IO,
                      RebuildMayStart, chk_rb_done, Idle, DiskWrite, PowerCut, ChangeDrives, HotPlug, MoveSwitch,
                      ConfigButton, HostWrite, Serving, ReadFails, RebuildCommand
  <2>3. data' = [data EXCEPT ![bay[Head(ram.io).at]][0] = 0]
    BY <2>1, <2>2 DEF IoStep
  <2>4. d = bay[Head(ram.io).at]
    <3> DEFINE x == bay[Head(ram.io).at]
    <3>1. data' = [data EXCEPT ![x][0] = 0]
      BY <2>3
    <3>2. data \in [Drives -> [Blocks -> Nat]] /\ d \in Drives
      BY <1>1 DEF RaidInv, TypeInv, Typed, Members
    <3> HIDE DEF x
    <3>3. d = x
      BY <1>1, <3>1, <3>2
    <3> QED BY <3>3 DEF x
  <2>5. 1 \in Places(ram.io) /\ Head(ram.io) = ram.io[1]
    BY <1>1, <2>1, TailIs DEF RaidInv, TypeInv, RamInv, RamType
  <2> QED BY <1>1, <2>1, <2>4, <2>5 DEF PagesInv, AskedInv
<1>2. RaidInv /\ PagesInv /\ [Next]_vars =>
        [\A d \in Members : Writing("mbr") /\ data'[d][0] # data[d][0] => asked \/ Conflict]_vars
  BY <1>1
<1> QED BY <1>2, RaidInvHolds, PagesInvHolds, PTL DEF Spec, WipeAsked
=============================================================================
