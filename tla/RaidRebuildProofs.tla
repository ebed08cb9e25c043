------------------------- MODULE RaidRebuildProofs -------------------------
(***************************************************************************)
(* SkipInv of RaidRebuild is inductive when each drive has its own bay     *)
(* (FixedBays), and no rebuild skips a block that the host was told is     *)
(* written (NothingSkipped).                                               *)
(*                                                                         *)
(* A function of raid.c decides, and orders writes, in one step; they are  *)
(* carried out later, one by one.  So each lemma about such a function     *)
(* carries the media along: Ordered(r, m, n) says that the writes ordered  *)
(* so far lead from media m to media n, and that each state on the way is  *)
(* good.  The lemmas then follow the code, one per function.               *)
(***************************************************************************)
EXTENDS RaidRebuild, RaidPageProofs, WellFoundedInduction

----------------------------------------------------------------------------
(* Induction over numbers, and the media along the writes ordered.         *)

\* A set of natural numbers that is not empty has a least element.
LEMMA Least ==
  ASSUME NEW T \in SUBSET Nat, T # {}
  PROVE \E x \in T : \A y \in T : x <= y
<1> DEFINE less == {ss \in Nat \X Nat : ss[1] < ss[2]}
<1>1. IsWellFoundedOn(less, Nat)
  BY NatLessThanWellFounded DEF OpToRel
<1>2. PICK x \in T : \A y \in T : <<y, x>> \notin less
  <2> HIDE DEF less
  <2> QED BY <1>1, WFMin
<1>3. ASSUME NEW y \in T PROVE x <= y
  <2>1. ~(y < x)
    BY <1>2
  <2> QED BY <2>1
<1> QED BY <1>3

\* Induction over a set of numbers.
LEMMA SetInduction ==
  ASSUME NEW S, 0 \in S, NEW N \in Nat, \A n \in 0..N - 1 : n \in S => n + 1 \in S
  PROVE 0..N \subseteq S
<1> SUFFICES ASSUME (0..N) \ S # {} PROVE FALSE
  OBVIOUS
<1> DEFINE T == (0..N) \ S
<1>0. T \in SUBSET Nat /\ T # {}
  OBVIOUS
<1>1. PICK x \in T : \A y \in T : x <= y
  <2> HIDE DEF T
  <2> QED BY <1>0, Least
<1>2. x # 0 /\ x - 1 \in 0..N /\ x - 1 \in 0..N - 1
  BY <1>1
<1>3. x - 1 \in S
  BY <1>1, <1>2
<1>4. (x - 1) + 1 \in S
  BY <1>2, <1>3
<1> QED BY <1>1, <1>4

\* f leads from m through the orders io.
Traces(f, m, io) ==
  f = [k \in 0..Len(io) |-> IF k = 0 THEN m ELSE Apply(f[k - 1], io[k])]

\* The recursive function of Trace exists for a sequence of writes.
LEMMA TraceExists ==
  ASSUME NEW m, NEW S, NEW io \in Seq(S)
  PROVE \E f : Traces(f, m, io)
<1> DEFINE N == Len(io)
           Begins(f, n) == /\ DOMAIN f = 0..n /\ f = [k \in 0..n |-> f[k]] /\ f[0] = m
                           /\ \A k \in 1..n : f[k] = Apply(f[k - 1], io[k])
           T == {n \in Nat : \E f : Begins(f, n)}
<1>1. 0 \in T
  <2>1. Begins([k \in 0..0 |-> m], 0)
    OBVIOUS
  <2> QED BY <2>1
<1>2. ASSUME NEW n \in 0..N - 1, n \in T PROVE n + 1 \in T
  <2>1. PICK f : Begins(f, n)
    BY <1>2
  <2> DEFINE g == [k \in 0..n + 1 |-> IF k <= n THEN f[k] ELSE Apply(f[n], io[n + 1])]
  <2>2. ASSUME NEW k \in 1..n + 1 PROVE g[k] = Apply(g[k - 1], io[k])
    <3>1. CASE k <= n
      <4>1. k - 1 \in 0..n + 1 /\ k - 1 <= n /\ k \in 1..n /\ k \in 0..n + 1
        BY <3>1
      <4>2. g[k] = f[k] /\ g[k - 1] = f[k - 1]
        BY <3>1, <4>1
      <4>3. f[k] = Apply(f[k - 1], io[k])
        BY <2>1, <4>1
      <4> QED BY <4>2, <4>3
    <3>2. CASE k = n + 1
      <4>1. k - 1 = n /\ ~(k <= n) /\ n \in 0..n + 1
        BY <3>2
      <4> QED BY <3>2, <4>1
    <3> QED BY <3>1, <3>2
  <2>3. Begins(g, n + 1)
    <3>1. g[0] = m
      BY <2>1
    <3>2. DOMAIN g = 0..n + 1 /\ g = [k \in 0..n + 1 |-> g[k]]
      OBVIOUS
    <3> HIDE DEF g
    <3> QED BY <2>2, <3>1, <3>2
  <2>4. n + 1 \in Nat
    OBVIOUS
  <2> HIDE DEF g, Begins
  <2> QED BY <2>3, <2>4
<1>3. N \in Nat /\ 0..N \subseteq T
  <2> HIDE DEF T
  <2> QED BY <1>1, <1>2, SetInduction
<1>4. PICK f : Begins(f, N)
  <2>1. N \in T
    <3> HIDE DEF T
    <3> QED BY <1>3
  <2> QED BY <2>1
<1>5. ASSUME NEW k \in 0..N PROVE f[k] = IF k = 0 THEN m ELSE Apply(f[k - 1], io[k])
  BY <1>4, k # 0 => k \in 1..N
<1>6. f = [k \in 0..N |-> f[k]]
  BY <1>4
<1>7. f = [k \in 0..N |-> IF k = 0 THEN m ELSE Apply(f[k - 1], io[k])]
  BY <1>5, <1>6
<1> QED BY <1>7 DEF Traces

\* What Trace is, write by write.
LEMMA TraceIs ==
  ASSUME NEW m, NEW S, NEW io \in Seq(S)
  PROVE /\ Trace(m, io)[0] = m
        /\ \A k \in 1..Len(io) : Trace(m, io)[k] = Apply(Trace(m, io)[k - 1], io[k])
<1>1. Traces(Trace(m, io), m, io)
  <2>1. Trace(m, io) = CHOOSE f : Traces(f, m, io)
    BY DEF Trace, Traces
  <2> QED BY <2>1, TraceExists
<1> DEFINE f == Trace(m, io)
<1> HIDE DEF f
<1>2. f = [k \in 0..Len(io) |-> IF k = 0 THEN m ELSE Apply(f[k - 1], io[k])]
  BY <1>1 DEF f, Traces
<1>3. Len(io) \in Nat
  OBVIOUS
<1>4. f[0] = m
  BY <1>2, <1>3
<1>5. ASSUME NEW k \in 1..Len(io) PROVE f[k] = Apply(f[k - 1], io[k])
  BY <1>2, <1>3, k \in 0..Len(io), k # 0
<1> QED BY <1>4, <1>5 DEF f

\* The media f follow one another under the first N orders of io.
Follows(f, io, N) == \A k \in 1..N : f[k] = Apply(f[k - 1], io[k])

\* Such media are those of the trace.
LEMMA TraceOnly ==
  ASSUME NEW S, NEW io \in Seq(S), NEW N \in 0..Len(io), NEW f, Follows(f, io, N)
  PROVE \A k \in 0..N : f[k] = Trace(f[0], io)[k]
<1> DEFINE g == Trace(f[0], io)
           T == {k \in 0..N : f[k] = g[k]}
<1>1. g[0] = f[0] /\ \A k \in 1..Len(io) : g[k] = Apply(g[k - 1], io[k])
  BY TraceIs
<1>2. 0 \in T
  BY <1>1
<1>3. ASSUME NEW n \in 0..N - 1, n \in T PROVE n + 1 \in T
  <2>1. n + 1 \in 1..N /\ n + 1 \in 1..Len(io) /\ (n + 1) - 1 = n
    OBVIOUS
  <2> QED BY <1>1, <1>3, <2>1 DEF Follows
<1>4. 0..N \subseteq T
  <2>1. N \in Nat
    OBVIOUS
  <2> HIDE DEF T
  <2> QED BY <1>2, <1>3, <2>1, SetInduction
<1> QED BY <1>4

\* From the media m the orders io lead to n, through good media only.
Leads(m, io, n) == Safe(m, io) /\ n = Last(m, io)

\* Both ends of a way of good media are good.
LEMMA LeadsEnds ==
  ASSUME NEW m, NEW S, NEW io \in Seq(S), NEW n, Leads(m, io, n)
  PROVE Good(m) /\ Good(n) /\ (io = << >> => n = m)
<1>1. Len(io) \in Nat /\ 0 \in 0..Len(io) /\ Len(io) \in 0..Len(io) /\ (io = << >> => Len(io) = 0)
  OBVIOUS
<1>2. Trace(m, io)[0] = m
  BY TraceIs
<1> QED BY <1>1, <1>2 DEF Leads, Safe, Last

\* No write leads from good media to themselves.
LEMMA LeadsNowhere ==
  ASSUME NEW m, Good(m) PROVE Leads(m, << >>, m)
<1>1. << >> \in Seq({}) /\ Len(<< >>) = 0
  OBVIOUS
<1>2. Trace(m, << >>)[0] = m
  BY <1>1, TraceIs
<1> QED BY <1>1, <1>2 DEF Leads, Safe, Last

\* One more write.
LEMMA LeadsOn ==
  ASSUME NEW m, NEW S, NEW io \in Seq(S), NEW n, Leads(m, io, n), NEW o \in S, Good(Apply(n, o))
  PROVE Leads(m, Append(io, o), Apply(n, o))
<1> DEFINE N == Len(io)
           q == Append(io, o)
           f == Trace(m, io)
           g == Trace(m, q)
<1>1. N \in Nat /\ q \in Seq(S) /\ Len(q) = N + 1 /\ q[N + 1] = o /\ \A k \in 1..N : q[k] = io[k]
  OBVIOUS
<1>2. f[0] = m /\ \A k \in 1..N : f[k] = Apply(f[k - 1], io[k])
  BY TraceIs
<1>3. g[0] = m /\ \A k \in 1..N + 1 : g[k] = Apply(g[k - 1], q[k])
  <2> HIDE DEF q, N
  <2>1. g[0] = m /\ \A k \in 1..Len(q) : g[k] = Apply(g[k - 1], q[k])
    BY <1>1, TraceIs
  <2> QED BY <1>1, <2>1
<1>4. \A k \in 0..N : f[k] = g[k]
  <2>1. N \in 0..Len(q) /\ \A k \in 1..N : f[k] = Apply(f[k - 1], q[k])
    BY <1>1, <1>2
  <2> HIDE DEF f, q, N
  <2>2. \A k \in 0..N : f[k] = Trace(f[0], q)[k]
    <3>1. Follows(f, q, N)
      BY <2>1 DEF Follows
    <3> QED BY ONLY <1>1, <2>1, <3>1, TraceOnly
  <2>3. Trace(f[0], q) = Trace(m, q)
    BY <1>2
  <2> QED BY <2>2, <2>3 DEF g
<1>5. f[N] = n /\ \A k \in 0..N : Good(f[k])
  BY DEF Leads, Safe, Last
<1>6. g[N + 1] = Apply(n, o)
  <2>1. N + 1 \in 1..N + 1 /\ (N + 1) - 1 = N /\ N \in 0..N
    BY <1>1
  <2> HIDE DEF f, g, q, N
  <2> QED BY <1>1, <1>3, <1>4, <1>5, <2>1
<1>7. ASSUME NEW k \in 0..N + 1 PROVE Good(g[k])
  <2>1. k \in 0..N \/ k = N + 1
    BY <1>1
  <2> HIDE DEF f, g, q, N
  <2> QED BY <1>4, <1>5, <1>6, <2>1
<1> QED BY <1>1, <1>6, <1>7 DEF Leads, Safe, Last

\* The first write carried out.
LEMMA LeadsTail ==
  ASSUME NEW m, NEW io \in Seq(Orders), NEW n, Leads(m, io, n), io # << >>
  PROVE Leads(Apply(m, Head(io)), Tail(io), n)
<1> DEFINE N == Len(io)
           q == Tail(io)
           f == Trace(m, io)
           h == [k \in 0..N - 1 |-> f[k + 1]]
<1>1. /\ N \in Nat /\ N >= 1 /\ q \in Seq(Orders) /\ Len(q) = N - 1 /\ Head(io) = io[1]
      /\ \A k \in 1..N - 1 : q[k] = io[k + 1]
  <2>1. Places(q) = 1..N - 1
    BY TailIs
  <2> QED BY <2>1, TailIs DEF Places
<1>2. f[0] = m /\ \A k \in 1..N : f[k] = Apply(f[k - 1], io[k])
  BY TraceIs
<1>3. h[0] = Apply(m, Head(io))
  <2>1. 1 \in 1..N /\ 0 \in 0..N - 1 /\ 1 - 1 = 0 /\ 0 + 1 = 1
    BY <1>1
  <2>2. f[1] = Apply(m, io[1])
    BY <1>2, <2>1
  <2> QED BY <1>1, <2>1, <2>2
<1>4. ASSUME NEW k \in 1..N - 1 PROVE h[k] = Apply(h[k - 1], q[k])
  <2>1. k + 1 \in 1..N /\ k \in 0..N - 1 /\ k - 1 \in 0..N - 1 /\ (k + 1) - 1 = k /\ (k - 1) + 1 = k
    BY <1>1
  <2>2. f[k + 1] = Apply(f[k], io[k + 1])
    BY <1>2, <2>1
  <2> QED BY <1>1, <2>1, <2>2
<1>5. \A k \in 0..N - 1 : h[k] = Trace(Apply(m, Head(io)), q)[k]
  <2> DEFINE P == N - 1
  <2>1. P \in 0..Len(q)
    BY <1>1
  <2>2. \A k \in 1..P : h[k] = Apply(h[k - 1], q[k])
    BY <1>4
  <2>3. q \in Seq(Orders) /\ h[0] = Apply(m, Head(io))
    BY <1>1, <1>3
  <2> HIDE DEF h, q, N, f, P
  <2>4. Follows(h, q, P)
    BY <2>2 DEF Follows
  <2>5. \A k \in 0..P : h[k] = Trace(h[0], q)[k]
    BY ONLY <2>1, <2>3, <2>4, TraceOnly
  <2>6. Trace(h[0], q) = Trace(Apply(m, Head(io)), q)
    BY <2>3
  <2> QED BY <2>5, <2>6 DEF P
<1>6. f[N] = n /\ \A k \in 0..N : Good(f[k])
  BY DEF Leads, Safe, Last
<1>7. h[N - 1] = n /\ \A k \in 0..N - 1 : Good(h[k])
  <2>1. N - 1 \in 0..N - 1 /\ (N - 1) + 1 = N /\ \A k \in 0..N - 1 : k + 1 \in 0..N
    BY <1>1
  <2> HIDE DEF N, f
  <2> QED BY <1>6, <2>1
<1>8. N - 1 \in 0..N - 1
  BY <1>1
<1> HIDE DEF h, q, N, f
<1>9. Len(q) = N - 1
  BY <1>1
<1> QED BY <1>5, <1>7, <1>8, <1>9 DEF Leads, Safe, Last, q

\* Two orders before those of io.
LEMMA LeadsTwo ==
  ASSUME NEW m, NEW S, NEW io \in Seq(S), NEW w \in Seq(S), Len(w) = 2, NEW n,
         Good(m), Good(Apply(m, w[1])), Leads(Apply(Apply(m, w[1]), w[2]), io, n)
  PROVE Leads(m, w \o io, n)
<1> DEFINE N == Len(io)
           q == w \o io
           m2 == Apply(Apply(m, w[1]), w[2])
           f == Trace(m2, io)
           h == [k \in 0..N + 2 |-> IF k = 0 THEN m ELSE IF k = 1 THEN Apply(m, w[1]) ELSE f[k - 2]]
<1>1. /\ N \in Nat /\ q \in Seq(S) /\ Len(q) = N + 2
      /\ q[1] = w[1] /\ q[2] = w[2] /\ \A k \in 3..N + 2 : q[k] = io[k - 2]
  <2>1. Len(q) = 2 + Len(io) /\ (\A k \in 1..2 : q[k] = w[k]) /\ (\A k \in 3..Len(q) : q[k] = io[k - 2])
    BY TwoMore
  <2> QED BY <2>1
<1>2. f[0] = m2 /\ \A k \in 1..N : f[k] = Apply(f[k - 1], io[k])
  BY TraceIs
<1>3. h[0] = m /\ h[1] = Apply(m, w[1]) /\ h[2] = m2
  BY <1>1, <1>2
<1>4. ASSUME NEW k \in 1..N + 2 PROVE h[k] = Apply(h[k - 1], q[k])
  <2>1. CASE k \in 1..2
    BY <1>1, <1>3, <2>1
  <2>2. CASE k \in 3..N + 2
    <3>1. k - 2 \in 1..N /\ k \in 0..N + 2 /\ k - 1 \in 0..N + 2 /\ (k - 1) - 2 = (k - 2) - 1 /\ k # 0 /\ k # 1 /\ k - 1 # 0 /\ k - 1 # 1
      BY <1>1, <2>2
    <3>2. h[k] = f[k - 2] /\ h[k - 1] = f[(k - 2) - 1]
      BY <3>1
    <3> HIDE DEF h, f, m2, q, N
    <3> QED BY <1>1, <1>2, <2>2, <3>1, <3>2
  <2> QED BY <1>1, <2>1, <2>2
<1>5. \A k \in 0..N + 2 : h[k] = Trace(m, q)[k]
  <2> DEFINE P == N + 2
  <2>1. P \in 0..Len(q)
    BY <1>1
  <2>2. \A k \in 1..P : h[k] = Apply(h[k - 1], q[k])
    BY <1>4
  <2>3. q \in Seq(S) /\ h[0] = m
    BY <1>1, <1>3
  <2> HIDE DEF h, q, N, f, m2, P
  <2>4. Follows(h, q, P)
    BY <2>2 DEF Follows
  <2>5. \A k \in 0..P : h[k] = Trace(h[0], q)[k]
    BY ONLY <2>1, <2>3, <2>4, TraceOnly
  <2> QED BY <2>3, <2>5 DEF P
<1>6. f[N] = n /\ \A k \in 0..N : Good(f[k])
  BY DEF Leads, Safe, Last
<1>7. h[N + 2] = n
  BY <1>1, <1>6
<1>8. ASSUME NEW k \in 0..N + 2 PROVE Good(h[k])
  <2>1. CASE k = 0 \/ k = 1
    BY <2>1
  <2>2. CASE k # 0 /\ k # 1
    <3>1. k - 2 \in 0..N /\ h[k] = f[k - 2]
      BY <1>1, <2>2
    <3> HIDE DEF h, f, N
    <3> QED BY <1>6, <3>1
  <2> QED BY <2>1, <2>2
<1>9. N + 2 \in 0..N + 2
  BY <1>1
<1> HIDE DEF h, q, N, f, m2
<1>10. Len(q) = N + 2
  BY <1>1
<1> QED BY <1>5, <1>7, <1>8, <1>9, <1>10 DEF Leads, Safe, Last, q

----------------------------------------------------------------------------
(* One write, and when a check point may be written.                       *)

\* The media.
MediaType ==
  [bay : Bays, flash : Pages, other : [Drives -> [1..2 -> Nat \cup {Bad}]],
   data : [Drives -> [Blocks -> Nat]], acked : [Blocks -> Nat]]

\* The media with a page stored, and with both check points of a drive
\* written.
Put(m, s, page) == [m EXCEPT !.flash[s] = page]
Fill(m, s, v) == [m EXCEPT !.other[m.bay[s]] = [c \in 1..2 |-> v]]

\* Each kind of write.
LEMMA ApplyIs ==
  ASSUME NEW m
  PROVE /\ \A s, p : Apply(m, [op |-> "store", at |-> s, page |-> p]) = Put(m, s, p)
        /\ \A s, p : Apply(m, [op |-> "prog", at |-> s, page |-> p]) = Put(m, s, p)
        /\ \A s, c, v : Apply(m, [op |-> "other", at |-> s, copy |-> c, cp |-> v])
                          = [m EXCEPT !.other[m.bay[s]][c] = v]
        /\ \A s : Apply(m, [op |-> "mbr", at |-> s])
                    = [m EXCEPT !.data[m.bay[s]][0] = 0, !.acked = [b \in Blocks |-> 0]]
BY DEF Apply, Put

\* A write keeps the type of the media.
LEMMA ApplyTyped ==
  ASSUME NEW m \in MediaType, NEW o \in Orders PROVE Apply(m, o) \in MediaType
<1>1. CASE o \in [op : {"store", "prog"}, at : Slots, page : Page]
  <2>1. Apply(m, o) = [m EXCEPT !.flash[o.at] = o.page]
    BY <1>1 DEF Apply
  <2>2. [m.flash EXCEPT ![o.at] = o.page] \in Pages
    BY <1>1 DEF MediaType, Pages
  <2> QED BY <2>1, <2>2 DEF MediaType
<1>2. CASE o \in [op : {"other"}, at : Slots, copy : 1..2, cp : Nat]
  <2>1. Apply(m, o) = [m EXCEPT !.other[m.bay[o.at]][o.copy] = o.cp]
    BY <1>2 DEF Apply
  <2>2. [m.other EXCEPT ![m.bay[o.at]][o.copy] = o.cp] \in [Drives -> [1..2 -> Nat \cup {Bad}]]
    BY <1>2, EntryTyped DEF MediaType
  <2> QED BY <1>2, <2>1, <2>2 DEF MediaType
<1>3. CASE o \in [op : {"mbr"}, at : Slots]
  <2>1. Apply(m, o) = [m EXCEPT !.data[m.bay[o.at]][0] = 0, !.acked = [b \in Blocks |-> 0]]
    BY <1>3 DEF Apply
  <2>2. [m.data EXCEPT ![m.bay[o.at]][0] = 0] \in [Drives -> [Blocks -> Nat]]
    BY <1>3, EntryTyped DEF MediaType
  <2>3. [b \in Blocks |-> 0] \in [Blocks -> Nat]
    OBVIOUS
  <2> QED BY <2>1, <2>2, <2>3 DEF MediaType
<1> QED BY <1>1, <1>2, <1>3 DEF Orders

\* No rebuild can be resumed from the pages.
Still(F) == \A g \in Slots : ~Resumes(F, g)

\* Nothing to show of media no rebuild of which resumes.
LEMMA StillGood ==
  ASSUME NEW m, Stated(m.flash), Behind(m.flash), Still(m.flash) PROVE Good(m)
BY DEF Good, Still

\* Nothing is below zero.
LEMMA SyncNone == ASSUME NEW m, NEW g, NEW t, NEW n \in Int, n <= 0 PROVE Sync(m, g, t, n)
BY Constants DEF Sync, Blocks

\* Before a page is stored that is not that of a rebuilt member.
LEMMA StoreGood ==
  ASSUME NEW m \in MediaType, Good(m), NEW s \in Slots, NEW p \in Page, Owned(p),
         p.disk_num = s, p.status[s] \in {"GOOD", "FAILED"},
         LET t == Across(s)
         IN Mates(Put(m, s, p).flash) /\ m.flash[t].status[t] = "REBUILDING" => m.flash[t].gen < p.gen
  PROVE Good(Put(m, s, p)) /\ Still(Put(m, s, p).flash) /\ Put(m, s, p) \in MediaType
<1> DEFINE t == Across(s)
           q == Put(m, s, p)
           F == m.flash
           G == q.flash
<1>1. /\ q \in MediaType /\ t \in Slots /\ t # s /\ \A x \in Slots : x = s \/ x = t
      /\ G[s] = p /\ G[t] = F[t] /\ Across(t) = s
  BY DEF Put, MediaType, Pages, Across, Slots
<1> HIDE DEF t, q, F, G
<1>2. G = q.flash /\ F = m.flash /\ (Mates(G) /\ F[t].status[t] = "REBUILDING" => F[t].gen < p.gen)
  BY DEF t, q, G, F
<1>3. Stated(G)
  BY <1>1, <1>2 DEF Good, Stated
<1>4. Behind(G)
  <2>1. ASSUME NEW g \in Slots, Mates(G), G[Across(g)].status[Across(g)] = "REBUILDING"
        PROVE G[Across(g)].gen <= G[g].gen
    <3>1. CASE g = s
      <4>1. F[t].gen < p.gen /\ F[t].gen \in Nat /\ p.gen \in Nat
        BY <1>1, <1>2, <2>1, <3>1 DEF Page, MediaType, Pages, t
      <4> QED BY <1>1, <3>1, <4>1 DEF t
    <3>2. CASE g = t
      BY <1>1, <2>1, <3>2
    <3> QED BY <1>1, <3>1, <3>2
  <2> QED BY <2>1 DEF Behind
<1>5. Still(G)
  <2>1. ASSUME NEW g \in Slots, Resumes(G, g) PROVE FALSE
    <3>1. Mates(G) /\ G[Across(g)].status[Across(g)] = "REBUILDING" /\ G[0].gen = G[1].gen
      BY <2>1 DEF Resumes
    <3>2. G[s].gen = G[t].gen
      BY <1>1, <3>1 DEF Slots
    <3>3. CASE g = s
      <4>1. F[t].gen < p.gen /\ F[t].gen \in Nat /\ p.gen \in Nat
        BY <1>1, <1>2, <3>1, <3>3 DEF Page, MediaType, Pages, t
      <4> QED BY <1>1, <3>2, <4>1
    <3>4. CASE g = t
      BY <1>1, <3>1, <3>4
    <3> QED BY <1>1, <3>3, <3>4
  <2> QED BY <2>1 DEF Still
<1> QED BY <1>1, <1>2, <1>3, <1>4, <1>5, StillGood DEF q

\* Before the page of the rebuilt member is stored: the check points are at
\* the first threshold.
LEMMA StoreTargetGood ==
  ASSUME NEW m \in MediaType, Good(m), NEW g \in Slots, NEW p \in Page, Owned(p),
         LET t == Across(g)
         IN /\ p.disk_num = t /\ p.status[t] = "REBUILDING"
            /\ m.flash[g].status[g] = "GOOD" /\ m.flash[g].status[t] = "REBUILDING" /\ p.gen = m.flash[g].gen
            /\ Owned(m.flash[g])
            /\ \A c \in 1..2 : /\ m.other[Owner(m.flash[g])][c] = Step
                               /\ m.other[Owner(p)][c] = Step
  PROVE Good(Put(m, Across(g), p)) /\ Put(m, Across(g), p) \in MediaType
<1> DEFINE t == Across(g)
           q == Put(m, t, p)
           F == m.flash
           G == q.flash
<1>1. /\ q \in MediaType /\ t \in Slots /\ t # g /\ \A x \in Slots : x = g \/ x = t
      /\ G[t] = p /\ G[g] = F[g] /\ Across(t) = g /\ t = Across(g)
      /\ q.other = m.other
  BY DEF Put, MediaType, Pages, Across, Slots
<1>2. /\ p.disk_num = t /\ p.status[t] = "REBUILDING"
      /\ F[g].status[g] = "GOOD" /\ F[g].status[t] = "REBUILDING" /\ p.gen = F[g].gen
      /\ \A c \in 1..2 : m.other[Owner(F[g])][c] = Step /\ m.other[Owner(p)][c] = Step
      /\ G = q.flash /\ F = m.flash /\ Owned(F[g])
  OBVIOUS
<1> HIDE DEF t, q, F, G
<1>3. Stated(G)
  BY <1>1, <1>2 DEF Good, Stated
<1>4. Behind(G)
  <2>1. ASSUME NEW x \in Slots, Mates(G), G[Across(x)].status[Across(x)] = "REBUILDING"
        PROVE G[Across(x)].gen <= G[x].gen
    <3>1. G[g].gen = G[t].gen /\ G[g].gen \in Nat
      BY <1>1, <1>2 DEF Page, MediaType, Pages
    <3>2. Across(x) \in {g, t}
      BY <1>1
    <3> QED BY <1>1, <3>1, <3>2
  <2> QED BY <2>1 DEF Behind
<1>5. ASSUME NEW x \in Slots, Resumes(G, x) PROVE Resumable(q, x)
  <2>1. x = g
    BY <1>1, <1>2, <1>5 DEF Resumes
  <2> DEFINE source == Owner(G[g])
             target == Owner(G[t])
  <2>2. \A c \in 1..2 : q.other[source][c] = Step /\ q.other[target][c] = Step
    BY <1>1, <1>2
  <2>3. \A c \in 1..2 : Sync(q, source, target, q.other[source][c] - Step)
    <3>1. Step - Step \in Int /\ Step - Step <= 0
      BY Constants
    <3> QED BY <2>2, <3>1, SyncNone
  <2>4. Covers(q, source, target)
    <3>1. Step # Bad /\ Step >= Step
      BY Constants DEF Bad
    <3> QED BY <2>2, <3>1 DEF Covers
  <2>5. G[g].status[t] # "MISSING"
    BY <1>1, <1>2
  <2> HIDE DEF source, target
  <2> QED BY <1>1, <1>2, <2>1, <2>3, <2>4, <2>5 DEF Resumable, source, target
<1> QED BY <1>1, <1>2, <1>3, <1>4, <1>5 DEF Good, q, t

\* A check point v may be written to d, for the rebuild from slot g that the
\* pages can resume.
Allowed(m, g, d, v) ==
  LET source == Owner(m.flash[g])
      target == Owner(m.flash[Across(g)])
  IN  /\ d = source => Sync(m, source, target, v - Step)
      /\ g = 1 => \/ Sync(m, source, target, Size)
                  \/ /\ d = source => \A c \in 1..2 : m.other[target][c] # Bad => v <= m.other[target][c]
                     /\ d = target => v >= Step /\ \A e \in 1..2 : m.other[source][e] <= v
Allows(m, d, v) == \A g \in Slots : Resumes(m.flash, g) => Allowed(m, g, d, v)

\* Without a rebuild to resume any check point may be written.
LEMMA StillAllows == ASSUME NEW m, Still(m.flash), NEW d, NEW v PROVE Allows(m, d, v)
BY DEF Still, Allows

\* A check point that may be written leaves good media.
LEMMA CopyGood ==
  ASSUME NEW m \in MediaType, Good(m), NEW d \in Drives, NEW v \in Nat, Allows(m, d, v), NEW c \in 1..2
  PROVE LET q == [m EXCEPT !.other[d][c] = v] IN Good(q) /\ Allows(q, d, v) /\ q \in MediaType
<1> DEFINE q == [m EXCEPT !.other[d][c] = v]
<1>1. /\ q \in MediaType /\ q.flash = m.flash /\ q.data = m.data /\ q.acked = m.acked
      /\ \A x \in Drives, e \in 1..2 : q.other[x][e] = IF x = d /\ e = c THEN v ELSE m.other[x][e]
  <2>1. [m.other EXCEPT ![d][c] = v] \in [Drives -> [1..2 -> Nat \cup {Bad}]]
    BY EntryTyped DEF MediaType
  <2> QED BY <2>1 DEF MediaType
<1>2. \A x, y, n : Sync(q, x, y, n) <=> Sync(m, x, y, n)
  BY <1>1 DEF Sync
<1> HIDE DEF q
<1>3. ASSUME NEW g \in Slots, Resumes(m.flash, g) PROVE Resumable(q, g) /\ Allowed(q, g, d, v)
  <2> DEFINE source == Owner(m.flash[g])
             target == Owner(m.flash[Across(g)])
  <2>0. source \in Drives /\ target \in Drives /\ source # NoDrive
    <3>1. Across(g) \in Slots
      BY DEF Slots, Across
    <3> QED BY <1>3, <3>1 DEF Resumes, Mates, Owned, Owner, MediaType, Pages, Page, Slots
  <2>1. Resumable(m, g) /\ Allowed(m, g, d, v)
    BY <1>3 DEF Good, Allows
  <2>2. /\ m.flash[g].status[Across(g)] # "MISSING"
        /\ \A e \in 1..2 : Sync(m, source, target, m.other[source][e] - Step)
        /\ g = 1 => Sync(m, source, target, Size) \/ Covers(m, source, target)
    BY <2>1 DEF Resumable
  <2>3. /\ d = source => Sync(m, source, target, v - Step)
        /\ g = 1 => \/ Sync(m, source, target, Size)
                    \/ /\ d = source => \A e \in 1..2 : m.other[target][e] # Bad => v <= m.other[target][e]
                       /\ d = target => v >= Step /\ \A e \in 1..2 : m.other[source][e] <= v
    BY <2>1 DEF Allowed
  <2>4. \A x \in Drives, e \in 1..2 : m.other[x][e] \in Nat \cup {Bad}
    BY DEF MediaType
  <2> HIDE DEF source, target
  <2>5. \A e \in 1..2 : Sync(q, source, target, q.other[source][e] - Step)
    BY <1>1, <1>2, <2>0, <2>2, <2>3
  <2>6. ASSUME g = 1, ~Sync(q, source, target, Size)
        PROVE /\ Covers(q, source, target)
              /\ d = source => \A e \in 1..2 : q.other[target][e] # Bad => v <= q.other[target][e]
              /\ d = target => v >= Step /\ \A e \in 1..2 : q.other[source][e] <= v
    <3>1. /\ Covers(m, source, target)
          /\ d = source => \A e \in 1..2 : m.other[target][e] # Bad => v <= m.other[target][e]
          /\ d = target => v >= Step /\ \A e \in 1..2 : m.other[source][e] <= v
      BY <1>2, <2>2, <2>3, <2>6
    <3>2. v # Bad
      BY DEF Bad
    <3>3. \E e \in 1..2 : q.other[target][e] # Bad
      BY <1>1, <2>0, <3>1, <3>2 DEF Covers
    <3>4. ASSUME NEW e \in 1..2, q.other[target][e] # Bad, NEW f \in 1..2
          PROVE q.other[target][e] >= Step /\ q.other[source][f] <= q.other[target][e]
      <4>1. /\ q.other[target][e] = IF target = d /\ e = c THEN v ELSE m.other[target][e]
            /\ q.other[source][f] = IF source = d /\ f = c THEN v ELSE m.other[source][f]
        BY <1>1, <2>0
      <4>2. m.other[target][e] # Bad => m.other[target][e] >= Step /\ m.other[source][f] <= m.other[target][e]
        BY <3>1 DEF Covers
      <4> QED BY <3>1, <3>4, <4>1, <4>2
    <3>5. d = source => \A e \in 1..2 : q.other[target][e] # Bad => v <= q.other[target][e]
      BY <1>1, <2>0, <3>1
    <3>6. d = target => v >= Step /\ \A e \in 1..2 : q.other[source][e] <= v
      BY <1>1, <2>0, <3>1
    <3> QED BY <3>3, <3>4, <3>5, <3>6 DEF Covers
  <2>7. Resumable(q, g)
    BY <1>1, <2>2, <2>5, <2>6 DEF Resumable, source, target
  <2>8. Allowed(q, g, d, v)
    BY <1>1, <1>2, <2>3, <2>6 DEF Allowed, source, target
  <2> QED BY <2>7, <2>8
<1>4. Good(q) /\ Allows(q, d, v)
  BY <1>1, <1>3 DEF Good, Allows
<1> QED BY <1>1, <1>4 DEF q

----------------------------------------------------------------------------
(* Both copies of the check point of a drive; what the state in RAM and    *)
(* the writes it ordered lead to (Ordered).                                *)

\* The orders of r lead from the media m to n, with the drives that r sees.
Ordered(r, m, n) ==
  /\ Rested(r) /\ m \in MediaType /\ n \in MediaType /\ m.bay = r.bay /\ n.bay = r.bay
  /\ Leads(m, r.io, n) /\ Paired(r.io)

\* No writes are paired.
LEMMA PairedNone == Paired(<< >>)
BY DEF Paired

\* One more write, not of a check point.
LEMMA PairedMore ==
  ASSUME NEW io \in Seq(Orders), Paired(io), NEW o \in Orders, o.op # "other" PROVE Paired(Append(io, o))
<1> DEFINE q == Append(io, o)
           N == Len(io)
<1>1. N \in Nat /\ Len(q) = N + 1 /\ q[N + 1] = o /\ \A k \in 1..N : q[k] = io[k]
  OBVIOUS
<1> HIDE DEF q
<1> SUFFICES ASSUME NEW k \in 1..N + 1, q[k].op = "other"
             PROVE LET j == Partner(q, k)
                   IN j \in 1..N + 1 /\ q[j].op = "other" /\ q[j].at = q[k].at /\ q[j].copy # q[k].copy
  BY <1>1 DEF Paired, q
<1>2. k \in 1..N /\ q[k] = io[k]
  BY <1>1
<1>3. Partner(q, k) = Partner(io, k) /\ Partner(io, k) \in 1..N
  BY <1>2 DEF Paired, Partner
<1>4. q[Partner(io, k)] = io[Partner(io, k)]
  BY <1>1, <1>3
<1> HIDE DEF N
<1> QED BY <1>1, <1>2, <1>3, <1>4 DEF Paired, N

\* Both copies of a check point.
LEMMA PairedBoth ==
  ASSUME NEW io \in Seq(Orders), Paired(io), NEW s \in Slots, NEW v \in Nat
  PROVE LET o(c) == [op |-> "other", at |-> s, copy |-> c, cp |-> v]
        IN Paired(Append(Append(io, o(1)), o(2)))
<1> DEFINE o(c) == [op |-> "other", at |-> s, copy |-> c, cp |-> v]
           q == Append(Append(io, o(1)), o(2))
           N == Len(io)
<1>1. /\ N \in Nat /\ Len(q) = N + 2 /\ q[N + 1] = o(1) /\ q[N + 2] = o(2)
      /\ \A k \in 1..N : q[k] = io[k]
  <2> HIDE DEF o
  <2> QED OBVIOUS
<1>2. \A c \in 1..2 : o(c).op = "other" /\ o(c).at = s /\ o(c).copy = c
  OBVIOUS
<1> HIDE DEF q, o
<1> SUFFICES ASSUME NEW k \in 1..N + 2, q[k].op = "other"
             PROVE LET j == Partner(q, k)
                   IN j \in 1..N + 2 /\ q[j].op = "other" /\ q[j].at = q[k].at /\ q[j].copy # q[k].copy
  BY <1>1 DEF Paired, q, o
<1>3. CASE k \in 1..N
  <2>1. q[k] = io[k] /\ Partner(q, k) = Partner(io, k)
    BY <1>1, <1>3 DEF Partner
  <2>2. Partner(io, k) \in 1..N /\ q[Partner(io, k)] = io[Partner(io, k)]
    BY <1>1, <1>3, <2>1 DEF Paired
  <2> QED BY <1>1, <1>3, <2>1, <2>2 DEF Paired
<1>4. CASE k = N + 1
  <2>1. q[k].copy = 1 /\ Partner(q, k) = N + 2
    BY <1>1, <1>2, <1>4 DEF Partner
  <2> QED BY <1>1, <1>2, <1>4, <2>1
<1>5. CASE k = N + 2
  <2>1. q[k].copy = 2 /\ Partner(q, k) = N + 1
    BY <1>1, <1>2, <1>5 DEF Partner
  <2> QED BY <1>1, <1>2, <1>5, <2>1
<1> QED BY <1>1, <1>3, <1>4, <1>5

\* After the first write: the second copy is next, or the writes are still
\* paired.
LEMMA PairedTail ==
  ASSUME NEW io \in Seq(Orders), io # << >>, Paired(io)
  PROVE IF Head(io).op = "other"
        THEN /\ Head(io).copy = 1 /\ Tail(io) # << >> /\ Paired(Tail(Tail(io)))
             /\ Head(Tail(io)).op = "other" /\ Head(Tail(io)).at = Head(io).at /\ Head(Tail(io)).copy = 2
        ELSE Paired(Tail(io))
<1> DEFINE t == Tail(io)
           N == Len(io)
<1>1. /\ N \in Nat /\ N >= 1 /\ Head(io) = io[1] /\ t \in Seq(Orders) /\ Len(t) = N - 1
      /\ \A k \in 1..N - 1 : t[k] = io[k + 1]
  OBVIOUS
<1>2. \A k \in 1..N : io[k] \in Orders /\ (io[k].op = "other" => io[k].copy \in 1..2 /\ io[k].at \in Slots)
  BY DEF Orders
<1>3. \A k \in 1..N : io[k].op = "other" =>
        LET j == Partner(io, k)
        IN j \in 1..N /\ io[j].op = "other" /\ io[j].at = io[k].at /\ io[j].copy # io[k].copy
  BY DEF Paired
<1> HIDE DEF t, N
<1>4. CASE Head(io).op = "other"
  <2>1. io[1].copy = 1 /\ 2 \in 1..N /\ io[2].op = "other" /\ io[2].at = io[1].at /\ io[2].copy = 2
    <3>1. 1 \in 1..N /\ io[1].op = "other"
      BY <1>1, <1>4
    <3>2. io[1].copy = 1
      BY <1>1, <1>2, <1>3, <3>1 DEF Partner
    <3>3. Partner(io, 1) = 2
      BY <3>2 DEF Partner
    <3> QED BY <1>2, <1>3, <3>1, <3>2, <3>3
  <2>2. Head(t) = io[2] /\ t # << >> /\ Len(Tail(t)) = N - 2 /\ \A k \in 1..N - 2 : Tail(t)[k] = io[k + 2]
    <3>1. Len(t) >= 1 /\ t # << >>
      BY <1>1, <2>1
    <3>2. Head(t) = t[1] /\ Len(Tail(t)) = Len(t) - 1 /\ \A k \in 1..Len(t) - 1 : Tail(t)[k] = t[k + 1]
      BY <1>1, <3>1
    <3>3. \A k \in 1..N - 2 : k + 1 \in 1..N - 1 /\ (k + 1) + 1 = k + 2
      BY <1>1
    <3>4. 1 \in 1..N - 1
      BY <1>1, <2>1
    <3> QED BY <1>1, <3>1, <3>2, <3>3, <3>4
  <2>3. Paired(Tail(t))
    <3> DEFINE u == Tail(t)
    <3>1. Len(u) = N - 2 /\ \A k \in 1..N - 2 : u[k] = io[k + 2]
      BY <2>2
    <3> HIDE DEF u
    <3> SUFFICES ASSUME NEW k \in 1..N - 2, u[k].op = "other"
                 PROVE LET j == Partner(u, k)
                       IN j \in 1..N - 2 /\ u[j].op = "other" /\ u[j].at = u[k].at /\ u[j].copy # u[k].copy
      BY <3>1 DEF Paired, u
    <3>2. k + 2 \in 1..N /\ u[k] = io[k + 2]
      BY <1>1, <3>1
    <3>3. Partner(io, k + 2) = Partner(u, k) + 2 /\ Partner(u, k) \in Int
      BY <3>2 DEF Partner
    <3>4. /\ Partner(u, k) + 2 \in 1..N /\ io[Partner(u, k) + 2].op = "other" /\ io[Partner(u, k) + 2].at = u[k].at
          /\ io[Partner(u, k) + 2].copy # u[k].copy
      BY <1>3, <3>2, <3>3
    <3>5. Partner(u, k) # -1
      BY <3>2 DEF Partner
    <3>6. Partner(u, k) # 0
      <4>1. SUFFICES ASSUME Partner(u, k) = 0 PROVE FALSE
        OBVIOUS
      <4>2. k = 1 /\ u[k].copy # 1
        BY <3>2, <4>1 DEF Partner
      <4>3. u[k].copy = 2
        BY <1>2, <3>2, <4>2
      <4> QED BY <2>1, <3>4, <4>1, <4>3
    <3>7. Partner(u, k) \in 1..N - 2
      BY <1>1, <3>3, <3>4, <3>5, <3>6
    <3> QED BY <3>1, <3>4, <3>7
  <2> QED BY <1>1, <1>4, <2>1, <2>2, <2>3 DEF t
<1>5. CASE Head(io).op # "other"
  <2> SUFFICES ASSUME NEW k \in 1..N - 1, t[k].op = "other"
               PROVE LET j == Partner(t, k)
                     IN j \in 1..N - 1 /\ t[j].op = "other" /\ t[j].at = t[k].at /\ t[j].copy # t[k].copy
    BY <1>1, <1>5 DEF Paired, t
  <2>1. k + 1 \in 1..N /\ t[k] = io[k + 1]
    BY <1>1
  <2>2. Partner(io, k + 1) = Partner(t, k) + 1 /\ Partner(t, k) \in Int
    BY <2>1 DEF Partner
  <2>3. /\ Partner(t, k) + 1 \in 1..N /\ io[Partner(t, k) + 1].op = "other" /\ io[Partner(t, k) + 1].at = t[k].at
        /\ io[Partner(t, k) + 1].copy # t[k].copy
    BY <1>3, <2>1, <2>2
  <2>4. Partner(t, k) # 0
    BY <1>1, <1>5, <2>3
  <2>5. Partner(t, k) \in 1..N - 1
    BY <1>1, <2>2, <2>3, <2>4
  <2> QED BY <1>1, <2>3, <2>5
<1> QED BY <1>4, <1>5

\* Two writes before the others, not of check points.
LEMMA PairedAfter ==
  ASSUME NEW io \in Seq(Orders), Paired(io), NEW w \in Seq(Orders), Len(w) = 2, w[1].op # "other", w[2].op # "other"
  PROVE Paired(w \o io)
<1> DEFINE q == w \o io
           N == Len(io)
<1>1. N \in Nat /\ Len(q) = N + 2 /\ q[1] = w[1] /\ q[2] = w[2] /\ \A k \in 3..N + 2 : q[k] = io[k - 2]
  <2>1. Len(q) = 2 + Len(io) /\ (\A k \in 1..2 : q[k] = w[k]) /\ (\A k \in 3..Len(q) : q[k] = io[k - 2])
    BY TwoMore
  <2> QED BY <2>1
<1> HIDE DEF q
<1> SUFFICES ASSUME NEW k \in 1..N + 2, q[k].op = "other"
             PROVE LET j == Partner(q, k)
                   IN j \in 1..N + 2 /\ q[j].op = "other" /\ q[j].at = q[k].at /\ q[j].copy # q[k].copy
  BY <1>1 DEF Paired, q
<1>2. k \in 3..N + 2 /\ q[k] = io[k - 2] /\ k - 2 \in 1..N
  BY <1>1
<1>3. Partner(io, k - 2) = Partner(q, k) - 2 /\ Partner(q, k) \in Int
  BY <1>2 DEF Partner
<1> HIDE DEF N
<1>4. /\ Partner(q, k) - 2 \in 1..N /\ io[Partner(q, k) - 2].op = "other" /\ io[Partner(q, k) - 2].at = q[k].at
      /\ io[Partner(q, k) - 2].copy # q[k].copy
  BY <1>2, <1>3 DEF Paired, N
<1>5. Partner(q, k) \in 3..N + 2
  BY <1>1, <1>3, <1>4
<1> QED BY <1>1, <1>4, <1>5

\* What Fill changes.
LEMMA FillIsMedia ==
  ASSUME NEW n \in MediaType, NEW s \in Slots, n.bay[s] # NoDrive, NEW v \in Nat
  PROVE LET q == Fill(n, s, v)
        IN /\ q \in MediaType
           /\ q.flash = n.flash /\ q.data = n.data /\ q.acked = n.acked /\ q.bay = n.bay
           /\ \A d \in Drives, c \in 1..2 : q.other[d][c] = IF d = n.bay[s] THEN v ELSE n.other[d][c]
<1> DEFINE d == n.bay[s]
           w == [n.other EXCEPT ![d] = [c \in 1..2 |-> v]]
<1>1. d \in Drives
  BY DEF MediaType, Bays
<1>2. w \in [Drives -> [1..2 -> Nat \cup {Bad}]] /\ \A x \in Drives, c \in 1..2 : w[x][c] = IF x = d THEN v ELSE n.other[x][c]
  <2>1. [c \in 1..2 |-> v] \in [1..2 -> Nat \cup {Bad}]
    OBVIOUS
  <2>2. n.other \in [Drives -> [1..2 -> Nat \cup {Bad}]]
    BY DEF MediaType
  <2> HIDE DEF d
  <2> QED BY <1>1, <2>1, <2>2
<1>3. Fill(n, s, v) = [n EXCEPT !.other = w]
  BY DEF Fill, MediaType
<1> HIDE DEF w, d
<1> QED BY <1>2, <1>3 DEF MediaType, d

\* One copy of the check point of drive d is written.
Copied(n, d, c, v) == [n EXCEPT !.other[d][c] = v]

\* Fill writes the two copies.
LEMMA FillTwice ==
  ASSUME NEW n \in MediaType, NEW s \in Slots, n.bay[s] # NoDrive, NEW v \in Nat
  PROVE Copied(Copied(n, n.bay[s], 1, v), n.bay[s], 2, v) = Fill(n, s, v)
<1> DEFINE d == n.bay[s]
           a == [n.other EXCEPT ![d][1] = v]
           b == [a EXCEPT ![d][2] = v]
           w == [n.other EXCEPT ![d] = [c \in 1..2 |-> v]]
<1>1. d \in Drives /\ n.other \in [Drives -> [1..2 -> Nat \cup {Bad}]]
  BY DEF MediaType, Bays
<1>2. a \in [Drives -> [1..2 -> Nat \cup {Bad}]] /\ b \in [Drives -> [1..2 -> Nat \cup {Bad}]]
  <2> HIDE DEF d
  <2>1. a \in [Drives -> [1..2 -> Nat \cup {Bad}]]
    BY <1>1, EntryTyped
  <2> HIDE DEF a
  <2> QED BY <2>1, EntryTyped
<1>3. w \in [Drives -> [1..2 -> Nat \cup {Bad}]]
  <2>1. [c \in 1..2 |-> v] \in [1..2 -> Nat \cup {Bad}]
    OBVIOUS
  <2> HIDE DEF d
  <2> QED BY <1>1, <2>1
<1>4. ASSUME NEW x \in Drives PROVE b[x] = w[x]
  <2>1. b[x] \in [1..2 -> Nat \cup {Bad}] /\ w[x] \in [1..2 -> Nat \cup {Bad}]
    BY <1>2, <1>3
  <2>2. ASSUME NEW c \in 1..2 PROVE b[x][c] = w[x][c]
    <3> HIDE DEF d
    <3>1. CASE c = 1
      BY <1>1, <3>1
    <3>2. CASE c = 2
      BY <1>1, <3>2
    <3> QED BY <3>1, <3>2
  <2> HIDE DEF b, w
  <2> QED BY <2>1, <2>2
<1>5. b = w
  <2> HIDE DEF b, w
  <2> QED BY <1>2, <1>3, <1>4
<1>6. [[n EXCEPT !.other[d][1] = v] EXCEPT !.other[d][2] = v] = [n EXCEPT !.other = b]
  BY DEF MediaType
<1>7. Fill(n, s, v) = [n EXCEPT !.other = w]
  BY DEF Fill, MediaType
<1>8. Copied(Copied(n, n.bay[s], 1, v), n.bay[s], 2, v) = [[n EXCEPT !.other[d][1] = v] EXCEPT !.other[d][2] = v]
  BY DEF Copied
<1> QED BY <1>5, <1>6, <1>7, <1>8

\* WriteOther orders a check point that may be written.
LEMMA OtherOrdered ==
  ASSUME NEW r, NEW m, NEW n, Ordered(r, m, n), NEW s \in Slots,
         Ready(r, s) => Allows(n, r.bay[s], r.cp[s])
  PROVE LET q == WriteOther(r, s)
        IN Ordered(q, m, IF Ready(r, s) THEN Fill(n, s, r.cp[s]) ELSE n)
<1> DEFINE q == WriteOther(r, s)
           v == r.cp[s]
           d == r.bay[s]
           o(c) == [op |-> "other", at |-> s, copy |-> c, cp |-> v]
           p == [c \in 1..2 |-> o(c)]
<1>1. CASE ~Ready(r, s)
  BY <1>1 DEF WriteOther, Ordered
<1>2. CASE Ready(r, s)
  <2>1. Rested(q)
    BY WriteOtherRests DEF Ordered
  <2>2. /\ r.io \in Seq(Orders) /\ o(1) \in Orders /\ o(2) \in Orders /\ v \in Nat
        /\ d \in Drives /\ d = n.bay[s] /\ n \in MediaType /\ n.bay[s] # NoDrive
    BY <1>2 DEF Ordered, Rested, RamType, Orders, Ready, Bays
  <2>3. q.io = Append(Append(r.io, o(1)), o(2)) /\ q.bay = r.bay
    <3>1. q = [r EXCEPT !.io = @ \o p]
      BY <1>2 DEF WriteOther
    <3>2. p = <<o(1), o(2)>>
      <4> HIDE DEF v
      <4> QED OBVIOUS
    <3>3. r.io \o <<o(1), o(2)>> = Append(Append(r.io, o(1)), o(2))
      <4> HIDE DEF o
      <4> QED BY <2>2
    <3> HIDE DEF p, o
    <3> QED BY <3>1, <3>2, <3>3 DEF Ordered, Rested, RamType
  <2>4. Good(n) /\ Leads(m, r.io, n)
    BY <2>2, LeadsEnds DEF Ordered
  <2> DEFINE n1 == [n EXCEPT !.other[d][1] = v]
             n2 == [n1 EXCEPT !.other[d][2] = v]
  <2>5. Good(n1) /\ Allows(n1, d, v) /\ n1 \in MediaType
    <3>1. Allows(n, d, v) /\ 1 \in 1..2
      BY <1>2
    <3> HIDE DEF d, v
    <3> QED BY <2>2, <2>4, <3>1, CopyGood
  <2>6. Good(n2) /\ n2 \in MediaType
    <3>1. 2 \in 1..2
      OBVIOUS
    <3> HIDE DEF d, v, n1
    <3> QED BY <2>2, <2>5, <3>1, CopyGood DEF n2
  <2>7. Apply(n, o(1)) = n1 /\ Apply(n1, o(2)) = n2
    <3>1. n1.bay = n.bay
      OBVIOUS
    <3>2. Apply(n1, o(2)) = [n1 EXCEPT !.other[n1.bay[s]][2] = v]
      <4> HIDE DEF n1, v
      <4> QED BY DEF Apply
    <3>3. Apply(n, o(1)) = [n EXCEPT !.other[n.bay[s]][1] = v]
      <4> HIDE DEF v
      <4> QED BY DEF Apply
    <3> HIDE DEF d, v, n1, o
    <3> QED BY <2>2, <3>1, <3>2, <3>3 DEF n1, n2
  <2>8. Leads(m, Append(r.io, o(1)), n1)
    <3> HIDE DEF n1, o, d, v
    <3> QED BY <2>2, <2>4, <2>5, <2>7, LeadsOn
  <2>9. Leads(m, Append(Append(r.io, o(1)), o(2)), n2)
    <3> HIDE DEF n2, n1, o, d, v
    <3>1. Append(r.io, o(1)) \in Seq(Orders)
      BY <2>2
    <3> QED BY <2>2, <2>6, <2>7, <2>8, <3>1, LeadsOn
  <2>10. n2 = Fill(n, s, v) /\ Fill(n, s, v).bay = n.bay
    <3>1. Copied(Copied(n, n.bay[s], 1, v), n.bay[s], 2, v) = Fill(n, s, v)
      <4> HIDE DEF v
      <4> QED BY <2>2, FillTwice
    <3>2. n2 = Copied(Copied(n, n.bay[s], 1, v), n.bay[s], 2, v)
      BY <2>2 DEF Copied
    <3>3. Fill(n, s, v).bay = n.bay
      <4> HIDE DEF v
      <4> QED BY <2>2, FillIsMedia
    <3> QED BY <3>1, <3>2, <3>3
  <2>11. Paired(q.io)
    <3>1. Paired(Append(Append(r.io, o(1)), o(2)))
      <4>1. Paired(r.io)
        BY DEF Ordered
      <4> HIDE DEF v
      <4> QED BY <2>2, <4>1, PairedBoth
    <3> QED BY <2>3, <3>1
  <2> HIDE DEF q, v, d, o, n1, n2
  <2> QED BY <1>2, <2>1, <2>3, <2>6, <2>9, <2>10, <2>11 DEF Ordered, q, v
<1> QED BY <1>1, <1>2

----------------------------------------------------------------------------
(* SetCheckPoint: the check points of both drives.                         *)

\* The media n and q differ in the check points only.
OtherThan(q, n) == q.flash = n.flash /\ q.data = n.data /\ q.acked = n.acked /\ q.bay = n.bay

\* Sync does not look at check points.
LEMMA OtherThanSync ==
  ASSUME NEW n, NEW q, OtherThan(q, n)
  PROVE \A x, y, b : Sync(q, x, y, b) <=> Sync(n, x, y, b)
BY DEF OtherThan, Sync

\* A value that may be written to two drives may be written to one after the other.
LEMMA FillAllows ==
  ASSUME NEW n \in MediaType, Good(n), NEW s \in Slots, n.bay[s] # NoDrive, NEW v \in Nat, Allows(n, n.bay[s], v),
         NEW x \in Drives, Allows(n, x, v)
  PROVE Allows(Fill(n, s, v), x, v)
<1> DEFINE q == Fill(n, s, v)
           d == n.bay[s]
<1>1. /\ q \in MediaType /\ OtherThan(q, n)
      /\ \A y \in Drives, c \in 1..2 : q.other[y][c] = IF y = d THEN v ELSE n.other[y][c]
  BY FillIsMedia DEF OtherThan
<1>2. \A a, b, k : Sync(q, a, b, k) <=> Sync(n, a, b, k)
  BY <1>1, OtherThanSync
<1>3. q.flash = n.flash
  BY <1>1 DEF OtherThan
<1> HIDE DEF q, d
<1>4. ASSUME NEW g \in Slots, Resumes(n.flash, g) PROVE Allowed(q, g, x, v)
  <2> DEFINE source == Owner(n.flash[g])
             target == Owner(n.flash[Across(g)])
  <2>0. source \in Drives /\ target \in Drives
    <3>1. Across(g) \in Slots
      BY DEF Slots, Across
    <3> QED BY <1>4, <3>1 DEF Resumes, Mates, Owned, Owner, MediaType, Pages, Page, Slots
  <2>1. Allowed(n, g, x, v)
    BY <1>4 DEF Allows
  <2>2. /\ x = source => Sync(n, source, target, v - Step)
        /\ g = 1 => \/ Sync(n, source, target, Size)
                    \/ /\ x = source => \A e \in 1..2 : n.other[target][e] # Bad => v <= n.other[target][e]
                       /\ x = target => v >= Step /\ \A e \in 1..2 : n.other[source][e] <= v
    BY <2>1 DEF Allowed
  <2>3. \A y \in Drives, e \in 1..2 : n.other[y][e] \in Nat \cup {Bad}
    BY DEF MediaType
  <2> HIDE DEF source, target
  <2>4. \A e \in 1..2 : /\ q.other[target][e] = IF target = d THEN v ELSE n.other[target][e]
                        /\ q.other[source][e] = IF source = d THEN v ELSE n.other[source][e]
    BY <1>1, <2>0
  <2>5. x = source => Sync(q, source, target, v - Step)
    BY <1>2, <2>2
  <2>6. ASSUME g = 1, ~Sync(q, source, target, Size)
        PROVE /\ x = source => \A e \in 1..2 : q.other[target][e] # Bad => v <= q.other[target][e]
              /\ x = target => v >= Step /\ \A e \in 1..2 : q.other[source][e] <= v
    <3>1. /\ x = source => \A e \in 1..2 : n.other[target][e] # Bad => v <= n.other[target][e]
          /\ x = target => v >= Step /\ \A e \in 1..2 : n.other[source][e] <= v
      BY <1>2, <2>2, <2>6
    <3>2. v <= v
      OBVIOUS
    <3> QED BY <2>4, <3>1, <3>2
  <2> QED BY <1>3, <2>5, <2>6 DEF Allowed, source, target
<1> QED BY <1>3, <1>4 DEF Allows, q

\* Two drives, one after the other.
LEMMA OthersOrdered ==
  ASSUME NEW r, NEW m, NEW n, Ordered(r, m, n),
         Ready(r, 0) => Allows(n, r.bay[0], r.cp[0]),
         Ready(r, 1) => Allows(IF Ready(r, 0) THEN Fill(n, 0, r.cp[0]) ELSE n, r.bay[1], r.cp[1])
  PROVE \E p : /\ Ordered(WriteOthers(r), m, p) /\ OtherThan(p, n)
               /\ \A d \in Drives, c \in 1..2 :
                    p.other[d][c] = IF Ready(r, 1) /\ d = r.bay[1] THEN r.cp[1]
                                    ELSE IF Ready(r, 0) /\ d = r.bay[0] THEN r.cp[0] ELSE n.other[d][c]
<1> DEFINE q == WriteOther(r, 0)
           k == IF Ready(r, 0) THEN Fill(n, 0, r.cp[0]) ELSE n
           w == WriteOther(q, 1)
           p == IF Ready(q, 1) THEN Fill(k, 1, q.cp[1]) ELSE k
<1>0. /\ 0 \in Slots /\ 1 \in Slots /\ Rested(r) /\ n \in MediaType /\ n.bay = r.bay
      /\ r.cp[0] \in Nat /\ r.cp[1] \in Nat
  BY DEF Slots, Ordered, Rested, RamType
<1>1. Ordered(q, m, k)
  BY <1>0, OtherOrdered
<1>2. q.bay = r.bay /\ q.cp = r.cp /\ (Ready(q, 1) <=> Ready(r, 1))
  BY <1>0 DEF WriteOther, Ready, Rested, RamType
<1>3. Ordered(w, m, p)
  <2>1. Ready(q, 1) => Allows(k, q.bay[1], q.cp[1])
    BY <1>2
  <2> HIDE DEF q, k
  <2> QED BY <1>0, <1>1, <2>1, OtherOrdered
<1>4. /\ k \in MediaType /\ OtherThan(k, n)
      /\ \A d \in Drives, c \in 1..2 : k.other[d][c] = IF Ready(r, 0) /\ d = r.bay[0] THEN r.cp[0] ELSE n.other[d][c]
  <2>1. CASE Ready(r, 0)
    <3>1. n.bay[0] # NoDrive
      BY <1>0, <2>1 DEF Ready
    <3> QED BY <1>0, <2>1, <3>1, FillIsMedia DEF OtherThan
  <2>2. CASE ~Ready(r, 0)
    BY <1>0, <2>2 DEF OtherThan
  <2> QED BY <2>1, <2>2
<1>5. /\ OtherThan(p, k)
      /\ \A d \in Drives, c \in 1..2 : p.other[d][c] = IF Ready(r, 1) /\ d = r.bay[1] THEN r.cp[1] ELSE k.other[d][c]
  <2> HIDE DEF k, q
  <2>1. k.bay = r.bay
    BY <1>0, <1>4 DEF OtherThan
  <2>2. CASE Ready(r, 1)
    <3>1. k.bay[1] # NoDrive
      BY <2>1, <2>2 DEF Ready
    <3> QED BY <1>0, <1>2, <1>4, <2>1, <2>2, <3>1, FillIsMedia DEF OtherThan
  <2>3. CASE ~Ready(r, 1)
    BY <1>2, <2>3 DEF OtherThan
  <2> QED BY <2>2, <2>3
<1>6. WriteOthers(r) = w
  BY DEF WriteOthers
<1> HIDE DEF q, k, p, w
<1>7. OtherThan(p, n)
  BY <1>4, <1>5 DEF OtherThan
<1> QED BY <1>3, <1>4, <1>5, <1>6, <1>7

\* SetCheckPoint orders a check point that may be written to each drive.
LEMMA SetOrdered ==
  ASSUME NEW r, NEW m, NEW n, Ordered(r, m, n), NEW v \in Nat,
         \A s \in Slots : Ready(r, s) => Allows(n, r.bay[s], v)
  PROVE \E p : /\ Ordered(SetCheckPoint(r, v), m, p) /\ OtherThan(p, n)
               /\ \A d \in Drives, c \in 1..2 :
                    p.other[d][c] = IF \E s \in Slots : Ready(r, s) /\ d = r.bay[s] THEN v ELSE n.other[d][c]
<1> DEFINE q == [r EXCEPT !.cp = [s \in Slots |-> v]]
<1>0. 0 \in Slots /\ 1 \in Slots /\ Rested(r) /\ n \in MediaType /\ n.bay = r.bay /\ Good(n)
  <2>1. r.io \in Seq(Orders)
    BY DEF Ordered, Rested, RamType
  <2> QED BY <2>1, LeadsEnds DEF Slots, Ordered
<1>1. /\ Rested(q) /\ q.bay = r.bay /\ q.io = r.io /\ q.cp[0] = v /\ q.cp[1] = v
      /\ \A s \in Slots : Ready(q, s) <=> Ready(r, s)
  BY <1>0 DEF Rested, RamType, Ready
<1>2. Ordered(q, m, n)
  <2> HIDE DEF q
  <2> QED BY <1>1 DEF Ordered
<1> HIDE DEF q
<1>3. Ready(q, 0) => Allows(n, q.bay[0], q.cp[0])
  BY <1>0, <1>1
<1>4. Ready(q, 1) => Allows(IF Ready(q, 0) THEN Fill(n, 0, q.cp[0]) ELSE n, q.bay[1], q.cp[1])
  <2>1. CASE Ready(q, 0) /\ Ready(q, 1)
    <3>1. n.bay[0] # NoDrive /\ r.bay[1] \in Drives /\ Allows(n, n.bay[0], v) /\ Allows(n, r.bay[1], v)
      BY <1>0, <1>1, <2>1 DEF Ready, Rested, RamType, Bays
    <3>2. Allows(Fill(n, 0, v), r.bay[1], v)
      BY <1>0, <3>1, FillAllows
    <3> QED BY <1>1, <2>1, <3>2
  <2>2. CASE ~Ready(q, 0)
    BY <1>0, <1>1, <2>2
  <2> QED BY <2>1, <2>2
<1>5. PICK p : /\ Ordered(WriteOthers(q), m, p) /\ OtherThan(p, n)
               /\ \A d \in Drives, c \in 1..2 :
                    p.other[d][c] = IF Ready(q, 1) /\ d = q.bay[1] THEN q.cp[1]
                                    ELSE IF Ready(q, 0) /\ d = q.bay[0] THEN q.cp[0] ELSE n.other[d][c]
  BY <1>2, <1>3, <1>4, OthersOrdered
<1>6. ASSUME NEW d \in Drives, NEW c \in 1..2
      PROVE p.other[d][c] = IF \E s \in Slots : Ready(r, s) /\ d = r.bay[s] THEN v ELSE n.other[d][c]
  BY <1>0, <1>1, <1>5 DEF Slots
<1>7. WriteOthers(q) = SetCheckPoint(r, v)
  BY DEF q, SetCheckPoint
<1> QED BY <1>5, <1>6, <1>7

\* Sector 0 of a drive is cleaned.
LEMMA WipeOrdered ==
  ASSUME NEW r, NEW m, NEW n, Ordered(r, m, n), NEW s \in Slots
  PROVE \E p : /\ Ordered(WipeMbr(r, s), m, p) /\ p.flash = n.flash /\ p.other = n.other /\ p.bay = n.bay
<1> DEFINE o == [op |-> "mbr", at |-> s]
           p == Apply(n, o)
<1>1. CASE ~Ready(r, s)
  BY <1>1 DEF WipeMbr
<1>2. CASE Ready(r, s)
  <2>1. /\ r.io \in Seq(Orders) /\ o \in Orders /\ n \in MediaType /\ Good(n) /\ Leads(m, r.io, n)
        /\ r \in RamType /\ n.bay = r.bay
    <3>1. r.io \in Seq(Orders) /\ r \in RamType
      BY DEF Ordered, Rested, RamType
    <3> QED BY <3>1, LeadsEnds DEF Ordered, Orders
  <2>2. p = [n EXCEPT !.data[n.bay[s]][0] = 0, !.acked = [b \in Blocks |-> 0]] /\ p \in MediaType
    <3>1. p \in MediaType
      <4> HIDE DEF o
      <4> QED BY <2>1, ApplyTyped
    <3> QED BY <3>1 DEF Apply
  <2>3. p.flash = n.flash /\ p.other = n.other /\ p.bay = n.bay /\ p.acked = [b \in Blocks |-> 0]
        /\ p.data = [n.data EXCEPT ![n.bay[s]][0] = 0]
    <3> HIDE DEF p, o
    <3> QED BY <2>1, <2>2 DEF MediaType
  <2> HIDE DEF p
  <2>4. ASSUME NEW x \in Drives, NEW y \in Drives, NEW k \in Int, Sync(n, x, y, k) PROVE Sync(p, x, y, k)
    <3> SUFFICES ASSUME NEW b \in Blocks, b < k, p.data[x][b] <= p.acked[b]
                 PROVE p.data[y][b] >= p.data[x][b]
      BY DEF Sync
    <3>1. p.data[x][b] \in Nat /\ p.data[y][b] \in Nat /\ p.acked[b] = 0
      <4>1. p.data \in [Drives -> [Blocks -> Nat]]
        BY <2>2 DEF MediaType
      <4> QED BY <2>3, <4>1
    <3> QED BY <3>1
  <2>5. Good(p)
    <3>1. ASSUME NEW g \in Slots, Resumes(n.flash, g) PROVE Resumable(p, g)
      <4> DEFINE source == Owner(n.flash[g])
                 target == Owner(n.flash[Across(g)])
      <4>1. Resumable(n, g)
        BY <2>1, <3>1 DEF Good
      <4>2. source \in Drives /\ target \in Drives
        <5>1. Across(g) \in Slots
          BY DEF Slots, Across
        <5> QED BY <2>1, <3>1, <5>1 DEF Resumes, Mates, Owned, Owner, MediaType, Pages, Page, Slots
      <4>3. \A c \in 1..2 : n.other[source][c] - Step \in Int
        <5>1. n.other \in [Drives -> [1..2 -> Nat \cup {Bad}]] /\ Step \in Int
          BY <2>1, Constants DEF MediaType
        <5> HIDE DEF source
        <5> QED BY <4>2, <5>1 DEF Bad
      <4>4. Size \in Int
        BY Constants
      <4> HIDE DEF source, target
      <4>5. /\ \A c \in 1..2 : Sync(n, source, target, n.other[source][c] - Step)
            /\ g = 1 => Sync(n, source, target, Size) \/ Covers(n, source, target)
            /\ n.flash[g].status[Across(g)] # "MISSING"
        BY <4>1 DEF Resumable, source, target
      <4>6. \A c \in 1..2 : Sync(p, source, target, p.other[source][c] - Step)
        BY <2>3, <2>4, <4>2, <4>3, <4>5
      <4>7. g = 1 => Sync(p, source, target, Size) \/ Covers(p, source, target)
        BY <2>3, <2>4, <4>2, <4>4, <4>5 DEF Covers
      <4> QED BY <2>3, <4>5, <4>6, <4>7 DEF Resumable, source, target
    <3> QED BY <2>1, <2>3, <3>1 DEF Good
  <2>6. Leads(m, Append(r.io, o), p)
    <3> HIDE DEF o
    <3> QED BY <2>1, <2>5, LeadsOn DEF p
  <2>7. WipeMbr(r, s) = [r EXCEPT !.io = Append(r.io, o)] /\ Rested(WipeMbr(r, s))
    <3>1. WipeMbr(r, s) = [r EXCEPT !.io = Append(r.io, o)]
      BY <1>2 DEF WipeMbr
    <3>2. Append(r.io, o) \in Seq(Orders)
      <4> HIDE DEF o
      <4> QED BY <2>1
    <3> HIDE DEF o
    <3> QED BY <3>1, <3>2 DEF Ordered, Rested, RamType
  <2>8. WipeMbr(r, s).io = Append(r.io, o) /\ WipeMbr(r, s).bay = r.bay
    <3> HIDE DEF o
    <3> QED BY <2>1, <2>7 DEF RamType
  <2>9. Paired(Append(r.io, o))
    <3>1. Paired(r.io) /\ o.op # "other"
      BY DEF Ordered
    <3> HIDE DEF o
    <3> QED BY <2>1, <3>1, PairedMore
  <2> QED BY <2>2, <2>3, <2>6, <2>7, <2>8, <2>9 DEF Ordered
<1> QED BY <1>1, <1>2

----------------------------------------------------------------------------
(* store_meta_data and store_slots: the pages of both slots.               *)

\* The page stored next for a slot.
Following(p) == [p EXCEPT !.gen = @ + 1]

\* The status of the pages lets store_meta_data write.
Stores(r) == r.ms \in {"GOOD", "STH_NOT_VALID"}

\* The page that is stored: its generation is one higher.
LEMMA FollowingIs ==
  ASSUME NEW p \in Sound
  PROVE /\ Following(p) \in Page /\ Following(p).gen = p.gen + 1 /\ Following(p).mode = p.mode
        /\ Following(p).disk_num = p.disk_num /\ Following(p).status = p.status /\ Following(p).id = p.id
        /\ Owner(Following(p)) = Owner(p) /\ Valid(Following(p)) /\ Following(p) \in Sound
BY DEF Following, Sound, Page, Owner, Valid

\* The rest of the state of r is that of q.
But(q, r) == q = [r EXCEPT !.rp = q.rp, !.sealed = q.sealed, !.need = q.need, !.io = q.io]

\* What But leaves as it was.
LEMMA ButIs ==
  ASSUME NEW r, r \in RamType, NEW q, But(q, r)
  PROVE /\ q.nvm = r.nvm /\ q.map = r.map /\ q.newer = r.newer /\ q.bay = r.bay /\ q.cur = r.cur
        /\ q.queue = r.queue /\ q.num = r.num /\ q.ids = r.ids /\ q.ms = r.ms /\ q.mode = r.mode
        /\ q.use = r.use /\ q.mirror = r.mirror /\ q.src = r.src /\ q.pos = r.pos /\ q.lba = r.lba
        /\ q.retry = r.retry /\ q.errAt = r.errAt /\ q.busy = r.busy /\ q.inst = r.inst /\ q.cp = r.cp
        /\ q.reenum = r.reenum
<1> DEFINE x == [r EXCEPT !.rp = q.rp, !.sealed = q.sealed, !.need = q.need, !.io = q.io]
<1>1. /\ x.nvm = r.nvm /\ x.map = r.map /\ x.newer = r.newer /\ x.bay = r.bay /\ x.cur = r.cur
      /\ x.queue = r.queue /\ x.num = r.num /\ x.ids = r.ids /\ x.ms = r.ms /\ x.mode = r.mode
      /\ x.use = r.use /\ x.mirror = r.mirror /\ x.src = r.src /\ x.pos = r.pos /\ x.lba = r.lba
      /\ x.retry = r.retry /\ x.errAt = r.errAt /\ x.busy = r.busy /\ x.inst = r.inst /\ x.cp = r.cp
      /\ x.reenum = r.reenum
  BY DEF RamType
<1>2. q = x
  BY DEF But
<1> HIDE DEF x
<1> QED BY <1>1, <1>2

\* But is transitive.
LEMMA ButTrans ==
  ASSUME NEW r, r \in RamType, NEW p, NEW q, But(p, q), But(q, r) PROVE But(p, r)
BY DEF But, RamType

\* What Put changes.
LEMMA PutIs ==
  ASSUME NEW n \in MediaType, NEW s \in Slots, NEW p \in Page
  PROVE LET q == Put(n, s, p)
        IN /\ q \in MediaType /\ q.flash[s] = p /\ \A t \in Slots : t # s => q.flash[t] = n.flash[t]
           /\ q.other = n.other /\ q.data = n.data /\ q.acked = n.acked /\ q.bay = n.bay
<1>1. [n.flash EXCEPT ![s] = p] \in Pages /\ n.flash \in Pages
  BY DEF MediaType, Pages
<1>2. Put(n, s, p) = [n EXCEPT !.flash = [n.flash EXCEPT ![s] = p]]
  BY DEF Put, MediaType
<1> QED BY <1>1, <1>2 DEF MediaType, Pages

\* store_meta_data orders the page of a slot when it may be stored.
LEMMA StoreOrdered ==
  ASSUME NEW r, NEW m, NEW n, Ordered(r, m, n), r.map = [x \in Slots |-> x],
         NEW s \in Slots, s \in r.need, Stores(r),
         LET p == Following(r.rp[s]) IN Good(Put(n, s, p))
  PROVE LET q == store_meta_data(r, s)
            p == Following(r.rp[s])
        IN /\ Ordered(q, m, Put(n, s, p)) /\ But(q, r)
           /\ q.rp = [r.rp EXCEPT ![s] = p] /\ q.need = r.need \ {s}
<1> DEFINE q == store_meta_data(r, s)
           p == Following(r.rp[s])
           o == [op |-> "store", at |-> s, page |-> p]
           r1 == [r EXCEPT !.rp[s] = p, !.sealed[s] = p, !.need = @ \ {s}]
<1>0. /\ Rested(r) /\ r \in RamType /\ r.rp[s] \in Sound /\ p \in Page /\ n \in MediaType /\ n.bay = r.bay
      /\ r.io \in Seq(Orders) /\ r.map[s] = s
  <2>1. r \in RamType /\ r.rp[s] \in Sound /\ r.io \in Seq(Orders)
    BY DEF Ordered, Rested, RamType
  <2> QED BY <2>1, FollowingIs DEF Ordered
<1>1. q = [r1 EXCEPT !.io = Append(@, [op |-> "store", at |-> r.map[s], page |-> Written(r1, r.map[s])])]
  BY DEF store_meta_data, Stores, Following
<1> HIDE DEF p
<1>2. Written(r1, s) = p
  <2>1. r.rp \in [Slots -> Sound] /\ r.sealed \in Pages
    BY <1>0 DEF RamType
  <2>2. r1.rp = [r.rp EXCEPT ![s] = p] /\ r1.sealed = [r.sealed EXCEPT ![s] = p]
    BY <1>0 DEF RamType
  <2>3. r1.rp[s] = p /\ r1.sealed[s] = p
    BY <2>1, <2>2 DEF Pages
  <2> HIDE DEF r1
  <2> QED BY <2>3 DEF Written
<1>3. /\ r1.rp = [r.rp EXCEPT ![s] = p] /\ r1.need = r.need \ {s} /\ r1.io = r.io
      /\ r1 = [r EXCEPT !.rp = r1.rp, !.sealed = r1.sealed, !.need = r1.need]
  BY <1>0 DEF RamType
<1>4. q = [r1 EXCEPT !.io = Append(r.io, o)]
  BY <1>0, <1>1, <1>2, <1>3
<1>5. /\ q.rp = [r.rp EXCEPT ![s] = p] /\ q.need = r.need \ {s} /\ q.io = Append(r.io, o)
      /\ q = [r EXCEPT !.rp = q.rp, !.sealed = q.sealed, !.need = q.need, !.io = q.io]
  <2> HIDE DEF o
  <2> QED BY <1>0, <1>3, <1>4 DEF RamType
<1>6. But(q, r) /\ q.bay = r.bay
  <2>1. But(q, r)
    <3> HIDE DEF q, r1, o
    <3> QED BY <1>5 DEF But
  <2> HIDE DEF q
  <2> QED BY <1>0, <2>1, ButIs
<1>7. Rested(q)
  BY <1>0, StoreRests
<1>8. Apply(n, o) = Put(n, s, p) /\ o \in Orders
  BY <1>0 DEF Apply, Put, Orders
<1>9. Leads(m, q.io, Put(n, s, p))
  <2>1. Good(Put(n, s, p)) /\ Leads(m, r.io, n)
    BY DEF p, Ordered
  <2> HIDE DEF q, o
  <2> QED BY <1>0, <1>5, <1>8, <2>1, LeadsOn
<1>10. Put(n, s, p) \in MediaType /\ Put(n, s, p).bay = n.bay
  BY <1>0, PutIs
<1>11. Paired(q.io)
  <2>1. Paired(r.io) /\ o.op # "other"
    BY DEF Ordered
  <2> HIDE DEF q, o
  <2> QED BY <1>0, <1>5, <1>8, <2>1, PairedMore
<1> HIDE DEF q
<1> QED BY <1>0, <1>5, <1>6, <1>7, <1>9, <1>10, <1>11 DEF Ordered, p, q

\* The slot whose page is stored first.
Leader(r) == IF r.cur[0] = "GOOD" THEN 0 ELSE 1

\* store_slots begins with the leader.
LEMMA StoreSlotsIs ==
  ASSUME NEW r
  PROVE LET s == Leader(r) IN store_slots(r) = store_meta_data(store_meta_data(r, s), Across(s)) /\ s \in Slots /\ Across(s) \in Slots
BY DEF store_slots, Leader, Across, Slots

\* A page that is stored starts no rebuild.
Plain(n, s, p) ==
  LET t == Across(s)
  IN  Owned(p) =>
      /\ p.disk_num = s /\ p.status[s] \in {"GOOD", "FAILED"}
      /\ Mates(Put(n, s, p).flash) /\ n.flash[t].status[t] = "REBUILDING" => n.flash[t].gen < p.gen

\* store_meta_data of a slot whose page starts no rebuild.
LEMMA PlainOrdered ==
  ASSUME NEW r, NEW m, NEW n, Ordered(r, m, n), r.map = [x \in Slots |-> x], Stores(r),
         NEW s \in Slots, s \in r.need => Plain(n, s, Following(r.rp[s]))
  PROVE LET q == store_meta_data(r, s)
        IN \E k : /\ Ordered(q, m, k) /\ But(q, r)
                  /\ q.need = r.need \ {s}
                  /\ IF s \in r.need
                     THEN Still(k.flash) /\ k = Put(n, s, q.rp[s]) /\ q.rp = [r.rp EXCEPT ![s] = Following(r.rp[s])]
                     ELSE k = n /\ q.rp = r.rp
<1> DEFINE q == store_meta_data(r, s)
           p == Following(r.rp[s])
<1>0. /\ r \in RamType /\ r.rp \in [Slots -> Sound] /\ p \in Page /\ n \in MediaType /\ Good(n)
  <2>1. r \in RamType /\ r.rp \in [Slots -> Sound] /\ r.io \in Seq(Orders)
    BY DEF Ordered, Rested, RamType
  <2>2. r.rp[s] \in Sound
    BY <2>1
  <2> QED BY <2>1, <2>2, FollowingIs, LeadsEnds DEF Ordered
<1>1. CASE s \in r.need
  <2>1. Plain(n, s, p)
    BY <1>1
  <2> HIDE DEF p
  <2>2. Good(Put(n, s, p)) /\ Still(Put(n, s, p).flash)
    <3>1. CASE Owned(p)
      BY <1>0, <2>1, <3>1, StoreGood DEF Plain
    <3>2. CASE ~Owned(p)
      <4> DEFINE y == Put(n, s, p)
      <4>1. y.flash[s] = p /\ \A x \in Slots : x # s => y.flash[x] = n.flash[x]
        BY <1>0, PutIs
      <4> HIDE DEF y
      <4>2. ~Mates(y.flash)
        BY <3>2, <4>1 DEF Mates
      <4>3. Stated(y.flash)
        BY <1>0, <3>2, <4>1 DEF Good, Stated
      <4>4. Behind(y.flash) /\ Still(y.flash)
        BY <4>2 DEF Behind, Still, Resumes
      <4>5. Good(y)
        BY <4>3, <4>4, StillGood
      <4> QED BY <4>4, <4>5 DEF y
    <3> QED BY <3>1, <3>2
  <2>3. Ordered(q, m, Put(n, s, p)) /\ But(q, r) /\ q.rp = [r.rp EXCEPT ![s] = p] /\ q.need = r.need \ {s}
    BY <1>1, <2>2, StoreOrdered DEF p
  <2>4. q.rp[s] = p
    BY <1>0, <2>3
  <2> HIDE DEF q
  <2> QED BY <1>1, <2>2, <2>3, <2>4 DEF q, p
<1>2. CASE s \notin r.need
  <2>1. q = r
    BY <1>2 DEF store_meta_data
  <2>2. r.need = r.need \ {s}
    BY <1>2
  <2>3. But(r, r)
    BY <1>0 DEF But, RamType
  <2> HIDE DEF q
  <2> QED BY <1>2, <2>1, <2>2, <2>3 DEF q
<1> QED BY <1>1, <1>2

\* The pages that are stored start no rebuild.
LEMMA StoresOrdered ==
  ASSUME NEW r, NEW m, NEW n, Ordered(r, m, n), r.map = [x \in Slots |-> x], Stores(r),
         \A s \in r.need : Plain(n, s, Following(r.rp[s]))
  PROVE LET q == store_slots(r)
        IN \E k : /\ Ordered(q, m, k) /\ But(q, r) /\ q.need = {}
                  /\ r.need # {} => Still(k.flash)
                  /\ \A s \in Slots : q.rp[s] = IF s \in r.need THEN Following(r.rp[s]) ELSE r.rp[s]
                  /\ \A s \in Slots : k.flash[s] = IF s \in r.need THEN q.rp[s] ELSE n.flash[s]
                  /\ k.data = n.data /\ k.acked = n.acked /\ k.other = n.other
<1> DEFINE s == Leader(r)
           t == Across(s)
           q == store_meta_data(r, s)
           w == store_meta_data(q, t)
<1>0. /\ s \in Slots /\ t \in Slots /\ t # s /\ Across(t) = s /\ (\A x \in Slots : x = s \/ x = t) /\ store_slots(r) = w
      /\ r \in RamType /\ r.rp \in [Slots -> Sound] /\ r.need \in SUBSET Slots
  <2>1. r \in RamType /\ r.rp \in [Slots -> Sound] /\ r.need \in SUBSET Slots
    BY DEF Ordered, Rested, RamType
  <2> QED BY <2>1, StoreSlotsIs DEF Leader, Across, Slots
<1> HIDE DEF s, t
<1>1. PICK k : /\ Ordered(q, m, k) /\ But(q, r)
               /\ q.need = r.need \ {s}
               /\ IF s \in r.need
                  THEN Still(k.flash) /\ k = Put(n, s, q.rp[s]) /\ q.rp = [r.rp EXCEPT ![s] = Following(r.rp[s])]
                  ELSE k = n /\ q.rp = r.rp
  BY <1>0, PlainOrdered
<1>2. /\ q.map = r.map /\ q.ms = r.ms
      /\ q.rp[t] = r.rp[t] /\ q.rp[s] = IF s \in r.need THEN Following(r.rp[s]) ELSE r.rp[s]
  <2>1. q.map = r.map /\ q.ms = r.ms
    <3> HIDE DEF q
    <3> QED BY <1>0, <1>1, ButIs
  <2> HIDE DEF q
  <2> QED BY <1>0, <1>1, <2>1
<1>3. /\ k.flash[t] = n.flash[t] /\ k.flash[s] = IF s \in r.need THEN q.rp[s] ELSE n.flash[s]
      /\ k.data = n.data /\ k.acked = n.acked /\ k.other = n.other
  <2>1. CASE s \in r.need
    <3>1. q.rp[s] \in Page /\ n \in MediaType
      <4>1. r.rp[s] \in Sound
        BY <1>0
      <4> HIDE DEF q
      <4> QED BY <1>2, <2>1, <4>1, FollowingIs DEF Ordered
    <3> HIDE DEF q
    <3> QED BY <1>0, <1>1, <2>1, <3>1, PutIs
  <2>2. CASE s \notin r.need
    BY <1>1, <2>2
  <2> QED BY <2>1, <2>2
<1> HIDE DEF q
<1>4. t \in q.need => Plain(k, t, Following(q.rp[t]))
  <2> SUFFICES ASSUME t \in q.need PROVE Plain(k, t, Following(r.rp[t]))
    BY <1>2
  <2> DEFINE p == Following(r.rp[t])
  <2>1. Plain(n, t, p)
    BY <1>1
  <2>2. p \in Page
    BY <1>0, FollowingIs
  <2> HIDE DEF p
  <2>3. CASE s \in r.need
    <3>1. Plain(n, s, Following(r.rp[s]))
      BY <2>3
    <3>2. r.rp[s] \in Sound
      BY <1>0
    <3>3. Owned(k.flash[s]) => k.flash[s].status[s] \in {"GOOD", "FAILED"}
      BY <1>2, <1>3, <2>3, <3>1, <3>2, FollowingIs DEF Plain, Owned
    <3>4. Put(k, t, p).flash[s] = k.flash[s]
      <4>1. k \in MediaType
        BY <1>1 DEF Ordered
      <4> QED BY <1>0, <2>2, <4>1, PutIs
    <3>5. Mates(Put(k, t, p).flash) => Owned(k.flash[s])
      BY <1>0, <3>4 DEF Mates
    <3> QED BY <1>0, <2>1, <3>3, <3>5 DEF Plain, p
  <2>4. CASE s \notin r.need
    BY <1>1, <2>1, <2>4 DEF p
  <2> QED BY <2>3, <2>4
<1>5. PICK l : /\ Ordered(w, m, l) /\ But(w, q)
               /\ w.need = q.need \ {t}
               /\ IF t \in q.need
                  THEN Still(l.flash) /\ l = Put(k, t, w.rp[t]) /\ w.rp = [q.rp EXCEPT ![t] = Following(q.rp[t])]
                  ELSE l = k /\ w.rp = q.rp
  <2>1. q.map = [x \in Slots |-> x] /\ Stores(q)
    BY <1>2 DEF Stores
  <2> QED BY <1>0, <1>1, <1>4, <2>1, PlainOrdered
<1>6. q \in RamType /\ q.rp \in [Slots -> Sound]
  BY <1>1 DEF Ordered, Rested, RamType
<1>7. /\ w.rp[s] = q.rp[s] /\ w.rp[t] = IF t \in r.need THEN Following(r.rp[t]) ELSE r.rp[t]
  <2> HIDE DEF w
  <2> QED BY <1>0, <1>1, <1>2, <1>5, <1>6
<1>8. /\ l.flash[s] = k.flash[s] /\ l.flash[t] = IF t \in r.need THEN w.rp[t] ELSE k.flash[t]
      /\ l.data = k.data /\ l.acked = k.acked /\ l.other = k.other
  <2>1. CASE t \in q.need
    <3>1. w.rp[t] \in Page /\ k \in MediaType
      <4>1. q.rp[t] \in Sound
        BY <1>0, <1>6
      <4> HIDE DEF w
      <4> QED BY <1>0, <1>1, <1>2, <1>7, <2>1, <4>1, FollowingIs DEF Ordered
    <3> HIDE DEF w
    <3> QED BY <1>0, <1>1, <1>5, <2>1, <3>1, PutIs
  <2>2. CASE t \notin q.need
    BY <1>0, <1>1, <1>5, <2>2
  <2> QED BY <2>1, <2>2
<1>9. But(w, r) /\ w.need = {} /\ (r.need # {} => Still(l.flash))
  <2>1. But(w, r)
    <3> HIDE DEF w
    <3> QED BY <1>0, <1>1, <1>5, ButTrans
  <2>2. w.need = {}
    <3> HIDE DEF w
    <3> QED BY <1>0, <1>1, <1>5
  <2>3. ASSUME r.need # {} PROVE Still(l.flash)
    BY <1>0, <1>1, <1>5, <2>3
  <2> QED BY <2>1, <2>2, <2>3
<1>10. /\ \A x \in Slots : w.rp[x] = IF x \in r.need THEN Following(r.rp[x]) ELSE r.rp[x]
       /\ \A x \in Slots : l.flash[x] = IF x \in r.need THEN w.rp[x] ELSE n.flash[x]
       /\ l.data = n.data /\ l.acked = n.acked /\ l.other = n.other
  <2> HIDE DEF w
  <2> QED BY <1>0, <1>2, <1>3, <1>7, <1>8
<1> HIDE DEF w
<1> QED BY <1>0, <1>5, <1>9, <1>10

----------------------------------------------------------------------------
(* store_slots with what a function of raid.c changed of the pages.        *)

\* The pages of a rebuild from slot g that is to begin.
Begins(r, g) ==
  LET t == Across(g)
  IN  /\ \A s \in Slots : /\ r.bay[s] # NoDrive /\ Owner(r.rp[s]) = r.bay[s] /\ r.rp[s].disk_num = s
                          /\ r.rp[s].status = Pair(g, "REBUILDING")
      /\ r.rp[t].gen = r.rp[g].gen /\ r.rp[t].mode = r.rp[g].mode /\ r.rp[t].id = r.rp[g].id
      /\ r.rp[g].id = r.bay

\* update_slots_for_rebuilding prepares the pages of a rebuild.
LEMMA RebuildingIs ==
  ASSUME NEW r, Rested(r), Whole(r), NEW g \in Slots, r.rp[g].disk_num = g
  PROVE LET q == update_slots_for_rebuilding(r, g)
        IN /\ Rested(q) /\ Begins(q, g) /\ q.rp[g].gen = r.rp[g].gen /\ q.rp[g].mode = r.rp[g].mode
           /\ q.need = Slots /\ q.cur = [r.cur EXCEPT ![Across(g)] = "REBUILDING"]
           /\ q = [r EXCEPT !.rp = q.rp, !.cur = q.cur, !.need = q.need]
<1> DEFINE t == Across(g)
           pair == Pair(g, "REBUILDING")
           n == [s \in Slots |-> get_disk_num(r, s, pair[s])]
           marked == Marked(r, r.rp[g], pair)
           good == [marked EXCEPT !.id = [@ EXCEPT ![n[0]] = r.bay[0], ![n[1]] = r.bay[1]]]
           base == [r.rp[t] EXCEPT !.gen = good.gen, !.id = good.id, !.mode = good.mode]
           other1 == Marked(r, base, pair)
           new == [other1 EXCEPT !.disk_num = n[t]]
           q == update_slots_for_rebuilding(r, g)
<1>0. /\ t \in Slots /\ t # g /\ Across(t) = g /\ (\A x \in Slots : x = g \/ x = t)
      /\ r \in RamType /\ r.rp[g] \in Sound /\ r.rp[t] \in Sound /\ r.bay \in Bays /\ pair \in [Slots -> SlotStatus]
      /\ pair[g] = "GOOD" /\ pair[t] = "REBUILDING"
  <2>1. pair \in [Slots -> SlotStatus]
    BY PairIs, StatusIs
  <2>2. r \in RamType /\ r.rp \in [Slots -> Sound] /\ r.bay \in Bays
    BY DEF Rested, RamType
  <2> QED BY <2>1, <2>2 DEF Across, Slots, Pair
<1>1. n = [s \in Slots |-> s]
  <2>1. n[g] = g
    BY <1>0 DEF get_disk_num
  <2>2. n[t] = t
    BY <1>0 DEF get_disk_num, Slots, Across
  <2> QED BY <1>0, <2>1, <2>2
<1>2. marked \in Sound /\ marked.gen = r.rp[g].gen /\ marked.mode = r.rp[g].mode /\ marked.disk_num = g /\ marked.status = pair
  <2>1. marked \in Sound /\ marked.gen = r.rp[g].gen /\ marked.mode = r.rp[g].mode /\ marked.disk_num = g
    BY <1>0, MarkedIs
  <2>2. marked.status = pair
    <3>1. r.rp[g].status \in [Slots -> SlotStatus]
      BY <1>0 DEF Sound, Page
    <3>2. [[r.rp[g].status EXCEPT ![0] = pair[0]] EXCEPT ![1] = pair[1]] = pair
      <4> HIDE DEF pair
      <4> QED BY <1>0, <3>1 DEF Slots
    <3>3. marked = [r.rp[g] EXCEPT !.status = [[@ EXCEPT ![n[0]] = pair[0]] EXCEPT ![n[1]] = pair[1]]]
      BY DEF Marked
    <3>4. n[0] = 0 /\ n[1] = 1
      BY <1>1 DEF Slots
    <3> HIDE DEF marked, n, pair
    <3> QED BY <1>0, <3>2, <3>3, <3>4 DEF Sound, Page
  <2> QED BY <2>1, <2>2
<1>3. /\ good \in Sound /\ good.gen = r.rp[g].gen /\ good.mode = r.rp[g].mode /\ good.disk_num = g /\ good.status = pair
      /\ good.id = r.bay
  <2>1. marked.id \in [Slots -> Drives \cup {NoDrive}]
    BY <1>2 DEF Sound, Page
  <2>2. [[marked.id EXCEPT ![0] = r.bay[0]] EXCEPT ![1] = r.bay[1]] = r.bay
    <3> HIDE DEF marked
    <3> QED BY <1>0, <2>1 DEF Slots, Bays
  <2>3. n[0] = 0 /\ n[1] = 1
    BY <1>1 DEF Slots
  <2> HIDE DEF marked, n
  <2>4. good = [marked EXCEPT !.id = r.bay]
    BY <2>2, <2>3
  <2> HIDE DEF good
  <2> QED BY <1>0, <1>2, <2>4 DEF Sound, Page, Bays, Valid
<1> HIDE DEF good, n
<1>4. base \in Sound /\ base.gen = r.rp[g].gen /\ base.mode = r.rp[g].mode /\ base.id = r.bay
  BY <1>0, <1>3 DEF Sound, Page, Valid
<1> HIDE DEF base
<1>5. /\ other1 \in Sound /\ other1.gen = r.rp[g].gen /\ other1.mode = r.rp[g].mode /\ other1.id = r.bay
      /\ other1.status = pair
  <2>1. other1 \in Sound /\ other1.gen = r.rp[g].gen /\ other1.mode = r.rp[g].mode /\ other1.id = r.bay
    BY <1>0, <1>4, MarkedIs
  <2>2. other1.status = pair
    <3>1. base.status \in [Slots -> SlotStatus]
      BY <1>4 DEF Sound, Page
    <3>2. [[base.status EXCEPT ![0] = pair[0]] EXCEPT ![1] = pair[1]] = pair
      <4> HIDE DEF pair
      <4> QED BY <1>0, <3>1 DEF Slots
    <3>3. other1 = [base EXCEPT !.status = [[@ EXCEPT ![n[0]] = pair[0]] EXCEPT ![n[1]] = pair[1]]]
      BY DEF Marked, n
    <3>4. n[0] = 0 /\ n[1] = 1
      BY <1>1 DEF Slots
    <3> HIDE DEF other1, pair
    <3> QED BY <1>4, <3>2, <3>3, <3>4 DEF Sound, Page
  <2> QED BY <2>1, <2>2
<1> HIDE DEF other1
<1>6. /\ new \in Sound /\ new.gen = r.rp[g].gen /\ new.mode = r.rp[g].mode /\ new.id = r.bay
      /\ new.status = pair /\ new.disk_num = t
  <2>1. n[t] = t /\ t \in 0..3
    BY <1>0, <1>1 DEF Slots
  <2> QED BY <1>5, <2>1 DEF Sound, Page, Valid
<1>7. q = [r EXCEPT !.rp = [s \in Slots |-> IF s = g THEN good ELSE new], !.cur[t] = "REBUILDING", !.need = Slots]
  BY DEF update_slots_for_rebuilding, good, new, base, other1, n
<1> HIDE DEF new
<1>8. /\ q.rp[g] = good /\ q.rp[t] = new /\ q.need = Slots /\ q.cur = [r.cur EXCEPT ![t] = "REBUILDING"]
      /\ q.bay = r.bay
      /\ q = [r EXCEPT !.rp = q.rp, !.cur = q.cur, !.need = q.need]
  BY <1>0, <1>7 DEF RamType
<1>9. Rested(q)
  BY RebuildingRests
<1> HIDE DEF q, pair
<1>10. ASSUME NEW s \in Slots
       PROVE r.bay[s] # NoDrive /\ Owner(q.rp[s]) = r.bay[s] /\ q.rp[s].disk_num = s /\ q.rp[s].status = pair
  <2>1. r.bay[s] # NoDrive
    BY DEF Whole, Ready
  <2>2. CASE s = g
    BY <1>0, <1>3, <1>8, <2>1, <2>2 DEF Owner, Sound
  <2>3. CASE s = t
    BY <1>0, <1>6, <1>8, <2>1, <2>3 DEF Owner, Sound
  <2> QED BY <1>0, <2>2, <2>3
<1>11. Begins(q, g)
  BY <1>3, <1>6, <1>8, <1>10 DEF Begins, pair
<1> QED BY <1>3, <1>8, <1>9, <1>11 DEF q

\* The pages of a rebuild are stored, that of its source first.
LEMMA RebuildStored ==
  ASSUME NEW r, NEW m, NEW n, Ordered(r, m, n), r.map = [x \in Slots |-> x], Stores(r), r.need = Slots,
         NEW g \in Slots, Leader(r) = g, Begins(r, g),
         LET t == Across(g)
         IN n.flash[t].status[t] = "REBUILDING" /\ Owner(n.flash[t]) = r.bay[t] /\ n.flash[t].id = r.bay
            => n.flash[t].gen <= r.rp[g].gen,
         \A s \in Slots, c \in 1..2 : n.other[r.bay[s]][c] = Step
  PROVE LET q == store_slots(r)
        IN \E k : /\ Ordered(q, m, k) /\ But(q, r) /\ q.need = {}
                  /\ \A s \in Slots : q.rp[s] = Following(r.rp[s]) /\ k.flash[s] = q.rp[s]
                  /\ k.data = n.data /\ k.acked = n.acked /\ k.other = n.other
<1> DEFINE t == Across(g)
           p(s) == Following(r.rp[s])
           q == store_meta_data(r, g)
           w == store_meta_data(q, t)
           k == Put(n, g, p(g))
           l == Put(k, t, p(t))
<1>0. /\ t \in Slots /\ t # g /\ Across(t) = g /\ (\A x \in Slots : x = g \/ x = t) /\ store_slots(r) = w
      /\ r \in RamType /\ r.rp \in [Slots -> Sound] /\ n \in MediaType /\ Good(n)
  <2>1. r \in RamType /\ r.rp \in [Slots -> Sound] /\ r.io \in Seq(Orders)
    BY DEF Ordered, Rested, RamType
  <2>2. store_slots(r) = w
    BY StoreSlotsIs
  <2>3. n \in MediaType /\ Good(n)
    BY <2>1, LeadsEnds DEF Ordered
  <2>4. t \in Slots /\ t # g /\ Across(t) = g /\ (\A x \in Slots : x = g \/ x = t)
    BY DEF Across, Slots
  <2> HIDE DEF t, w
  <2> QED BY <2>1, <2>2, <2>3, <2>4
<1>1. ASSUME NEW s \in Slots
      PROVE /\ p(s) \in Page /\ p(s).gen = r.rp[s].gen + 1 /\ p(s).disk_num = s /\ p(s).status = Pair(g, "REBUILDING")
            /\ Owner(p(s)) = r.bay[s] /\ Owned(p(s)) /\ p(s).id = r.rp[s].id /\ p(s).mode = r.rp[s].mode
  <2>1. r.rp[s] \in Sound
    BY <1>0
  <2> QED BY <2>1, FollowingIs DEF Begins, Owned
<1>2. Pair(g, "REBUILDING")[g] = "GOOD" /\ Pair(g, "REBUILDING")[t] = "REBUILDING"
  BY <1>0 DEF Pair
<1>3. p(g).gen = p(t).gen /\ p(g).id = r.bay /\ r.rp[g].gen \in Nat
  <2>1. r.rp[g] \in Sound
    BY <1>0
  <2> QED BY <1>0, <1>1, <2>1 DEF Begins, Sound, Page
<1> HIDE DEF p
<1>4. /\ k \in MediaType /\ k.flash[g] = p(g) /\ k.flash[t] = n.flash[t]
      /\ k.other = n.other /\ k.data = n.data /\ k.acked = n.acked /\ k.bay = n.bay
  <2>1. p(g) \in Page
    BY <1>1
  <2> QED BY <1>0, <2>1, PutIs
<1>5. Good(k)
  <2>1. Mates(k.flash) /\ n.flash[t].status[t] = "REBUILDING" => n.flash[t].gen < p(g).gen
    <3> SUFFICES ASSUME Mates(k.flash), n.flash[t].status[t] = "REBUILDING" PROVE n.flash[t].gen < p(g).gen
      OBVIOUS
    <3>1. n.flash[t].id = r.bay /\ Owned(n.flash[t])
      BY <1>0, <1>3, <1>4 DEF Mates, Slots
    <3>2. n.flash[t].disk_num = t
      BY <1>0, <3>1 DEF Good, Stated
    <3>3. Owner(n.flash[t]) = r.bay[t]
      BY <1>0, <3>1, <3>2 DEF Owner, Owned
    <3>4. n.flash[t].gen <= r.rp[g].gen /\ n.flash[t].gen \in Nat
      BY <1>0, <3>1, <3>3 DEF MediaType, Pages, Page
    <3> QED BY <1>0, <1>1, <1>3, <3>4
  <2>2. Owned(p(g)) /\ p(g).disk_num = g /\ p(g).status[g] \in {"GOOD", "FAILED"} /\ p(g) \in Page
    BY <1>1, <1>2
  <2> QED BY <1>0, <2>1, <2>2, StoreGood
<1> HIDE DEF k
<1>6. Ordered(q, m, k) /\ But(q, r) /\ q.rp = [r.rp EXCEPT ![g] = p(g)] /\ q.need = r.need \ {g}
  BY <1>0, <1>5, StoreOrdered DEF k, p
<1>7. q.rp[g] = p(g) /\ q.rp[t] = r.rp[t] /\ q.map = r.map /\ q.ms = r.ms /\ t \in q.need
  <2> HIDE DEF q
  <2>1. q.map = r.map /\ q.ms = r.ms
    BY <1>0, <1>6, ButIs
  <2> QED BY <1>0, <1>6, <2>1
<1>8. Good(l)
  <2>1. Owner(k.flash[g]) = r.bay[g] /\ Owned(k.flash[g])
    BY <1>1, <1>4
  <2>2. \A c \in 1..2 : k.other[Owner(k.flash[g])][c] = Step /\ k.other[Owner(p(t))][c] = Step
    BY <1>0, <1>1, <1>4, <2>1
  <2>3. p(t).disk_num = t /\ p(t).status[t] = "REBUILDING" /\ Owned(p(t)) /\ p(t) \in Page
    BY <1>0, <1>1, <1>2
  <2>4. k.flash[g].status[g] = "GOOD" /\ k.flash[g].status[t] = "REBUILDING" /\ p(t).gen = k.flash[g].gen
    BY <1>0, <1>1, <1>2, <1>3, <1>4
  <2> QED BY <1>4, <1>5, <2>1, <2>2, <2>3, <2>4, StoreTargetGood
<1>9. /\ l.flash[t] = p(t) /\ l.flash[g] = p(g) /\ l.other = k.other /\ l.data = k.data /\ l.acked = k.acked
  <2>1. p(t) \in Page
    BY <1>0, <1>1
  <2> QED BY <1>0, <1>4, <2>1, PutIs
<1>10. Following(q.rp[t]) = p(t)
  BY <1>7 DEF p
<1> HIDE DEF q, l
<1>11. Ordered(w, m, l) /\ But(w, q) /\ w.rp = [q.rp EXCEPT ![t] = p(t)] /\ w.need = q.need \ {t}
  <2>1. q.map = [x \in Slots |-> x] /\ Stores(q)
    BY <1>7 DEF Stores
  <2> QED BY <1>0, <1>6, <1>7, <1>8, <1>10, <2>1, StoreOrdered DEF l
<1>12. w.rp[t] = p(t) /\ w.rp[g] = p(g) /\ w.need = {} /\ But(w, r)
  <2>1. q \in RamType /\ q.rp \in [Slots -> Sound]
    BY <1>6 DEF Ordered, Rested, RamType
  <2>2. But(w, r)
    <3> HIDE DEF w
    <3> QED BY <1>0, <1>6, <1>11, ButTrans
  <2> HIDE DEF w
  <2> QED BY <1>0, <1>6, <1>7, <1>11, <2>1, <2>2
<1>13. \A s \in Slots : w.rp[s] = Following(r.rp[s]) /\ l.flash[s] = w.rp[s]
  <2> HIDE DEF w
  <2> QED BY <1>0, <1>9, <1>12 DEF p
<1> HIDE DEF w
<1> QED BY <1>0, <1>4, <1>9, <1>11, <1>12, <1>13

----------------------------------------------------------------------------
(* raid_mbr_cleaner and hw_raid_config.                                    *)

\* A change in RAM that orders nothing.
LEMMA OrderedSame ==
  ASSUME NEW r, NEW m, NEW n, Ordered(r, m, n), NEW q, Rested(q), q.io = r.io, q.bay = r.bay
  PROVE Ordered(q, m, n)
BY DEF Ordered

\* What Ordered says of the types.
LEMMA OrderedIs ==
  ASSUME NEW r, NEW m, NEW n, Ordered(r, m, n)
  PROVE /\ r \in RamType /\ Rested(r) /\ r.rp \in [Slots -> Sound] /\ r.io \in Seq(Orders) /\ r.need \in SUBSET Slots
        /\ m \in MediaType /\ n \in MediaType /\ Good(m) /\ Good(n) /\ n.bay = r.bay /\ m.bay = r.bay
<1>1. r \in RamType /\ r.rp \in [Slots -> Sound] /\ r.io \in Seq(Orders) /\ r.need \in SUBSET Slots
  BY DEF Ordered, Rested, RamType
<1> QED BY <1>1, LeadsEnds DEF Ordered

\* raid_mbr_cleaner orders writes of the data only.
LEMMA CleanerOrdered ==
  ASSUME NEW r, NEW m, NEW n, Ordered(r, m, n), NEW mode
  PROVE LET q == raid_mbr_cleaner(r, mode)
        IN /\ q = [r EXCEPT !.io = q.io]
           /\ \E k : Ordered(q, m, k) /\ k.flash = n.flash /\ k.other = n.other /\ k.bay = n.bay
<1> DEFINE q == WipeMbr(r, 0)
           w == WipeMbr(q, 1)
<1>0. 0 \in Slots /\ 1 \in Slots /\ r \in RamType
  BY OrderedIs DEF Slots
<1>1. PICK k : Ordered(q, m, k) /\ k.flash = n.flash /\ k.other = n.other /\ k.bay = n.bay
  BY <1>0, WipeOrdered
<1>2. PICK l : Ordered(w, m, l) /\ l.flash = k.flash /\ l.other = k.other /\ l.bay = k.bay
  <2> HIDE DEF q
  <2> QED BY <1>0, <1>1, WipeOrdered
<1>3. w = [r EXCEPT !.io = w.io]
  <2>1. q = [r EXCEPT !.io = q.io] /\ q \in RamType
    BY <1>0, <1>1, OrderedIs DEF WipeMbr, RamType
  <2>2. w = [q EXCEPT !.io = w.io]
    <3> HIDE DEF q
    <3> QED BY <2>1 DEF WipeMbr, RamType
  <2> HIDE DEF q, w
  <2> QED BY <1>0, <2>1, <2>2 DEF RamType
<1>4. r = [r EXCEPT !.io = r.io]
  BY <1>0 DEF RamType
<1> QED BY <1>1, <1>2, <1>3, <1>4 DEF raid_mbr_cleaner

\* What hw_raid_config makes of r.
Configured(q, r, mode) ==
  /\ q.bay = r.bay /\ q.map = r.map /\ ~q.mirror /\ q.need = {} /\ q.ms = "GOOD" /\ q.reenum = r.reenum
  /\ \A s \in Slots : q.cur[s] = IF Ready(r, s) THEN "GOOD" ELSE "EMPTY"
  /\ \A s \in Slots : /\ q.rp[s].mode = mode /\ q.rp[s].disk_num = s /\ q.rp[s].id = r.bay
                      /\ \A d \in Slots : Ready(r, d) => q.rp[s].status[d] = "GOOD"
  /\ Whole(r) => q.rp[0].gen = q.rp[1].gen

\* hw_raid_config leaves nothing to resume.
LEMMA ConfigOrdered ==
  ASSUME NEW r, NEW m, NEW n, Ordered(r, m, n), r.map = [x \in Slots |-> x],
         NEW mode \in {"RAID1", "JBOD"}, ~CannotConfig(r, mode),
         \A s \in Slots : Ready(r, s) /\ Owner(n.flash[s]) = r.bay[s] => n.flash[s].gen <= r.rp[s].gen
  PROVE LET q == hw_raid_config(r, mode)
        IN /\ Configured(q, r, mode)
           /\ \E k : /\ Ordered(q, m, k) /\ Still(k.flash)
                     /\ \A s \in Slots : k.flash[s] = IF Ready(r, s) THEN q.rp[s] ELSE n.flash[s]
<1> DEFINE wiped == raid_mbr_cleaner(r, mode)
           cur == [s \in Slots |-> IF Ready(r, s) THEN "GOOD" ELSE "EMPTY"]
           good == [wiped EXCEPT !.cur = cur]
           half == fill_raid_parms(good, 0, mode)
           filled == fill_raid_parms(half, 1, mode)
           gen == IF r.rp[0].gen > r.rp[1].gen THEN r.rp[0].gen ELSE r.rp[1].gen
           synced == [filled EXCEPT !.rp[0].gen = gen, !.rp[1].gen = gen, !.ms = "GOOD",
                                    !.need = {s \in Slots : Ready(r, s)}]
           stored == store_slots(synced)
           idle == [stored EXCEPT !.mirror = FALSE]
           q == SetCheckPoint(idle, Step)
           AsR(x) == Rested(x) /\ x.bay = r.bay /\ x.map = r.map /\ x.io = wiped.io /\ x.reenum = r.reenum
           Filled(x, s) == /\ x.rp[s].mode = mode /\ x.rp[s].disk_num = s /\ x.rp[s].id = r.bay
                           /\ \A d \in Slots : Ready(r, d) => x.rp[s].status[d] = "GOOD"
<1>0. /\ mode \in Modes /\ 0 \in Slots /\ 1 \in Slots
      /\ r \in RamType /\ Rested(r) /\ r.rp[0] \in Sound /\ r.rp[1] \in Sound
  BY OrderedIs DEF Modes, Slots
<1>1. PICK k1 : wiped = [r EXCEPT !.io = wiped.io] /\ Ordered(wiped, m, k1) /\ k1.flash = n.flash
  BY CleanerOrdered
<1>2. AsR(wiped)
  <2>1. Rested(wiped)
    BY <1>1 DEF Ordered
  <2> HIDE DEF wiped
  <2> QED BY <1>0, <1>1, <2>1 DEF RamType
<1> HIDE DEF wiped
<1>3. AsR(good) /\ good.cur = cur
  <2>1. cur \in [Slots -> SlotStatus]
    BY StatusIs
  <2> HIDE DEF cur
  <2> QED BY <1>2, <2>1 DEF Rested, RamType
<1> HIDE DEF good
<1>4. AsR(half) /\ half.cur = cur /\ Filled(half, 0)
  <2>1. \A d \in Slots : (Ready(r, d) <=> Ready(good, d)) /\ (Ready(r, d) => good.cur[d] = "GOOD")
    BY <1>0, <1>3 DEF Ready
  <2> HIDE DEF cur
  <2>2. /\ Rested(half) /\ half.bay = good.bay /\ half.map = good.map /\ half.cur = good.cur
        /\ half.reenum = good.reenum /\ half.io = good.io
        /\ half.rp[0].mode = mode /\ half.rp[0].disk_num = 0 /\ half.rp[0].id = good.bay
        /\ \A d \in Slots : half.rp[0].status[d] = IF Ready(good, d) THEN good.cur[d] ELSE "MISSING"
    BY <1>0, <1>3, FillIs
  <2>3. \A d \in Slots : Ready(r, d) => half.rp[0].status[d] = "GOOD"
    BY <2>1, <2>2
  <2> QED BY <1>3, <2>2, <2>3
<1> HIDE DEF half
<1>5. AsR(filled) /\ filled.cur = cur /\ Filled(filled, 0) /\ Filled(filled, 1)
  <2>1. \A d \in Slots : (Ready(r, d) <=> Ready(half, d)) /\ (Ready(r, d) => half.cur[d] = "GOOD")
    BY <1>0, <1>4 DEF Ready
  <2> HIDE DEF cur
  <2>2. /\ Rested(filled) /\ filled.bay = half.bay /\ filled.map = half.map /\ filled.cur = half.cur
        /\ filled.reenum = half.reenum /\ filled.io = half.io /\ filled.rp[0] = half.rp[0]
        /\ filled.rp[1].mode = mode /\ filled.rp[1].disk_num = 1 /\ filled.rp[1].id = half.bay
        /\ \A d \in Slots : filled.rp[1].status[d] = IF Ready(half, d) THEN half.cur[d] ELSE "MISSING"
    BY <1>0, <1>4, FillIs
  <2>3. \A d \in Slots : Ready(r, d) => filled.rp[1].status[d] = "GOOD"
    BY <2>1, <2>2
  <2>4. Filled(filled, 0)
    BY <1>4, <2>2
  <2> QED BY <1>4, <2>2, <2>3, <2>4
<1> HIDE DEF filled
<1>6. gen \in Nat /\ \A s \in Slots : r.rp[s].gen <= gen
  <2>1. r.rp[0].gen \in Nat /\ r.rp[1].gen \in Nat
    BY <1>0 DEF Sound, Page
  <2> QED BY <2>1 DEF Slots
<1> HIDE DEF gen
<1> DEFINE need == {s \in Slots : Ready(r, s)}
<1>7. /\ AsR(synced) /\ synced.cur = cur /\ synced.ms = "GOOD" /\ synced.need = need
      /\ \A s \in Slots : Filled(synced, s) /\ synced.rp[s].gen = gen
  <2> DEFINE p0 == [filled.rp[0] EXCEPT !.gen = gen]
             p1 == [filled.rp[1] EXCEPT !.gen = gen]
             rp == [filled.rp EXCEPT ![0] = p0, ![1] = p1]
  <2>2. /\ p0 \in Sound /\ p1 \in Sound /\ filled.rp \in [Slots -> Sound] /\ p0.gen = gen /\ p1.gen = gen
        /\ p0.mode = filled.rp[0].mode /\ p0.disk_num = filled.rp[0].disk_num
        /\ p0.id = filled.rp[0].id /\ p0.status = filled.rp[0].status
        /\ p1.mode = filled.rp[1].mode /\ p1.disk_num = filled.rp[1].disk_num
        /\ p1.id = filled.rp[1].id /\ p1.status = filled.rp[1].status
    <3>1. filled.rp[0] \in Sound /\ filled.rp[1] \in Sound /\ filled.rp \in [Slots -> Sound]
      BY <1>5 DEF Rested, RamType, Slots
    <3> QED BY <1>6, <3>1 DEF Sound, Page, Valid
  <2>3. synced = [filled EXCEPT !.rp = rp, !.ms = "GOOD", !.need = need]
    <3>1. filled \in RamType
      BY <1>5 DEF Rested
    <3> QED BY <3>1, ZenonT(60) DEF RamType, Slots
  <2> HIDE DEF p0, p1, synced
  <2>4. /\ rp \in [Slots -> Sound] /\ need \in SUBSET Slots /\ "GOOD" \in MetaStatus
        /\ rp[0] = p0 /\ rp[1] = p1
    BY <2>2 DEF need, MetaStatus, Slots
  <2> HIDE DEF rp, need, cur
  <2>5. /\ AsR(synced) /\ synced.cur = cur /\ synced.ms = "GOOD" /\ synced.rp = rp /\ synced.need = need
    BY <1>5, <2>3, <2>4 DEF Rested, RamType
  <2>6. Filled(synced, 0) /\ Filled(synced, 1) /\ synced.rp[0].gen = gen /\ synced.rp[1].gen = gen
    BY <1>5, <2>2, <2>4, <2>5
  <2> QED BY <2>5, <2>6 DEF Slots
<1> HIDE DEF synced, need, cur
<1>8. Ordered(synced, m, k1)
  BY <1>1, <1>2, <1>7, OrderedSame
<1>9. ASSUME NEW s \in synced.need PROVE Plain(k1, s, Following(synced.rp[s]))
  <2> DEFINE p == Following(synced.rp[s])
             t == Across(s)
  <2>0. s \in Slots /\ Ready(r, s) /\ t \in Slots /\ t # s /\ k1 \in MediaType /\ Good(k1) /\ k1.bay = r.bay
    <3>1. k1 \in MediaType /\ Good(k1)
      BY <1>8, OrderedIs
    <3> QED BY <1>7, <1>8, <1>9, <3>1 DEF Ordered, Across, Slots, need
  <2>1. synced.rp[s] \in Sound /\ Filled(synced, s) /\ synced.rp[s].gen = gen
    BY <1>7, <2>0 DEF Rested, RamType
  <2>2. /\ p \in Page /\ p \in Sound /\ p.disk_num = s /\ p.status[s] = "GOOD" /\ p.id = r.bay /\ p.gen = gen + 1
    BY <2>0, <2>1, FollowingIs
  <2>3. Owned(p)
    BY <2>0, <2>2 DEF Owned, Owner, Ready, Sound
  <2> HIDE DEF p, t
  <2>4. ASSUME Mates(Put(k1, s, p).flash), k1.flash[t].status[t] = "REBUILDING" PROVE k1.flash[t].gen < p.gen
    <3>1. /\ Put(k1, s, p).flash[s] = p /\ Put(k1, s, p).flash[t] = k1.flash[t]
      BY <2>0, <2>2, PutIs
    <3>2. k1.flash[t].id = r.bay /\ Owned(k1.flash[t])
      BY <2>0, <2>2, <2>4, <3>1 DEF Mates, Slots
    <3>3. k1.flash[t].disk_num = t
      BY <2>0, <3>2 DEF Good, Stated
    <3>4. Owner(k1.flash[t]) = r.bay[t] /\ Ready(r, t)
      BY <2>0, <3>2, <3>3 DEF Owner, Owned, Ready
    <3>5. n.flash[t].gen <= r.rp[t].gen
      BY <1>1, <2>0, <3>4
    <3>6. k1.flash[t].gen \in Nat /\ r.rp[t].gen \in Nat /\ r.rp[t].gen <= gen
      <4>1. r.rp[t] \in Sound
        BY <2>0, OrderedIs
      <4> QED BY <1>6, <2>0, <4>1 DEF MediaType, Pages, Page, Sound
    <3> QED BY <1>1, <1>6, <2>2, <3>5, <3>6
  <2> QED BY <2>0, <2>2, <2>3, <2>4 DEF Plain, p, t
<1>10. PICK k2 : /\ Ordered(stored, m, k2) /\ But(stored, synced) /\ stored.need = {}
                 /\ need # {} => Still(k2.flash)
                 /\ \A s \in Slots : stored.rp[s] = IF s \in need THEN Following(synced.rp[s]) ELSE synced.rp[s]
                 /\ \A s \in Slots : k2.flash[s] = IF s \in need THEN stored.rp[s] ELSE k1.flash[s]
  <2>1. synced.map = [x \in Slots |-> x] /\ Stores(synced)
    BY <1>7 DEF Stores
  <2> QED BY <1>7, <1>8, <1>9, <2>1, StoresOrdered
<1>11. Still(k2.flash)
  <2>1. need # {}
    BY DEF CannotConfig, need, Slots
  <2> QED BY <1>10, <2>1
<1>12. /\ stored.bay = r.bay /\ stored.map = r.map /\ stored.cur = cur /\ stored.ms = "GOOD" /\ Rested(stored)
       /\ stored.reenum = r.reenum
  <2>1. synced \in RamType
    BY <1>7 DEF Rested
  <2> QED BY <1>7, <1>10, <2>1, ButIs DEF Ordered
<1>13. ASSUME NEW s \in Slots
       PROVE Filled(stored, s) /\ stored.rp[s].gen = IF s \in need THEN gen + 1 ELSE gen
  <2>1. synced.rp[s] \in Sound
    BY <1>7 DEF Rested, RamType
  <2> QED BY <1>7, <1>10, <2>1, FollowingIs
<1> HIDE DEF stored
<1>14. /\ Rested(idle) /\ idle.bay = r.bay /\ idle.map = r.map /\ idle.cur = cur /\ idle.ms = "GOOD"
       /\ idle.rp = stored.rp /\ idle.io = stored.io /\ idle.need = {} /\ ~idle.mirror /\ idle.reenum = r.reenum
  BY <1>10, <1>12 DEF Rested, RamType
<1> HIDE DEF idle
<1>15. Ordered(idle, m, k2)
  BY <1>10, <1>12, <1>14, OrderedSame
<1>16. PICK k : Ordered(q, m, k) /\ OtherThan(k, k2)
  <2>1. \A s \in Slots : Allows(k2, idle.bay[s], Step)
    BY <1>11, StillAllows
  <2>2. Step \in Nat
    BY Constants
  <2> QED BY <1>15, <2>1, <2>2, SetOrdered
<1>17. /\ q.bay = r.bay /\ q.map = r.map /\ q.cur = cur /\ q.ms = "GOOD" /\ q.rp = stored.rp
       /\ q.need = {} /\ ~q.mirror /\ q.reenum = r.reenum
  BY <1>14 DEF SetCheckPoint, WriteOthers, WriteOther, Ready, Rested, RamType
<1> HIDE DEF q
<1>18. k.flash = k2.flash /\ Still(k.flash)
  BY <1>11, <1>16 DEF OtherThan
<1>19. hw_raid_config(r, mode) = q
  BY DEF hw_raid_config, q, idle, stored, synced, filled, half, good, wiped, cur, gen, need
<1>20. Configured(q, r, mode)
  <2>1. Whole(r) => q.rp[0].gen = q.rp[1].gen
    BY <1>0, <1>13, <1>17 DEF Whole, need
  <2>2. \A s \in Slots : q.cur[s] = IF Ready(r, s) THEN "GOOD" ELSE "EMPTY"
    BY <1>17 DEF cur
  <2> QED BY <1>13, <1>17, <2>1, <2>2 DEF Configured
<1>21. \A s \in Slots : k.flash[s] = IF Ready(r, s) THEN q.rp[s] ELSE n.flash[s]
  BY <1>1, <1>10, <1>17, <1>18 DEF need
<1> QED BY <1>16, <1>18, <1>19, <1>20, <1>21

----------------------------------------------------------------------------
(* set_raid1_array_status: what it decides for a pair of slots.            *)

\* p is r with one more status of an array.
Judged(p, r, st) == p = [r EXCEPT !.queue = [@ EXCEPT ![r.num] = st], !.num = @ + 1]

\* append_array_status judges one more array.
LEMMA AppendJudges ==
  ASSUME NEW r, r.num < 2, NEW st
  PROVE Judged(append_array_status(r, st), r, st)
BY DEF Judged, append_array_status

\* What is judged, and what is left as it was.
LEMMA JudgedIs ==
  ASSUME NEW r, r \in RamType, NEW st, r.num \in Slots, NEW p, Judged(p, r, st)
  PROVE /\ p.num = r.num + 1 /\ p.queue[r.num] = st
        /\ \A i \in Slots : i # r.num => p.queue[i] = r.queue[i]
        /\ p.nvm = r.nvm /\ p.map = r.map /\ p.newer = r.newer /\ p.bay = r.bay /\ p.cur = r.cur
        /\ p.rp = r.rp /\ p.sealed = r.sealed /\ p.need = r.need /\ p.io = r.io
        /\ p.ids = r.ids /\ p.ms = r.ms /\ p.mode = r.mode
        /\ p.use = r.use /\ p.mirror = r.mirror /\ p.src = r.src /\ p.pos = r.pos /\ p.lba = r.lba
        /\ p.retry = r.retry /\ p.errAt = r.errAt /\ p.busy = r.busy /\ p.inst = r.inst /\ p.cp = r.cp
        /\ p.reenum = r.reenum
<1>1. r.queue \in [Slots -> ArrayStatus] /\ r.num \in 0..2
  BY DEF RamType
<1>2. p = [r EXCEPT !.queue = [r.queue EXCEPT ![r.num] = st], !.num = r.num + 1]
  BY DEF Judged
<1>3. p.num = r.num + 1 /\ p.queue = [r.queue EXCEPT ![r.num] = st]
  BY <1>2 DEF RamType
<1>4. p.queue[r.num] = st /\ \A i \in Slots : i # r.num => p.queue[i] = r.queue[i]
  BY <1>1, <1>3
<1> QED BY <1>2, <1>3, <1>4 DEF RamType

\* The page of slot g when the other drive is missing.
Lost(p, g) == [p EXCEPT !.status = Pair(g, "MISSING")]

\* update_slots_for_missing marks the other member as missing.
LEMMA LostIs ==
  ASSUME NEW r, Rested(r), NEW g \in Slots, r.rp[g].disk_num = g
  PROVE update_slots_for_missing(r, g) = [r EXCEPT !.rp = [@ EXCEPT ![g] = Lost(r.rp[g], g)], !.need = @ \cup {g}]
<1> DEFINE t == Across(g)
           pair == Pair(g, "MISSING")
           n == [s \in Slots |-> get_disk_num(r, s, pair[s])]
           p == r.rp[g]
<1>1. /\ t \in Slots /\ t # g /\ (\A x \in Slots : x = g \/ x = t) /\ pair[g] = "GOOD" /\ pair[t] = "MISSING"
      /\ pair \in [Slots -> SlotStatus]
  BY PairIs, StatusIs DEF Across, Slots, Pair
<1>2. n[0] = 0 /\ n[1] = 1
  <2>1. n[g] = g
    BY <1>1 DEF get_disk_num
  <2>2. n[t] = t
    BY <1>1 DEF get_disk_num, Across, Slots
  <2> QED BY <1>1, <2>1, <2>2 DEF Slots
<1>3. p \in Sound /\ p.status \in [Slots -> SlotStatus]
  BY DEF Rested, RamType, Sound, Page
<1>4. [[p.status EXCEPT ![0] = pair[0]] EXCEPT ![1] = pair[1]] = pair
  <2> HIDE DEF pair
  <2> QED BY <1>1, <1>3 DEF Slots
<1>5. Marked(r, p, pair) = Lost(p, g)
  <2>1. Marked(r, p, pair) = [p EXCEPT !.status = [@ EXCEPT ![n[0]] = pair[0], ![n[1]] = pair[1]]]
    BY DEF Marked
  <2> HIDE DEF n
  <2>2. Marked(r, p, pair) = [p EXCEPT !.status = [[@ EXCEPT ![0] = pair[0]] EXCEPT ![1] = pair[1]]]
    BY <1>2, <2>1
  <2> HIDE DEF p
  <2>3. [p EXCEPT !.status = [[@ EXCEPT ![0] = pair[0]] EXCEPT ![1] = pair[1]]] = [p EXCEPT !.status = pair]
    BY <1>4
  <2> QED BY <2>2, <2>3 DEF Lost
<1>6. update_slots_for_missing(r, g) = [r EXCEPT !.rp = [@ EXCEPT ![g] = Marked(r, r.rp[g], pair)], !.need = @ \cup {g}]
  BY DEF update_slots_for_missing
<1> QED BY <1>5, <1>6 DEF p

\* What raid1_degraded leaves: the array is degraded, and the page of the good
\* slot tells that the other drive is missing, when it does not answer.
Degrades(q, r, g, o) ==
  LET a == append_array_status(r, "DEGRADED")
  IN  \/ /\ q = a
         /\ o \in {"GOOD", "REBUILDING", "BLANK", "FAILED"} \/ r.rp[g].status[Across(g)] = "MISSING"
      \/ /\ q = [a EXCEPT !.rp = [r.rp EXCEPT ![g] = Lost(r.rp[g], g)], !.need = r.need \cup {g}]
         /\ o \notin {"GOOD", "REBUILDING", "BLANK", "FAILED"}

\* The outcomes of raid1_degraded.
LEMMA DegradedIs ==
  ASSUME NEW r, Rested(r), r.num < 2, NEW g \in Slots, r.rp[g].disk_num = g, NEW o
  PROVE Degrades(raid1_degraded(r, g, o), r, g, o)
<1> DEFINE a == append_array_status(r, "DEGRADED")
           q == raid1_degraded(r, g, o)
<1>1. a.rp = r.rp /\ a.need = r.need /\ Rested(a)
  <2>1. r.num \in Slots /\ r \in RamType
    BY DEF Rested, RamType, Slots
  <2>2. Judged(a, r, "DEGRADED")
    BY AppendJudges
  <2>3. Rested(a)
    BY AppendRests, StatusIs
  <2> HIDE DEF a
  <2>4. a.rp = r.rp /\ a.need = r.need
    BY <2>1, <2>2, JudgedIs
  <2> QED BY <2>3, <2>4
<1>2. CASE o \in {"GOOD", "REBUILDING", "BLANK", "FAILED"}
  BY <1>2 DEF raid1_degraded, Degrades
<1>3. CASE o \notin {"GOOD", "REBUILDING", "BLANK", "FAILED"}
  <2>1. get_disk_num(r, Across(g), o) = Across(g)
    BY <1>3 DEF get_disk_num, Across, Slots
  <2>2. q = IF r.rp[g].status[Across(g)] = "MISSING" THEN a ELSE update_slots_for_missing(a, g)
    BY <1>3, <2>1 DEF raid1_degraded
  <2>3. update_slots_for_missing(a, g) = [a EXCEPT !.rp = [a.rp EXCEPT ![g] = Lost(a.rp[g], g)], !.need = a.need \cup {g}]
    BY <1>1, LostIs
  <2> HIDE DEF a
  <2> QED BY <1>1, <1>3, <2>2, <2>3 DEF Degrades, a
<1> QED BY <1>2, <1>3

\* What set_raid1_array_status comes to.
Differ(r) == r.rp[0].gen # r.rp[1].gen

\* A rebuild from the first block.
Anew(r, g) ==
  SetCheckPoint([StartRebuild(update_slots_for_rebuilding(append_array_status(r, "REBUILDING"), g), g, 0)
                        EXCEPT !.newer = {}], Step)

\* The array is broken, or whole.
Ends(q, r, pair) ==
  \/ q = append_array_status(r, "BROKEN") /\ (\A g \in Slots : pair[g] = "GOOD" => pair[Across(g)] = "GOOD" /\ ~Differ(r))
  \/ /\ q = append_array_status(r, "GOOD") /\ \A s, d \in Slots : pair[s] = "GOOD" /\ r.rp[s].status[d] = "GOOD"
     /\ ~Differ(r)

\* The mirror is degraded.
Falls(q, r, g, o) ==
  /\ q = raid1_degraded(r, g, o)
  /\ o \in {"GOOD", "REBUILDING"} => Differ(r)
  /\ o = "GOOD" => r.rp[g].gen > r.rp[Across(g)].gen
  /\ AutoRebuild => o \notin {"GOOD", "BLANK"}

\* A rebuild begins.
Starts(q, r, g, o) ==
  /\ q = Anew(r, g) /\ AutoRebuild /\ o \in {"GOOD", "REBUILDING", "BLANK"}
  /\ o # "BLANK" => r.rp[g].gen > r.rp[Across(g)].gen

\* A rebuild is resumed.
Continues(q, r, g, o) ==
  q = StartRebuild(append_array_status(r, "REBUILDING"), g, r.cp[g] - Step) /\ o = "REBUILDING" /\ ~Differ(r)

\* set_raid1_array_status has one of these outcomes.
LEMMA Raid1Comes ==
  ASSUME NEW r, Rested(r), NEW pair
  PROVE LET q == set_raid1_array_status(r, pair)
        IN \/ Ends(q, r, pair)
           \/ \E g \in Slots : /\ pair[g] = "GOOD"
                               /\ LET o == pair[Across(g)]
                                  IN Falls(q, r, g, o) \/ Starts(q, r, g, o) \/ Continues(q, r, g, o)
<1> DEFINE q == set_raid1_array_status(r, pair)
           Comes(g) == LET o == pair[Across(g)] IN Falls(q, r, g, o) \/ Starts(q, r, g, o) \/ Continues(q, r, g, o)
<1>1. \A s \in Slots : r.rp[s].gen \in Nat
  BY DEF Rested, RamType, Sound, Page
<1>2. CASE \A s \in Slots : pair[s] # "GOOD"
  BY <1>2 DEF set_raid1_array_status, Slots, Ends
<1>3. ASSUME NEW g \in Slots, pair[g] = "GOOD", q = raid1_at_least_one_good(r, g, pair[Across(g)]),
             pair[Across(g)] # "GOOD"
      PROVE Comes(g)
  <2> DEFINE o == pair[Across(g)]
             t == Across(g)
  <2>0. t \in Slots /\ t # g /\ (Differ(r) <=> r.rp[g].gen # r.rp[t].gen)
    BY DEF Slots, Across, Differ
  <2>1. CASE o = "REBUILDING"
    <3>1. q = raid1_resume_rebuild(r, g)
      BY <1>3, <2>1 DEF raid1_at_least_one_good
    <3>2. CASE r.rp[g].gen = r.rp[t].gen
      <4>1. q = StartRebuild(append_array_status(r, "REBUILDING"), g, r.cp[g] - Step)
        BY <2>0, <3>1, <3>2 DEF raid1_resume_rebuild
      <4> QED BY <2>0, <2>1, <3>2, <4>1 DEF Continues
    <3>3. CASE r.rp[g].gen > r.rp[t].gen
      <4>1. q = raid1_might_be_auto_rebuild(r, g, "REBUILDING")
        BY <1>1, <2>0, <3>1, <3>3 DEF raid1_resume_rebuild
      <4>2. CASE AutoRebuild
        BY <2>1, <3>3, <4>1, <4>2 DEF Starts, raid1_might_be_auto_rebuild, Anew
      <4>3. CASE ~AutoRebuild
        BY <1>1, <2>0, <2>1, <3>3, <4>1, <4>3 DEF Falls, raid1_might_be_auto_rebuild
      <4> QED BY <4>2, <4>3
    <3>4. CASE r.rp[g].gen < r.rp[t].gen
      <4>1. q = raid1_degraded(r, g, "REBUILDING")
        BY <1>1, <2>0, <3>1, <3>4 DEF raid1_resume_rebuild
      <4> QED BY <1>1, <2>0, <2>1, <3>4, <4>1 DEF Falls
    <3> QED BY <1>1, <2>0, <3>2, <3>3, <3>4
  <2>2. CASE o = "BLANK"
    <3>1. q = raid1_might_be_auto_rebuild(r, g, "BLANK")
      BY <1>3, <2>2 DEF raid1_at_least_one_good
    <3>2. CASE AutoRebuild
      BY <2>2, <3>1, <3>2 DEF Starts, raid1_might_be_auto_rebuild, Anew
    <3>3. CASE ~AutoRebuild
      BY <2>2, <3>1, <3>3 DEF Falls, raid1_might_be_auto_rebuild
    <3> QED BY <3>2, <3>3
  <2>3. CASE o \notin {"GOOD", "REBUILDING", "BLANK"}
    <3>1. q = raid1_degraded(r, g, o)
      BY <1>3, <2>3 DEF raid1_at_least_one_good
    <3> QED BY <2>3, <3>1 DEF Falls
  <2> QED BY <1>3, <2>1, <2>2, <2>3
<1>4. CASE pair[0] = "GOOD" /\ pair[1] = "GOOD"
  <2>1. q = raid1_both_are_good(r)
    BY <1>4 DEF set_raid1_array_status, raid1_at_least_one_good
  <2>2. CASE ~Differ(r)
    <3>1. q = append_array_status(r, IF \A s, d \in Slots : r.rp[s].status[d] = "GOOD" THEN "GOOD" ELSE "BROKEN")
      BY <2>1, <2>2 DEF raid1_both_are_good, Differ
    <3> QED BY <1>4, <2>2, <3>1 DEF Ends, Slots, Across
  <2>3. CASE Differ(r)
    <3> DEFINE g == IF r.rp[0].gen > r.rp[1].gen THEN 0 ELSE 1
    <3>1. q = raid1_might_be_auto_rebuild(r, g, "GOOD")
      BY <2>1, <2>3 DEF raid1_both_are_good, Differ
    <3>2. g \in Slots /\ r.rp[g].gen > r.rp[Across(g)].gen /\ pair[g] = "GOOD" /\ pair[Across(g)] = "GOOD"
      BY <1>1, <1>4, <2>3 DEF Slots, Across, Differ
    <3> HIDE DEF g
    <3>3. CASE AutoRebuild
      <4>1. Starts(q, r, g, "GOOD")
        BY <3>1, <3>2, <3>3 DEF Starts, raid1_might_be_auto_rebuild, Anew
      <4> QED BY <3>2, <4>1
    <3>4. CASE ~AutoRebuild
      <4>1. Falls(q, r, g, "GOOD")
        BY <2>3, <3>1, <3>2, <3>4 DEF Falls, raid1_might_be_auto_rebuild
      <4> QED BY <3>2, <4>1
    <3> QED BY <3>3, <3>4
  <2> QED BY <2>2, <2>3
<1>5. CASE pair[0] = "GOOD" /\ pair[1] # "GOOD"
  BY <1>3, <1>5 DEF set_raid1_array_status, Slots, Across
<1>6. CASE pair[0] # "GOOD" /\ pair[1] = "GOOD"
  BY <1>3, <1>6 DEF set_raid1_array_status, Slots, Across
<1> QED BY <1>2, <1>4, <1>5, <1>6 DEF Slots

----------------------------------------------------------------------------
(* What a start may decide (Decides): it rests, begins a rebuild or        *)
(* resumes one.                                                            *)

\* The slots as the enumeration finds them beside the media n: a slot with a
\* page holds the page of its drive in the flash, and the drive of a slot
\* without one has no page there.
Faced(r, n) ==
  \A s \in Slots :
    /\ Ready(r, s) <=> r.cur[s] # "EMPTY"
    /\ Owned(r.rp[s]) => /\ Owner(r.rp[s]) = r.bay[s] /\ r.rp[s] = n.flash[s] /\ r.rp[s].disk_num = s
                         /\ r.rp[s].status[s] = r.cur[s] /\ r.cur[s] \in {"GOOD", "REBUILDING", "FAILED"}
    /\ ~Owned(r.rp[s]) => r.cur[s] \in {"BLANK", "EMPTY"} /\ (Ready(r, s) => Owner(n.flash[s]) # r.bay[s])
    /\ Ready(r, s) => Owner(n.flash[Across(s)]) # r.bay[s]

\* The check points in RAM are those of the drives, when a rebuild may resume.
Held(r, n) ==
  Still(n.flash) \/ \A s \in Slots : Ready(r, s) => \E c \in 1..2 : n.other[r.bay[s]][c] = r.cp[s]

\* The pages after a decision that starts no rebuild: those to be stored tell
\* that the other drive is missing.
Keeps(p, r) ==
  /\ ~p.mirror /\ p.io = r.io /\ p.bay = r.bay /\ p.map = r.map /\ p.reenum = r.reenum
  /\ \A s \in Slots :
       IF s \in p.need
       THEN Owned(r.rp[s]) /\ r.rp[s].mode = "RAID1" /\ r.rp[s].status[s] = "GOOD" /\ p.rp[s] = Lost(r.rp[s], s)
       ELSE Owned(r.rp[s]) \/ Owned(p.rp[s]) => p.rp[s] = r.rp[s]

\* raid1_use_slot of a mirror that is not whole.
Used(p) ==
  IF \A s \in Slots : p.cur[s] = "GOOD" THEN IF p.rp[0].gen > p.rp[1].gen THEN 0 ELSE 1 ELSE Leader(p)

\* An array that rests is not served with the pages of a rebuild, except by a
\* degraded mirror.
Parted(p, n) ==
  p.need = {} /\ (\E g \in Slots : Resumes(n.flash, g)) =>
    \/ p.num = 1 /\ p.queue[0] = "DEGRADED" /\ NoneEmpty(p) /\ p.rp[Leader(p)].mode = "RAID1"
    \/ \A l \in 0..p.num - 1 : p.queue[l] \in {"BROKEN", "NOT_CONFIGURED"}

\* A whole mirror is of one array and rebuilds nothing.
Sound1(p) ==
  p.num = 1 /\ p.queue[0] = "GOOD" /\ p.rp[Leader(p)].mode = "RAID1" =>
    /\ p.need = {} /\ p.rp[0].id = p.rp[1].id
    /\ \A s \in Slots : p.rp[s].status[s] # "REBUILDING"

\* A degraded mirror is served by a drive that is whole.
Degraded1(p) ==
  p.num = 1 /\ p.queue[0] = "DEGRADED" /\ Whole(p) =>
    /\ p.need = {}
    /\ Both(p) => p.rp[0].id = p.rp[1].id /\ ~Resumes(p.rp, Used(p))
    /\ p.rp[Used(p)].status[Used(p)] # "REBUILDING"
    /\ AutoRebuild => Both(p)

\* The decision to run without a rebuild.
Rests(p, r, n) ==
  /\ Keeps(p, r) /\ Parted(p, n) /\ Sound1(p) /\ Degraded1(p)
  /\ p.num = 1 => p.queue[0] # "REBUILDING" /\ (p.queue[0] = "NOT_CONFIGURED" => p.need = {})

\* A rebuild from slot g runs.
Rebuilds(p, r, g) ==
  /\ p.mirror /\ p.src = g /\ ~p.busy /\ p.bay = r.bay /\ p.map = r.map /\ p.reenum = r.reenum
  /\ p.num = 1 /\ p.queue[0] = "REBUILDING" /\ p.cur[g] = "GOOD" /\ p.cur[Across(g)] = "REBUILDING"
  /\ p.rp[g].mode = "RAID1" /\ Whole(p)

\* The decision to begin a rebuild.
Started(p, r, m, n, g) ==
  /\ Rebuilds(p, r, g) /\ p.pos = 0 /\ p.need = Slots /\ Begins(p, g) /\ \A s \in Slots : p.cp[s] = Step
  /\ \E k : /\ Ordered(p, m, k) /\ OtherThan(k, n) /\ \A s \in Slots, c \in 1..2 : k.other[p.bay[s]][c] = Step
            /\ \A s \in Slots : Owner(k.flash[s]) = p.bay[s] => k.flash[s].gen <= p.rp[s].gen

\* The decision to resume a rebuild.
Resumed(p, r, n, g) ==
  /\ Rebuilds(p, r, g) /\ p.pos = r.cp[g] - Step /\ p.need = {} /\ p.cp = r.cp /\ p.io = r.io
  /\ \A s \in Slots : p.rp[s] = n.flash[s] /\ Owner(n.flash[s]) = p.bay[s]
  /\ Resumes(n.flash, g)

\* One of the three.
Decides(p, r, m, n) ==
  /\ Rested(p)
  /\ Rests(p, r, n) \/ \E g \in Slots : Started(p, r, m, n, g) \/ Resumed(p, r, n, g)

\* The slots before the array is determined, and before it is decided.
Before(r, m, n) ==
  /\ Ordered(r, m, n) /\ Faced(r, n) /\ Held(r, n) /\ r.num = 0 /\ ~r.mirror /\ r.need = {}
  /\ \A s \in Slots : Apt(r.rp[s], s)

\* A rebuild that begins.
LEMMA StartedDecides ==
  ASSUME NEW r, NEW m, NEW n, Before(r, m, n), NEW g \in Slots, r.cur[g] = "GOOD", r.rp[g].mode = "RAID1",
         Starts(Anew(r, g), r, g, r.cur[Across(g)])
  PROVE Started(Anew(r, g), r, m, n, g)
<1> DEFINE t == Across(g)
           a == append_array_status(r, "REBUILDING")
           b == update_slots_for_rebuilding(a, g)
           c == StartRebuild(b, g, 0)
           d == [c EXCEPT !.newer = {}]
           q == SetCheckPoint(d, Step)
<1>1. /\ t \in Slots /\ t # g /\ Across(t) = g /\ (\A x \in Slots : x = g \/ x = t)
      /\ r \in RamType /\ Rested(r) /\ n \in MediaType /\ n.bay = r.bay /\ Good(n) /\ r.num \in Slots
  BY OrderedIs DEF Before, Slots, Across
<1>2. /\ Owned(r.rp[g]) /\ r.rp[g] = n.flash[g] /\ r.rp[g].disk_num = g /\ Owner(n.flash[g]) = r.bay[g]
      /\ Whole(r)
  BY <1>1 DEF Before, Faced, Starts, Whole
<1>3. Judged(a, r, "REBUILDING") /\ Rested(a)
  BY <1>1, AppendJudges, AppendRests, StatusIs DEF Before
<1> HIDE DEF a
<1>4. /\ a.num = 1 /\ a.queue[0] = "REBUILDING" /\ a.rp = r.rp /\ a.bay = r.bay /\ a.cur = r.cur /\ a.io = r.io
      /\ a.map = r.map /\ a.reenum = r.reenum
  <2>1. r.num = 0 /\ 0 \in Slots
    BY DEF Before, Slots
  <2>2. /\ a.num = r.num + 1 /\ a.queue[r.num] = "REBUILDING" /\ a.rp = r.rp /\ a.bay = r.bay /\ a.cur = r.cur
        /\ a.io = r.io /\ a.map = r.map /\ a.reenum = r.reenum
    <3>1. r \in RamType /\ r.num \in Slots /\ Judged(a, r, "REBUILDING")
      BY <1>1, <1>3
    <3> QED BY ONLY <3>1, JudgedIs
  <2> QED BY <2>1, <2>2
<1>5. /\ Rested(b) /\ Begins(b, g) /\ b.rp[g].gen = r.rp[g].gen /\ b.rp[g].mode = "RAID1" /\ b.need = Slots
      /\ b.cur = [r.cur EXCEPT ![t] = "REBUILDING"]
      /\ b = [a EXCEPT !.rp = b.rp, !.cur = b.cur, !.need = b.need]
  <2>1. Whole(a)
    BY <1>2, <1>4 DEF Whole, Ready
  <2>2. a.rp[g].disk_num = g
    BY <1>2, <1>4
  <2>3. LET y == update_slots_for_rebuilding(a, g)
        IN /\ Rested(y) /\ Begins(y, g) /\ y.rp[g].gen = a.rp[g].gen /\ y.rp[g].mode = a.rp[g].mode
           /\ y.need = Slots /\ y.cur = [a.cur EXCEPT ![Across(g)] = "REBUILDING"]
           /\ y = [a EXCEPT !.rp = y.rp, !.cur = y.cur, !.need = y.need]
    BY <1>3, <2>1, <2>2, RebuildingIs
  <2> QED BY <1>4, <2>3
<1> HIDE DEF b
<1>6. /\ b.num = 1 /\ b.queue[0] = "REBUILDING" /\ b.bay = r.bay /\ b.io = r.io /\ b.map = r.map /\ b.reenum = r.reenum
      /\ b.cur[g] = "GOOD" /\ b.cur[t] = "REBUILDING"
  <2>1. r.cur \in [Slots -> SlotStatus] /\ a \in RamType
    BY <1>1, <1>3 DEF RamType, Rested
  <2>2. b.cur[g] = "GOOD" /\ b.cur[t] = "REBUILDING"
    BY <1>1, <1>5, <2>1
  <2>3. b.num = a.num /\ b.queue = a.queue /\ b.bay = a.bay /\ b.io = a.io /\ b.map = a.map /\ b.reenum = a.reenum
    BY <1>5, <2>1 DEF RamType
  <2> QED BY <1>4, <2>2, <2>3
<1>7. Rested(c)
  BY <1>5, StartRests, Constants
<1>8. /\ c.mirror /\ c.src = g /\ c.pos = 0 /\ ~c.busy /\ c.rp = b.rp /\ c.need = b.need /\ c.num = b.num /\ c.queue = b.queue
      /\ c.bay = b.bay /\ c.io = b.io /\ c.map = b.map /\ c.reenum = b.reenum /\ c.cur = b.cur
  BY <1>5 DEF StartRebuild, Rested, RamType
<1> HIDE DEF c
<1>9. /\ Rested(d) /\ d.mirror /\ d.src = g /\ d.pos = 0 /\ ~d.busy /\ d.rp = b.rp /\ d.need = b.need /\ d.num = b.num
      /\ d.queue = b.queue
      /\ d.bay = b.bay /\ d.io = b.io /\ d.map = b.map /\ d.reenum = b.reenum /\ d.cur = b.cur
  BY <1>7, <1>8, ZenonT(60) DEF Rested, RamType
<1> HIDE DEF d
<1>10. ASSUME NEW s \in Slots PROVE Allows(n, r.bay[s], Step)
  <2>1. SUFFICES ASSUME NEW x \in Slots, Resumes(n.flash, x) PROVE Allowed(n, x, r.bay[s], Step)
    BY DEF Allows
  <2> DEFINE source == Owner(n.flash[x])
             target == Owner(n.flash[Across(x)])
  <2>2. x = g
    <3>1. r.rp[g].status[g] = "GOOD"
      BY <1>2 DEF Before, Faced
    <3> QED BY <1>1, <1>2, <2>1, <3>1 DEF Resumes
  <2>3. ~Owned(r.rp[t])
    <3>1. SUFFICES ASSUME Owned(r.rp[t]) PROVE FALSE
      OBVIOUS
    <3>2. r.rp[t] = n.flash[t] /\ r.rp[t].status[t] = r.cur[t] /\ r.cur[t] # "BLANK"
      BY <1>1, <3>1 DEF Before, Faced
    <3>3. r.rp[g].gen > r.rp[t].gen /\ r.rp[g].gen \in Nat /\ r.rp[t].gen \in Nat
      BY <1>1, <3>2 DEF Starts, RamType, Sound, Page
    <3> QED BY <1>1, <1>2, <2>1, <3>2, <3>3 DEF Resumes, Slots
  <2>4. Owner(n.flash[t]) # r.bay[t] /\ Owner(n.flash[t]) # r.bay[g]
    BY <1>1, <1>2, <2>3 DEF Before, Faced, Whole
  <2>5. source = r.bay[g] /\ target = Owner(n.flash[t])
    BY <1>2, <2>2
  <2>6. r.bay[s] # target
    BY <1>1, <2>4, <2>5
  <2>7. Sync(n, source, target, Step - Step)
    <3>1. Step - Step = 0
      BY Constants
    <3> QED BY <3>1, SyncNone
  <2>8. ASSUME x = 1
        PROVE Sync(n, source, target, Size) \/ \A c1 \in 1..2 : n.other[target][c1] # Bad => Step <= n.other[target][c1]
    <3>1. Sync(n, source, target, Size) \/ Covers(n, source, target)
      BY <1>1, <2>1, <2>8 DEF Good, Resumable
    <3> HIDE DEF source, target
    <3> QED BY <3>1 DEF Covers
  <2> HIDE DEF source, target
  <2> QED BY <2>6, <2>7, <2>8 DEF Allowed, source, target
<1>11. Ordered(d, m, n)
  BY <1>1, <1>6, <1>9, OrderedSame DEF Before
<1>12. PICK k : /\ Ordered(q, m, k) /\ OtherThan(k, n)
               /\ \A x \in Drives, y \in 1..2 :
                    k.other[x][y] = IF \E s \in Slots : Ready(d, s) /\ x = d.bay[s] THEN Step ELSE n.other[x][y]
  <2>1. \A s \in Slots : Allows(n, d.bay[s], Step)
    BY <1>6, <1>9, <1>10
  <2> QED BY <1>11, <2>1, SetOrdered, Constants
<1>13. /\ q.mirror /\ q.src = g /\ q.pos = 0 /\ ~q.busy /\ q.rp = b.rp /\ q.need = b.need /\ q.num = b.num
       /\ q.queue = b.queue
       /\ q.bay = b.bay /\ q.map = b.map /\ q.reenum = b.reenum /\ q.cur = b.cur
       /\ q.cp = [s \in Slots |-> Step]
  BY <1>9 DEF SetCheckPoint, WriteOthers, WriteOther, Ready, Rested, RamType
<1> HIDE DEF q
<1>14. \A s \in Slots, y \in 1..2 : k.other[q.bay[s]][y] = Step
  <2>1. r.bay \in Bays /\ \A s \in Slots : r.bay[s] # NoDrive
    BY <1>1, <1>2 DEF Whole, Ready, RamType
  <2> QED BY <1>6, <1>9, <1>12, <1>13, <2>1 DEF Ready, Bays
<1>15. ASSUME NEW s \in Slots, Owner(k.flash[s]) = q.bay[s] PROVE k.flash[s].gen <= q.rp[s].gen
  <2>1. k.flash = n.flash /\ q.bay = r.bay
    BY <1>6, <1>12, <1>13 DEF OtherThan
  <2>2. r.rp[g].gen \in Nat /\ r.rp[t].gen \in Nat /\ q.rp[s].gen = r.rp[g].gen
    <3>1. r.rp[g] \in Sound /\ r.rp[t] \in Sound
      BY <1>1 DEF RamType
    <3>2. b.rp[s].gen = b.rp[g].gen
      BY <1>1, <1>5 DEF Begins
    <3> QED BY <1>5, <1>13, <3>1, <3>2 DEF Sound, Page
  <2>3. CASE s = t
    <3>1. Owned(r.rp[t]) /\ r.rp[t] = n.flash[t] /\ r.cur[t] # "BLANK"
      BY <1>1, <1>2, <1>15, <2>1, <2>3 DEF Before, Faced, Whole
    <3>2. r.rp[g].gen > r.rp[t].gen
      BY <3>1 DEF Starts
    <3> QED BY <2>1, <2>2, <2>3, <3>1, <3>2
  <2> QED BY <1>1, <1>2, <2>1, <2>2, <2>3
<1>16. Rebuilds(q, r, g)
  <2>1. Whole(q)
    BY <1>2, <1>6, <1>13 DEF Whole, Ready
  <2> QED BY <1>5, <1>6, <1>13, <2>1 DEF Rebuilds
<1>17. Begins(q, g)
  BY <1>5, <1>13 DEF Begins
<1>18. Started(q, r, m, n, g)
  BY <1>5, <1>12, <1>13, <1>14, <1>15, <1>16, <1>17 DEF Started
<1>19. Anew(r, g) = q
  BY DEF Anew, q, d, c, b, a
<1> QED BY <1>18, <1>19

----------------------------------------------------------------------------
(* raid1_degraded and raid1_resume_rebuild decide so.                      *)

\* One array is judged, and the rest stays.
LEMMA JudgedKeeps ==
  ASSUME NEW r, NEW m, NEW n, Before(r, m, n), NEW st, NEW p, Judged(p, r, st)
  PROVE /\ Keeps(p, r) /\ p.num = 1 /\ p.queue[0] = st /\ p.need = {} /\ p.rp = r.rp /\ p.cur = r.cur /\ p.bay = r.bay
        /\ p.cp = r.cp
<1>1. r \in RamType /\ r.num \in Slots /\ r.num = 0 /\ ~r.mirror /\ r.need = {}
  BY OrderedIs DEF Before, Slots
<1>2. /\ p.num = r.num + 1 /\ p.queue[r.num] = st /\ p.rp = r.rp /\ p.cur = r.cur /\ p.need = r.need /\ p.mirror = r.mirror
      /\ p.io = r.io /\ p.bay = r.bay /\ p.map = r.map /\ p.reenum = r.reenum /\ p.cp = r.cp
  BY <1>1, JudgedIs
<1> QED BY <1>1, <1>2 DEF Keeps

\* A slot with a status has the page stored for it.
LEMMA FacedGood ==
  ASSUME NEW r, NEW m, NEW n, Before(r, m, n), NEW s \in Slots, r.cur[s] \in {"GOOD", "REBUILDING", "FAILED"}
  PROVE /\ Owned(r.rp[s]) /\ r.rp[s] = n.flash[s] /\ r.rp[s].status[s] = r.cur[s] /\ Ready(r, s) /\ Owner(r.rp[s]) = r.bay[s]
        /\ r.rp[s].disk_num = s
BY DEF Before, Faced

\* A mirror that is degraded rests.
LEMMA FallsDecides ==
  ASSUME NEW r, NEW m, NEW n, Before(r, m, n), NEW g \in Slots, r.cur[g] = "GOOD",
         \A s \in Slots : r.cur[s] \in {"GOOD", "REBUILDING"} => r.rp[s].mode = "RAID1",
         (\A s \in Slots : Owned(r.rp[s])) => r.rp[0].id = r.rp[1].id,
         NEW p, Falls(p, r, g, r.cur[Across(g)])
  PROVE Rests(p, r, n)
<1> DEFINE t == Across(g)
           o == r.cur[t]
           a == append_array_status(r, "DEGRADED")
<1>1. /\ t \in Slots /\ t # g /\ Across(t) = g /\ (\A x \in Slots : x = g \/ x = t)
      /\ r \in RamType /\ Rested(r) /\ n \in MediaType /\ n.bay = r.bay /\ Good(n) /\ r.num < 2
      /\ r.rp \in [Slots -> Sound]
  BY OrderedIs DEF Before, Slots, Across
<1>2. /\ Owned(r.rp[g]) /\ r.rp[g] = n.flash[g] /\ r.rp[g].status[g] = "GOOD" /\ Ready(r, g) /\ Owner(r.rp[g]) = r.bay[g]
      /\ r.rp[g].disk_num = g /\ r.rp[g].mode = "RAID1"
  BY FacedGood
<1>3. o \in {"GOOD", "REBUILDING", "FAILED", "BLANK", "EMPTY"}
  BY <1>1 DEF Before, Faced
<1>4. o \in {"GOOD", "REBUILDING", "FAILED"} =>
        /\ Owned(r.rp[t]) /\ r.rp[t] = n.flash[t] /\ r.rp[t].status[t] = o /\ Ready(r, t) /\ Owner(r.rp[t]) = r.bay[t]
  BY <1>1, FacedGood
<1>5. /\ Keeps(a, r) /\ a.num = 1 /\ a.queue[0] = "DEGRADED" /\ a.need = {} /\ a.rp = r.rp /\ a.cur = r.cur /\ a.bay = r.bay
  BY <1>1, AppendJudges, JudgedKeeps
<1>6. CASE /\ p = a
           /\ o \in {"GOOD", "REBUILDING", "BLANK", "FAILED"} \/ r.rp[g].status[t] = "MISSING"
  <2>1. ASSUME NEW x \in Slots, Resumes(n.flash, x) PROVE o = "BLANK" /\ x = g
    <3>1. x = g
      BY <1>1, <1>2, <2>1 DEF Resumes
    <3>2. n.flash[t].status[t] = "REBUILDING" /\ n.flash[g].gen = n.flash[t].gen
      BY <1>1, <2>1, <3>1 DEF Resumes, Slots
    <3>3. o \notin {"GOOD", "FAILED"}
      BY <1>4, <3>2
    <3>4. o # "REBUILDING"
      BY <1>1, <1>2, <1>4, <3>2 DEF Falls, Differ, Slots
    <3>5. r.rp[g].status[t] # "MISSING"
      BY <1>1, <1>2, <2>1, <3>1 DEF Good, Resumable
    <3> QED BY <1>3, <1>6, <3>1, <3>3, <3>4, <3>5
  <2>2. Parted(p, n)
    <3>1. SUFFICES ASSUME NEW x \in Slots, Resumes(n.flash, x)
                   PROVE NoneEmpty(p) /\ p.rp[Leader(p)].mode = "RAID1"
      BY <1>5, <1>6 DEF Parted
    <3>2. o = "BLANK"
      BY <2>1, <3>1
    <3>3. Ready(r, t)
      BY <1>1, <3>2 DEF Before, Faced
    <3>4. NoneEmpty(p)
      BY <1>1, <1>5, <1>6, <3>2 DEF NoneEmpty
    <3>5. Leader(p) = g
      BY <1>1, <1>5, <1>6, <3>2 DEF Leader, Slots
    <3> QED BY <1>2, <1>5, <1>6, <3>4, <3>5
  <2>3. Sound1(p)
    BY <1>5, <1>6 DEF Sound1
  <2>4. Degraded1(p)
    <3>1. SUFFICES ASSUME Whole(p)
                   PROVE /\ p.need = {}
                         /\ Both(p) => p.rp[0].id = p.rp[1].id /\ ~Resumes(p.rp, Used(p))
                         /\ p.rp[Used(p)].status[Used(p)] # "REBUILDING"
                         /\ AutoRebuild => Both(p)
      BY DEF Degraded1
    <3>2. Ready(r, t) /\ o # "EMPTY"
      BY <1>1, <1>5, <1>6, <3>1 DEF Whole, Ready, Before, Faced
    <3>3. Used(p) = g \/ (o = "GOOD" /\ Used(p) = t)
      BY <1>1, <1>5, <1>6 DEF Used, Leader, Slots
    <3>4. p.rp[Used(p)].status[Used(p)] = "GOOD"
      BY <1>2, <1>4, <1>5, <1>6, <3>3
    <3>5. AutoRebuild => Both(p)
      <4>1. AutoRebuild => o \in {"REBUILDING", "FAILED"}
        BY <1>3, <3>2 DEF Falls
      <4> QED BY <1>1, <1>2, <1>4, <1>5, <1>6, <4>1 DEF Both, Ready
    <3>6. ASSUME Both(p) PROVE p.rp[0].id = p.rp[1].id /\ ~Resumes(p.rp, Used(p))
      <4>1. Owned(r.rp[t])
        BY <1>1, <1>5, <1>6, <3>6 DEF Both, Owned, Ready
      <4>2. o \in {"GOOD", "REBUILDING", "FAILED"}
        BY <1>1, <4>1 DEF Before, Faced
      <4>3. p.rp[0].id = p.rp[1].id
        BY <1>1, <1>2, <1>5, <1>6, <4>1
      <4>4. ~Resumes(p.rp, Used(p))
        <5>1. CASE o = "FAILED"
          BY <1>1, <1>4, <1>5, <1>6, <3>3, <5>1 DEF Resumes
        <5>2. CASE o \in {"GOOD", "REBUILDING"}
          BY <1>5, <1>6, <5>2 DEF Resumes, Falls, Differ
        <5> QED BY <4>2, <5>1, <5>2
      <4> QED BY <4>3, <4>4
    <3> QED BY <1>5, <1>6, <3>4, <3>5, <3>6
  <2> QED BY <1>5, <1>6, <2>2, <2>3, <2>4 DEF Rests
<1>7. CASE /\ p = [a EXCEPT !.rp = [r.rp EXCEPT ![g] = Lost(r.rp[g], g)], !.need = r.need \cup {g}]
           /\ o \notin {"GOOD", "REBUILDING", "BLANK", "FAILED"}
  <2>1. o = "EMPTY" /\ ~Ready(r, t)
    BY <1>1, <1>3, <1>7 DEF Before, Faced
  <2>2. a \in RamType
    BY <1>1, AppendRests, StatusIs DEF Rested
  <2> HIDE DEF a
  <2>3. /\ p.rp = [r.rp EXCEPT ![g] = Lost(r.rp[g], g)] /\ p.need = {g}
        /\ p.num = 1 /\ p.queue[0] = "DEGRADED" /\ p.bay = r.bay /\ p.mirror = a.mirror /\ p.io = a.io
        /\ p.map = a.map /\ p.reenum = a.reenum
    <3>1. r.need = {}
      BY DEF Before
    <3> QED BY <1>5, <1>7, <2>2, <3>1 DEF RamType
  <2>4. Keeps(p, r)
    BY <1>1, <1>2, <1>5, <2>3 DEF Keeps
  <2>5. ~Whole(p)
    BY <1>1, <2>1, <2>3 DEF Whole, Ready
  <2> QED BY <2>3, <2>4, <2>5 DEF Rests, Parted, Sound1, Degraded1
<1>8. p = raid1_degraded(r, g, o)
  BY DEF Falls
<1>9. \/ /\ p = a
         /\ o \in {"GOOD", "REBUILDING", "BLANK", "FAILED"} \/ r.rp[g].status[t] = "MISSING"
      \/ /\ p = [a EXCEPT !.rp = [r.rp EXCEPT ![g] = Lost(r.rp[g], g)], !.need = r.need \cup {g}]
         /\ o \notin {"GOOD", "REBUILDING", "BLANK", "FAILED"}
  <2>1. Rested(r) /\ r.num < 2 /\ r.rp[g].disk_num = g
    BY <1>1, <1>2
  <2>2. Degrades(p, r, g, o)
    BY <1>8, <2>1, DegradedIs
  <2> QED BY <2>2, Zenon DEF Degrades
<1> QED BY <1>6, <1>7, <1>9

\* A rebuild that is resumed.
LEMMA ContinuesDecides ==
  ASSUME NEW r, NEW m, NEW n, Before(r, m, n), NEW g \in Slots, r.cur[g] = "GOOD",
         \A s \in Slots : r.cur[s] \in {"GOOD", "REBUILDING"} => r.rp[s].mode = "RAID1",
         (\A s \in Slots : Owned(r.rp[s])) => r.rp[0].id = r.rp[1].id,
         NEW p, Continues(p, r, g, r.cur[Across(g)])
  PROVE Resumed(p, r, n, g)
<1> DEFINE t == Across(g)
           a == append_array_status(r, "REBUILDING")
<1>1. /\ t \in Slots /\ t # g /\ Across(t) = g /\ (\A x \in Slots : x = g \/ x = t) /\ r \in RamType /\ Rested(r)
      /\ r.num < 2
  BY OrderedIs DEF Before, Slots, Across
<1>2. /\ Owned(r.rp[g]) /\ r.rp[g] = n.flash[g] /\ r.rp[g].status[g] = "GOOD" /\ Ready(r, g)
      /\ r.rp[g].mode = "RAID1"
  BY FacedGood
<1>3. r.cur[t] = "REBUILDING" /\ ~Differ(r)
  BY DEF Continues
<1>4. /\ Owned(r.rp[t]) /\ r.rp[t] = n.flash[t] /\ r.rp[t].status[t] = "REBUILDING" /\ Ready(r, t)
      /\ r.rp[t].mode = "RAID1"
  BY <1>1, <1>3, FacedGood
<1>5. Resumes(n.flash, g)
  BY <1>1, <1>2, <1>3, <1>4 DEF Resumes, Mates, Differ, Slots
<1>6. /\ Keeps(a, r) /\ a.num = 1 /\ a.queue[0] = "REBUILDING" /\ a.need = {} /\ a.rp = r.rp /\ a.cur = r.cur /\ a.bay = r.bay
      /\ a.cp = r.cp
  BY <1>1, AppendJudges, JudgedKeeps
<1>7. a \in RamType
  BY <1>1, AppendRests, StatusIs DEF Rested
<1>8. p = StartRebuild(a, g, r.cp[g] - Step)
  BY DEF Continues
<1> HIDE DEF a
<1>9. /\ p.mirror /\ p.src = g /\ ~p.busy /\ p.pos = r.cp[g] - Step /\ p.bay = r.bay /\ p.map = r.map /\ p.reenum = r.reenum
      /\ p.num = 1 /\ p.queue[0] = "REBUILDING" /\ p.cur = r.cur /\ p.rp = r.rp /\ p.need = {} /\ p.cp = r.cp /\ p.io = r.io
  BY <1>6, <1>7, <1>8 DEF StartRebuild, RamType, Keeps
<1>10. Whole(p)
  BY <1>1, <1>2, <1>4, <1>9 DEF Whole, Ready
<1>11. ASSUME NEW s \in Slots PROVE p.rp[s] = n.flash[s] /\ Owner(n.flash[s]) = p.bay[s]
  <2>1. r.cur[s] \in {"GOOD", "REBUILDING", "FAILED"}
    BY <1>1, <1>3
  <2> QED BY <1>9, <2>1, FacedGood
<1> QED BY <1>2, <1>3, <1>5, <1>9, <1>10, <1>11 DEF Resumed, Rebuilds

\* The array the two slots make together.
LEMMA Together ==
  ASSUME NEW r, NEW m, NEW n, Before(r, m, n), NEW mode,
         mode = "RAID1" =>
           /\ \A s \in Slots : r.cur[s] \in {"GOOD", "REBUILDING"} => r.rp[s].mode = "RAID1"
           /\ (\A s \in Slots : Owned(r.rp[s])) => r.rp[0].id = r.rp[1].id,
         mode = "JBOD" => Still(n.flash) /\ (Single(r.cur) => r.rp[Leader(r)].mode # "RAID1")
  PROVE LET p == set_array_status(r, mode, r.cur)
        IN Decides(p, r, m, n) /\ p.num = 1
<1> DEFINE p == set_array_status(r, mode, r.cur)
<1>1. Rested(r) /\ r.num < 2 /\ r.num = 0
  BY OrderedIs DEF Before
<1>2. Rested(p) /\ p.num = 1
  BY <1>1, ArrayStatusRests, StatusAdds
<1>3. ASSUME NEW st, Judged(p, r, st), st # "DEGRADED",
             st = "GOOD" => /\ Still(n.flash)
                            /\ r.rp[Leader(r)].mode = "RAID1" =>
                                 r.rp[0].id = r.rp[1].id /\ \A s \in Slots : r.rp[s].status[s] # "REBUILDING",
             st \in {"GOOD", "BROKEN", "NOT_CONFIGURED"}
      PROVE Rests(p, r, n)
  <2>1. /\ Keeps(p, r) /\ p.num = 1 /\ p.queue[0] = st /\ p.need = {} /\ p.rp = r.rp /\ p.cur = r.cur
    BY <1>3, JudgedKeeps
  <2> HIDE DEF p
  <2>2. Parted(p, n)
    <3>1. \A l \in 0..p.num - 1 : l = 0
      BY <2>1
    <3> QED BY <1>3, <2>1, <3>1 DEF Parted, Still
  <2>3. Sound1(p)
    BY <1>3, <2>1 DEF Sound1, Leader
  <2> QED BY <1>3, <2>1, <2>2, <2>3 DEF Rests, Degraded1
<1>4. ASSUME mode = "JBOD" PROVE Decides(p, r, m, n)
  <2> DEFINE st == IF \E s \in Slots : r.cur[s] = "GOOD" /\ r.cur[Across(s)] = "EMPTY" THEN "GOOD" ELSE "BROKEN"
  <2>1. Judged(p, r, st)
    BY <1>1, <1>4, AppendJudges DEF set_array_status, set_jbod_array_status
  <2>2. st = "GOOD" => r.rp[Leader(r)].mode # "RAID1"
    BY <1>4 DEF Single
  <2>3. Rests(p, r, n)
    BY <1>3, <1>4, <2>1, <2>2
  <2> QED BY <1>2, <2>3 DEF Decides
<1>5. ASSUME mode \notin {"JBOD", "RAID1"} PROVE Decides(p, r, m, n)
  <2>1. Judged(p, r, "NOT_CONFIGURED")
    BY <1>1, <1>5, AppendJudges DEF set_array_status
  <2>2. Rests(p, r, n)
    BY <1>3, <2>1
  <2> QED BY <1>2, <2>2 DEF Decides
<1>6. ASSUME mode = "RAID1" PROVE Decides(p, r, m, n)
  <2>1. p = set_raid1_array_status(r, r.cur)
    BY <1>6 DEF set_array_status
  <2>2. /\ \A s \in Slots : r.cur[s] \in {"GOOD", "REBUILDING"} => r.rp[s].mode = "RAID1"
        /\ (\A s \in Slots : Owned(r.rp[s])) => r.rp[0].id = r.rp[1].id
    BY <1>6
  <2>3. ASSUME NEW g \in Slots, r.cur[g] = "GOOD", Falls(p, r, g, r.cur[Across(g)]) PROVE Rests(p, r, n)
    BY <2>2, <2>3, FallsDecides
  <2>4. ASSUME NEW g \in Slots, r.cur[g] = "GOOD", Starts(p, r, g, r.cur[Across(g)]) PROVE Started(p, r, m, n, g)
    <3>1. p = Anew(r, g)
      BY <2>4 DEF Starts
    <3>2. r.rp[g].mode = "RAID1"
      BY <2>2, <2>4
    <3> QED BY <2>4, <3>1, <3>2, StartedDecides
  <2>5. ASSUME NEW g \in Slots, r.cur[g] = "GOOD", Continues(p, r, g, r.cur[Across(g)]) PROVE Resumed(p, r, n, g)
    BY <2>2, <2>5, ContinuesDecides
  <2>6. ASSUME Ends(p, r, r.cur) PROVE Rests(p, r, n)
    <3>1. CASE p = append_array_status(r, "BROKEN")
      <4>1. Judged(p, r, "BROKEN")
        BY <1>1, <3>1, AppendJudges
      <4> QED BY <1>3, <4>1
    <3>2. CASE p # append_array_status(r, "BROKEN")
      <4>1. Judged(p, r, "GOOD") /\ \A s \in Slots : r.cur[s] = "GOOD" /\ r.rp[s].status[s] = "GOOD"
        BY <1>1, <2>6, <3>2, AppendJudges DEF Ends
      <4>2. \A s \in Slots : Owned(r.rp[s]) /\ r.rp[s] = n.flash[s]
        BY <4>1, FacedGood
      <4>3. Still(n.flash)
        <5>1. \A s \in Slots : Across(s) \in Slots
          BY DEF Slots, Across
        <5> QED BY <4>1, <4>2, <5>1 DEF Still, Resumes
      <4> QED BY <1>3, <2>2, <4>1, <4>2, <4>3
    <3> QED BY <3>1, <3>2
  <2> HIDE DEF p
  <2>7. \/ Ends(p, r, r.cur)
        \/ \E g \in Slots : /\ r.cur[g] = "GOOD"
                            /\ LET o == r.cur[Across(g)]
                               IN Falls(p, r, g, o) \/ Starts(p, r, g, o) \/ Continues(p, r, g, o)
    BY <1>1, <2>1, Raid1Comes
  <2> QED BY <1>2, <2>3, <2>4, <2>5, <2>6, <2>7 DEF Decides
<1>7. Decides(p, r, m, n)
  <2> HIDE DEF p
  <2> QED BY <1>4, <1>5, <1>6
<1> QED BY <1>2, <1>7

----------------------------------------------------------------------------
(* A slot that is judged alone.                                            *)

\* The array one slot makes alone.
Lone(q, s) == [e \in Slots |-> IF e = s THEN q.cur[s] ELSE "EMPTY"]

\* The status of a slot is the one its page gives.
Listens(q, s) ==
  /\ q.cur[s] = "GOOD" => Owned(q.rp[s])
  /\ Owned(q.rp[s]) => q.rp[s].disk_num = s /\ q.rp[s].status[s] = q.cur[s]

\* What becomes of a slot judged alone.
Alones(p, q, s) ==
  \/ Judged(p, q, "BROKEN")
  \/ Judged(p, q, "NOT_CONFIGURED")
  \/ Judged(p, q, "GOOD") /\ Owned(q.rp[s]) /\ q.rp[s].mode = "JBOD"
  \/ /\ Owned(q.rp[s]) /\ q.rp[s].mode = "RAID1" /\ q.cur[s] = "GOOD"
     /\ LET a == append_array_status(q, "DEGRADED")
        IN \/ p = a /\ q.rp[s].status[Across(s)] = "MISSING"
           \/ p = [a EXCEPT !.rp = [q.rp EXCEPT ![s] = Lost(q.rp[s], s)], !.need = q.need \cup {s}]

\* A slot judged alone has one of these outcomes.
LEMMA AloneIs ==
  ASSUME NEW q, Rested(q), q.num < 2, NEW s \in Slots, Listens(q, s)
  PROVE Alones(Alone(q, s), q, s)
<1> DEFINE pair == Lone(q, s)
           t == Across(s)
           p == Alone(q, s)
<1>1. /\ t \in Slots /\ t # s /\ Across(t) = s /\ (\A x \in Slots : x = s \/ x = t) /\ pair[s] = q.cur[s] /\ pair[t] = "EMPTY"
  BY DEF Slots, Across, Lone
<1>2. p = set_array_status(q, q.rp[s].mode, pair)
  BY DEF Alone, Lone
<1> SUFFICES Alones(p, q, s)
  OBVIOUS
<1> HIDE DEF pair, p
<1>3. CASE q.rp[s].mode = "JBOD"
  <2>1. (p = append_array_status(q, "GOOD") /\ q.cur[s] = "GOOD") \/ p = append_array_status(q, "BROKEN")
    BY <1>1, <1>2, <1>3 DEF set_array_status, set_jbod_array_status
  <2> QED BY <1>3, <2>1, AppendJudges DEF Alones, Listens
<1>4. CASE q.rp[s].mode \notin {"JBOD", "RAID1"}
  <2>1. p = append_array_status(q, "NOT_CONFIGURED")
    BY <1>2, <1>4 DEF set_array_status
  <2> QED BY <2>1, AppendJudges DEF Alones
<1>5. CASE q.rp[s].mode = "RAID1"
  <2>1. p = set_raid1_array_status(q, pair)
    BY <1>2, <1>5 DEF set_array_status
  <2>2. \/ Ends(p, q, pair)
        \/ \E g \in Slots : /\ pair[g] = "GOOD"
                            /\ LET o == pair[Across(g)]
                               IN Falls(p, q, g, o) \/ Starts(p, q, g, o) \/ Continues(p, q, g, o)
    BY <2>1, Raid1Comes
  <2>3. CASE Ends(p, q, pair)
    <3>1. p = append_array_status(q, "BROKEN")
      BY <1>1, <2>3 DEF Ends
    <3> QED BY <3>1, AppendJudges DEF Alones
  <2>4. CASE ~Ends(p, q, pair)
    <3>1. pair[s] = "GOOD" /\ Falls(p, q, s, "EMPTY")
      BY <1>1, <2>2, <2>4 DEF Starts, Continues
    <3>2. p = raid1_degraded(q, s, "EMPTY") /\ q.cur[s] = "GOOD"
      BY <1>1, <3>1 DEF Falls
    <3>3. Degrades(p, q, s, "EMPTY") /\ Owned(q.rp[s])
      BY <3>2, DegradedIs DEF Listens
    <3> QED BY <1>5, <3>2, <3>3, Zenon DEF Degrades, Alones
  <2> QED BY <2>3, <2>4
<1> QED BY <1>3, <1>4, <1>5

\* What a slot alone adds, in one form.
Adding(p, q, s) ==
  /\ Rested(p) /\ p.num = q.num + 1 /\ p.mirror = q.mirror /\ p.io = q.io /\ p.bay = q.bay /\ p.map = q.map
  /\ p.reenum = q.reenum /\ p.cur = q.cur
  /\ \A l \in Slots : l # q.num => p.queue[l] = q.queue[l]
  /\ LET st == p.queue[q.num]
     IN \/ st \in {"BROKEN", "NOT_CONFIGURED"} /\ p.rp = q.rp /\ p.need = q.need
        \/ st = "GOOD" /\ Owned(q.rp[s]) /\ q.rp[s].mode = "JBOD" /\ p.rp = q.rp /\ p.need = q.need
        \/ /\ st = "DEGRADED" /\ Owned(q.rp[s]) /\ q.rp[s].mode = "RAID1" /\ q.cur[s] = "GOOD"
           /\ \/ p.rp = q.rp /\ p.need = q.need /\ q.rp[s].status[Across(s)] = "MISSING"
              \/ p.rp = [q.rp EXCEPT ![s] = Lost(q.rp[s], s)] /\ p.need = q.need \cup {s}

\* A slot judged alone adds one array.
LEMMA AloneAdds ==
  ASSUME NEW q, Rested(q), q.num < 2, NEW s \in Slots, Listens(q, s)
  PROVE Adding(Alone(q, s), q, s)
<1> DEFINE p == Alone(q, s)
<1>1. Alones(p, q, s)
  BY AloneIs
<1>2. Rested(p)
  BY ArrayStatusRests DEF Alone
<1> SUFFICES Adding(p, q, s)
  OBVIOUS
<1> HIDE DEF p
<1>3. q \in RamType /\ q.num \in Slots
  BY DEF Rested, RamType, Slots
<1>4. ASSUME NEW st, NEW a, Judged(a, q, st)
      PROVE /\ a.num = q.num + 1 /\ a.mirror = q.mirror /\ a.io = q.io /\ a.bay = q.bay /\ a.map = q.map
            /\ a.reenum = q.reenum /\ a.cur = q.cur /\ a.rp = q.rp /\ a.need = q.need /\ a.queue[q.num] = st
            /\ \A l \in Slots : l # q.num => a.queue[l] = q.queue[l]
  BY <1>3, <1>4, JudgedIs
<1>5. CASE Judged(p, q, "BROKEN")
  BY <1>2, <1>4, <1>5 DEF Adding
<1>6. CASE Judged(p, q, "NOT_CONFIGURED")
  BY <1>2, <1>4, <1>6 DEF Adding
<1>7. CASE Judged(p, q, "GOOD") /\ Owned(q.rp[s]) /\ q.rp[s].mode = "JBOD"
  BY <1>2, <1>4, <1>7 DEF Adding
<1> DEFINE a == append_array_status(q, "DEGRADED")
<1>8. Judged(a, q, "DEGRADED") /\ a \in RamType
  BY AppendJudges, AppendRests, StatusIs DEF Rested
<1> HIDE DEF a
<1>9. CASE Owned(q.rp[s]) /\ q.rp[s].mode = "RAID1" /\ q.cur[s] = "GOOD" /\ p = a /\ q.rp[s].status[Across(s)] = "MISSING"
  BY <1>2, <1>4, <1>8, <1>9 DEF Adding
<1>10. CASE /\ Owned(q.rp[s]) /\ q.rp[s].mode = "RAID1" /\ q.cur[s] = "GOOD"
            /\ p = [a EXCEPT !.rp = [q.rp EXCEPT ![s] = Lost(q.rp[s], s)], !.need = q.need \cup {s}]
  <2>1. /\ p.rp = [q.rp EXCEPT ![s] = Lost(q.rp[s], s)] /\ p.need = q.need \cup {s}
        /\ p.num = a.num /\ p.mirror = a.mirror /\ p.io = a.io /\ p.bay = a.bay /\ p.map = a.map
        /\ p.reenum = a.reenum /\ p.cur = a.cur /\ p.queue = a.queue
    BY <1>8, <1>10 DEF RamType
  <2>2. /\ a.num = q.num + 1 /\ a.mirror = q.mirror /\ a.io = q.io /\ a.bay = q.bay /\ a.map = q.map
        /\ a.reenum = q.reenum /\ a.cur = q.cur /\ a.queue[q.num] = "DEGRADED"
        /\ \A l \in Slots : l # q.num => a.queue[l] = q.queue[l]
    BY <1>4, <1>8
  <2> QED BY <1>2, <1>10, <2>1, <2>2 DEF Adding
<1> QED BY <1>1, <1>5, <1>6, <1>7, <1>9, <1>10 DEF Alones, a

\* What can_be_same_array leaves of slots that make no array together.
Softened(a, r) ==
  /\ a = [r EXCEPT !.rp = a.rp, !.cur = a.cur]
  /\ \A s \in Slots : /\ IF Owned(r.rp[s]) THEN a.rp[s] = r.rp[s] ELSE ~Owned(a.rp[s])
                      /\ a.cur[s] = r.cur[s] \/ (r.cur[s] = "BLANK" /\ a.cur[s] = "SOFT_REJECTED")

\* The arrays the two slots make, each alone.
LEMMA Separate ==
  ASSUME NEW r, NEW m, NEW n, Before(r, m, n), NEW a, Rested(a), Softened(a, r)
  PROVE LET p == Alone(Alone(a, 0), 1) IN Decides(p, r, m, n) /\ p.num = 2
<1> DEFINE b == Alone(a, 0)
           p == Alone(b, 1)
<1>1. r \in RamType /\ r.num = 0 /\ ~r.mirror /\ r.need = {} /\ Faced(r, n) /\ Good(n) /\ r.rp \in [Slots -> Sound]
  BY OrderedIs DEF Before
<1>2. /\ a.num = 0 /\ ~a.mirror /\ a.need = {} /\ a.io = r.io /\ a.bay = r.bay /\ a.map = r.map /\ a.reenum = r.reenum
      /\ a.rp \in [Slots -> Sound]
  BY <1>1 DEF Softened, RamType, Rested
<1>3. ASSUME NEW s \in Slots PROVE Listens(a, s) /\ (Owned(a.rp[s]) => Owned(r.rp[s]) /\ a.rp[s] = r.rp[s])
  <2>1. Owned(a.rp[s]) => Owned(r.rp[s]) /\ a.rp[s] = r.rp[s]
    BY DEF Softened
  <2>2. r.cur[s] = "BLANK" => ~Owned(r.rp[s])
    BY <1>1 DEF Faced
  <2>3. a.cur[s] = "GOOD" => Owned(a.rp[s])
    BY <1>1, FacedGood DEF Softened
  <2>4. Owned(a.rp[s]) => a.rp[s].disk_num = s /\ a.rp[s].status[s] = a.cur[s]
    BY <1>1, <2>1, <2>2 DEF Faced, Softened
  <2> QED BY <2>1, <2>3, <2>4 DEF Listens
<1>4. Adding(b, a, 0)
  BY <1>2, <1>3, AloneAdds DEF Slots
<1> HIDE DEF b
<1>5. b.num = 1 /\ Rested(b) /\ b.rp[1] = a.rp[1] /\ b.cur = a.cur
  BY <1>2, <1>4 DEF Adding, Slots
<1>6. Listens(b, 1)
  BY <1>3, <1>5 DEF Listens, Slots
<1>7. Adding(p, b, 1)
  BY <1>5, <1>6, AloneAdds DEF Slots
<1> HIDE DEF p
<1>8. /\ Rested(p) /\ p.num = 2 /\ ~p.mirror /\ p.io = r.io /\ p.bay = r.bay /\ p.map = r.map /\ p.reenum = r.reenum
      /\ p.queue[0] = b.queue[0]
  BY <1>2, <1>4, <1>5, <1>7 DEF Adding, Slots
<1>9. ASSUME NEW s \in Slots, s \in p.need
      PROVE Owned(r.rp[s]) /\ r.rp[s].mode = "RAID1" /\ r.rp[s].status[s] = "GOOD" /\ p.rp[s] = Lost(r.rp[s], s)
  <2>1. CASE s = 0
    <3>0. b.rp \in [Slots -> Sound]
      BY <1>5 DEF Rested, RamType
    <3>1. 0 \in b.need /\ p.rp[0] = b.rp[0]
      BY <3>0, <1>2, <1>5, <1>7, <1>9, <2>1 DEF Adding, Slots
    <3>2. Owned(a.rp[0]) /\ a.rp[0].mode = "RAID1" /\ a.cur[0] = "GOOD" /\ b.rp[0] = Lost(a.rp[0], 0)
      BY <1>2, <1>4, <3>1 DEF Adding, Slots
    <3> QED BY <1>3, <2>1, <3>1, <3>2 DEF Listens
  <2>2. CASE s = 1
    <3>1. 1 \notin b.need
      BY <1>2, <1>4 DEF Adding
    <3>2. Owned(b.rp[1]) /\ b.rp[1].mode = "RAID1" /\ b.cur[1] = "GOOD" /\ p.rp[1] = Lost(b.rp[1], 1)
      <4>1. b.rp \in [Slots -> Sound]
        BY <1>5 DEF Rested, RamType
      <4> QED BY <1>7, <1>9, <2>2, <3>1, <4>1 DEF Adding, Slots
    <3> QED BY <1>3, <1>5, <2>2, <3>2 DEF Listens
  <2> QED BY <2>1, <2>2 DEF Slots
<1>10. ASSUME NEW s \in Slots, s \notin p.need PROVE p.rp[s] = a.rp[s]
  <2>1. b.rp \in [Slots -> Sound]
    BY <1>5 DEF Rested, RamType
  <2>2. CASE s = 0
    BY <1>2, <1>4, <1>5, <1>7, <1>10, <2>1, <2>2 DEF Adding, Slots
  <2>3. CASE s = 1
    BY <1>2, <1>4, <1>5, <1>7, <1>10, <2>1, <2>3 DEF Adding, Slots
  <2> QED BY <2>2, <2>3 DEF Slots
<1>11. Keeps(p, r)
  BY <1>3, <1>8, <1>9, <1>10 DEF Keeps, Softened
<1>12. Parted(p, n)
  <2>1. SUFFICES ASSUME p.need = {}, NEW g \in Slots, Resumes(n.flash, g), NEW l \in 0..p.num - 1
                 PROVE p.queue[l] \in {"BROKEN", "NOT_CONFIGURED"}
    BY DEF Parted
  <2>2. l = 0 \/ l = 1
    BY <1>8
  <2>3. b.need = {}
    BY <1>7, <2>1 DEF Adding
  <2>4. ASSUME NEW s \in Slots, Owned(a.rp[s]) PROVE a.rp[s] = n.flash[s] /\ n.flash[s].mode = "RAID1"
    BY <1>1, <1>3, <2>1, <2>4 DEF Faced, Resumes, Mates
  <2>5. ASSUME NEW s \in Slots, Owned(a.rp[s]), a.cur[s] = "GOOD" PROVE a.rp[s].status[Across(s)] # "MISSING"
    <3>1. n.flash[s].status[s] = "GOOD" /\ a.rp[s] = n.flash[s]
      BY <1>3, <2>4, <2>5 DEF Listens
    <3>2. s = g
      BY <2>1, <3>1 DEF Resumes, Slots, Across
    <3> QED BY <1>1, <2>1, <3>1, <3>2 DEF Good, Resumable
  <2>6. b.queue[0] \in {"BROKEN", "NOT_CONFIGURED"}
    BY <1>2, <1>4, <2>3, <2>4, <2>5 DEF Adding, Slots
  <2>7. p.queue[1] \in {"BROKEN", "NOT_CONFIGURED"}
    BY <1>5, <1>7, <2>1, <2>3, <2>4, <2>5 DEF Adding, Slots
  <2> QED BY <1>8, <2>2, <2>6, <2>7
<1>13. Rests(p, r, n)
  BY <1>8, <1>11, <1>12 DEF Rests, Sound1, Degraded1
<1> QED BY <1>8, <1>13 DEF Decides, p, b

----------------------------------------------------------------------------
(* set_array_status and determine_metadata_status.                         *)

\* A decision for q is one for r, which has the same pages.
LEMMA DecidesElsewhere ==
  ASSUME NEW p, NEW q, NEW r, NEW m, NEW n, Decides(p, q, m, n),
         q.bay = r.bay, q.map = r.map, q.reenum = r.reenum, q.io = r.io, q.cp = r.cp,
         \A s \in Slots : IF Owned(r.rp[s]) THEN q.rp[s] = r.rp[s] ELSE ~Owned(q.rp[s])
  PROVE Decides(p, r, m, n)
<1>1. ASSUME Rests(p, q, n) PROVE Rests(p, r, n)
  <2>1. Keeps(p, r)
    BY <1>1 DEF Rests, Keeps
  <2> QED BY <1>1, <2>1 DEF Rests
<1>2. ASSUME NEW g \in Slots, Started(p, q, m, n, g) PROVE Started(p, r, m, n, g)
  BY <1>2 DEF Started, Rebuilds
<1>3. ASSUME NEW g \in Slots, Resumed(p, q, n, g) PROVE Resumed(p, r, n, g)
  BY <1>3 DEF Resumed, Rebuilds
<1> QED BY <1>1, <1>2, <1>3 DEF Decides

\* determine_metadata_status leaves the decision as it is.
LEMMA DecidesMeta ==
  ASSUME NEW a, NEW r, NEW m, NEW n, Decides(a, r, m, n)
  PROVE Decides(determine_metadata_status(a), r, m, n)
<1> DEFINE p == determine_metadata_status(a)
<1>1. Rested(a) /\ a \in RamType /\ Rested(p)
  BY MetaRests DEF Decides, Rested
<1>2. /\ p.num = a.num /\ p.queue = a.queue /\ p.cur = a.cur /\ p.rp = a.rp /\ p.need = a.need /\ p.bay = a.bay /\ p.map = a.map
      /\ p.mirror = a.mirror /\ p.src = a.src /\ p.pos = a.pos /\ p.busy = a.busy /\ p.cp = a.cp /\ p.reenum = a.reenum
      /\ p.io = a.io
  BY <1>1 DEF determine_metadata_status, RamType
<1> HIDE DEF p
<1>3. Leader(p) = Leader(a) /\ Used(p) = Used(a) /\ (Whole(p) <=> Whole(a)) /\ (NoneEmpty(p) <=> NoneEmpty(a)) /\ (Both(p) <=> Both(a))
  BY <1>2 DEF Leader, Used, Whole, NoneEmpty, Both, Ready
<1>4. ASSUME Rests(a, r, n) PROVE Rests(p, r, n)
  <2>1. Keeps(p, r)
    BY <1>2, <1>4 DEF Rests, Keeps
  <2>2. Parted(p, n)
    BY <1>2, <1>3, <1>4 DEF Rests, Parted
  <2>3. Sound1(p)
    BY <1>2, <1>3, <1>4 DEF Rests, Sound1
  <2>4. Degraded1(p)
    BY <1>2, <1>3, <1>4 DEF Rests, Degraded1
  <2> QED BY <1>2, <1>4, <2>1, <2>2, <2>3, <2>4 DEF Rests
<1>5. ASSUME NEW g \in Slots, Started(a, r, m, n, g) PROVE Started(p, r, m, n, g)
  <2>1. Rebuilds(p, r, g)
    BY <1>2, <1>3, <1>5 DEF Started, Rebuilds
  <2>2. Begins(p, g)
    BY <1>2, <1>5 DEF Started, Begins
  <2>3. \A k : Ordered(a, m, k) => Ordered(p, m, k)
    BY <1>1, <1>2, OrderedSame
  <2> QED BY <1>2, <1>5, <2>1, <2>2, <2>3 DEF Started
<1>6. ASSUME NEW g \in Slots, Resumed(a, r, n, g) PROVE Resumed(p, r, n, g)
  <2>1. Rebuilds(p, r, g)
    BY <1>2, <1>3, <1>6 DEF Resumed, Rebuilds
  <2> QED BY <1>2, <1>6, <2>1 DEF Resumed
<1> QED BY <1>1, <1>4, <1>5, <1>6 DEF Decides, p

\* What can_be_same_array makes of the slots: the newcomer's page is of the
\* mode of a mirror, or the newcomer is turned away.
LEMMA JoinedSoftens ==
  ASSUME NEW q, Enumerated(q), \A s \in Slots : q.cur[s] = "BLANK" => ~Owned(q.rp[s])
  PROVE Softened(Joined(q), q)
<1> DEFINE a == Joined(q)
<1>1. q \in RamType /\ q.rp \in [Slots -> Sound] /\ q.cur \in [Slots -> SlotStatus]
  BY DEF Enumerated, Sane, Rested, RamType
<1>2. \A s \in Slots : ~Owned(q.rp[s]) => ~Owned(a.rp[s])
  BY JoinedIs DEF Owned
<1>3. CASE a = q
  <2>1. q = [q EXCEPT !.rp = q.rp, !.cur = q.cur]
    BY <1>1 DEF RamType
  <2> QED BY <1>2, <1>3, <2>1 DEF Softened
<1>4. CASE a # q
  <2>1. \A s \in Slots : q.cur[s] # "EMPTY"
    BY <1>4 DEF Joined
  <2>2. a = Admitted(q)
    BY <2>1 DEF Joined
  <2>3. PICK t \in Newcomer(q) : TRUE
    BY <1>4, JoinedIs
  <2>4. t \in Slots /\ q.cur[t] = "BLANK" /\ Newcomer(q) = {t} /\ ~Owned(q.rp[t])
    <3>1. t \in Slots /\ q.cur[t] = "BLANK" /\ q.cur[Across(t)] = "GOOD"
      BY <2>3 DEF Newcomer
    <3>2. Newcomer(q) = {t}
      BY <2>3, <3>1 DEF Newcomer, Slots, Across
    <3>3. ~Owned(q.rp[t])
      BY <3>1
    <3> QED BY <3>1, <3>2, <3>3
  <2> HIDE DEF a
  <2>5. CASE q.bay[t] \in TooSmall
    <3> DEFINE small == {s \in Newcomer(q) : q.bay[s] \in TooSmall}
    <3>1. small = {t}
      BY <2>4, <2>5
    <3>2. (CHOOSE s \in small : TRUE) = t
      BY <3>1
    <3>3. Admitted(q) = set_stat(q, CHOOSE s \in small : TRUE, "SOFT_REJECTED")
      <4>1. small # {}
        BY <3>1
      <4> HIDE DEF small
      <4> QED BY <4>1 DEF Admitted, small
    <3>4. a = set_stat(q, t, "SOFT_REJECTED")
      BY <2>2, <3>2, <3>3
    <3> DEFINE nn == get_disk_num(q, t, "SOFT_REJECTED")
    <3>5. a = [q EXCEPT !.rp = [q.rp EXCEPT ![t] = [q.rp[t] EXCEPT !.status = [q.rp[t].status EXCEPT ![nn] = "SOFT_REJECTED"]]],
                        !.cur = [q.cur EXCEPT ![t] = "SOFT_REJECTED"]]
      BY <3>4 DEF set_stat
    <3> HIDE DEF nn
    <3>6. /\ a.rp = [q.rp EXCEPT ![t] = [q.rp[t] EXCEPT !.status = [q.rp[t].status EXCEPT ![nn] = "SOFT_REJECTED"]]]
          /\ a.cur = [q.cur EXCEPT ![t] = "SOFT_REJECTED"]
      BY <1>1, <3>5 DEF RamType
    <3>7. a = [q EXCEPT !.rp = a.rp, !.cur = a.cur]
      BY <3>5, <3>6
    <3>8. \A s \in Slots : s # t => a.rp[s] = q.rp[s] /\ a.cur[s] = q.cur[s]
      BY <1>1, <3>6
    <3>9. a.cur[t] = "SOFT_REJECTED"
      BY <1>1, <2>4, <3>6
    <3> QED BY <1>2, <2>4, <3>7, <3>8, <3>9 DEF Softened, a
  <2>6. CASE q.bay[t] \notin TooSmall
    <3>1. {s \in Newcomer(q) : q.bay[s] \in TooSmall} = {}
      BY <2>4, <2>6
    <3>2. a = IF 0 \in Newcomer(q) THEN [q EXCEPT !.rp[0].mode = "RAID1"] ELSE q
      BY <2>2, <3>1 DEF Admitted
    <3>3. t = 0 /\ a = [q EXCEPT !.rp = [q.rp EXCEPT ![0] = [q.rp[0] EXCEPT !.mode = "RAID1"]]]
      BY <1>4, <2>4, <3>2 DEF a
    <3>4. a.rp = [q.rp EXCEPT ![0] = [q.rp[0] EXCEPT !.mode = "RAID1"]] /\ a.cur = q.cur
      BY <1>1, <3>3 DEF RamType
    <3>5. a = [q EXCEPT !.rp = a.rp, !.cur = a.cur]
      BY <1>1, <3>3, <3>4 DEF RamType
    <3>6. a.rp[1] = q.rp[1]
      BY <1>1, <3>4 DEF Slots
    <3> QED BY <1>2, <2>4, <3>3, <3>4, <3>5, <3>6 DEF Softened, Slots, a
  <2> QED BY <2>5, <2>6
<1> QED BY <1>3, <1>4 DEF a

----------------------------------------------------------------------------
(* determine_array_status.                                                 *)

\* The slots as the enumeration found them, before the array is determined.
Found1(r, m, n) ==
  /\ Enumerated(r) /\ Ordered(r, m, n) /\ Faced(r, n) /\ Held(r, n) /\ \E s \in Slots : Ready(r, s)

\* The slots are found, and nothing is decided yet.
LEMMA FoundBefore ==
  ASSUME NEW r, NEW m, NEW n, Found1(r, m, n)
  PROVE LET q == Counted(r)
        IN /\ Before(q, m, n) /\ Enumerated(q) /\ q.bay = r.bay /\ q.map = r.map /\ q.reenum = r.reenum
           /\ q.io = r.io /\ q.cp = r.cp /\ q.rp = r.rp /\ q.cur = r.cur
<1> DEFINE q == Counted(r)
<1>1. Rested(r) /\ AptPages(r) /\ ~r.mirror /\ r.need = {}
  BY DEF Found1, Enumerated, Sane
<1>2. /\ Rested(q) /\ q.num = 0 /\ q.bay = r.bay /\ q.map = r.map /\ q.rp = r.rp
      /\ q.cur = r.cur /\ q.mirror = r.mirror /\ q.need = r.need /\ q.io = r.io /\ q.reenum = r.reenum
  BY <1>1, CountedIs
<1>3. q.cp = r.cp
  BY <1>1 DEF Counted, Rested, RamType
<1>4. Enumerated(q)
  BY CountedEnumerated DEF Found1
<1> HIDE DEF q
<1>5. Ordered(q, m, n)
  BY <1>2, OrderedSame DEF Found1
<1>6. Faced(q, n) /\ Held(q, n)
  BY <1>2, <1>3 DEF Found1, Faced, Held, Ready
<1>7. \A s \in Slots : Apt(q.rp[s], s)
  BY <1>1, <1>2 DEF AptPages
<1> QED BY <1>1, <1>2, <1>3, <1>4, <1>5, <1>6, <1>7 DEF Before, q

\* What of the media holds for the slots after can_be_same_array.
LEMMA JoinedBefore ==
  ASSUME NEW q, NEW m, NEW n, Before(q, m, n), Enumerated(q), can_be_same_array(q)
  PROVE LET a == Joined(q)
        IN Before(a, m, n) /\ Softened(a, q) /\ a.cp = q.cp
<1> DEFINE a == Joined(q)
<1>1. \A s \in Slots : q.cur[s] = "BLANK" => ~Owned(q.rp[s])
  BY DEF Before, Faced
<1>2. Softened(a, q)
  BY <1>1, JoinedSoftens
<1>3. q \in RamType /\ Faced(q, n) /\ Held(q, n)
  BY DEF Before, Enumerated, Sane, Rested
<1>4. /\ Rested(a) /\ AptPages(a) /\ a.bay = q.bay /\ a.io = q.io /\ a.need = q.need /\ a.mirror = q.mirror /\ a.num = q.num
  BY JoinedIs DEF Sane
<1>5. a.cur = q.cur
  <2>1. CASE \E s \in Slots : q.cur[s] = "EMPTY"
    BY <2>1 DEF Joined
  <2>2. CASE \A s \in Slots : q.cur[s] # "EMPTY"
    <3>1. {s \in Newcomer(q) : q.bay[s] \in TooSmall} = {}
      BY <2>2 DEF can_be_same_array, Newcomer, Slots, Across
    <3>2. a = IF 0 \in Newcomer(q) THEN [q EXCEPT !.rp[0].mode = "RAID1"] ELSE q
      BY <2>2, <3>1 DEF Joined, Admitted
    <3> HIDE DEF a
    <3> QED BY <1>3, <3>2 DEF RamType
  <2> QED BY <2>1, <2>2
<1> HIDE DEF a
<1>6. a.cp = q.cp
  BY <1>2, <1>3 DEF Softened, RamType
<1>7. Faced(a, n)
  <2>1. SUFFICES ASSUME NEW s \in Slots
                 PROVE /\ Ready(a, s) <=> a.cur[s] # "EMPTY"
                       /\ Owned(a.rp[s]) => /\ Owner(a.rp[s]) = a.bay[s] /\ a.rp[s] = n.flash[s] /\ a.rp[s].disk_num = s
                                            /\ a.rp[s].status[s] = a.cur[s] /\ a.cur[s] \in {"GOOD", "REBUILDING", "FAILED"}
                       /\ ~Owned(a.rp[s]) => a.cur[s] \in {"BLANK", "EMPTY"} /\ (Ready(a, s) => Owner(n.flash[s]) # a.bay[s])
                       /\ Ready(a, s) => Owner(n.flash[Across(s)]) # a.bay[s]
    BY DEF Faced
  <2>2. IF Owned(q.rp[s]) THEN a.rp[s] = q.rp[s] ELSE ~Owned(a.rp[s])
    BY <1>2 DEF Softened
  <2>3. Ready(a, s) <=> Ready(q, s)
    BY <1>4 DEF Ready
  <2> QED BY <1>3, <1>4, <1>5, <2>2, <2>3 DEF Faced
<1>8. Held(a, n)
  BY <1>3, <1>4, <1>6 DEF Held, Ready
<1>9. Ordered(a, m, n)
  BY <1>4, OrderedSame DEF Before
<1> QED BY <1>2, <1>4, <1>6, <1>7, <1>8, <1>9 DEF Before, AptPages, a

\* Two members of one array decide for it.
LEMMA SameDecides ==
  ASSUME NEW q, NEW m, NEW n, Before(q, m, n), same_array(q)
  PROVE LET p == set_array_status(q, q.rp[0].mode, q.cur) IN Decides(p, q, m, n) /\ p.num = 1
<1> DEFINE mode == q.rp[0].mode
<1>1. mode # "JBOD" /\ q.rp[0].id = q.rp[1].id /\ \A s \in Slots : q.rp[s].mode = mode
  BY DEF same_array, Slots
<1> HIDE DEF mode
<1>2. LET p == set_array_status(q, mode, q.cur) IN Decides(p, q, m, n) /\ p.num = 1
  BY <1>1, Together
<1> QED BY <1>2 DEF mode

\* A member and a newcomer decide for the array of the member.
LEMMA JoinDecides ==
  ASSUME NEW q, NEW m, NEW n, Before(q, m, n), Enumerated(q), can_be_same_array(q), \E s \in Slots : Ready(q, s)
  PROVE LET a == Joined(q)
            p == set_array_status(a, a.rp[Occupied(q)].mode, a.cur)
        IN Decides(p, a, m, n) /\ p.num = 1
<1> DEFINE a == Joined(q)
           o == Occupied(q)
           mode == a.rp[o].mode
<1>1. Before(a, m, n) /\ Softened(a, q)
  BY JoinedBefore
<1>2. /\ mode = "RAID1" => \A s \in Slots : a.cur[s] \in {"GOOD", "REBUILDING"} => a.rp[s].mode = "RAID1"
      /\ mode = "JBOD" /\ Single(a.cur) => a.rp[First(a)].mode # "RAID1"
  BY JoinedMode
<1>3. o \in Slots
  BY DEF Occupied, Slots
<1>4. Leader(a) = First(a)
  BY DEF Leader, First
<1>5. /\ Faced(q, n) /\ q.rp \in [Slots -> Sound] /\ \A s \in Slots : ~Owned(q.rp[s]) /\ q.cur[s] # "EMPTY" => q.rp[s].mode = "NOT_CONFIGURED"
  BY DEF Before, Enumerated, Paged, Sane, Rested, RamType
<1>6. (\E s \in Slots : q.cur[s] = "EMPTY") => a = q
  BY DEF Joined
<1>7. CASE \E s \in Slots : q.cur[s] = "EMPTY"
  <2>1. PICK e \in Slots : q.cur[e] = "EMPTY"
    BY <1>7
  <2>2. a = q /\ ~Owned(q.rp[e])
    BY <1>5, <1>6, <2>1 DEF Faced
  <2>3. q.cur[o] # "EMPTY" /\ Ready(q, o)
    <3>1. \E s \in Slots : q.cur[s] # "EMPTY"
      BY <1>5 DEF Faced
    <3> QED BY <1>3, <1>5, <3>1 DEF Faced, Occupied, Slots
  <2>4. mode = "JBOD" => Still(n.flash)
    <3>1. SUFFICES ASSUME mode = "JBOD" PROVE Still(n.flash)
      OBVIOUS
    <3>2. Owned(q.rp[o])
      BY <1>3, <1>5, <2>2, <2>3, <3>1
    <3>3. n.flash[o].mode = "JBOD"
      BY <1>3, <1>5, <2>2, <3>1, <3>2 DEF Faced
    <3> QED BY <1>3, <3>3 DEF Still, Resumes, Mates
  <2> HIDE DEF a, o, mode
  <2>5. LET p == set_array_status(a, mode, a.cur) IN Decides(p, a, m, n) /\ p.num = 1
    BY <1>1, <1>2, <1>4, <2>2, <2>4, Together
  <2> QED BY <2>5 DEF mode, a, o
<1>8. CASE \A s \in Slots : q.cur[s] # "EMPTY"
  <2>1. mode # "JBOD" /\ \E s \in Slots : ~Owned(a.rp[s])
    <3>1. CASE \E s \in Newcomer(q) : q.bay[s] \notin TooSmall
      <4>1. PICK t \in Newcomer(q) : TRUE
        BY <3>1
      <4>2. t \in Slots /\ ~Owned(q.rp[t])
        BY <1>5, <4>1 DEF Newcomer, Faced
      <4>3. \A s \in Slots : a.rp[s].mode # "JBOD"
        BY <1>8, <3>1, JoinedIs
      <4> HIDE DEF a
      <4> QED BY <1>1, <1>3, <4>2, <4>3 DEF Softened
    <3>2. CASE Newcomer(q) = {} /\ \A s \in Slots : q.rp[s].mode = "NOT_CONFIGURED"
      <4>1. a = q
        BY <3>2, JoinedIs
      <4>2. \A s \in Slots : Apt(q.rp[s], s)
        BY DEF Before
      <4>3. \A s \in Slots : ~Owned(q.rp[s])
        BY <3>2, <4>2 DEF Apt
      <4> QED BY <1>3, <3>2, <4>1, <4>3 DEF Slots
    <3> QED BY <1>8, <3>1, <3>2 DEF can_be_same_array
  <2> HIDE DEF a, o, mode
  <2>2. LET p == set_array_status(a, mode, a.cur) IN Decides(p, a, m, n) /\ p.num = 1
    BY <1>1, <1>2, <1>4, <2>1, Together
  <2> QED BY <2>2 DEF mode, a, o
<1> QED BY <1>7, <1>8

\* determine_array_status decides.
LEMMA DeterminedDecides ==
  ASSUME NEW r, NEW m, NEW n, Found1(r, m, n)
  PROVE Decides(Determined(r), r, m, n)
<1> DEFINE q == Counted(r)
           a == Joined(q)
           d == determine_array_status(r)
<1>1. /\ Before(q, m, n) /\ Enumerated(q) /\ q.bay = r.bay /\ q.map = r.map /\ q.reenum = r.reenum
      /\ q.io = r.io /\ q.cp = r.cp /\ q.rp = r.rp /\ q.cur = r.cur
  BY FoundBefore
<1>2. d = IF same_array(q) THEN set_array_status(q, q.rp[0].mode, q.cur)
          ELSE IF can_be_same_array(q) THEN set_array_status(a, a.rp[Occupied(q)].mode, a.cur)
          ELSE Alone(Alone(a, 0), 1)
  BY DeterminedIs
<1>3. \A s \in Slots : Owned(q.rp[s]) <=> Owned(r.rp[s])
  BY <1>1
<1>4. \E s \in Slots : Ready(q, s)
  BY <1>1 DEF Found1, Ready
<1>5. Softened(a, q) /\ Rested(a) /\ q \in RamType
  <2>1. \A s \in Slots : q.cur[s] = "BLANK" => ~Owned(q.rp[s])
    BY <1>1 DEF Before, Faced
  <2>2. Rested(q)
    BY <1>1 DEF Enumerated, Sane
  <2> HIDE DEF q
  <2> QED BY <1>1, <2>1, <2>2, JoinedSoftens, AdmittedRests DEF Joined, Rested
<1> HIDE DEF q, a, d
<1>6. Decides(d, r, m, n)
  <2>1. CASE same_array(q)
    <3>1. Decides(d, q, m, n)
      BY <1>1, <1>2, <2>1, SameDecides
    <3> QED BY <1>1, <1>3, <3>1, DecidesElsewhere
  <2>2. CASE ~same_array(q) /\ can_be_same_array(q)
    <3>1. Decides(d, a, m, n) /\ a.cp = q.cp
      BY <1>1, <1>2, <1>4, <2>2, JoinDecides, JoinedBefore DEF a
    <3>2. a.bay = q.bay /\ a.map = q.map /\ a.reenum = q.reenum /\ a.io = q.io
      BY <1>5 DEF Softened, RamType
    <3>3. \A s \in Slots : IF Owned(r.rp[s]) THEN a.rp[s] = r.rp[s] ELSE ~Owned(a.rp[s])
      BY <1>1, <1>5 DEF Softened
    <3> QED BY <1>1, <3>1, <3>2, <3>3, DecidesElsewhere
  <2>3. CASE ~same_array(q) /\ ~can_be_same_array(q)
    <3>1. Decides(d, q, m, n)
      BY <1>1, <1>2, <1>5, <2>3, Separate
    <3> QED BY <1>1, <1>3, <3>1, DecidesElsewhere
  <2> QED BY <2>1, <2>2, <2>3
<1>7. Determined(r) = determine_metadata_status(d)
  BY DEF Determined, d
<1> QED BY <1>6, <1>7, DecidesMeta

----------------------------------------------------------------------------
(* From a decision to an array that runs: update_raid1_read_use_slot, and  *)
(* store_slots after a decision to rest.                                   *)

\* What determine_metadata_status makes of one array.
Weighed(p) ==
  p.num = 1 => p.ms = IF p.queue[0] = "NOT_CONFIGURED" THEN "NO_VALID"
                      ELSE IF p.queue[0] = "GOOD" THEN "GOOD" ELSE "STH_NOT_VALID"

\* The rebuild of one array that copies.
Copying(p, n) ==
  LET g == p.src
      t == Across(g)
  IN  /\ p.num = 1 /\ p.queue[0] = "REBUILDING" /\ ~p.busy /\ Whole(p) /\ NoneEmpty(p)
      /\ p.rp[Leader(p)].mode = "RAID1" /\ p.rp[0].id = p.rp[1].id
      /\ p.rp[g].status[g] = "GOOD" /\ Sync(n, p.bay[g], p.bay[t], p.pos)
      /\ g = 1 => \/ Sync(n, p.bay[g], p.bay[t], Size)
                  \/ p.cp[1] <= p.cp[0] /\ \A e \in 1..2 : n.other[p.bay[g]][e] <= p.cp[0]

\* The array is decided and its pages are stored.
Finished(p, n) ==
  /\ PagesStored(p, n) /\ Present(p) /\ Weighed(p) /\ p.need = {} /\ Fitted(p)
  /\ ~p.mirror => Parted(p, n)
  /\ Sound1(p) /\ Degraded1(p)
  /\ p.num = 1 /\ p.queue[0] = "REBUILDING" => p.mirror
  /\ p.mirror => Copying(p, n)

\* determine_array_status weighs the pages it keeps.
LEMMA WeighedIs ==
  ASSUME NEW r, Rested(r) PROVE LET p == Determined(r) IN Weighed(p)
<1> DEFINE a == determine_array_status(r)
<1>1. a \in RamType
  BY DeterminedArrayRests DEF Rested
<1>2. Weighed(determine_metadata_status(a))
  <2> HIDE DEF a
  <2> QED BY <1>1 DEF Weighed, determine_metadata_status, RamType
<1> QED BY <1>2 DEF Determined

\* update_raid1_read_use_slot sets the slot reads are sent to.
LEMMA UsedIs ==
  ASSUME NEW r, Rested(r)
  PROVE LET q == update_raid1_read_use_slot(r)
        IN /\ Rested(q) /\ q = [r EXCEPT !.use = q.use]
           /\ r.mode = "RAID1" /\ r.queue[0] # "GOOD" => q.use = Used(r)
<1> DEFINE q == update_raid1_read_use_slot(r)
<1>1. Rested(q)
  BY ReadSlotRests
<1>2. q = [r EXCEPT !.use = q.use]
  BY DEF update_raid1_read_use_slot, Rested, RamType
<1>3. ASSUME r.mode = "RAID1", r.queue[0] # "GOOD" PROVE q.use = Used(r)
  BY <1>3 DEF update_raid1_read_use_slot, Rested, RamType, Used, Leader
<1> QED BY <1>1, <1>2, <1>3

\* store_slots keeps what was weighed.
LEMMA StoredSame ==
  ASSUME NEW r, r \in RamType, NEW q, But(q, r), Weighed(r), Present(r)
  PROVE Weighed(q) /\ Present(q) /\ Leader(q) = Leader(r)
<1>1. q.num = r.num /\ q.ms = r.ms /\ q.queue = r.queue /\ q.cur = r.cur /\ q.bay = r.bay
  BY ButIs
<1> QED BY <1>1 DEF Weighed, Present, Leader, Ready

\* An array that rests is finished by store_slots.
LEMMA RestsFinish ==
  ASSUME NEW r, NEW m, NEW n, Ordered(r, m, n), Faced(r, n), NEW p, Rested(p), Rests(p, r, n),
         Weighed(p), Present(p), p.map = [x \in Slots |-> x], p.need # {} => Stores(p)
  PROVE LET q == IF p.need # {} THEN store_slots(p) ELSE p
        IN \E k : Ordered(q, m, k) /\ Finished(q, k) /\ q.reenum = p.reenum
<1>1. /\ p \in RamType /\ r \in RamType /\ n \in MediaType /\ Good(n) /\ Keeps(p, r) /\ p.bay = r.bay /\ p.io = r.io /\ ~p.mirror
      /\ r.rp \in [Slots -> Sound]
  BY OrderedIs DEF Rests, Keeps, Rested
<1>2. Ordered(p, m, n)
  BY <1>1, OrderedSame
<1>3. ASSUME NEW s \in Slots, s \notin p.need, Ready(p, s), Owner(p.rp[s]) = p.bay[s] \/ Owner(n.flash[s]) = p.bay[s]
      PROVE p.rp[s] = n.flash[s]
  <2>1. Ready(r, s)
    BY <1>1, <1>3 DEF Ready
  <2>2. Owned(r.rp[s])
    <3>1. CASE Owner(p.rp[s]) = p.bay[s]
      <4>1. Owned(p.rp[s])
        BY <1>3, <3>1 DEF Owned, Ready
      <4>2. p.rp[s] = r.rp[s]
        BY <1>1, <1>3, <4>1 DEF Keeps
      <4> QED BY <4>1, <4>2
    <3>2. CASE Owner(n.flash[s]) = p.bay[s]
      BY <1>1, <2>1, <3>2 DEF Faced
    <3> QED BY <1>3, <3>1, <3>2
  <2>3. p.rp[s] = r.rp[s]
    BY <1>1, <1>3, <2>2 DEF Keeps
  <2> QED BY <2>2, <2>3 DEF Faced
<1>6. /\ Fitted(p)
      /\ \A s \in Slots : p.rp[s] \in Sound
  <2>1. \A s \in Slots : p.rp[s] \in Sound /\ r.rp[s] \in Page
    BY <1>1 DEF RamType, Sound
  <2>2. ASSUME NEW s \in Slots, Owned(p.rp[s]) PROVE Owner(p.rp[s]) = p.bay[s]
    <3>1. CASE s \in p.need
      <4>1. Owned(r.rp[s]) /\ r.rp[s].mode = "RAID1" /\ p.rp[s] = Lost(r.rp[s], s)
        BY <1>1, <3>1 DEF Keeps
      <4>2. Owner(r.rp[s]) = r.bay[s]
        BY <4>1 DEF Faced
      <4>3. /\ p.rp[s].disk_num = r.rp[s].disk_num /\ p.rp[s].id = r.rp[s].id /\ p.rp[s].mode = r.rp[s].mode
        BY <2>1, <4>1 DEF Lost, Page
      <4> QED BY <1>1, <4>2, <4>3 DEF Owner, Valid
    <3>2. CASE s \notin p.need
      <4>1. p.rp[s] = r.rp[s]
        BY <1>1, <2>2, <3>2 DEF Keeps
      <4> QED BY <1>1, <2>2, <4>1 DEF Faced
    <3> QED BY <3>1, <3>2
  <2> QED BY <2>1, <2>2 DEF Fitted
<1>4. CASE p.need = {}
  <2>1. PagesStored(p, n)
    BY <1>3, <1>4 DEF PagesStored
  <2>2. Finished(p, n)
    BY <1>1, <1>4, <1>6, <2>1 DEF Finished, Rests
  <2> QED BY <1>2, <1>4, <2>2
<1>5. CASE p.need # {}
  <2> DEFINE q == store_slots(p)
  <2>1. ASSUME NEW s \in p.need PROVE Plain(n, s, Following(p.rp[s]))
    <3> DEFINE t == Across(s)
               x == Following(p.rp[s])
    <3>1. s \in Slots /\ t \in Slots /\ t # s /\ Across(t) = s /\ \A y \in Slots : y = s \/ y = t
      BY <1>1, <2>1, SMTT(30) DEF RamType, Slots, Across
    <3>2. Owned(r.rp[s]) /\ r.rp[s].mode = "RAID1" /\ r.rp[s].status[s] = "GOOD" /\ p.rp[s] = Lost(r.rp[s], s)
      BY <1>1, <2>1, <3>1 DEF Keeps
    <3>3. r.rp[s] = n.flash[s] /\ r.rp[s].disk_num = s
      BY <3>1, <3>2 DEF Faced
    <3>4. p.rp[s] \in Sound /\ r.rp[s] \in Page
      BY <1>1, <3>1 DEF RamType, Sound
    <3>5. /\ p.rp[s].disk_num = s /\ p.rp[s].id = r.rp[s].id /\ p.rp[s].mode = "RAID1" /\ p.rp[s].gen = r.rp[s].gen
          /\ p.rp[s].status[s] = "GOOD" /\ Owner(p.rp[s]) = Owner(r.rp[s])
      <4>1. /\ p.rp[s].disk_num = r.rp[s].disk_num /\ p.rp[s].id = r.rp[s].id /\ p.rp[s].mode = r.rp[s].mode
            /\ p.rp[s].gen = r.rp[s].gen /\ p.rp[s].status = Pair(s, "MISSING")
        BY <3>2, <3>4 DEF Lost, Page
      <4> QED BY <3>1, <3>2, <3>3, <4>1 DEF Pair, Owner, Valid
    <3>6. /\ x \in Page /\ x.gen = r.rp[s].gen + 1 /\ x.mode = "RAID1" /\ x.disk_num = s /\ x.status[s] = "GOOD"
          /\ x.id = r.rp[s].id /\ Owned(x)
      BY <3>2, <3>4, <3>5, FollowingIs DEF Owned
    <3> HIDE DEF x
    <3>7. ASSUME Mates(Put(n, s, x).flash), n.flash[t].status[t] = "REBUILDING" PROVE n.flash[t].gen < x.gen
      <4>1. LET y == Put(n, s, x) IN y.flash[s] = x /\ y.flash[t] = n.flash[t]
        BY <1>1, <3>1, <3>6, PutIs
      <4>2. Mates(n.flash)
        BY <3>1, <3>2, <3>3, <3>6, <3>7, <4>1 DEF Mates, Slots
      <4>3. n.flash[t].gen <= n.flash[s].gen
        BY <1>1, <3>1, <3>7, <4>2 DEF Good, Behind
      <4>4. n.flash[t].gen \in Nat /\ n.flash[s].gen \in Nat
        BY <1>1, <3>1 DEF MediaType, Pages, Page
      <4> QED BY <3>3, <3>6, <4>3, <4>4
    <3> QED BY <3>6, <3>7 DEF Plain, x
  <2>2. Stores(p)
    BY <1>5
  <2>3. PICK k : /\ Ordered(q, m, k) /\ But(q, p) /\ q.need = {}
                 /\ p.need # {} => Still(k.flash)
                 /\ \A s \in Slots : q.rp[s] = IF s \in p.need THEN Following(p.rp[s]) ELSE p.rp[s]
                 /\ \A s \in Slots : k.flash[s] = IF s \in p.need THEN q.rp[s] ELSE n.flash[s]
    BY <1>2, <2>1, <2>2, StoresOrdered
  <2> HIDE DEF q
  <2>4. Weighed(q) /\ Present(q) /\ Leader(q) = Leader(p)
    BY <1>1, <2>3, StoredSame
  <2>5. q.num = p.num /\ q.ms = p.ms /\ q.queue = p.queue /\ q.cur = p.cur /\ q.bay = p.bay /\ q.mirror = p.mirror /\ q.reenum = p.reenum
    BY <1>1, <2>3, ButIs
  <2>6. PagesStored(q, k)
    BY <1>3, <2>3, <2>5 DEF PagesStored, Ready
  <2>7. Parted(q, k)
    BY <1>5, <2>3 DEF Parted, Still
  <2>8. Sound1(q)
    <3>1. SUFFICES ASSUME q.num = 1, q.queue[0] = "GOOD", q.rp[Leader(q)].mode = "RAID1" PROVE FALSE
      BY DEF Sound1
    <3>2. Leader(p) \in Slots /\ p.rp \in [Slots -> Sound]
      BY <1>1 DEF Leader, Slots, RamType
    <3>3. q.rp[Leader(p)].mode = p.rp[Leader(p)].mode
      BY <2>3, <3>2, FollowingIs
    <3>4. p.rp[Leader(p)].mode = "RAID1"
      BY <2>4, <3>1, <3>3
    <3> QED BY <1>5, <2>5, <3>1, <3>4 DEF Rests, Sound1
  <2>9. Degraded1(q)
    <3>1. SUFFICES ASSUME q.num = 1, q.queue[0] = "DEGRADED", Whole(q) PROVE FALSE
      BY DEF Degraded1
    <3>2. Whole(p)
      BY <2>5, <3>1 DEF Whole, Ready
    <3> QED BY <1>5, <2>5, <3>1, <3>2 DEF Rests, Degraded1
  <2>10. q.num = 1 /\ q.queue[0] = "REBUILDING" => q.mirror
    BY <2>5 DEF Rests
  <2>12. Fitted(q)
    <3> SUFFICES ASSUME NEW s \in Slots, Owned(q.rp[s]) PROVE Owner(q.rp[s]) = q.bay[s]
      BY DEF Fitted
    <3>1. Owner(q.rp[s]) = Owner(p.rp[s])
      BY <1>6, <2>3, FollowingIs
    <3> QED BY <1>6, <2>5, <3>1 DEF Fitted, Owned
  <2>11. Finished(q, k)
    BY <1>1, <2>3, <2>4, <2>5, <2>6, <2>7, <2>8, <2>9, <2>10, <2>12 DEF Finished
  <2> QED BY <1>5, <2>3, <2>5, <2>11 DEF q
<1> QED BY <1>4, <1>5

----------------------------------------------------------------------------
(* store_slots after the decision to begin or resume a rebuild.            *)

\* The source of a rebuild leads.
LEMMA RebuildsLeader ==
  ASSUME NEW p, NEW r, NEW g \in Slots, Rebuilds(p, r, g)
  PROVE /\ Leader(p) = g /\ NoneEmpty(p)
        /\ \A x \in Slots : x = g \/ x = Across(g)
<1>1. Across(g) \in Slots /\ Across(g) # g /\ \A x \in Slots : x = g \/ x = Across(g)
  BY DEF Slots, Across
<1>2. Leader(p) = g
  BY <1>1 DEF Leader, Rebuilds, Slots
<1> QED BY <1>1, <1>2 DEF NoneEmpty, Rebuilds

\* A rebuild that begins is finished by store_slots.
LEMMA StartedFinish ==
  ASSUME NEW r, NEW m, NEW n, NEW p, Rested(p), NEW g \in Slots, Started(p, r, m, n, g),
         Weighed(p), Present(p), p.map = [x \in Slots |-> x]
  PROVE LET q == IF p.need # {} THEN store_slots(p) ELSE p
        IN \E k : Ordered(q, m, k) /\ Finished(q, k) /\ q.reenum = p.reenum
<1> DEFINE q == store_slots(p)
           t == Across(g)
<1>1. /\ Leader(p) = g /\ NoneEmpty(p) /\ p.need = Slots /\ p \in RamType /\ Rebuilds(p, r, g) /\ Begins(p, g)
      /\ t \in Slots /\ t # g /\ p.pos = 0 /\ \A x \in Slots : x = g \/ x = t
  BY RebuildsLeader DEF Started, Rested, Slots, Across
<1>2. Stores(p)
  BY <1>1 DEF Weighed, Rebuilds, Stores
<1>3. PICK n1 : /\ Ordered(p, m, n1)
                /\ \A s \in Slots, c \in 1..2 : n1.other[p.bay[s]][c] = Step
                /\ \A s \in Slots : Owner(n1.flash[s]) = p.bay[s] => n1.flash[s].gen <= p.rp[s].gen
  BY DEF Started
<1>16. Owner(n1.flash[t]) = p.bay[t] => n1.flash[t].gen <= p.rp[g].gen
  BY <1>1, <1>3 DEF Begins
<1>4. PICK k : /\ Ordered(q, m, k) /\ But(q, p) /\ q.need = {}
               /\ \A s \in Slots : q.rp[s] = Following(p.rp[s]) /\ k.flash[s] = q.rp[s]
               /\ k.data = n1.data /\ k.acked = n1.acked /\ k.other = n1.other
  BY <1>1, <1>2, <1>3, <1>16, RebuildStored
<1> HIDE DEF q
<1>5. Weighed(q) /\ Present(q) /\ Leader(q) = g
  BY <1>1, <1>4, StoredSame
<1>6. /\ q.num = 1 /\ q.queue[0] = "REBUILDING" /\ q.cur = p.cur /\ q.bay = p.bay /\ q.mirror /\ q.reenum = p.reenum
      /\ q.src = g /\ ~q.busy /\ q.pos = 0 /\ q.cp = p.cp
  BY <1>1, <1>4, ButIs DEF Rebuilds
<1>7. PagesStored(q, k)
  BY <1>4 DEF PagesStored
<1>8. \A s \in Slots : q.rp[s].mode = p.rp[s].mode /\ q.rp[s].id = p.rp[s].id /\ q.rp[s].status = p.rp[s].status
  <2>1. \A s \in Slots : p.rp[s] \in Sound
    BY <1>1 DEF RamType
  <2> QED BY <1>4, <2>1, FollowingIs
<1>9. /\ q.rp[g].mode = "RAID1" /\ q.rp[0].id = q.rp[1].id /\ q.rp[g].status[g] = "GOOD"
  BY <1>1, <1>8 DEF Rebuilds, Begins, Pair, Slots
<1>10. Sync(k, q.bay[g], q.bay[t], q.pos)
  BY <1>6, SyncNone
<1>11. q.cp[1] <= q.cp[0] /\ \A e \in 1..2 : k.other[q.bay[g]][e] <= q.cp[0]
  <2>1. p.cp[0] = Step /\ p.cp[1] = Step
    BY DEF Started, Slots
  <2>2. \A e \in 1..2 : k.other[q.bay[g]][e] = Step
    BY <1>3, <1>4, <1>6
  <2> QED BY <1>6, <2>1, <2>2, Constants
<1>12. Whole(q) /\ NoneEmpty(q)
  BY <1>1, <1>6 DEF Rebuilds, Whole, Ready, NoneEmpty
<1>13. Copying(q, k)
  BY <1>5, <1>6, <1>9, <1>10, <1>11, <1>12 DEF Copying
<1>17. Fitted(q)
  <2> SUFFICES ASSUME NEW s \in Slots PROVE Owner(q.rp[s]) = q.bay[s]
    BY DEF Fitted
  <2>1. p.rp[s] \in Sound /\ q.rp[s] = Following(p.rp[s])
    BY <1>1, <1>4 DEF RamType
  <2>2. Owner(q.rp[s]) = Owner(p.rp[s])
    BY <2>1, FollowingIs
  <2> QED BY <1>1, <1>6, <2>2 DEF Begins
<1>14. Finished(q, k)
  BY <1>4, <1>5, <1>6, <1>7, <1>13, <1>17 DEF Finished, Sound1, Degraded1
<1>15. p.need # {}
  BY <1>1 DEF Slots
<1> QED BY <1>4, <1>6, <1>14, <1>15 DEF q

\* A rebuild that is resumed stores nothing.
LEMMA ResumedFinish ==
  ASSUME NEW r, NEW m, NEW n, Ordered(r, m, n), Held(r, n), NEW p, Rested(p), NEW g \in Slots, Resumed(p, r, n, g),
         Weighed(p), Present(p)
  PROVE LET q == IF p.need # {} THEN store_slots(p) ELSE p
        IN \E k : Ordered(q, m, k) /\ Finished(q, k) /\ q.reenum = p.reenum
<1> DEFINE t == Across(g)
<1>1. /\ Leader(p) = g /\ NoneEmpty(p) /\ p.need = {} /\ p \in RamType /\ Rebuilds(p, r, g) /\ p.io = r.io /\ p.bay = r.bay
      /\ p.cp = r.cp /\ p.pos = r.cp[g] - Step
      /\ t \in Slots /\ t # g /\ \A x \in Slots : x = g \/ x = t
  BY RebuildsLeader DEF Resumed, Rebuilds, Rested, Slots, Across
<1>2. Ordered(p, m, n) /\ n \in MediaType /\ Good(n) /\ r \in RamType
  BY <1>1, OrderedSame, OrderedIs
<1>3. /\ \A s \in Slots : p.rp[s] = n.flash[s] /\ Owner(n.flash[s]) = p.bay[s]
      /\ Resumes(n.flash, g) /\ Resumable(n, g)
  BY <1>2 DEF Resumed, Good
<1>4. PagesStored(p, n)
  BY <1>3 DEF PagesStored
<1>5. \A s \in Slots : \E c \in 1..2 : n.other[p.bay[s]][c] = p.cp[s]
  <2>1. ~Still(n.flash)
    BY <1>3 DEF Still
  <2>2. \A s \in Slots : Ready(r, s)
    BY <1>1 DEF Rebuilds, Whole, Ready
  <2> QED BY <1>1, <2>1, <2>2 DEF Held
<1>6. p.rp[g].mode = "RAID1" /\ p.rp[0].id = p.rp[1].id /\ p.rp[g].status[g] = "GOOD"
  BY <1>3 DEF Resumes, Mates, Slots
<1>7. Sync(n, p.bay[g], p.bay[t], p.pos)
  <2>1. PICK c \in 1..2 : n.other[p.bay[g]][c] = p.cp[g]
    BY <1>5
  <2>2. Sync(n, p.bay[g], p.bay[t], n.other[p.bay[g]][c] - Step)
    BY <1>1, <1>3 DEF Resumable
  <2> QED BY <1>1, <2>1, <2>2
<1>8. ASSUME g = 1
      PROVE \/ Sync(n, p.bay[g], p.bay[t], Size)
            \/ p.cp[1] <= p.cp[0] /\ \A e \in 1..2 : n.other[p.bay[g]][e] <= p.cp[0]
  <2>1. Sync(n, p.bay[g], p.bay[t], Size) \/ Covers(n, p.bay[g], p.bay[t])
    BY <1>1, <1>3, <1>8 DEF Resumable
  <2>2. t = 0
    BY <1>1, <1>8 DEF Slots
  <2>3. PICK c \in 1..2 : n.other[p.bay[t]][c] = p.cp[0]
    BY <1>1, <1>5, <2>2
  <2>4. PICK e \in 1..2 : n.other[p.bay[g]][e] = p.cp[1]
    BY <1>5, <1>8
  <2>5. p.cp[0] \in Nat /\ p.cp[0] # Bad
    BY <1>1 DEF RamType, Slots, Bad
  <2> QED BY <2>1, <2>3, <2>4, <2>5 DEF Covers
<1>9. p.mirror /\ p.src = g /\ p.num = 1 /\ p.queue[0] = "REBUILDING" /\ ~p.busy /\ Whole(p)
  BY <1>1 DEF Rebuilds
<1>10. Copying(p, n)
  BY <1>1, <1>6, <1>7, <1>8, <1>9 DEF Copying
<1>12. Fitted(p)
  BY <1>3 DEF Fitted
<1>11. Finished(p, n)
  BY <1>1, <1>4, <1>9, <1>10, <1>12 DEF Finished, Sound1, Degraded1
<1> QED BY <1>1, <1>2, <1>11

\* Each decision is finished by store_slots.
LEMMA DecidesFinish ==
  ASSUME NEW r, NEW m, NEW n, Ordered(r, m, n), Faced(r, n), Held(r, n), NEW p, Decides(p, r, m, n),
         Weighed(p), Present(p), r.map = [x \in Slots |-> x], p.need # {} => Stores(p)
  PROVE LET q == IF p.need # {} THEN store_slots(p) ELSE p
        IN \E k : Ordered(q, m, k) /\ Finished(q, k) /\ q.reenum = r.reenum
<1>1. p.map = r.map /\ p.reenum = r.reenum /\ Rested(p)
  BY DEF Decides, Rests, Started, Resumed, Keeps, Rebuilds
<1>2. CASE Rests(p, r, n)
  BY <1>1, <1>2, RestsFinish
<1>3. ASSUME NEW g \in Slots, Started(p, r, m, n, g)
      PROVE LET q == IF p.need # {} THEN store_slots(p) ELSE p
            IN \E k : Ordered(q, m, k) /\ Finished(q, k) /\ q.reenum = r.reenum
  BY <1>1, <1>3, StartedFinish
<1>4. ASSUME NEW g \in Slots, Resumed(p, r, n, g)
      PROVE LET q == IF p.need # {} THEN store_slots(p) ELSE p
            IN \E k : Ordered(q, m, k) /\ Finished(q, k) /\ q.reenum = r.reenum
  BY <1>1, <1>4, ResumedFinish
<1> QED BY <1>2, <1>3, <1>4 DEF Decides

\* config_disk_arrays and raid_init.
LEMMA FinishedGood ==
  ASSUME NEW r, NEW m, NEW n, Ordered(r, m, n), Finished(r, n)
  PROVE LET q == raid_init(config_disk_arrays(r))
        IN Ordered(q, m, n) /\ RamGood(q, n) /\ q.reenum = r.reenum /\ q.bay = r.bay
<1> DEFINE x == config_disk_arrays(r)
           q == raid_init(x)
<1>1. Rested(r) /\ r \in RamType
  BY OrderedIs
<1>2. Rested(x)
  BY <1>1, ConfigDisksRests
<1>3. /\ x = [r EXCEPT !.mode = x.mode, !.use = x.use]
      /\ x.mode = "RAID1" /\ r.queue[0] # "GOOD" => x.use = Used(r)
      /\ x.mode = IF r.num # 1 THEN "JBOD"
                  ELSE IF r.ms = "GOOD" THEN r.rp[Leader(r)].mode
                  ELSE IF r.ms = "STH_NOT_VALID"
                  THEN IF r.queue[0] \in {"REBUILDING", "DEGRADED"} /\ NoneEmpty(r) THEN r.rp[Leader(r)].mode ELSE "JBOD"
                  ELSE r.mode
  <2> DEFINE md == IF r.num # 1 THEN "JBOD"
                   ELSE IF r.ms = "GOOD" THEN r.rp[Leader(r)].mode
                   ELSE IF r.ms = "STH_NOT_VALID"
                   THEN IF r.queue[0] \in {"REBUILDING", "DEGRADED"} /\ NoneEmpty(r) THEN r.rp[Leader(r)].mode ELSE "JBOD"
                   ELSE r.mode
             y == [r EXCEPT !.mode = md]
  <2>1. x = update_raid1_read_use_slot(y)
    BY DEF config_disk_arrays, Leader, NoneEmpty
  <2> HIDE DEF md
  <2>2. /\ x = [y EXCEPT !.use = IF md # "RAID1" \/ r.queue[0] = "GOOD" THEN 0 ELSE Used(r)]
    <3>1. /\ y.mode = md /\ y.queue = r.queue /\ y.cur = r.cur /\ y.rp = r.rp
      BY <1>1 DEF RamType
    <3> HIDE DEF y
    <3> QED BY <2>1, <3>1 DEF update_raid1_read_use_slot, Used, Leader
  <2> HIDE DEF x
  <2>3. x.mode = md /\ x.use = (IF md # "RAID1" \/ r.queue[0] = "GOOD" THEN 0 ELSE Used(r))
        /\ x = [r EXCEPT !.mode = x.mode, !.use = x.use]
    <3>1. x.mode = md /\ x.use = (IF md # "RAID1" \/ r.queue[0] = "GOOD" THEN 0 ELSE Used(r))
      BY <1>1, <2>2 DEF RamType
    <3> QED BY <1>1, <2>2, <3>1 DEF RamType
  <2> QED BY <2>3 DEF md
<1> HIDE DEF x
<1>4. /\ Rested(q) /\ q.rp = r.rp /\ q.bay = r.bay /\ q.cur = r.cur /\ q.queue = r.queue /\ q.num = r.num /\ q.ms = r.ms
      /\ q.mirror = r.mirror /\ q.src = r.src /\ q.pos = r.pos /\ q.cp = r.cp /\ q.busy = r.busy /\ q.need = r.need
      /\ q.io = r.io /\ q.reenum = r.reenum /\ q.mode = x.mode /\ q.use = x.use
      /\ q.mode = "RAID1" => ~q.inst
  <2>1. /\ x.rp = r.rp /\ x.bay = r.bay /\ x.cur = r.cur /\ x.queue = r.queue /\ x.num = r.num /\ x.ms = r.ms
        /\ x.mirror = r.mirror /\ x.src = r.src /\ x.pos = r.pos /\ x.cp = r.cp /\ x.busy = r.busy /\ x.need = r.need
        /\ x.io = r.io /\ x.reenum = r.reenum
    BY <1>1, <1>3, ZenonT(60) DEF RamType
  <2>2. q = x \/ q = [x EXCEPT !.inst = FALSE]
    BY DEF raid_init
  <2>3. Rested(q)
    BY <1>2, <2>2, ZenonT(60) DEF Rested, RamType
  <2>4. q.mode = "RAID1" => ~q.inst
    BY <1>2 DEF raid_init, Rested, RamType
  <2>5. /\ q.rp = x.rp /\ q.bay = x.bay /\ q.cur = x.cur /\ q.queue = x.queue /\ q.num = x.num /\ q.ms = x.ms
        /\ q.mirror = x.mirror /\ q.src = x.src /\ q.pos = x.pos /\ q.cp = x.cp /\ q.busy = x.busy /\ q.need = x.need
        /\ q.io = x.io /\ q.reenum = x.reenum /\ q.mode = x.mode /\ q.use = x.use
    <3> HIDE DEF q
    <3> QED BY <1>2, <2>2 DEF Rested, RamType
  <2> HIDE DEF q
  <2> QED BY <2>1, <2>3, <2>4, <2>5
<1> HIDE DEF q
<1>5. Ordered(q, m, n)
  BY <1>4, OrderedSame
<1>6. PagesStored(q, n)
  BY <1>4 DEF Finished, PagesStored, Ready
<1>7. r.num = 1 => r.ms # "CONFLICT" /\ (r.ms = "NO_VALID" <=> r.queue[0] = "NOT_CONFIGURED") /\ (r.ms = "GOOD" <=> r.queue[0] = "GOOD")
  BY <1>1 DEF Finished, Weighed, RamType, MetaStatus
<1>8. q.mirror => Copying(r, n) /\ q.mode = "RAID1"
  <2>1. SUFFICES ASSUME r.mirror PROVE Copying(r, n) /\ x.mode = "RAID1"
    BY <1>4
  <2>2. Copying(r, n)
    BY <2>1 DEF Finished
  <2>3. r.num = 1 /\ r.ms = "STH_NOT_VALID"
    BY <2>2 DEF Finished, Weighed, Copying
  <2> QED BY <1>3, <2>2, <2>3 DEF Copying
<1>9. NotServed(q, n)
  <2>1. SUFFICES ASSUME q.mode # "RAID1", \E g \in Slots : Resumes(n.flash, g), NEW l \in 0..q.num - 1
                 PROVE q.queue[l] \in {"BROKEN", "NOT_CONFIGURED"}
    BY DEF NotServed
  <2>2. ~r.mirror
    BY <1>4, <1>8, <2>1
  <2>3. \/ r.num = 1 /\ r.queue[0] = "DEGRADED" /\ NoneEmpty(r) /\ r.rp[Leader(r)].mode = "RAID1"
        \/ \A i \in 0..r.num - 1 : r.queue[i] \in {"BROKEN", "NOT_CONFIGURED"}
    BY <2>1, <2>2 DEF Finished, Parted
  <2>4. ASSUME r.num = 1, r.queue[0] = "DEGRADED", NoneEmpty(r), r.rp[Leader(r)].mode = "RAID1" PROVE FALSE
    <3>1. r.ms = "STH_NOT_VALID"
      BY <2>4 DEF Finished, Weighed
    <3> QED BY <1>3, <1>4, <2>1, <2>4, <3>1
  <2> QED BY <1>4, <2>1, <2>3, <2>4
<1>10. Copies(q, n)
  <2>1. SUFFICES ASSUME q.mirror PROVE Copies(q, n)
    BY DEF Copies
  <2>2. Copying(r, n)
    BY <1>8, <2>1
  <2> QED BY <1>4, <2>2 DEF Copies, Copying
<1>11. OneArray(q)
  <2>1. SUFFICES ASSUME q.mode = "RAID1", q.queue[0] # "NOT_CONFIGURED"
                 PROVE OneArray(q)
    BY DEF OneArray, Mirrors
  <2>2. /\ r.num = 1 /\ r.queue[0] # "NOT_CONFIGURED" /\ r.ms \in {"GOOD", "STH_NOT_VALID"} /\ r.rp[Leader(r)].mode = "RAID1"
        /\ r.ms = "STH_NOT_VALID" => r.queue[0] \in {"REBUILDING", "DEGRADED"} /\ NoneEmpty(r)
        /\ r.ms = "GOOD" => r.queue[0] = "GOOD"
    <3>1. r.num = 1 /\ x.mode = "RAID1" /\ r.queue[0] # "NOT_CONFIGURED"
      BY <1>3, <1>4, <2>1
    <3>2. r.ms \in MetaStatus /\ r.ms \in {"GOOD", "STH_NOT_VALID"}
      BY <1>1, <1>7, <3>1 DEF RamType, MetaStatus
    <3> QED BY <1>3, <1>7, <3>1, <3>2
  <2>9. Fitted(q) /\ (q.inst => q.busy)
    BY <1>4, <2>1 DEF Finished, Fitted
  <2>3. NoneEmpty(r) => Whole(r)
    BY DEF Finished, Present, NoneEmpty, Whole
  <2>4. Both(q) <=> Both(r)
    BY <1>4 DEF Both, Ready
  <2>5. CASE r.queue[0] = "GOOD"
    <3>1. r.rp[0].id = r.rp[1].id /\ \A s \in Slots : r.rp[s].status[s] # "REBUILDING"
      BY <2>2, <2>5 DEF Finished, Sound1
    <3> QED BY <1>4, <2>2, <2>5, <2>9, <3>1 DEF OneArray, Whole1
  <2>6. CASE r.queue[0] = "DEGRADED"
    <3>1. Whole(r)
      BY <2>2, <2>3, <2>6
    <3>2. /\ Both(r) => r.rp[0].id = r.rp[1].id /\ ~Resumes(r.rp, Used(r))
          /\ r.rp[Used(r)].status[Used(r)] # "REBUILDING"
          /\ AutoRebuild => Both(r)
      BY <2>2, <2>6, <3>1 DEF Finished, Degraded1
    <3>3. q.use = Used(r)
      BY <1>3, <1>4, <2>1, <2>6
    <3>4. Whole1(q)
      BY <1>4, <2>1, <2>6 DEF Whole1
    <3> QED BY <1>4, <2>2, <2>4, <2>6, <2>9, <3>2, <3>3, <3>4 DEF OneArray
  <2>7. CASE r.queue[0] = "REBUILDING"
    <3>1. Copying(r, n)
      BY <2>2, <2>7 DEF Finished
    <3>2. Whole1(q)
      BY <1>4, <2>1, <2>7 DEF Whole1
    <3> QED BY <1>4, <2>2, <2>7, <2>9, <3>1, <3>2 DEF OneArray, Copying
  <2>8. r.queue[0] \in {"GOOD", "DEGRADED", "REBUILDING"}
    BY <2>2
  <2> QED BY <2>5, <2>6, <2>7, <2>8
<1> QED BY <1>4, <1>5, <1>6, <1>9, <1>10, <1>11 DEF RamGood, q, x

----------------------------------------------------------------------------
(* config_disk_arrays.                                                     *)

\* Pages that changed may be stored.
LEMMA NeedStores ==
  ASSUME NEW p, NEW r, NEW m, NEW n, Decides(p, r, m, n), Weighed(p), p.num = 1, p.need # {}
  PROVE Stores(p)
<1>1. p.queue[0] # "NOT_CONFIGURED"
  BY DEF Decides, Rests, Started, Resumed, Rebuilds
<1> QED BY <1>1 DEF Weighed, Stores

\* The array of the slots as they were found is decided, and stored.
LEMMA FoundFinish ==
  ASSUME NEW r, NEW m, NEW n, Found1(r, m, n), LET p == Determined(r) IN p.need # {} => Stores(p)
  PROVE LET p == Determined(r)
            q == IF p.need # {} THEN store_slots(p) ELSE p
        IN \E k : Ordered(q, m, k) /\ Finished(q, k) /\ q.reenum = r.reenum
<1> DEFINE p == Determined(r)
<1>1. /\ Enumerated(r) /\ Rested(r) /\ Ordered(r, m, n) /\ Faced(r, n) /\ Held(r, n) /\ r.map = [x \in Slots |-> x]
  BY DEF Found1, Enumerated, Sane, AptPages
<1>2. Decides(p, r, m, n)
  BY DeterminedDecides
<1>3. Weighed(p)
  BY <1>1, WeighedIs
<1>4. Present(p)
  <2>1. Outcome(p, r)
    BY <1>1, DeterminedPages
  <2> HIDE DEF p
  <2> QED BY <2>1 DEF Outcome, Sane
<1> HIDE DEF p
<1>5. LET q == IF p.need # {} THEN store_slots(p) ELSE p
      IN \E k : Ordered(q, m, k) /\ Finished(q, k) /\ q.reenum = r.reenum
  BY <1>1, <1>2, <1>3, <1>4, DecidesFinish DEF p
<1> QED BY <1>5 DEF p

\* The media of the pages ordered when the array was decided.
LEMMA DecidesOrdered ==
  ASSUME NEW r, NEW m, NEW n, Ordered(r, m, n), Faced(r, n), NEW p, Decides(p, r, m, n)
  PROVE \E k : /\ Ordered(p, m, k) /\ k.flash = n.flash
               /\ \A s \in Slots : Ready(p, s) /\ Owner(k.flash[s]) = p.bay[s] => k.flash[s].gen <= p.rp[s].gen
<1>1. Rested(p) /\ p.bay = r.bay /\ r.rp \in [Slots -> Sound] /\ n.flash \in Pages /\ p.rp \in [Slots -> Sound]
  <2>1. Rested(p) /\ p.bay = r.bay
    BY DEF Decides, Rests, Started, Resumed, Keeps, Rebuilds
  <2>2. p.rp \in [Slots -> Sound]
    BY <2>1 DEF Rested, RamType
  <2>3. r.rp \in [Slots -> Sound] /\ n.flash \in Pages
    BY OrderedIs DEF MediaType
  <2> QED BY <2>1, <2>2, <2>3
<1>2. CASE Rests(p, r, n)
  <2>1. p.io = r.io
    BY <1>2 DEF Rests, Keeps
  <2>2. Ordered(p, m, n)
    BY <1>1, <2>1, OrderedSame
  <2>3. ASSUME NEW s \in Slots, Ready(p, s), Owner(n.flash[s]) = p.bay[s] PROVE n.flash[s].gen <= p.rp[s].gen
    <3>1. Owned(r.rp[s]) /\ r.rp[s] = n.flash[s]
      BY <1>1, <2>3 DEF Faced, Ready
    <3>2. p.rp[s] = r.rp[s] \/ p.rp[s] = Lost(r.rp[s], s)
      BY <1>2, <2>3, <3>1 DEF Rests, Keeps
    <3>3. r.rp[s] \in Page /\ r.rp[s].gen \in Nat
      BY <1>1, <2>3 DEF Sound, Page
    <3>4. p.rp[s].gen = r.rp[s].gen
      BY <3>2, <3>3 DEF Lost, Page
    <3> QED BY <3>1, <3>3, <3>4
  <2> QED BY <2>2, <2>3
<1>3. ASSUME NEW g \in Slots, Started(p, r, m, n, g)
      PROVE \E k : /\ Ordered(p, m, k) /\ k.flash = n.flash
                   /\ \A s \in Slots : Ready(p, s) /\ Owner(k.flash[s]) = p.bay[s] => k.flash[s].gen <= p.rp[s].gen
  BY <1>3 DEF Started, OtherThan
<1>4. ASSUME NEW g \in Slots, Resumed(p, r, n, g)
      PROVE \E k : /\ Ordered(p, m, k) /\ k.flash = n.flash
                   /\ \A s \in Slots : Ready(p, s) /\ Owner(k.flash[s]) = p.bay[s] => k.flash[s].gen <= p.rp[s].gen
  <2>1. p.io = r.io /\ \A s \in Slots : p.rp[s] = n.flash[s]
    BY <1>4 DEF Resumed
  <2>2. Ordered(p, m, n)
    BY <1>1, <2>1, OrderedSame
  <2>3. \A s \in Slots : n.flash[s].gen \in Nat
    BY <1>1 DEF Pages, Page
  <2> QED BY <2>1, <2>2, <2>3
<1> QED BY <1>2, <1>3, <1>4 DEF Decides

\* The drives of the two bays are not the same.
LEMMA BaysDiffer ==
  ASSUME FixedBays, NEW b \in Bays, Fit(b), NEW s \in Slots, b[s] # NoDrive, NEW t \in Slots, t # s
  PROVE b[t] # b[s]
<1>1. SUFFICES ASSUME b[t] = b[s] PROVE FALSE
  OBVIOUS
<1>2. b[s] \in Drives /\ s \in Fits[b[s]] /\ t \in Fits[b[s]]
  BY <1>1 DEF Fit, Bays
<1>3. s \in Fits[b[s]] /\ t \in Fits[b[s]] => s = t
  BY <1>2 DEF FixedBays
<1> QED BY <1>2, <1>3

\* The slots after hw_raid_config, beside the pages it stores.
LEMMA ConfiguredFound ==
  ASSUME FixedBays, NEW r, Rested(r), AptPages(r), Others(r.io), NEW m, NEW n, Ordered(r, m, n),
         NEW mode \in {"RAID1", "JBOD"}, ~CannotConfig(r, mode),
         \A s \in Slots : Ready(r, s) /\ Owner(n.flash[s]) = r.bay[s] => n.flash[s].gen <= r.rp[s].gen,
         \A s \in Slots : Ready(r, s) => Owner(n.flash[Across(s)]) # r.bay[s]
  PROVE LET q == hw_raid_config(r, mode)
        IN /\ \E k : Found1(q, m, k)
           /\ Configured(q, r, mode) /\ Enumerated(q) /\ OwnedModes(q, mode) /\ q.reenum = r.reenum
<1> DEFINE q == hw_raid_config(r, mode)
<1>1. r.map = [x \in Slots |-> x] /\ Fit(r.bay) /\ r.bay \in Bays
  BY DEF AptPages, Rested, RamType
<1>2. PICK k : /\ Configured(q, r, mode) /\ Ordered(q, m, k) /\ Still(k.flash)
               /\ \A s \in Slots : k.flash[s] = IF Ready(r, s) THEN q.rp[s] ELSE n.flash[s]
  BY <1>1, ConfigOrdered
<1>3. Enumerated(q) /\ OwnedModes(q, mode) /\ q.bay = r.bay /\ q.reenum = r.reenum
  BY HwConfigPages
<1> HIDE DEF q
<1>4. \E s \in Slots : Ready(q, s)
  <2>1. \E s \in Slots : Ready(r, s)
    BY DEF CannotConfig, Slots
  <2> QED BY <1>3, <2>1 DEF Ready
<1>5. Held(q, k)
  BY <1>2 DEF Held
<1>6. ASSUME NEW s \in Slots
      PROVE /\ Ready(q, s) <=> Ready(r, s)
            /\ q.cur[s] = IF Ready(r, s) THEN "GOOD" ELSE "EMPTY"
            /\ Owner(q.rp[s]) = r.bay[s] /\ q.rp[s].disk_num = s
            /\ Owned(q.rp[s]) <=> Ready(r, s)
            /\ Ready(r, s) => q.rp[s].status[s] = "GOOD"
  <2>1. /\ q.cur[s] = IF Ready(r, s) THEN "GOOD" ELSE "EMPTY"
        /\ q.rp[s].mode = mode /\ q.rp[s].disk_num = s /\ q.rp[s].id = r.bay
        /\ Ready(r, s) => q.rp[s].status[s] = "GOOD"
    BY <1>2 DEF Configured
  <2>2. Owner(q.rp[s]) = r.bay[s]
    BY <2>1 DEF Owner, Valid
  <2> QED BY <1>3, <2>1, <2>2 DEF Owned, Ready
<1>7. Faced(q, k)
  <2>1. SUFFICES ASSUME NEW s \in Slots
                 PROVE /\ Ready(q, s) <=> q.cur[s] # "EMPTY"
                       /\ Owned(q.rp[s]) => /\ Owner(q.rp[s]) = q.bay[s] /\ q.rp[s] = k.flash[s] /\ q.rp[s].disk_num = s
                                            /\ q.rp[s].status[s] = q.cur[s] /\ q.cur[s] \in {"GOOD", "REBUILDING", "FAILED"}
                       /\ ~Owned(q.rp[s]) => q.cur[s] \in {"BLANK", "EMPTY"} /\ (Ready(q, s) => Owner(k.flash[s]) # q.bay[s])
                       /\ Ready(q, s) => Owner(k.flash[Across(s)]) # q.bay[s]
    BY DEF Faced
  <2>2. Across(s) \in Slots /\ Across(s) # s
    BY DEF Slots, Across
  <2>3. Ready(q, s) => Owner(k.flash[Across(s)]) # q.bay[s]
    <3>1. SUFFICES ASSUME Ready(r, s) PROVE Owner(k.flash[Across(s)]) # r.bay[s]
      BY <1>3, <1>6
    <3>2. CASE Ready(r, Across(s))
      <4>1. Owner(k.flash[Across(s)]) = r.bay[Across(s)]
        BY <1>2, <1>6, <2>2, <3>2
      <4> QED BY <1>1, <2>2, <3>1, <4>1, BaysDiffer DEF Ready
    <3>3. CASE ~Ready(r, Across(s))
      BY <1>2, <2>2, <3>1, <3>3
    <3> QED BY <3>2, <3>3
  <2> QED BY <1>2, <1>3, <1>6, <2>3
<1>8. Found1(q, m, k)
  BY <1>2, <1>3, <1>4, <1>5, <1>7 DEF Found1
<1> QED BY <1>2, <1>3, <1>8 DEF q

----------------------------------------------------------------------------
(* raid_enumeration and raid_init.                                         *)

\* A decision that has pages to store can store them, or is configured anew.
LEMMA SettledStores ==
  ASSUME NEW r, NEW m, NEW n, Found1(r, m, n), NEW mode \in {"RAID1", "JBOD"}, ~Reconfigures(Determined(r), mode)
  PROVE LET p == Determined(r) IN p.need # {} => Stores(p)
<1> DEFINE p == Determined(r)
           a == determine_array_status(r)
<1>1. Enumerated(r) /\ Rested(r) /\ Faced(r, n) /\ \E s \in Slots : Ready(r, s)
  BY DEF Found1, Enumerated, Sane
<1>2. Decides(p, r, m, n)
  BY DeterminedDecides
<1>3. Weighed(p)
  BY <1>1, WeighedIs
<1>4. /\ p.num = a.num
      /\ p.ms = "CONFLICT" => a.num # 1
  BY <1>1, StatusOfMeta
<1>5. p.bay = r.bay /\ p \in RamType
  BY <1>2 DEF Decides, Rests, Started, Resumed, Keeps, Rebuilds, Rested
<1>6. SUFFICES ASSUME p.need # {}, ~Stores(p) PROVE FALSE
  OBVIOUS
<1>7. p.num # 1
  <2> HIDE DEF p
  <2> QED BY <1>2, <1>3, <1>6, NeedStores
<1>8. p.ms = "CONFLICT"
  <2>1. determine_metadata_status(a).ms \in {"GOOD", "CONFLICT", "STH_NOT_VALID"}
    <3>1. a \in RamType
      BY <1>1, DeterminedArrayRests DEF Rested
    <3>2. a.num # 1
      BY <1>4, <1>7
    <3> HIDE DEF a
    <3> QED BY <3>1, <3>2 DEF determine_metadata_status, RamType
  <2>2. p.ms \in {"GOOD", "CONFLICT", "STH_NOT_VALID"}
    BY <2>1 DEF Determined
  <2> QED BY <1>6, <2>2 DEF Stores
<1>9. \A s \in Slots : Ready(p, s)
  <2>1. ~can_be_same_array(Counted(r))
    BY <1>1, <1>4, <1>7, TogetherOne
  <2>2. \A s \in Slots : Counted(r).cur[s] # "EMPTY"
    BY <2>1 DEF can_be_same_array
  <2>3. Counted(r).cur = r.cur
    BY <1>1, CountedIs
  <2>4. \A s \in Slots : Ready(r, s)
    BY <1>1, <2>2, <2>3 DEF Faced
  <2> QED BY <1>5, <2>4 DEF Ready
<1>10. Reconfigures(p, mode)
  <2> HIDE DEF p
  <2>1. ~CannotConfig(p, mode)
    BY <1>9 DEF CannotConfig, Slots
  <2> QED BY <1>8, <2>1 DEF Reconfigures
<1> QED BY <1>10

\* raid_enumeration from the slots as they are listed.
LEMMA SettleGood ==
  ASSUME FixedBays, NEW r, NEW m, NEW n, Found1(r, m, n), Others(r.io), NEW mode \in {"RAID1", "JBOD"}
  PROVE LET p == Determined(r)
            e == IF Reconfigures(p, mode) THEN Determined(hw_raid_config(p, mode)) ELSE p
            q == IF e.need # {} THEN store_slots(e) ELSE e
        IN \E k : Ordered(q, m, k) /\ Finished(q, k) /\ q.reenum = r.reenum
<1> DEFINE p == Determined(r)
           Final(e) == LET q == IF e.need # {} THEN store_slots(e) ELSE e
                      IN \E k : Ordered(q, m, k) /\ Finished(q, k) /\ q.reenum = r.reenum
<1>1. CASE ~Reconfigures(p, mode)
  <2>1. p.need # {} => Stores(p)
    BY <1>1, SettledStores
  <2>2. Final(Determined(r))
    BY <2>1, FoundFinish
  <2> HIDE DEF Final, p
  <2>3. Final(p)
    BY <2>2 DEF p
  <2> QED BY <1>1, <2>3 DEF Final, p
<1>2. CASE Reconfigures(p, mode)
  <2> DEFINE c == hw_raid_config(p, mode)
             e == Determined(c)
  <2>1. Enumerated(r) /\ Ordered(r, m, n) /\ Faced(r, n)
    BY DEF Found1
  <2>2. Decides(p, r, m, n)
    BY DeterminedDecides
  <2>3. Outcome(p, r)
    BY <2>1, DeterminedPages
  <2> HIDE DEF p
  <2>4. /\ Rested(p) /\ AptPages(p) /\ Others(p.io) /\ p.bay = r.bay /\ p.reenum = r.reenum
    BY <2>3 DEF Outcome, Sane, Adds
  <2>5. PICK n1 : /\ Ordered(p, m, n1) /\ n1.flash = n.flash
                  /\ \A s \in Slots : Ready(p, s) /\ Owner(n1.flash[s]) = p.bay[s] => n1.flash[s].gen <= p.rp[s].gen
    BY <2>1, <2>2, DecidesOrdered
  <2>6. \A s \in Slots : Ready(p, s) => Owner(n1.flash[Across(s)]) # p.bay[s]
    BY <2>1, <2>4, <2>5 DEF Faced, Ready
  <2>7. ~CannotConfig(p, mode)
    BY <1>2 DEF Reconfigures
  <2>8. PICK k : Found1(c, m, k) /\ Configured(c, p, mode) /\ Enumerated(c) /\ OwnedModes(c, mode) /\ c.reenum = p.reenum
    BY <2>4, <2>5, <2>6, <2>7, ConfiguredFound
  <2> HIDE DEF c
  <2>9. e.need # {} => Stores(e)
    <3>1. Outcome(e, c)
      BY <2>8, DeterminedPages
    <3>2. Decides(e, c, m, k)
      BY <2>8, DeterminedDecides
    <3>3. Rested(c)
      BY <2>8 DEF Enumerated, Sane
    <3>4. Weighed(e)
      BY <3>3, WeighedIs
    <3>5. CASE mode = "JBOD"
      <4> HIDE DEF e
      <4>1. OwnedModes(e, "JBOD") /\ \A s \in e.need : Belongs(e, s)
        BY <2>8, <3>1, <3>5 DEF Outcome
      <4>2. e.need \in SUBSET Slots /\ e \in RamType
        BY <3>2 DEF Decides, Rested, RamType
      <4>3. \A s \in e.need : FALSE
        BY <4>1, <4>2 DEF OwnedModes, Belongs, Owned, Ready
      <4> QED BY <4>3
    <3>6. CASE mode = "RAID1"
      <4>1. \A s \in Slots : Ready(p, s)
        BY <2>7, <3>6 DEF CannotConfig
      <4>2. /\ Counted(c).rp = c.rp
        BY <3>3, CountedIs
      <4>3. same_array(Counted(c))
        BY <2>8, <3>6, <4>2 DEF same_array, Configured, Slots
      <4>4. determine_array_status(c).num = 1
        BY <2>8, <4>3, TogetherOne
      <4>5. e.num = 1
        BY <3>3, <4>4, StatusOfMeta
      <4> HIDE DEF e
      <4> QED BY <3>2, <3>4, <4>5, NeedStores
    <3> QED BY <3>5, <3>6
  <2>10. LET q == IF e.need # {} THEN store_slots(e) ELSE e
         IN \E x : Ordered(q, m, x) /\ Finished(q, x) /\ q.reenum = c.reenum
    BY <2>8, <2>9, FoundFinish
  <2> HIDE DEF e
  <2>11. Final(e)
    BY <2>4, <2>8, <2>10
  <2> HIDE DEF Final
  <2> QED BY <1>2, <2>11 DEF Final, p, e, c
<1> QED BY <1>1, <1>2

\* raid_enumeration and raid_init order good writes and leave a good state in
\* RAM.
LEMMA EnumerationGood ==
  ASSUME FixedBays, NEW r0, NEW m, NEW n, Found1(ListedSlots(r0), m, n), Others(ListedSlots(r0).io), NEW mode \in {"RAID1", "JBOD"}
  PROVE LET q == raid_init(raid_enumeration(r0, mode))
        IN \E k : Ordered(q, m, k) /\ RamGood(q, k) /\ q.reenum = ListedSlots(r0).reenum
<1> DEFINE r == ListedSlots(r0)
           p == Determined(r)
           e == IF Reconfigures(p, mode) THEN Determined(hw_raid_config(p, mode)) ELSE p
           s == IF e.need # {} THEN store_slots(e) ELSE e
<1>1. raid_enumeration(r0, mode) = config_disk_arrays(s)
  BY DEF raid_enumeration, ListedSlots
<1>2. PICK k : Ordered(s, m, k) /\ Finished(s, k) /\ s.reenum = r.reenum
  <2> HIDE DEF r
  <2> QED BY SettleGood DEF r
<1> HIDE DEF s
<1>3. LET q == raid_init(config_disk_arrays(s)) IN Ordered(q, m, k) /\ RamGood(q, k) /\ q.reenum = s.reenum
  BY <1>2, FinishedGood
<1> QED BY <1>1, <1>2, <1>3

----------------------------------------------------------------------------
(* load_other_parms.                                                       *)

\* A check point that cannot be read at all may be set to zero.
LEMMA NoCopyAllows ==
  ASSUME NEW n \in MediaType, Good(n), NEW d \in Drives, \A c \in 1..2 : n.other[d][c] = Bad
  PROVE Allows(n, d, 0)
<1>1. SUFFICES ASSUME NEW g \in Slots, Resumes(n.flash, g) PROVE Allowed(n, g, d, 0)
  BY DEF Allows
<1> DEFINE source == Owner(n.flash[g])
           target == Owner(n.flash[Across(g)])
<1>2. Sync(n, source, target, 0 - Step)
  BY SyncNone, Constants
<1>3. ASSUME g = 1 PROVE Sync(n, source, target, Size) \/ Covers(n, source, target)
  BY <1>1, <1>3 DEF Good, Resumable
<1>4. target \in Drives
  <2>1. n.flash[Across(g)] \in Page
    BY DEF MediaType, Pages, Slots, Across
  <2>2. Owned(n.flash[Across(g)])
    BY <1>1 DEF Resumes, Mates, Slots, Across
  <2> QED BY <2>1, <2>2 DEF Owned, Owner, Page
<1>5. \A c \in 1..2 : n.other[target][c] \in Nat \cup {Bad}
  BY <1>4 DEF MediaType
<1> HIDE DEF source, target
<1>6. ASSUME g = 1, ~Sync(n, source, target, Size)
      PROVE d # target /\ \A c \in 1..2 : n.other[target][c] # Bad => 0 <= n.other[target][c]
  <2>1. Covers(n, source, target)
    BY <1>3, <1>6
  <2>2. \E c \in 1..2 : n.other[target][c] # Bad
    BY <2>1 DEF Covers
  <2> QED BY <1>5, <2>2
<1> QED BY <1>2, <1>6 DEF Allowed, source, target

\* The media as the firmware finds them.
LEMMA MediaIs ==
  ASSUME Typed PROVE /\ Media \in MediaType /\ Media.bay = bay /\ Media.flash = flash /\ Media.other = other
                     /\ Media.data = data /\ Media.acked = acked
BY DEF Typed, Media, MediaType

\* With nothing ordered the media stay.
LEMMA RightOrdered ==
  ASSUME Typed, NEW r, Rested(r), r.bay = bay, r.io = << >>, Good(Media) PROVE Ordered(r, Media, Media)
BY MediaIs, LeadsNowhere, PairedNone DEF Ordered

\* load_other_parms writes check points that change nothing to resume from.
LEMMA LoadOrdered ==
  ASSUME Typed, FixedBays, Fit(bay), Good(Media), NEW r, Rested(r), r.bay = bay, r.io = << >>
  PROVE LET q == load_other_parms(r)
        IN \E k : /\ Ordered(q, Media, k) /\ OtherThan(k, Media)
                  /\ \A s \in Slots : Ready(q, s) => \E c \in 1..2 : k.other[q.bay[s]][c] = q.cp[s]
<1> DEFINE find(s) == find_good_copy(r, s)
           cp == [s \in Slots |-> IF find(s) = Bad THEN 0 ELSE find(s)]
           a == [r EXCEPT !.cp = cp]
           fresh(x, s) == IF find(s) = Bad THEN WriteOther(x, s) ELSE x
           b == fresh(a, 0)
           q == fresh(b, 1)
           m == Media
           k1 == IF find(0) = Bad /\ Ready(r, 0) THEN Fill(m, 0, 0) ELSE m
           k2 == IF find(1) = Bad /\ Ready(r, 1) THEN Fill(k1, 1, 0) ELSE k1
<1>1. /\ m \in MediaType /\ m.bay = bay /\ m.other = other
  BY MediaIs
<1> HIDE DEF m
<1>2. ASSUME NEW s \in Slots, Ready(r, s)
      PROVE /\ r.bay[s] \in Drives
            /\ other[r.bay[s]][1] \in Nat \cup {Bad} /\ other[r.bay[s]][2] \in Nat \cup {Bad}
            /\ find(s) = IF other[r.bay[s]][1] # Bad THEN other[r.bay[s]][1] ELSE other[r.bay[s]][2]
  <2>1. r.bay[s] \in Drives
    BY <1>2 DEF Ready, Rested, RamType, Bays
  <2> QED BY <1>2, <2>1 DEF Typed, find_good_copy, Readable
<1>3. ASSUME NEW s \in Slots, ~Ready(r, s) PROVE find(s) = Bad
  BY <1>3 DEF find_good_copy
<1>4. ASSUME NEW s \in Slots, find(s) = Bad, Ready(r, s) PROVE \A c \in 1..2 : m.other[r.bay[s]][c] = Bad
  BY <1>1, <1>2, <1>4
<1>5. ASSUME NEW s \in Slots, find(s) # Bad
      PROVE Ready(r, s) /\ find(s) \in Nat /\ \E c \in 1..2 : m.other[r.bay[s]][c] = find(s)
  BY <1>1, <1>2, <1>3, <1>5
<1> HIDE DEF find
<1>6. cp \in [Slots -> Nat]
  BY <1>5
<1>7. Rested(a) /\ a.bay = bay /\ a.io = << >> /\ a.cp = cp
  BY <1>6 DEF Rested, RamType
<1> HIDE DEF a
<1>8. Ordered(a, m, m)
  BY <1>7, RightOrdered DEF m
<1>9. ASSUME NEW s \in Slots, find(s) = Bad, Ready(r, s) PROVE Allows(m, r.bay[s], 0)
  BY <1>1, <1>2, <1>4, <1>9, NoCopyAllows DEF m
<1>10. Ordered(b, m, k1) /\ b.bay = bay /\ b.cp = cp
  <2>0. 0 \in Slots /\ cp[0] = (IF find(0) = Bad THEN 0 ELSE find(0))
    BY DEF Slots
  <2> HIDE DEF cp
  <2>1. CASE find(0) = Bad
    <3>1. Ready(a, 0) <=> Ready(r, 0)
      BY <1>7 DEF Ready
    <3>2. Ready(a, 0) => Allows(m, a.bay[0], a.cp[0])
      BY <1>7, <1>9, <2>0, <2>1, <3>1
    <3>3. LET x == WriteOther(a, 0) IN Ordered(x, m, IF Ready(a, 0) THEN Fill(m, 0, a.cp[0]) ELSE m)
      BY <1>8, <2>0, <3>2, OtherOrdered
    <3>4. WriteOther(a, 0).bay = a.bay /\ WriteOther(a, 0).cp = a.cp
      BY <1>7 DEF WriteOther, Rested, RamType
    <3> QED BY <1>7, <2>0, <2>1, <3>1, <3>3, <3>4
  <2>2. CASE find(0) # Bad
    BY <1>7, <1>8, <2>2
  <2> QED BY <2>1, <2>2
<1>11. k1 \in MediaType /\ k1.bay = bay /\ Good(k1)
  BY <1>10, OrderedIs
<1>12. ASSUME find(1) = Bad, Ready(r, 1) PROVE Allows(k1, r.bay[1], 0)
  <2>1. 0 \in Slots /\ 1 \in Slots /\ Allows(m, r.bay[1], 0) /\ r.bay[1] \in Drives
    BY <1>2, <1>9, <1>12 DEF Slots
  <2>2. CASE find(0) = Bad /\ Ready(r, 0)
    <3>1. Good(m) /\ m.bay[0] # NoDrive /\ Allows(m, m.bay[0], 0)
      BY <1>1, <1>9, <2>1, <2>2 DEF m, Ready
    <3>2. Allows(Fill(m, 0, 0), r.bay[1], 0)
      BY <1>1, <2>1, <3>1, FillAllows
    <3> QED BY <2>2, <3>2
  <2> QED BY <2>1, <2>2
<1> HIDE DEF b
<1>13. Ordered(q, m, k2) /\ q.bay = bay /\ q.cp = cp
  <2>0. 1 \in Slots /\ cp[1] = (IF find(1) = Bad THEN 0 ELSE find(1))
    BY DEF Slots
  <2> HIDE DEF cp, k1
  <2>1. CASE find(1) = Bad
    <3>1. Ready(b, 1) <=> Ready(r, 1)
      BY <1>10 DEF Ready
    <3>2. Ready(b, 1) => Allows(k1, b.bay[1], b.cp[1])
      BY <1>10, <1>12, <2>0, <2>1, <3>1
    <3>3. LET x == WriteOther(b, 1) IN Ordered(x, m, IF Ready(b, 1) THEN Fill(k1, 1, b.cp[1]) ELSE k1)
      BY <1>10, <2>0, <3>2, OtherOrdered
    <3>4. Rested(b)
      BY <1>10 DEF Ordered
    <3>5. WriteOther(b, 1).bay = b.bay /\ WriteOther(b, 1).cp = b.cp
      BY <3>4 DEF WriteOther, Rested, RamType
    <3> QED BY <1>10, <2>0, <2>1, <3>1, <3>3, <3>5
  <2>2. CASE find(1) # Bad
    BY <1>10, <2>2
  <2> QED BY <2>1, <2>2
<1>14. /\ OtherThan(k1, m)
       /\ \A d \in Drives, c \in 1..2 :
            k1.other[d][c] = IF find(0) = Bad /\ Ready(r, 0) /\ d = r.bay[0] THEN 0 ELSE m.other[d][c]
  <2>1. CASE find(0) = Bad /\ Ready(r, 0)
    <3>1. 0 \in Slots /\ m.bay[0] # NoDrive /\ 0 \in Nat
      BY <1>1, <2>1 DEF Slots, Ready
    <3>2. LET x == Fill(m, 0, 0)
          IN /\ x.flash = m.flash /\ x.data = m.data /\ x.acked = m.acked /\ x.bay = m.bay
             /\ \A d \in Drives, c \in 1..2 : x.other[d][c] = IF d = m.bay[0] THEN 0 ELSE m.other[d][c]
      BY <1>1, <3>1, FillIsMedia
    <3> QED BY <1>1, <2>1, <3>2 DEF OtherThan
  <2>2. CASE ~(find(0) = Bad /\ Ready(r, 0))
    BY <2>2 DEF OtherThan
  <2> QED BY <2>1, <2>2
<1> HIDE DEF k1
<1>15. /\ OtherThan(k2, k1)
       /\ \A d \in Drives, c \in 1..2 :
            k2.other[d][c] = IF find(1) = Bad /\ Ready(r, 1) /\ d = r.bay[1] THEN 0 ELSE k1.other[d][c]
  <2>1. CASE find(1) = Bad /\ Ready(r, 1)
    <3>1. 1 \in Slots /\ k1.bay[1] # NoDrive /\ 0 \in Nat
      BY <1>11, <2>1 DEF Slots, Ready
    <3>2. LET x == Fill(k1, 1, 0)
          IN /\ x.flash = k1.flash /\ x.data = k1.data /\ x.acked = k1.acked /\ x.bay = k1.bay
             /\ \A d \in Drives, c \in 1..2 : x.other[d][c] = IF d = k1.bay[1] THEN 0 ELSE k1.other[d][c]
      BY <1>11, <3>1, FillIsMedia
    <3> QED BY <1>11, <2>1, <3>2 DEF OtherThan
  <2>2. CASE ~(find(1) = Bad /\ Ready(r, 1))
    BY <2>2 DEF OtherThan
  <2> QED BY <2>1, <2>2
<1> HIDE DEF k2, q
<1>16. OtherThan(k2, m)
  BY <1>14, <1>15 DEF OtherThan
<1>17. ASSUME NEW s \in Slots, Ready(q, s) PROVE \E c \in 1..2 : k2.other[q.bay[s]][c] = q.cp[s]
  <2>1. /\ Ready(r, s) /\ r.bay[s] \in Drives /\ q.bay[s] = r.bay[s] /\ bay \in Bays
        /\ q.cp[s] = (IF find(s) = Bad THEN 0 ELSE find(s))
    BY <1>2, <1>13, <1>17 DEF Ready, Typed
  <2> HIDE DEF cp
  <2>2. CASE find(s) = Bad
    <3>1. s = 0 \/ s = 1
      BY DEF Slots
    <3>2. 0 \in Slots /\ 1 \in Slots /\ 0 # 1
      BY DEF Slots
    <3>3. Ready(r, 0) /\ Ready(r, 1) => r.bay[0] # r.bay[1]
      BY <2>1, <3>2, BaysDiffer DEF Ready
    <3> QED BY <1>14, <1>15, <2>1, <2>2, <3>1, <3>3
  <2>3. CASE find(s) # Bad
    <3>1. PICK c \in 1..2 : m.other[r.bay[s]][c] = find(s)
      BY <1>5, <2>3
    <3>2. ASSUME NEW x \in Slots, find(x) = Bad, Ready(r, x) PROVE r.bay[s] # r.bay[x]
      <4>1. x # s
        BY <2>3, <3>2
      <4> QED BY <2>1, <3>2, <4>1, BaysDiffer DEF Ready
    <3>3. k2.other[r.bay[s]][c] = m.other[r.bay[s]][c]
      BY <1>14, <1>15, <2>1, <3>2 DEF Slots
    <3> QED BY <2>1, <2>3, <3>1, <3>3
  <2> QED BY <2>2, <2>3
<1>18. load_other_parms(r) = q
  BY DEF load_other_parms, q, b, a, cp, find
<1> QED BY <1>13, <1>16, <1>17, <1>18 DEF m

----------------------------------------------------------------------------
(* read_nvm_raid_parms and the listing of the slots.                       *)

\* determine_slot_status does not touch the check points.
LEMMA SlotKeepsCp ==
  ASSUME NEW r, Rested(r), NEW s \in Slots PROVE determine_slot_status(r, s).cp = r.cp
<1> DEFINE a == [r EXCEPT !.rp[s] = ClearPage(2 + s), !.cur[s] = "EMPTY"]
           b == read_restore_slot_matadata(a, s)
           c == use_meta_stat(b, s)
           d == set_stat(a, s, "BLANK")
           Same1(x) == "cp" \in DOMAIN x /\ x.cp = r.cp
<1>1. Same1(a)
  BY DEF Rested, RamType
<1> HIDE DEF a
<1>2. Same1(b)
  BY <1>1 DEF read_restore_slot_matadata
<1> HIDE DEF b
<1>3. Same1(c)
  BY <1>2 DEF use_meta_stat
<1>4. Same1(d)
  BY <1>1 DEF set_stat
<1> HIDE DEF c, d
<1>5. determine_slot_status(r, s) \in {a, c, d}
  BY DEF determine_slot_status, a, b, c, d
<1> QED BY <1>1, <1>3, <1>4, <1>5

\* Listing the slots leaves the check points.
LEMMA ListingKeepsCp ==
  ASSUME NEW r, Rested(r), FixedBays, Fit(r.bay), \A i \in Slots : Apt(r.nvm[i], i)
  PROVE ListedSlots(r).cp = r.cp
<1> DEFINE a == populate_slot_mapping(r)
           b == [a EXCEPT !.need = {}]
           c == determine_slot_status(b, 0)
<1>1. a = [r EXCEPT !.map = a.map, !.newer = a.newer] /\ Rested(a)
  BY MappingIs, MappingRests
<1> HIDE DEF a
<1>2. Rested(b) /\ b.cp = r.cp
  BY <1>1 DEF Rested, RamType
<1> HIDE DEF b
<1>3. Rested(c) /\ c.cp = r.cp
  BY <1>2, SlotKeepsCp, SlotStatusRests DEF Slots
<1> HIDE DEF c
<1>4. determine_slot_status(c, 1).cp = r.cp
  BY <1>3, SlotKeepsCp DEF Slots
<1> QED BY <1>4 DEF ListedSlots, c, b, a

\* The slots as raid_enumeration lists them, from what the flash holds.
LEMMA ListedFound ==
  ASSUME Typed, FixedBays, Fit(bay), \A i \in Slots : Apt(flash[i], i), Good(Media), \E s \in Slots : bay[s] # NoDrive,
         NEW r, NEW n, Ordered(r, Media, n), OtherThan(n, Media), ~r.mirror,
         \A i \in Slots : r.nvm[i] = flash[i] \/ (~Owned(r.nvm[i]) /\ ~Owned(flash[i])),
         \A s \in Slots : Ready(r, s) => \E c \in 1..2 : n.other[r.bay[s]][c] = r.cp[s]
  PROVE LET q == ListedSlots(r) IN Found1(q, Media, n) /\ q.reenum = r.reenum /\ q.io = r.io
<1> DEFINE q == ListedSlots(r)
<1>1. /\ Media.bay = bay /\ Media.flash = flash /\ n.flash = flash /\ r.bay = bay /\ Rested(r)
  BY MediaIs DEF OtherThan, Ordered
<1>2. \A i \in Slots : Apt(r.nvm[i], i) /\ Owner(r.nvm[i]) = Owner(flash[i]) /\ (Owned(flash[i]) => r.nvm[i] = flash[i])
  BY DEF Apt, Owned
<1>3. /\ Listed(q) /\ Enumerated(q) /\ q.bay = r.bay /\ q.nvm = r.nvm /\ q.io = r.io /\ q.reenum = r.reenum
  BY <1>1, <1>2, ListingIs
<1>4. q.cp = r.cp
  BY <1>1, <1>2, ListingKeepsCp
<1> HIDE DEF q
<1>5. Ordered(q, Media, n)
  <2>1. Rested(q)
    BY <1>3 DEF Enumerated, Sane
  <2> QED BY <1>3, <2>1, OrderedSame
<1>6. Held(q, n)
  BY <1>3, <1>4 DEF Held, Ready
<1>7. ASSUME NEW s \in Slots
      PROVE /\ Ready(q, s) <=> q.cur[s] # "EMPTY"
            /\ Owned(q.rp[s]) => /\ Owner(q.rp[s]) = q.bay[s] /\ q.rp[s] = n.flash[s] /\ q.rp[s].disk_num = s
                                 /\ q.rp[s].status[s] = q.cur[s] /\ q.cur[s] \in {"GOOD", "REBUILDING", "FAILED"}
            /\ ~Owned(q.rp[s]) => q.cur[s] \in {"BLANK", "EMPTY"} /\ (Ready(q, s) => Owner(n.flash[s]) # q.bay[s])
            /\ Ready(q, s) => Owner(n.flash[Across(s)]) # q.bay[s]
  <2>0. Across(s) \in Slots /\ Across(s) # s
    BY DEF Slots, Across
  <2>1. ASSUME Ready(q, s) PROVE Owner(n.flash[Across(s)]) # q.bay[s]
    <3>1. SUFFICES ASSUME Owner(flash[Across(s)]) = bay[s] PROVE FALSE
      BY <1>1, <1>3
    <3>2. bay[s] # NoDrive /\ s \in Fits[bay[s]] /\ bay[s] \in Drives
      BY <1>1, <1>3, <2>1 DEF Ready, Fit, Typed, Bays
    <3>3. Across(s) \in Fits[bay[s]]
      BY <2>0, <3>1, <3>2 DEF Apt, Owned
    <3> QED BY <2>0, <3>2, <3>3 DEF FixedBays
  <2>2. CASE Known(q, s)
    <3>1. Ready(q, s) /\ Owner(flash[s]) = bay[s] /\ Owned(flash[s]) /\ q.nvm[s] = flash[s]
      BY <1>1, <1>2, <1>3, <2>2 DEF Known, Owned, Ready
    <3>2. q.rp[s] = flash[s] /\ q.cur[s] = flash[s].status[flash[s].disk_num]
      BY <1>3, <2>2, <3>1 DEF Listed
    <3>3. flash[s].disk_num = s /\ flash[s].status[s] \in {"GOOD", "REBUILDING", "FAILED"}
      BY <1>1, <3>1 DEF Good, Stated
    <3> QED BY <1>1, <1>3, <2>1, <3>1, <3>2, <3>3
  <2>3. CASE ~Known(q, s)
    <3>1. ~Owned(q.rp[s]) /\ q.cur[s] = IF Ready(q, s) THEN "BLANK" ELSE "EMPTY"
      BY <1>3, <2>3 DEF Listed
    <3>2. Ready(q, s) => Owner(flash[s]) # q.bay[s]
      BY <1>2, <1>3, <2>3 DEF Known
    <3> QED BY <1>1, <2>1, <3>1, <3>2
  <2> QED BY <2>2, <2>3
<1>8. Faced(q, n)
  BY <1>7 DEF Faced
<1>9. \E s \in Slots : Ready(q, s)
  BY <1>1, <1>3 DEF Ready
<1> QED BY <1>3, <1>5, <1>6, <1>8, <1>9 DEF Found1, q

\* ini_init decides on an array whose rebuild skips nothing.
LEMMA StartGood ==
  ASSUME RaidInv, PagesInv, FixedBays, Good(Media), \E s \in Slots : bay[s] # NoDrive,
         NEW r, Rested(r), ~r.mirror, r.io = << >>,
         \A i \in Slots : Apt(r.nvm[i], i) /\ (Owned(r.nvm[i]) => Valid(flash[i]))
  PROVE LET q == ini_init(r) IN \E k : Ordered(q, Media, k) /\ RamGood(q, k) /\ q.reenum = r.reenum
<1> DEFINE a == [r EXCEPT !.bay = bay]
           b == load_other_parms(a)
           nvm == [i \in Slots |-> IF Valid(flash[i]) THEN flash[i] ELSE b.nvm[i]]
           c == [b EXCEPT !.nvm = nvm]
<1>0. Typed /\ Fit(bay) /\ \A i \in Slots : Apt(flash[i], i)
  BY DEF RaidInv, TypeInv, PagesInv
<1>1. Rested(a) /\ a.bay = bay /\ ~a.mirror /\ a.reenum = r.reenum /\ a.nvm = r.nvm /\ a.io = << >>
  BY <1>0 DEF Typed, Rested, RamType
<1> HIDE DEF a
<1>2. Others(a.io)
  BY <1>1 DEF Others, Places
<1>3. /\ Rested(b) /\ b.bay = bay /\ ~b.mirror /\ b.reenum = r.reenum /\ b.nvm = r.nvm /\ Others(b.io)
  BY <1>0, <1>1, <1>2, LoadPages
<1>4. PICK n : /\ Ordered(b, Media, n) /\ OtherThan(n, Media)
               /\ \A s \in Slots : Ready(b, s) => \E x \in 1..2 : n.other[b.bay[s]][x] = b.cp[s]
  BY <1>0, <1>1, LoadOrdered
<1>5. nvm \in Pages
  BY <1>0, <1>3 DEF Typed, Pages, Rested, RamType
<1>6. read_nvm_raid_parms(b) = c
  BY <1>3 DEF read_nvm_raid_parms, Rested, RamType
<1>7. \A i \in Slots : nvm[i] = flash[i] \/ (~Owned(nvm[i]) /\ ~Owned(flash[i]))
  BY <1>3 DEF Owned, Owner
<1> HIDE DEF b, nvm
<1>8. /\ Rested(c) /\ c.bay = b.bay /\ ~c.mirror /\ c.reenum = r.reenum /\ c.nvm = nvm /\ c.io = b.io /\ c.cp = b.cp
  BY <1>3, <1>5 DEF Rested, RamType
<1> HIDE DEF c
<1>9. Ordered(c, Media, n)
  BY <1>4, <1>8, OrderedSame
<1>10. \A s \in Slots : Ready(c, s) => \E x \in 1..2 : n.other[c.bay[s]][x] = c.cp[s]
  BY <1>4, <1>8 DEF Ready
<1>11. LET L == ListedSlots(c) IN Found1(L, Media, n) /\ L.reenum = c.reenum /\ L.io = c.io
  BY <1>0, <1>4, <1>7, <1>8, <1>9, <1>10, ListedFound
<1>12. gpio \in {"RAID1", "JBOD"}
  BY <1>0 DEF Typed
<1>13. Others(ListedSlots(c).io)
  BY <1>3, <1>8, <1>11
<1>14. LET q == raid_init(raid_enumeration(c, gpio))
       IN \E k : Ordered(q, Media, k) /\ RamGood(q, k) /\ q.reenum = ListedSlots(c).reenum
  BY <1>11, <1>12, <1>13, EnumerationGood
<1>15. ini_init(r) = raid_init(raid_enumeration(c, gpio))
  BY <1>6 DEF ini_init, b, a
<1> QED BY <1>8, <1>11, <1>14, <1>15

----------------------------------------------------------------------------
(* PowerOn and ReEnumerate.                                                *)

\* With nothing ordered the media are good.
LEMMA RestingMedia ==
  ASSUME RaidInv, SkipInv, ram.io = << >>
  PROVE Good(Media) /\ Last(Media, ram.io) = Media
<1>1. ram.io \in Seq(Orders)
  BY DEF RaidInv, TypeInv, RamInv, RamType
<1>2. Leads(Media, ram.io, Last(Media, ram.io))
  BY DEF Leads, SkipInv
<1> QED BY <1>1, <1>2, LeadsEnds

\* PairInv from the writes ordered.
LEMMA PairedKept == ASSUME Paired(ram'.io) PROVE PairInv'
BY DEF PairInv

\* The conclusion of a step that leaves the drives and the flash alone.
LEMMA OrderedSkips ==
  ASSUME RaidInv, UNCHANGED <<bay, flash, other, data, acked>>, CmdInv', NEW k, Ordered(ram', Media, k),
         on' /\ ~ram'.reenum => RamGood(ram', k)
  PROVE SkipInv'
<1>1. Media' = Media
  BY DEF Media
<1>2. Leads(Media, ram'.io, k)
  BY DEF Ordered
<1>3. Safe(Media', ram'.io) /\ k = Last(Media', ram'.io)
  BY <1>1, <1>2 DEF Leads
<1>4. Safe(Media, ram.io)' /\ Last(Media, ram.io)' = k
  BY <1>3
<1>5. PairInv'
  BY PairedKept DEF Ordered
<1> QED BY <1>3, <1>4, <1>5 DEF SkipInv

\* Without a command CmdInv stays.
LEMMA CmdGone ==
  ASSUME Typed, CmdInv, cmd' = NoCmd, UNCHANGED <<data, acked>>, left'["write"] = left["write"]
  PROVE CmdInv'
<1>1. left["write"] \in Nat /\ Budget["write"] \in Nat /\ acked \in [Blocks -> Nat] /\ data \in [Drives -> [Blocks -> Nat]]
  BY ArrayAssumption DEF Typed, Events
<1>2. Now \in Int /\ Now' \in Int /\ Now' = IF cmd = NoCmd THEN Now ELSE Now + 1
  BY <1>1 DEF Now
<1>3. \A b \in Blocks : acked[b] <= Now'
  BY <1>1, <1>2 DEF CmdInv
<1>4. \A b \in Blocks, d \in Drives : data[d][b] <= Now'
  <2> SUFFICES ASSUME NEW b \in Blocks, NEW d \in Drives PROVE data[d][b] <= Now'
    OBVIOUS
  <2>1. data[d][b] \in Nat
    BY <1>1
  <2>2. data[d][b] <= Now \/ (cmd # NoCmd /\ data[d][b] = Now + 1)
    BY DEF CmdInv
  <2> QED BY <1>2, <2>1, <2>2
<1> QED BY <1>3, <1>4 DEF CmdInv

\* A start keeps SkipInv.
LEMMA PowerOnSkips ==
  ASSUME RaidInv, PagesInv, FixedBays, SkipInv, PowerOn PROVE SkipInv'
<1>1. cmd = NoCmd /\ cmd' = NoCmd /\ UNCHANGED <<bay, flash, other, data, acked, left>> /\ ram = InitRam
  BY DEF PowerOn, SkipInv, CmdInv, Idle, PagesInv, media
<1>2. ram.io = << >>
  BY <1>1, InitRamPages
<1>3. Good(Media)
  BY <1>2, RestingMedia
<1>4. PICK k : Ordered(ram', Media, k) /\ RamGood(ram', k)
  <2>1. Rested(InitRam) /\ ~InitRam.mirror /\ InitRam.io = << >> /\ \A i \in Slots : Apt(InitRam.nvm[i], i) /\ ~Owned(InitRam.nvm[i])
    BY InitRamPages
  <2>2. (\E s \in Slots : bay[s] # NoDrive) /\ ram' = ini_init(InitRam)
    BY DEF PowerOn
  <2> QED BY <1>3, <2>1, <2>2, StartGood
<1>5. CmdInv'
  BY <1>1, CmdGone DEF RaidInv, TypeInv, SkipInv
<1> QED BY <1>1, <1>4, <1>5, OrderedSkips

\* So does an enumeration after a change of drives.
LEMMA ReEnumerateSkips ==
  ASSUME RaidInv, PagesInv, FixedBays, SkipInv, ReEnumerate PROVE SkipInv'
<1> DEFINE r == [ram EXCEPT !.reenum = FALSE]
<1>1. cmd = NoCmd /\ cmd' = NoCmd /\ UNCHANGED <<bay, flash, other, data, acked, left>> /\ ram.io = << >>
  BY DEF ReEnumerate, SkipInv, CmdInv, Idle, media
<1>2. ram \in RamType /\ ~ram.busy /\ ~ram.mirror
  BY DEF ReEnumerate, RaidInv, TypeInv, RamInv, PagesInv, RamPages, MirrorPages, Mirrors
<1>3. Good(Media)
  BY <1>1, RestingMedia
<1>4. /\ Rested(r) /\ ~r.mirror /\ r.io = << >> /\ r.nvm = ram.nvm
  BY <1>1, <1>2 DEF Rested, RamType
<1>5. \A i \in Slots : Apt(r.nvm[i], i) /\ (Owned(r.nvm[i]) => Valid(flash[i]))
  BY <1>1, <1>4 DEF PagesInv, RamPages, AptPages, NvmInv, Places
<1>6. (\E s \in Slots : bay[s] # NoDrive) /\ ram' = ini_init(r)
  BY DEF ReEnumerate
<1> HIDE DEF r
<1>7. PICK k : Ordered(ram', Media, k) /\ RamGood(ram', k)
  BY <1>3, <1>4, <1>5, <1>6, StartGood
<1>8. CmdInv'
  BY <1>1, CmdGone DEF RaidInv, TypeInv, SkipInv
<1> QED BY <1>1, <1>7, <1>8, OrderedSkips

----------------------------------------------------------------------------
(* IoStep.                                                                 *)

\* RamGood does not look at the writes ordered.
LEMMA RestElsewhere ==
  ASSUME NEW r \in RamType, NEW n, RamGood(r, n), NEW io, NEW q, q = [r EXCEPT !.io = io]
  PROVE RamGood(q, n)
<1>1. /\ q.rp = r.rp /\ q.bay = r.bay /\ q.queue = r.queue /\ q.num = r.num /\ q.ms = r.ms
      /\ q.mirror = r.mirror /\ q.src = r.src /\ q.pos = r.pos /\ q.cp = r.cp /\ q.busy = r.busy
      /\ q.reenum = r.reenum /\ q.mode = r.mode /\ q.use = r.use /\ q.inst = r.inst /\ q.lba = r.lba
  BY DEF RamType
<1>2. PagesStored(q, n)
  BY <1>1 DEF RamGood, PagesStored, Ready
<1>3. NotServed(q, n)
  BY <1>1 DEF RamGood, NotServed
<1>4. Copies(q, n)
  BY <1>1 DEF RamGood, Copies
<1>5. OneArray(q)
  <2>1. /\ Fitted(q) <=> Fitted(r)
        /\ Lonely(q) <=> Lonely(r)
        /\ Both(q) <=> Both(r)
        /\ Mirrors(q) <=> Mirrors(r)
        /\ Whole1(q) <=> Whole1(r)
    BY <1>1 DEF Fitted, Lonely, Both, Mirrors, Whole1, Ready
  <2>2. OneArray(r)
    BY DEF RamGood
  <2> QED BY <1>1, <2>1, <2>2 DEF OneArray
<1> QED BY <1>2, <1>3, <1>4, <1>5 DEF RamGood

\* A step of the writes that were ordered.
LEMMA LeadsSkips ==
  ASSUME RaidInv, SkipInv, NEW io, ram' = [ram EXCEPT !.io = io], on' = on, CmdInv',
         PairInv', Leads(Media', io, Last(Media, ram.io))
  PROVE SkipInv'
<1>1. ram \in RamType
  BY DEF RaidInv, TypeInv, RamInv
<1>2. ram'.io = io /\ ram'.reenum = ram.reenum
  BY <1>1 DEF RamType
<1>3. Safe(Media', ram'.io) /\ Last(Media', ram'.io) = Last(Media, ram.io)
  BY <1>2 DEF Leads
<1>4. on /\ ~ram.reenum => RamGood(ram', Last(Media, ram.io))
  BY <1>1, RestElsewhere DEF SkipInv
<1>5. Safe(Media, ram.io)' /\ Last(Media, ram.io)' = Last(Media', ram'.io)
  BY <1>3
<1> QED BY <1>2, <1>3, <1>4, <1>5 DEF SkipInv

\* A write is carried out, except that a page is first erased.
LEMMA IoStepApplies ==
  ASSUME RaidInv, IoStep, Head(ram.io).op # "store"
  PROVE Media' = Apply(Media, Head(ram.io)) /\ ram' = [ram EXCEPT !.io = Tail(@)]
<1> DEFINE o == Head(ram.io)
<1>1. UNCHANGED bay
  BY DEF IoStep
<1>2. CASE o.op = "other"
  BY <1>1, <1>2 DEF IoStep, Apply, Media
<1>3. CASE o.op = "prog"
  <2>1. /\ ram' = [ram EXCEPT !.io = Tail(@)]
        /\ flash' = [flash EXCEPT ![o.at] = o.page] /\ UNCHANGED <<other, data, acked>>
    BY <1>3 DEF IoStep, ProgramPage
  <2>2. Apply(Media, o) = [Media EXCEPT !.flash[o.at] = o.page]
    BY <1>3 DEF Apply
  <2> QED BY <1>1, <2>1, <2>2 DEF Media
<1>4. CASE o.op = "mbr"
  BY <1>1, <1>4 DEF IoStep, Apply, Media
<1> QED BY <1>2, <1>3, <1>4 DEF IoStep

\* The store of a page: the sector is erased, and both pages are programmed.
LEMMA StoreErases ==
  ASSUME RaidInv, SkipInv, IoStep, Head(ram.io).op = "store"
  PROVE LET o == Head(ram.io)
            page == [flash EXCEPT ![o.at] = o.page]
            w == [i \in 1..2 |-> [op |-> "prog", at |-> i - 1, page |-> page[i - 1]]]
        IN /\ ram' = [ram EXCEPT !.io = w \o Tail(ram.io)]
           /\ Leads(Media', w \o Tail(ram.io), Last(Media, ram.io))
<1> DEFINE o == Head(ram.io)
           page == [flash EXCEPT ![o.at] = o.page]
           w == [i \in 1..2 |-> [op |-> "prog", at |-> i - 1, page |-> page[i - 1]]]
           n == Last(Media, ram.io)
           a == Apply(Media, o)
           b == Apply(Media', w[1])
           c == Apply(b, w[2])
<1>0. ram.io \in Seq(Orders) /\ ram.io # << >> /\ Typed
  BY DEF RaidInv, TypeInv, RamInv, RamType, IoStep
<1>1. /\ o \in Orders /\ o.op = "store" /\ Tail(ram.io) \in Seq(Orders)
  BY <1>0, TailIs
<1>2. o.at \in Slots /\ o.page \in Page
  BY <1>1 DEF Orders
<1>3. Leads(Media, ram.io, n)
  BY DEF SkipInv, Leads
<1>4. Leads(a, Tail(ram.io), n)
  BY <1>0, <1>3, LeadsTail
<1>5. /\ ram' = [ram EXCEPT !.io = w \o Tail(ram.io)]
      /\ flash' = [i \in Slots |-> Torn] /\ UNCHANGED <<bay, other, data, acked>>
  BY <1>1 DEF IoStep, spi_write_flash, spi_erase_flash_sector
<1>6. page \in Pages /\ a = [Media EXCEPT !.flash = page]
  <2>1. a = Put(Media, o.at, o.page)
    BY <1>1 DEF Apply, Put
  <2>2. page \in Pages
    BY <1>0, <1>2 DEF Typed, Pages
  <2> QED BY <2>1, <2>2 DEF Put, Media
<1> HIDE DEF o
<1>7. /\ w[1] = [op |-> "prog", at |-> 0, page |-> page[0]]
      /\ w[2] = [op |-> "prog", at |-> 1, page |-> page[1]]
      /\ w \in Seq(Orders) /\ Len(w) = 2
  <2>1. page[0] \in Page /\ page[1] \in Page
    BY <1>6 DEF Pages, Slots
  <2> HIDE DEF page
  <2>2. w[1] = [op |-> "prog", at |-> 0, page |-> page[0]] /\ w[2] = [op |-> "prog", at |-> 1, page |-> page[1]]
    OBVIOUS
  <2>3. w[1] \in Orders /\ w[2] \in Orders
    BY <2>1, <2>2 DEF Orders, Slots
  <2>4. w = << w[1], w[2] >>
    OBVIOUS
  <2> HIDE DEF w
  <2> QED BY <2>2, <2>3, <2>4
<1> HIDE DEF page, w
<1>8. Media' = [Media EXCEPT !.flash = [i \in Slots |-> Torn]]
  BY <1>5 DEF Media
<1>9. b = [Media EXCEPT !.flash = [i \in Slots |-> IF i = 0 THEN page[0] ELSE Torn]]
  <2>1. b = [Media' EXCEPT !.flash[0] = page[0]]
    BY <1>7 DEF Apply
  <2> QED BY <1>8, <2>1 DEF Slots, Media
<1>10. c = a
  <2>1. c = [b EXCEPT !.flash[1] = page[1]]
    BY <1>7 DEF Apply
  <2>2. c = [Media EXCEPT !.flash = [i \in Slots |-> page[i]]]
    <3>1. [[i \in Slots |-> IF i = 0 THEN page[0] ELSE Torn] EXCEPT ![1] = page[1]] = [i \in Slots |-> page[i]]
      BY DEF Slots
    <3> HIDE DEF c, b
    <3> QED BY <1>9, <2>1, <3>1 DEF Media
  <2>3. [i \in Slots |-> page[i]] = page
    BY <1>6 DEF Pages
  <2> QED BY <1>6, <2>2, <2>3
<1>11. Good(a)
  BY <1>1, <1>4, LeadsEnds
<1>12. Stated(page)
  <2>1. a.flash = page
    BY <1>6 DEF Media
  <2> HIDE DEF a
  <2> QED BY <1>11, <2>1 DEF Good
<1>13. Good(Media')
  <2>1. Media'.flash = [i \in Slots |-> Torn]
    BY <1>8 DEF Media
  <2>2. Still(Media'.flash) /\ Stated(Media'.flash) /\ Behind(Media'.flash)
    BY <2>1, ApartTorn DEF Still, Resumes, Mates, Stated, Behind, Slots
  <2> QED BY <2>2, StillGood
<1>14. Good(b)
  <2>1. b.flash = [i \in Slots |-> IF i = 0 THEN page[0] ELSE Torn]
    BY <1>9 DEF Media
  <2> HIDE DEF b
  <2>2. b.flash[1] = Torn /\ b.flash[0] = page[0]
    BY <2>1 DEF Slots
  <2>3. ~Mates(b.flash)
    BY <2>2, ApartTorn DEF Mates, Slots
  <2>4. Still(b.flash) /\ Behind(b.flash)
    BY <2>3 DEF Still, Resumes, Behind
  <2>5. Stated(b.flash)
    BY <1>12, <2>2, ApartTorn DEF Stated, Slots
  <2> QED BY <2>4, <2>5, StillGood
<1>15. Leads(c, Tail(ram.io), n)
  BY <1>4, <1>10
<1> HIDE DEF a, b, c, n
<1>16. Leads(Media', w \o Tail(ram.io), n)
  <2>1. Good(Media') /\ Good(Apply(Media', w[1])) /\ Leads(Apply(Apply(Media', w[1]), w[2]), Tail(ram.io), n)
    BY <1>13, <1>14, <1>15 DEF b, c
  <2> DEFINE mm == Media'
  <2> HIDE DEF mm
  <2>2. Good(mm) /\ Good(Apply(mm, w[1])) /\ Leads(Apply(Apply(mm, w[1]), w[2]), Tail(ram.io), n)
    BY <2>1 DEF mm
  <2>3. Leads(mm, w \o Tail(ram.io), n)
    BY <1>1, <1>7, <2>2, LeadsTwo
  <2> QED BY <2>3 DEF mm
<1> QED BY <1>5, <1>16 DEF o, page, w, n

\* IoStep leaves the second copy of a check point next, or paired writes.
LEMMA IoStepPairs == ASSUME RaidInv, SkipInv, IoStep PROVE PairInv'
<1> DEFINE o == Head(ram.io)
<1>1. ram \in RamType /\ ram.io \in Seq(Orders) /\ ram.io # << >> /\ Typed /\ bay' = bay /\ o \in Orders /\ PairInv
  <2>1. ram \in RamType /\ ram.io \in Seq(Orders) /\ ram.io # << >>
    BY DEF RaidInv, TypeInv, RamInv, RamType, IoStep
  <2> QED BY <2>1, TailIs DEF RaidInv, TypeInv, IoStep, SkipInv
<1>2. CASE o.op = "store"
  <2> DEFINE page == [flash EXCEPT ![o.at] = o.page]
             w == [i \in 1..2 |-> [op |-> "prog", at |-> i - 1, page |-> page[i - 1]]]
  <2>1. Paired(ram.io)
    BY <1>2 DEF PairInv, SkipInv, Between
  <2>2. Paired(Tail(ram.io)) /\ Tail(ram.io) \in Seq(Orders)
    BY <1>1, <1>2, <2>1, PairedTail
  <2>3. ram' = [ram EXCEPT !.io = w \o Tail(ram.io)]
    BY <1>2, StoreErases
  <2>4. w \in Seq(Orders) /\ Len(w) = 2 /\ w[1].op # "other" /\ w[2].op # "other"
    <3>1. page \in Pages
      BY <1>1, <1>2 DEF Typed, Pages, Orders
    <3> HIDE DEF page
    <3>2. \A i \in 1..2 : w[i] \in Orders /\ w[i].op = "prog"
      BY <3>1 DEF Orders, Pages, Slots
    <3>3. w = <<w[1], w[2]>>
      OBVIOUS
    <3> HIDE DEF w
    <3> QED BY <3>2, <3>3
  <2> HIDE DEF w
  <2>5. Paired(w \o Tail(ram.io))
    BY <2>2, <2>4, PairedAfter
  <2>6. ram'.io = w \o Tail(ram.io)
    BY <1>1, <2>3 DEF RamType
  <2> QED BY <2>5, <2>6, PairedKept
<1>3. CASE o.op # "store"
  <2>1. ram'.io = Tail(ram.io)
    BY <1>1, <1>3, IoStepApplies DEF RamType
  <2>2. CASE ~Paired(ram.io)
    <3>1. Paired(Tail(ram.io))
      BY <1>1, <2>2 DEF PairInv
    <3> QED BY <2>1, <3>1, PairedKept
  <2>3. CASE Paired(ram.io) /\ o.op # "other"
    <3>1. Paired(Tail(ram.io))
      BY <1>1, <2>3, PairedTail
    <3> QED BY <2>1, <3>1, PairedKept
  <2>4. CASE Paired(ram.io) /\ o.op = "other"
    <3>1. /\ o.copy = 1 /\ Tail(ram.io) # << >> /\ Paired(Tail(Tail(ram.io)))
          /\ Head(Tail(ram.io)).op = "other" /\ Head(Tail(ram.io)).at = o.at /\ Head(Tail(ram.io)).copy = 2
      BY <1>1, <2>4, PairedTail
    <3>2. o.at \in Slots /\ o.cp # Bad
      BY <1>1, <2>4 DEF Orders, Bad
    <3>3. PICK s \in Slots : s = o.at /\ Between(s)'
      <4>1. PICK s \in Slots : s = o.at
        BY <3>2
      <4>2. Between(s)'
        BY <2>1, <3>1, <4>1 DEF Between
      <4> QED BY <4>1, <4>2
    <3>4. bay'[s] \in Drives => other'[bay'[s]][1] # Bad
      <4>1. other' = [other EXCEPT ![bay[o.at]][o.copy] = o.cp]
        BY <2>4 DEF IoStep
      <4> HIDE DEF o
      <4> QED BY <1>1, <3>1, <3>2, <3>3, <4>1 DEF Typed
    <3>5. Paired(Tail(ram'.io))
      BY <2>1, <3>1
    <3> QED BY <3>3, <3>4, <3>5 DEF PairInv
  <2> QED BY <2>2, <2>3, <2>4
<1> QED BY <1>2, <1>3

\* A write carried out keeps SkipInv.
LEMMA IoStepSkips == ASSUME RaidInv, SkipInv, IoStep PROVE SkipInv'
<1>1. ram.io \in Seq(Orders) /\ ram.io # << >> /\ Typed /\ cmd = NoCmd /\ cmd' = NoCmd /\ on' = on /\ left' = left
  BY DEF RaidInv, TypeInv, RamInv, RamType, IoStep, SkipInv, CmdInv, Idle
<1>2. CmdInv'
  <2>1. Now' = Now /\ Now \in Nat
    <3>1. left["write"] \in Nat /\ Budget["write"] \in Nat /\ left["write"] <= Budget["write"]
      BY <1>1, ArrayAssumption DEF Typed, Events
    <3> QED BY <1>1, <3>1 DEF Now
  <2>2. acked' = acked \/ acked' = [b \in Blocks |-> 0]
    BY DEF IoStep
  <2>3. data' = data \/ data' = [data EXCEPT ![bay[Head(ram.io).at]][0] = 0]
    BY DEF IoStep
  <2>4. \A b \in Blocks : acked[b] <= Now /\ \A d \in Drives : data[d][b] <= Now
    BY <1>1 DEF SkipInv, CmdInv
  <2>5. \A b \in Blocks : acked'[b] <= Now
    BY <2>1, <2>2, <2>4
  <2>6. \A b \in Blocks, d \in Drives : data'[d][b] <= Now
    <3>1. data \in [Drives -> [Blocks -> Nat]]
      BY <1>1 DEF Typed
    <3> QED BY <2>1, <2>3, <2>4, <3>1
  <2> QED BY <1>1, <2>1, <2>5, <2>6 DEF CmdInv
<1>5. PairInv'
  BY IoStepPairs
<1>3. CASE Head(ram.io).op = "store"
  BY <1>1, <1>2, <1>3, <1>5, StoreErases, LeadsSkips
<1>4. CASE Head(ram.io).op # "store"
  <2>1. Media' = Apply(Media, Head(ram.io)) /\ ram' = [ram EXCEPT !.io = Tail(@)]
    BY <1>4, IoStepApplies
  <2>2. Leads(Media, ram.io, Last(Media, ram.io))
    BY DEF SkipInv, Leads
  <2>3. Leads(Apply(Media, Head(ram.io)), Tail(ram.io), Last(Media, ram.io))
    BY <1>1, <2>2, LeadsTail
  <2>4. ram' = [ram EXCEPT !.io = Tail(ram.io)]
    BY <2>1
  <2>5. Leads(Media', Tail(ram.io), Last(Media, ram.io))
    BY <2>1, <2>3
  <2> QED BY <1>1, <1>2, <1>5, <2>4, <2>5, LeadsSkips
<1> QED BY <1>3, <1>4

----------------------------------------------------------------------------
(* The switch, the drives and the power.                                   *)

\* Another event leaves the count of the writes.
LEMMA StillWrites ==
  ASSUME Typed, NEW e \in Events, e # "write", Happens(e) PROVE left'["write"] = left["write"]
BY DEF Typed, Happens, Events

\* A step after which the drives, the flash and RAM are as before.
LEMMA QuietSkips ==
  ASSUME SkipInv, UNCHANGED <<bay, flash, other, data, acked, ram, on>>, CmdInv' PROVE SkipInv'
<1>1. Media' = Media /\ ram' = ram
  BY DEF Media
<1>2. Safe(Media', ram'.io) /\ Last(Media', ram'.io) = Last(Media, ram.io)
  BY <1>1 DEF SkipInv
<1>3. Safe(Media, ram.io)' /\ Last(Media, ram.io)' = Last(Media, ram.io)
  BY <1>2
<1>4. on' /\ ~ram'.reenum => RamGood(ram', Last(Media, ram.io))
  BY <1>1 DEF SkipInv
<1>5. PairInv'
  <2>1. \A s \in Slots : Between(s)' <=> Between(s)
    BY <1>1 DEF Between
  <2>2. PairInv /\ bay' = bay /\ other' = other /\ ram' = ram
    BY <1>1 DEF SkipInv
  <2> QED BY <2>1, <2>2 DEF PairInv
<1> QED BY <1>3, <1>4, <1>5 DEF SkipInv

\* The switch of the user changes neither media nor RAM.
LEMMA MoveSwitchSkips == ASSUME RaidInv, SkipInv, MoveSwitch PROVE SkipInv'
<1>1. UNCHANGED <<bay, flash, other, data, acked, ram, cmd, on>>
  BY DEF MoveSwitch
<1>2. left'["write"] = left["write"]
  BY StillWrites DEF MoveSwitch, RaidInv, TypeInv, Events
<1>3. CmdInv'
  BY <1>1, <1>2 DEF SkipInv, CmdInv, Now, Idle
<1> QED BY <1>1, <1>3, QuietSkips

\* What the pages and the check points promise does not depend on the bays.
LEMMA GoodElsewhere ==
  ASSUME NEW m, NEW n, Good(m), n.flash = m.flash, n.other = m.other, n.data = m.data, n.acked = m.acked
  PROVE Good(n)
<1>1. \A x, y, z : Sync(n, x, y, z) <=> Sync(m, x, y, z)
  BY DEF Sync
<1>2. \A x, y : Covers(n, x, y) <=> Covers(m, x, y)
  BY DEF Covers
<1> QED BY <1>1, <1>2 DEF Good, Resumable

\* Without power, or before an enumeration, only the media count.
LEMMA OffSkips ==
  ASSUME RaidInv, Good(Media'), ram'.io = << >>, ~on' \/ ram'.reenum, CmdInv' PROVE SkipInv'
<1>1. Safe(Media', ram'.io)
  <2> DEFINE m == Media'
  <2> HIDE DEF m
  <2>1. Good(m)
    BY DEF m
  <2>2. Safe(m, << >>)
    BY <2>1, LeadsNowhere DEF Leads
  <2> QED BY <2>2 DEF m
<1>2. Safe(Media, ram.io)'
  BY <1>1
<1>3. PairInv'
  BY PairedNone, PairedKept
<1> QED BY <1>2, <1>3 DEF SkipInv

\* Drives that move leave the media good.
LEMMA ReplugSkips ==
  ASSUME RaidInv, SkipInv, ram.io = << >>, UNCHANGED <<flash, other, data, acked>>, Happens("plug"),
         cmd' = NoCmd, ram'.io = << >>, ~on' \/ ram'.reenum
  PROVE SkipInv'
<1>1. Good(Media)
  BY RestingMedia
<1>2. Good(Media')
  <2>1. /\ Media'.flash = Media.flash /\ Media'.other = Media.other /\ Media'.data = Media.data
        /\ Media'.acked = Media.acked
    BY DEF Media
  <2> DEFINE m == Media'
  <2> HIDE DEF m
  <2>2. Good(m)
    BY <1>1, <2>1, GoodElsewhere DEF m
  <2> QED BY <2>2 DEF m
<1>3. CmdInv'
  <2>1. left'["write"] = left["write"]
    BY StillWrites DEF RaidInv, TypeInv, Events
  <2> QED BY <2>1, CmdGone DEF RaidInv, TypeInv, SkipInv
<1> QED BY <1>2, <1>3, OffSkips

\* Drives moved with the power off.
LEMMA ChangeDrivesSkips == ASSUME RaidInv, PagesInv, SkipInv, ChangeDrives PROVE SkipInv'
<1>1. ram = InitRam /\ ram.io = << >> /\ cmd = NoCmd
  BY InitRamPages DEF ChangeDrives, PagesInv, SkipInv, CmdInv, Idle
<1>2. ram'.io = << >> /\ cmd' = NoCmd
  BY <1>1 DEF ChangeDrives
<1> QED BY <1>1, <1>2, ReplugSkips DEF ChangeDrives

\* Drives moved with the power on.
LEMMA HotPlugSkips == ASSUME RaidInv, SkipInv, HotPlug PROVE SkipInv'
<1>1. ram \in RamType
  BY DEF RaidInv, TypeInv, RamInv
<1>2. ram' = [ram EXCEPT !.reenum = TRUE, !.mirror = FALSE, !.busy = FALSE]
  BY DEF HotPlug
<1>3. ram'.io = << >> /\ ram'.reenum
  BY <1>1, <1>2 DEF HotPlug, RamType
<1> QED BY <1>3, ReplugSkips DEF HotPlug

\* A check point whose second copy is lost still covers what is copied.
LEMMA CutGood ==
  ASSUME NEW m \in MediaType, Good(m), NEW d \in Drives, NEW c \in 1..2,
         NEW n, n = [m EXCEPT !.other[d][c] = Bad],
         \A x \in Drives : (\E e \in 1..2 : m.other[x][e] # Bad) => \E e \in 1..2 : n.other[x][e] # Bad
  PROVE Good(n)
<1>1. /\ n.flash = m.flash /\ n.data = m.data /\ n.acked = m.acked
      /\ \A x \in Drives, e \in 1..2 : n.other[x][e] = IF x = d /\ e = c THEN Bad ELSE m.other[x][e]
  BY DEF MediaType
<1>2. \A x, y, z : Sync(n, x, y, z) <=> Sync(m, x, y, z)
  BY <1>1 DEF Sync
<1>3. ASSUME NEW g \in Slots, Resumes(m.flash, g) PROVE Resumable(n, g)
  <2> DEFINE s == Owner(m.flash[g])
             t == Owner(m.flash[Across(g)])
  <2>1. s \in Drives /\ t \in Drives
    <3>1. \A x \in Slots : m.flash[x] \in Page /\ Owned(m.flash[x])
      BY <1>3 DEF Resumes, Mates, MediaType, Pages
    <3>2. \A x \in Slots : Owner(m.flash[x]) \in Drives
      BY <3>1 DEF Owned, Owner, Page, Slots
    <3> QED BY <3>2 DEF Across, Slots
  <2>2. /\ m.flash[g].status[Across(g)] # "MISSING"
        /\ \A e \in 1..2 : Sync(m, s, t, m.other[s][e] - Step)
        /\ g = 1 => Sync(m, s, t, Size) \/ Covers(m, s, t)
    BY <1>3 DEF Good, Resumable
  <2>3. ASSUME NEW e \in 1..2 PROVE Sync(n, s, t, n.other[s][e] - Step)
    <3>1. CASE s = d /\ e = c
      <4>1. n.other[s][e] = Bad
        BY <1>1, <2>1, <3>1
      <4>2. Bad - Step \in Int /\ Bad - Step <= 0
        BY Constants DEF Bad
      <4> QED BY <4>1, <4>2, SyncNone
    <3>2. CASE ~(s = d /\ e = c)
      BY <1>1, <1>2, <2>1, <2>2, <2>3, <3>2
    <3> QED BY <3>1, <3>2
  <2> HIDE DEF s, t
  <2>4. ASSUME Covers(m, s, t) PROVE Covers(n, s, t)
    <3>1. \E e \in 1..2 : n.other[t][e] # Bad
      BY <2>1, <2>4 DEF Covers
    <3>2. ASSUME NEW e \in 1..2, n.other[t][e] # Bad, NEW x \in 1..2 
          PROVE n.other[t][e] >= Step /\ n.other[s][x] <= n.other[t][e]
      <4>1. n.other[t][e] = m.other[t][e] /\ m.other[t][e] # Bad
        BY <1>1, <2>1, <3>2
      <4>2. m.other[t][e] >= Step /\ m.other[s][x] <= m.other[t][e]
        BY <2>4, <4>1 DEF Covers
      <4>3. n.other[s][x] = m.other[s][x] \/ n.other[s][x] = -1
        BY <1>1, <2>1 DEF Bad
      <4>4. m.other[t][e] \in Nat
        BY <2>1, <4>1 DEF MediaType
      <4> QED BY <4>1, <4>2, <4>3, <4>4
    <3> QED BY <3>1, <3>2 DEF Covers
  <2>5. g = 1 => Sync(n, s, t, Size) \/ Covers(n, s, t)
    BY <1>2, <2>2, <2>4
  <2> QED BY <1>1, <2>2, <2>3, <2>5 DEF Resumable, s, t
<1> QED BY <1>1, <1>3 DEF Good

\* A cut leaves a state of the way, or a torn write on it: a torn page is
\* nobody's, a torn
\* check point is not the last one of its drive.
LEMMA PowerCutSkips == ASSUME RaidInv, SkipInv, PowerCut, LastCopyKept PROVE SkipInv'
<1>1. Typed /\ ram.io \in Seq(Orders) /\ ram \in RamType
  BY DEF RaidInv, TypeInv, RamInv, RamType
<1>2. Good(Media) /\ Media \in MediaType
  <2>1. Leads(Media, ram.io, Last(Media, ram.io))
    BY DEF SkipInv, Leads
  <2> QED BY <1>1, <2>1, LeadsEnds, MediaIs
<1>3. UNCHANGED <<bay, flash, data, acked>> /\ cmd' = NoCmd /\ ~on' /\ ram' = InitRam /\ left'["write"] = left["write"]
  BY <1>1, StillWrites DEF PowerCut, Events
<1>4. CmdInv'
  BY <1>1, <1>3, CmdGone DEF SkipInv
<1>5. Good(Media')
  <2> DEFINE n == Media'
  <2>1. CASE other' = other
    <3>1. n = Media
      BY <1>3, <2>1 DEF Media
    <3> QED BY <1>2, <3>1
  <2>2. CASE Writing("other") /\ other' = [other EXCEPT ![bay[Head(ram.io).at]][Head(ram.io).copy] = Bad]
    <3> DEFINE o == Head(ram.io)
               d == bay[o.at]
    <3>1. o \in Orders /\ o.op = "other"
      BY <1>1, <2>2, TailIs DEF Writing
    <3>2. o.at \in Slots /\ o.copy \in 1..2 /\ d \in Drives \cup {NoDrive}
      BY <1>1, <3>1 DEF Orders, Typed, Bays
    <3> HIDE DEF o, d
    <3>3. other' = [other EXCEPT ![d][o.copy] = Bad]
      BY <2>2 DEF o, d
    <3>4. CASE d \in Drives
      <4>1. n = [Media EXCEPT !.other[d][o.copy] = Bad]
        BY <1>3, <3>3 DEF Media
      <4>2. \A x \in Drives : (\E e \in 1..2 : Media.other[x][e] # Bad) => \E e \in 1..2 : n.other[x][e] # Bad
        BY DEF LastCopyKept, Media
      <4> HIDE DEF n
      <4>3. Good(n)
        BY <1>2, <3>2, <3>4, <4>1, <4>2, CutGood
      <4> QED BY <4>3 DEF n
    <3>5. CASE d \notin Drives
      <4>1. other' = other
        BY <1>1, <3>3, <3>5 DEF Typed
      <4>2. n = Media
        BY <1>3, <4>1 DEF Media
      <4> QED BY <1>2, <4>2
    <3> QED BY <3>4, <3>5
  <2> QED BY <2>1, <2>2 DEF PowerCut
<1> QED BY <1>3, <1>4, <1>5, InitRamPages, OffSkips

----------------------------------------------------------------------------
(* ConfigButton and HostWrite.                                             *)

\* What an idle firmware starts from.
LEMMA IdleOrdered ==
  ASSUME RaidInv, SkipInv, Idle
  PROVE /\ Good(Media) /\ Media \in MediaType /\ RamGood(ram, Media) /\ ram.bay = bay /\ ram \in RamType /\ ram.io = << >>
        /\ \A r : Rested(r) /\ r.bay = bay /\ r.io = << >> => Ordered(r, Media, Media)
<1>1. Typed /\ ram \in RamType /\ ram.io = << >> /\ on /\ ~ram.reenum
  BY DEF RaidInv, TypeInv, RamInv, Idle
<1>2. Good(Media) /\ Last(Media, ram.io) = Media
  BY <1>1, RestingMedia
<1>3. RamGood(ram, Media) /\ ram.bay = bay
  BY <1>1, <1>2 DEF SkipInv, RaidInv, DriveInv
<1>4. \A r : Rested(r) /\ r.bay = bay /\ r.io = << >> => Ordered(r, Media, Media)
  BY <1>1, <1>2, RightOrdered
<1> QED BY <1>1, <1>2, <1>3, <1>4, MediaIs

\* The pages that are about the drives in the bays are the ones in the flash.
LEMMA GensStored ==
  ASSUME NEW r, r \in RamType, NEW n \in MediaType, PagesStored(r, n)
  PROVE \A s \in Slots : Ready(r, s) /\ Owner(n.flash[s]) = r.bay[s] => n.flash[s].gen <= r.rp[s].gen
<1> SUFFICES ASSUME NEW s \in Slots, Ready(r, s), Owner(n.flash[s]) = r.bay[s] PROVE n.flash[s].gen <= r.rp[s].gen
  OBVIOUS
<1>1. r.rp[s] = n.flash[s] /\ n.flash[s] \in Page
  BY DEF PagesStored, MediaType, Pages
<1> QED BY <1>1 DEF Page

\* hw_raid_enum_check configures anew.
LEMMA ConfigButtonSkips == ASSUME RaidInv, PagesInv, SkipInv, ConfigButton PROVE SkipInv'
<1> DEFINE x == IF AsConfigured(ram) THEN ram ELSE hw_raid_config(ram, gpio)
           q == [x EXCEPT !.reenum = TRUE, !.busy = FALSE]
<1>1. /\ Idle /\ ~CannotConfig(ram, gpio) /\ ~(ram.mirror /\ (gpio = "RAID1" \/ ram.busy)) /\ ram' = q
      /\ cmd' = NoCmd /\ UNCHANGED <<bay, flash, other, data, acked, gpio, on>> /\ Typed
      /\ gpio \in {"RAID1", "JBOD"} /\ Happens("switch")
  BY DEF ConfigButton, RaidInv, TypeInv, Typed
<1>2. /\ Good(Media) /\ Media \in MediaType /\ RamGood(ram, Media) /\ ram.bay = bay /\ ram \in RamType /\ ram.io = << >>
      /\ \A r : Rested(r) /\ r.bay = bay /\ r.io = << >> => Ordered(r, Media, Media)
  BY <1>1, IdleOrdered
<1>3. ~ram.busy /\ Rested(ram) /\ ram.map = [s \in Slots |-> s]
  BY <1>1 DEF RaidInv, TypeInv, RamInv, Rested, PagesInv, RamPages, AptPages
<1>4. Ordered(ram, Media, Media)
  BY <1>2, <1>3
<1>5. \A s \in Slots : Ready(ram, s) /\ Owner(Media.flash[s]) = ram.bay[s] => Media.flash[s].gen <= ram.rp[s].gen
  BY <1>2, GensStored DEF RamGood
<1>6. \E k : Ordered(x, Media, k)
  <2>1. CASE AsConfigured(ram)
    BY <1>4, <2>1
  <2>2. CASE ~AsConfigured(ram)
    <3>1. \E k : Ordered(hw_raid_config(ram, gpio), Media, k)
      BY <1>1, <1>3, <1>4, <1>5, ConfigOrdered
    <3> QED BY <2>2, <3>1
  <2> QED BY <2>1, <2>2
<1> HIDE DEF x
<1>7. PICK k : Ordered(x, Media, k)
  BY <1>6
<1>8. Rested(x)
  BY <1>7, OrderedIs
<1>9. Rested(q) /\ q.io = x.io /\ q.bay = x.bay /\ q.reenum
  BY <1>8 DEF Rested, RamType
<1> HIDE DEF q
<1>10. Ordered(q, Media, k)
  BY <1>7, <1>9, OrderedSame
<1>11. CmdInv'
  <2>1. left'["write"] = left["write"]
    BY <1>1, StillWrites DEF Events
  <2> QED BY <1>1, <2>1, CmdGone DEF SkipInv
<1>12. Ordered(ram', Media, k) /\ ram'.reenum
  BY <1>1, <1>9, <1>10
<1> QED BY <1>1, <1>11, <1>12, OrderedSkips

\* The versions are numbers.
LEMMA NowIs == ASSUME Typed PROVE Now \in Nat /\ left["write"] \in Nat /\ Budget["write"] \in Nat
<1>1. left["write"] \in Nat /\ Budget["write"] \in Nat /\ left["write"] <= Budget["write"]
  BY ArrayAssumption DEF Typed, Events
<1> QED BY <1>1 DEF Now

\* A write of the host begins.
LEMMA HostWriteSkips ==
  ASSUME RaidInv, PagesInv, SkipInv, NEW l \in Slots, NEW b \in Blocks, HostWrite(l, b) PROVE SkipInv'
<1> DEFINE c == [at |-> b, ver |-> 2 + Budget["write"] - left["write"],
             disk |-> [s \in Slots |-> IF s \in Targets(l) THEN "busy" ELSE "none"]]
<1>1. /\ Serving(l) /\ cmd = NoCmd /\ ~ram.busy /\ Happens("write") /\ (\A s \in Targets(l) : Ready(ram, s))
      /\ cmd' = c /\ UNCHANGED <<bay, flash, other, data, acked, ram, on>>
  BY DEF HostWrite, media
<1>2. Idle /\ Typed
  BY <1>1 DEF Serving, RaidInv, TypeInv
<1>3. RamGood(ram, Media) /\ ram.bay = bay /\ ram \in RamType
  BY <1>2, IdleOrdered
<1>4. cmd' # NoCmd /\ cmd'.at = b /\ cmd'.ver = 2 + Budget["write"] - left["write"]
      /\ \A s \in Slots : cmd'.disk[s] = IF s \in Targets(l) THEN "busy" ELSE "none"
  <2>1. c.at = b /\ NoCmd.at = -1
    BY DEF NoCmd
  <2>2. b # -1
    BY Constants DEF Blocks
  <2> QED BY <1>1, <2>1, <2>2
<1>5. Now' = Now /\ cmd'.ver = Now' + 1
  <2>1. left["write"] \in Nat /\ Budget["write"] \in Nat
    BY <1>2, NowIs
  <2>2. left'["write"] = left["write"] - 1
    BY <1>1, <1>2 DEF Happens, Typed, Events
  <2> QED BY <1>1, <1>4, <2>1, <2>2 DEF Now
<1>6. \A x \in Blocks : acked'[x] <= Now' /\ \A d \in Drives : data'[d][x] <= Now'
  BY <1>1, <1>5 DEF SkipInv, CmdInv
<1>7. Idle' /\ ~ram'.busy
  BY <1>1, <1>2 DEF Idle
<1>8. \A s \in Slots : cmd'.disk[s] # "none" => bay'[s] # NoDrive
  BY <1>1, <1>3, <1>4 DEF Ready
<1>9. ram'.mode = "RAID1" => \A s \in Slots : cmd'.disk[s] # "none"
  BY <1>1, <1>4 DEF Targets
<1>10. ram'.mode # "RAID1" => ~\E g \in Slots : Resumes(flash', g)
  <2>1. SUFFICES ASSUME ram.mode # "RAID1", \E g \in Slots : Resumes(flash, g) PROVE FALSE
    BY <1>1
  <2>2. \A i \in 0..ram.num - 1 : ram.queue[i] \in {"BROKEN", "NOT_CONFIGURED"}
    BY <1>3, <2>1 DEF RamGood, NotServed, Media
  <2>3. l \in 0..ram.num - 1
    <3>1. l < ram.num /\ ram.num \in 0..2
      BY <1>1, <1>3 DEF Serving, RamType
    <3> QED BY <3>1 DEF Slots
  <2> QED BY <1>1, <2>2, <2>3 DEF Serving
<1>11. CmdInv'
  <2>1. \A s \in Slots : cmd'.disk[s] # "ok"
    BY <1>4
  <2> QED BY <1>4, <1>5, <1>6, <1>7, <1>8, <1>9, <1>10, <2>1 DEF CmdInv
<1> QED BY <1>1, <1>11, QuietSkips

----------------------------------------------------------------------------
(* Data that is written to the drives: DiskWrite.                          *)

\* n is m but for what is on the drives of D, among which nothing lags behind
\* that did not before.
Carries(n, m, D) ==
  /\ n.flash = m.flash /\ n.other = m.other
  /\ \A x, t \in D : \A z : Sync(m, x, t, z) => Sync(n, x, t, z)

\* Data written to the drives of a rebuild, or with no rebuild to resume.
LEMMA CarriesGood ==
  ASSUME NEW m, Good(m), NEW n, NEW D, Carries(n, m, D),
         Still(m.flash) \/ \A s \in Slots : Owner(m.flash[s]) \in D
  PROVE Good(n)
<1>1. \A x, t : Covers(n, x, t) <=> Covers(m, x, t)
  BY DEF Carries, Covers
<1>2. ASSUME NEW g \in Slots, Resumes(m.flash, g) PROVE Resumable(n, g)
  <2>1. Owner(m.flash[g]) \in D /\ Owner(m.flash[Across(g)]) \in D
    BY <1>2 DEF Still, Across, Slots
  <2>2. Resumable(m, g)
    BY <1>2 DEF Good
  <2> QED BY <1>1, <2>1, <2>2 DEF Resumable, Carries
<1> QED BY <1>2 DEF Good, Carries

\* The same for the state in RAM.
LEMMA CarriesRam ==
  ASSUME NEW r, NEW m, RamGood(r, m), NEW n, NEW D, Carries(n, m, D),
         r.mirror => r.bay[r.src] \in D /\ r.bay[Across(r.src)] \in D
  PROVE RamGood(r, n)
<1>1. PagesStored(r, n) /\ NotServed(r, n) /\ OneArray(r)
  BY DEF RamGood, PagesStored, NotServed, Carries
<1>2. Copies(r, n)
  BY DEF RamGood, Copies, Carries
<1> QED BY <1>1, <1>2 DEF RamGood

\* A step of the drives while the firmware writes nothing.
LEMMA DriveSkips ==
  ASSUME RaidInv, SkipInv, Idle, ram' = ram, on' = on, CmdInv', NEW D, Carries(Media', Media, D),
         Still(flash) \/ (\A s \in Slots : Owner(flash[s]) \in D),
         ram.mirror => ram.bay[ram.src] \in D /\ ram.bay[Across(ram.src)] \in D
  PROVE SkipInv'
<1> DEFINE n == Media'
<1>1. Good(Media) /\ RamGood(ram, Media) /\ ram.io = << >> /\ Media.flash = flash
  BY IdleOrdered DEF Media
<1>2. Carries(n, Media, D)
  OBVIOUS
<1> HIDE DEF n
<1>3. Good(n)
  BY <1>1, <1>2, CarriesGood
<1>4. RamGood(ram, n)
  BY <1>1, <1>2, CarriesRam
<1>5. Safe(n, << >>) /\ Last(n, << >>) = n
  BY <1>3, LeadsNowhere DEF Leads
<1>6. Safe(Media, ram.io)' /\ Last(Media, ram.io)' = n
  BY <1>1, <1>5 DEF n
<1>7. RamGood(ram, Last(Media, ram.io))'
  BY <1>4, <1>6
<1>8. PairInv'
  BY <1>1, PairedNone, PairedKept
<1> QED BY <1>6, <1>7, <1>8 DEF SkipInv

\* The drives of a rebuild are in the bays.
LEMMA MirrorInBays ==
  ASSUME RaidInv, ram.mirror
  PROVE ram.bay[ram.src] \in Drives /\ ram.bay[Across(ram.src)] \in Drives /\ ram.src \in Slots /\ Across(ram.src) \in Slots
        /\ Across(ram.src) # ram.src
<1>1. Whole(ram) /\ ram \in RamType
  BY DEF RaidInv, DriveInv, TypeInv, RamInv
<1>2. ram.src \in Slots /\ Across(ram.src) \in Slots /\ Across(ram.src) # ram.src
  BY <1>1 DEF RamType, Across, Slots
<1> QED BY <1>1, <1>2 DEF Whole, Ready, RamType, Bays

\* A command has a block and a version.
LEMMA CmdIs == ASSUME Typed, cmd # NoCmd PROVE cmd \in Commands /\ cmd.at \in Blocks /\ cmd.ver \in Nat /\ cmd.at # -1
<1>1. cmd \in Commands
  BY DEF Typed
<1>2. cmd.at \in Blocks
  BY <1>1 DEF Commands
<1> QED BY <1>1, <1>2, Constants DEF Commands, Blocks

\* A drive does its part of a write.
LEMMA DiskWriteSkips ==
  ASSUME RaidInv, SkipInv, NEW s \in Slots, DiskWrite(s) PROVE SkipInv'
<1> DEFINE d == bay[s]
           b == cmd.at
           v == cmd.ver
<1>1. /\ cmd # NoCmd /\ cmd.disk[s] = "busy" /\ Typed /\ UNCHANGED <<bay, flash, other, acked, ram, on>> /\ Idle
      /\ v = Now + 1 /\ b \in Blocks /\ Now \in Nat /\ cmd \in Commands /\ d \in Drives
  <2>1. cmd # NoCmd /\ cmd.disk[s] = "busy" /\ Typed
    BY DEF DiskWrite, RaidInv, TypeInv
  <2>2. d # NoDrive /\ Idle /\ v = Now + 1
    BY <2>1 DEF SkipInv, CmdInv
  <2>3. d \in Drives
    BY <2>1, <2>2 DEF Typed, Bays
  <2> QED BY <2>1, <2>2, <2>3, CmdIs, NowIs DEF DiskWrite
<1>2. /\ \A x \in Blocks : acked[x] \in Nat /\ acked[x] <= Now
      /\ \A e \in Drives, x \in Blocks : data[e][x] \in Nat /\ (data[e][x] <= Now \/ (x = b /\ data[e][x] = v))
  BY <1>1 DEF SkipInv, CmdInv, Typed
<1>3. CASE /\ cmd' = [cmd EXCEPT !.disk[s] = "ok"]
           /\ data' = [data EXCEPT ![d][b] = v] /\ UNCHANGED left
  <2>1. \A e \in Drives, x \in Blocks : data'[e][x] = IF e = d /\ x = b THEN v ELSE data[e][x]
    BY <1>1, <1>3 DEF Typed
  <2>2. Carries(Media', Media, Drives)
    <3>1. ASSUME NEW x \in Drives, NEW t \in Drives, NEW z, Sync(Media, x, t, z) PROVE Sync(Media, x, t, z)'
      <4> SUFFICES ASSUME NEW y \in Blocks, y < z, data'[x][y] <= acked[y] PROVE data'[t][y] >= data'[x][y]
        BY <1>1 DEF Sync, Media
      <4>1. data'[x][y] = data[x][y]
        BY <1>1, <1>2, <2>1
      <4>2. data[t][y] >= data[x][y]
        BY <3>1, <4>1 DEF Sync, Media
      <4> QED BY <1>1, <1>2, <2>1, <4>1, <4>2
    <3>2. \A x, t \in Drives : \A z : Sync(Media, x, t, z) => Sync(Media', x, t, z)
      BY <3>1
    <3> QED BY <1>1, <3>2 DEF Carries, Media
  <2>3. /\ cmd' # NoCmd /\ cmd'.at = b /\ cmd'.ver = v
        /\ \A x \in Slots : cmd'.disk[x] = IF x = s THEN "ok" ELSE cmd.disk[x]
    <3>1. cmd'.at = b /\ cmd'.ver = v /\ \A x \in Slots : cmd'.disk[x] = IF x = s THEN "ok" ELSE cmd.disk[x]
      BY <1>1, <1>3 DEF Commands
    <3>2. b # -1
      BY <1>1, CmdIs
    <3> QED BY <3>1, <3>2 DEF NoCmd
  <2>4. Now' = Now
    BY <1>1, <1>3, <2>3 DEF Now
  <2>5. \A x \in Blocks : acked'[x] <= Now' /\ \A e \in Drives : data'[e][x] <= Now' \/ (cmd' # NoCmd /\ x = cmd'.at /\ data'[e][x] = cmd'.ver)
    BY <1>1, <1>2, <2>1, <2>3, <2>4
  <2>6. \A x \in Slots : cmd'.disk[x] = "ok" => data'[bay'[x]][cmd'.at] = cmd'.ver
    <3> SUFFICES ASSUME NEW x \in Slots, cmd'.disk[x] = "ok" PROVE data'[bay[x]][b] = v
      BY <1>1, <2>3
    <3>1. CASE x = s
      BY <1>1, <2>1, <3>1
    <3>2. CASE x # s
      <4>1. cmd.disk[x] = "ok"
        BY <2>3, <3>2
      <4>2. bay[x] # NoDrive /\ data[bay[x]][b] = v
        BY <1>1, <4>1 DEF SkipInv, CmdInv
      <4>3. bay[x] \in Drives
        BY <1>1, <4>2 DEF Typed, Bays
      <4> QED BY <1>1, <2>1, <4>2, <4>3
    <3> QED BY <3>1, <3>2
  <2>7. CmdInv'
    <3>1. Idle' /\ ~ram'.busy
      BY <1>1 DEF Idle, SkipInv, CmdInv
    <3>2. \A x \in Slots : cmd'.disk[x] # "none" => bay'[x] # NoDrive
      BY <1>1, <2>3 DEF SkipInv, CmdInv
    <3>3. ram'.mode = "RAID1" => \A x \in Slots : cmd'.disk[x] # "none"
      BY <1>1, <2>3 DEF SkipInv, CmdInv
    <3>4. ram'.mode # "RAID1" => ~\E g \in Slots : Resumes(flash', g)
      BY <1>1 DEF SkipInv, CmdInv
    <3> QED BY <1>1, <2>3, <2>4, <2>5, <2>6, <3>1, <3>2, <3>3, <3>4 DEF CmdInv
  <2>8. Still(flash) \/ \A x \in Slots : Owner(flash[x]) \in Drives
    <3>1. ASSUME NEW g \in Slots, Resumes(flash, g), NEW x \in Slots PROVE Owner(flash[x]) \in Drives
      <4>1. flash[x] \in Page /\ Owner(flash[x]) # NoDrive
        BY <1>1, <3>1 DEF Resumes, Mates, Owned, Typed, Pages
      <4> QED BY <4>1 DEF Owner, Page
    <3> QED BY <3>1 DEF Still
  <2>9. ram.mirror => ram.bay[ram.src] \in Drives /\ ram.bay[Across(ram.src)] \in Drives
    BY MirrorInBays
  <2> QED BY <1>1, <2>2, <2>7, <2>8, <2>9, DriveSkips
<1>4. CASE cmd' = [cmd EXCEPT !.disk[s] = "err"] /\ UNCHANGED data /\ Happens("fail")
  <2>1. left'["write"] = left["write"]
    BY <1>1, <1>4, StillWrites DEF Events
  <2>2. /\ cmd' # NoCmd /\ cmd'.at = b /\ cmd'.ver = v
        /\ \A x \in Slots : cmd'.disk[x] = IF x = s THEN "err" ELSE cmd.disk[x]
    <3>1. cmd'.at = b /\ cmd'.ver = v /\ \A x \in Slots : cmd'.disk[x] = IF x = s THEN "err" ELSE cmd.disk[x]
      BY <1>1, <1>4 DEF Commands
    <3>2. b # -1
      BY <1>1, CmdIs
    <3> QED BY <3>1, <3>2 DEF NoCmd
  <2>3. Now' = Now
    BY <1>1, <2>1, <2>2 DEF Now
  <2>4. CmdInv'
    <3>1. Idle' /\ ~ram'.busy
      BY <1>1 DEF Idle, SkipInv, CmdInv
    <3>2. \A x \in Slots : cmd'.disk[x] # "none" => bay'[x] # NoDrive
      BY <1>1, <2>2 DEF SkipInv, CmdInv
    <3>3. ram'.mode = "RAID1" => \A x \in Slots : cmd'.disk[x] # "none"
      BY <1>1, <2>2 DEF SkipInv, CmdInv
    <3>4. ram'.mode # "RAID1" => ~\E g \in Slots : Resumes(flash', g)
      BY <1>1 DEF SkipInv, CmdInv
    <3>5. \A x \in Slots : cmd'.disk[x] = "ok" => data'[bay'[x]][cmd'.at] = cmd'.ver
      BY <1>1, <1>4, <2>2 DEF SkipInv, CmdInv
    <3>6. \A x \in Blocks : acked'[x] <= Now' /\ \A e \in Drives : data'[e][x] <= Now' \/ (cmd' # NoCmd /\ x = cmd'.at /\ data'[e][x] = cmd'.ver)
      BY <1>1, <1>2, <1>4, <2>2, <2>3
    <3> QED BY <1>1, <2>2, <2>3, <3>1, <3>2, <3>3, <3>4, <3>5, <3>6 DEF CmdInv
  <2> QED BY <1>1, <1>4, <2>4, QuietSkips
<1> QED BY <1>3, <1>4 DEF DiskWrite

----------------------------------------------------------------------------
(* initiate_rb_IO.                                                         *)

\* A write that ended well on each of its drives is acknowledged.
LEMMA AckSkips ==
  ASSUME RaidInv, PagesInv, SkipInv, WritesPaged, WriteDone, {s \in Slots : cmd.disk[s] = "err"} = {} PROVE SkipInv'
<1> DEFINE b == cmd.at
           v == cmd.ver
           D == {bay[s] : s \in Slots}
<1>1. /\ cmd # NoCmd /\ cmd' = NoCmd /\ Typed /\ UNCHANGED <<bay, flash, other, data, ram, on, left>> /\ Idle
      /\ acked' = [acked EXCEPT ![b] = v]
      /\ v = Now + 1 /\ b \in Blocks /\ Now \in Nat /\ cmd \in Commands
  <2>1. cmd # NoCmd /\ Typed
    BY DEF WriteDone, RaidInv, TypeInv
  <2>2. Idle /\ v = Now + 1
    BY <2>1 DEF SkipInv, CmdInv
  <2> QED BY <2>1, <2>2, CmdIs, NowIs DEF WriteDone
<1>2. /\ \A x \in Blocks : acked[x] \in Nat /\ acked[x] <= Now
      /\ \A e \in Drives, x \in Blocks : data[e][x] \in Nat /\ (data[e][x] <= Now \/ (x = b /\ data[e][x] = v))
  BY <1>1 DEF SkipInv, CmdInv, Typed
<1>3. \A x \in Blocks : acked'[x] = IF x = b THEN v ELSE acked[x]
  BY <1>1 DEF Typed
<1>4. Now' = Now + 1
  BY <1>1, NowIs DEF Now
<1>5. CmdInv'
  <2>1. \A x \in Blocks : acked'[x] <= Now'
    BY <1>1, <1>2, <1>3, <1>4
  <2>2. \A e \in Drives, x \in Blocks : data'[e][x] <= Now'
    BY <1>1, <1>2, <1>4
  <2> QED BY <1>1, <2>1, <2>2 DEF CmdInv
<1>6. CASE ram.mode = "RAID1"
  <2>1. \A s \in Slots : cmd.disk[s] = "ok"
    <3> SUFFICES ASSUME NEW s \in Slots PROVE cmd.disk[s] = "ok"
      OBVIOUS
    <3>1. cmd.disk[s] # "none" /\ cmd.disk[s] # "busy" /\ cmd.disk[s] # "err"
      BY <1>1, <1>6 DEF SkipInv, CmdInv, WriteDone
    <3> QED BY <1>1, <3>1 DEF Commands
  <2>2. \A s \in Slots : bay[s] \in Drives /\ data[bay[s]][b] = v
    <3>1. \A s \in Slots : bay[s] # NoDrive /\ data[bay[s]][b] = v
      BY <1>1, <2>1 DEF SkipInv, CmdInv
    <3> QED BY <1>1, <3>1 DEF Typed, Bays
  <2>3. Carries(Media', Media, D)
    <3>1. ASSUME NEW x \in D, NEW t \in D, NEW z, Sync(Media, x, t, z) PROVE Sync(Media, x, t, z)'
      <4> SUFFICES ASSUME NEW y \in Blocks, y < z, data[x][y] <= acked'[y] PROVE data[t][y] >= data[x][y]
        BY <1>1 DEF Sync, Media
      <4>1. CASE y = b
        BY <1>1, <2>2, <4>1
      <4>2. CASE y # b
        BY <1>3, <3>1, <4>2 DEF Sync, Media
      <4> QED BY <4>1, <4>2
    <3>2. \A x, t \in D : \A z : Sync(Media, x, t, z) => Sync(Media', x, t, z)
      BY <3>1
    <3> QED BY <1>1, <3>2 DEF Carries, Media
  <2>4. \A s \in Slots : Owner(flash[s]) \in D
    BY <1>1, <1>6 DEF WritesPaged
  <2>5. ram.mirror => ram.bay[ram.src] \in D /\ ram.bay[Across(ram.src)] \in D
    BY <1>1, MirrorInBays, IdleOrdered
  <2> QED BY <1>1, <1>5, <2>3, <2>4, <2>5, DriveSkips
<1>7. CASE ram.mode # "RAID1"
  <2>1. Still(flash)
    BY <1>1, <1>7 DEF SkipInv, CmdInv, Still
  <2>2. ~ram.mirror
    BY <1>7 DEF PagesInv, RamPages, MirrorPages, Mirrors
  <2>3. Carries(Media', Media, {})
    BY <1>1 DEF Carries, Media
  <2> QED BY <1>1, <1>5, <2>1, <2>2, <2>3, DriveSkips
<1> QED BY <1>6, <1>7

\* A step of the firmware that changes only what RamGood says of RAM.
LEMMA RamSkips ==
  ASSUME RaidInv, SkipInv, Idle, UNCHANGED <<bay, flash, other, data, acked, cmd>>, cmd = NoCmd, left'["write"] = left["write"],
         ram'.io = << >>, RamGood(ram', Media)
  PROVE SkipInv'
<1>1. Media' = Media
  BY DEF Media
<1>2. Good(Media)
  BY IdleOrdered
<1>3. Safe(Media, << >>) /\ Last(Media, << >>) = Media
  BY <1>2, LeadsNowhere DEF Leads
<1>4. Safe(Media, ram.io)' /\ Last(Media, ram.io)' = Media
  BY <1>1, <1>3
<1>5. CmdInv'
  BY CmdGone DEF RaidInv, TypeInv, SkipInv
<1>6. RamGood(ram, Last(Media, ram.io))'
  BY <1>4
<1>7. PairInv'
  BY PairedNone, PairedKept
<1> QED BY <1>4, <1>5, <1>6, <1>7 DEF SkipInv

\* A block is about to be copied.
LEMMA InitiateSkips == ASSUME RaidInv, SkipInv, initiate_rb_IO PROVE SkipInv'
<1> DEFINE q == [ram EXCEPT !.lba = ram.pos, !.busy = TRUE]
<1>1. /\ Idle /\ ram.mirror /\ cmd = NoCmd /\ ram' = q /\ UNCHANGED <<bay, flash, other, data, acked, cmd, left>>
  BY DEF initiate_rb_IO, RebuildMayStart, media
<1>2. RamGood(ram, Media) /\ ram \in RamType /\ ram.io = << >>
  BY <1>1, IdleOrdered
<1>3. /\ q.rp = ram.rp /\ q.bay = ram.bay /\ q.queue = ram.queue /\ q.num = ram.num /\ q.ms = ram.ms
      /\ q.mirror = ram.mirror /\ q.src = ram.src /\ q.pos = ram.pos /\ q.cp = ram.cp /\ q.io = ram.io
      /\ q.reenum = ram.reenum /\ q.mode = ram.mode /\ q.use = ram.use /\ q.inst = ram.inst /\ q.lba = ram.pos /\ q.busy
  BY <1>2 DEF RamType
<1> HIDE DEF q
<1>4. PagesStored(q, Media) /\ NotServed(q, Media)
  BY <1>2, <1>3 DEF RamGood, PagesStored, NotServed, Ready
<1>5. Copies(q, Media)
  BY <1>2, <1>3 DEF RamGood, Copies
<1>6. OneArray(q)
  <2>1. /\ Fitted(q) <=> Fitted(ram)
        /\ Lonely(q) <=> Lonely(ram)
        /\ Both(q) <=> Both(ram)
        /\ Mirrors(q) <=> Mirrors(ram)
        /\ Whole1(q) <=> Whole1(ram)
    BY <1>3 DEF Fitted, Lonely, Both, Mirrors, Whole1, Ready
  <2>2. OneArray(ram)
    BY <1>2 DEF RamGood
  <2> QED BY <1>3, <2>1, <2>2 DEF OneArray
<1>7. RamGood(q, Media)
  BY <1>4, <1>5, <1>6 DEF RamGood
<1> QED BY <1>1, <1>2, <1>3, <1>7, RamSkips

----------------------------------------------------------------------------
(* A member that fails: its pages.                                         *)

\* A mirror that runs rebuilds no member without its partner.
LEMMA AloneLonely ==
  ASSUME NEW r, r \in RamType, Mirrors(r), MirrorPages(r), OneArray(r)
  PROVE Lonely(r)
<1>1. r.queue \in [Slots -> ArrayStatus] /\ r.use \in Slots /\ 0 \in Slots /\ \A s \in Slots : Across(s) \in Slots
  BY DEF RamType, Slots, Across
<1>2. \A s \in Slots : Belongs(r, s) => Owned(r.rp[s])
  BY DEF Belongs, Owned, Ready
<1>3. CASE r.queue[0] \in {"GOOD", "REBUILDING"}
  BY <1>1, <1>2, <1>3 DEF MirrorPages, Lonely
<1>4. CASE r.queue[0] = "DEGRADED"
  <2>1. Owned(r.rp[r.use]) /\ r.rp[r.use].status[r.use] # "REBUILDING"
    BY <1>1, <1>2, <1>4 DEF MirrorPages, OneArray
  <2>2. \A s \in Slots : s = r.use \/ Across(s) = r.use
    BY <1>1 DEF Slots, Across
  <2> QED BY <2>1, <2>2 DEF Lonely
<1>5. CASE r.queue[0] \in {"DATA_LOST", "BROKEN"}
  BY <1>5 DEF OneArray
<1> QED BY <1>1, <1>3, <1>4, <1>5 DEF Mirrors, ArrayStatus

\* What a page says when the pages are marked with the failure of the drive across.
LEMMA FailedMark ==
  ASSUME NEW r, Rested(r), NEW g \in Slots, NEW p \in Sound, NEW s \in Slots,
         p.status[s] \in {"GOOD", "FAILED"} \/ (r.rp[g].disk_num = g)
  PROVE LET q == Marked(r, p, Pair(g, "FAILED"))
        IN /\ q \in Sound /\ q.gen = p.gen /\ q.mode = p.mode /\ q.disk_num = p.disk_num /\ q.id = p.id
           /\ q.status[s] \in {"GOOD", "FAILED"}
<1> DEFINE pair == Pair(g, "FAILED")
           n == [x \in Slots |-> get_disk_num(r, x, pair[x])]
           q == Marked(r, p, pair)
           st == [[p.status EXCEPT ![n[0]] = pair[0]] EXCEPT ![n[1]] = pair[1]]
<1>1. pair \in [Slots -> SlotStatus] /\ \A x \in Slots : pair[x] \in {"GOOD", "FAILED"}
  <2>1. pair \in [Slots -> SlotStatus]
    BY PairIs, StatusIs
  <2> QED BY <2>1 DEF Pair
<1>2. q \in Sound /\ q.gen = p.gen /\ q.mode = p.mode /\ q.disk_num = p.disk_num /\ q.id = p.id
  BY <1>1, MarkedIs
<1>3. p.status \in [Slots -> SlotStatus] /\ p \in Page
  BY DEF Sound, Page
<1>4. q.status = st
  <2>1. q = [p EXCEPT !.status = [[@ EXCEPT ![n[0]] = pair[0]] EXCEPT ![n[1]] = pair[1]]]
    BY DEF Marked
  <2> HIDE DEF q, pair, n
  <2> QED BY <1>3, <2>1 DEF Page
<1>5. st[s] = IF n[1] = s THEN pair[1] ELSE IF n[0] = s THEN pair[0] ELSE p.status[s]
  <2> HIDE DEF pair, n
  <2> QED BY <1>3
<1>6. pair[0] \in {"GOOD", "FAILED"} /\ pair[1] \in {"GOOD", "FAILED"}
  BY <1>1 DEF Slots
<1>7. ASSUME p.status[s] \in {"GOOD", "FAILED"} PROVE q.status[s] \in {"GOOD", "FAILED"}
  <2> HIDE DEF pair, n, st, q
  <2> QED BY <1>4, <1>5, <1>6, <1>7
<1>8. ASSUME r.rp[g].disk_num = g PROVE q.status[s] \in {"GOOD", "FAILED"}
  <2>1. n[g] = g
    BY <1>8 DEF get_disk_num, Pair
  <2>2. n[Across(g)] = Across(g)
    BY <1>8 DEF get_disk_num, Pair, Slots, Across
  <2>3. n[0] = 0 /\ n[1] = 1
    <3> HIDE DEF n
    <3> QED BY <2>1, <2>2 DEF Slots, Across
  <2>4. s = 0 \/ s = 1
    BY DEF Slots
  <2> HIDE DEF pair, n, st, q
  <2> QED BY <1>4, <1>5, <1>6, <2>3, <2>4
<1>9. q.status[s] \in {"GOOD", "FAILED"}
  BY <1>7, <1>8
<1> QED BY <1>2, <1>9

\* The pages of r but for their statuses.
Remarked(q, r) ==
  /\ q = [r EXCEPT !.rp = q.rp, !.cur = q.cur, !.need = q.need]
  /\ \A s \in Slots : /\ q.rp[s].gen = r.rp[s].gen /\ q.rp[s].mode = r.rp[s].mode
                      /\ q.rp[s].disk_num = r.rp[s].disk_num /\ q.rp[s].id = r.rp[s].id
                      /\ Owner(q.rp[s]) = Owner(r.rp[s])
                      /\ Owned(q.rp[s]) => q.rp[s].status[s] \in {"GOOD", "FAILED"}

\* update_slots_for_failed marks the other member as failed.
LEMMA FailedIs ==
  ASSUME NEW r, Rested(r), NEW g \in Slots, Lonely(r),
         \A s \in Slots : Owned(r.rp[s]) => r.rp[s].disk_num = s /\ r.rp[s].status[s] \in {"GOOD", "REBUILDING", "FAILED"}
  PROVE LET q == update_slots_for_failed(r, g, Across(g))
        IN /\ Rested(q) /\ Remarked(q, r) /\ q.need = Slots /\ q.cur = [r.cur EXCEPT ![Across(g)] = "FAILED"]
<1> DEFINE f == Across(g)
           page == Marked(r, r.rp[g], Pair(g, "FAILED"))
           q0 == [r EXCEPT !.rp = [@ EXCEPT ![g] = page]]
           last == Marked(r, q0.rp[f], Pair(g, "FAILED"))
           q == update_slots_for_failed(r, g, f)
<1>0. /\ f \in Slots /\ f # g /\ Across(f) = g /\ (\A x \in Slots : x = g \/ x = f)
      /\ r \in RamType /\ r.rp[g] \in Sound /\ r.rp[f] \in Sound /\ Pair(g, "FAILED") \in [Slots -> SlotStatus]
  <2>1. Pair(g, "FAILED") \in [Slots -> SlotStatus]
    BY PairIs, StatusIs
  <2>2. r \in RamType /\ r.rp \in [Slots -> Sound]
    BY DEF Rested, RamType
  <2> QED BY <2>1, <2>2 DEF Slots, Across
<1> HIDE DEF f
<1>1. /\ page.gen = r.rp[g].gen /\ page.mode = r.rp[g].mode /\ page.disk_num = r.rp[g].disk_num /\ page.id = r.rp[g].id
      /\ page \in Sound
      /\ Owned(r.rp[g]) => page.status[g] \in {"GOOD", "FAILED"}
  <2>1. page \in Sound /\ page.gen = r.rp[g].gen /\ page.mode = r.rp[g].mode /\ page.disk_num = r.rp[g].disk_num /\ page.id = r.rp[g].id
    BY <1>0, MarkedIs
  <2>2. Owned(r.rp[g]) => page.status[g] \in {"GOOD", "FAILED"}
    BY <1>0, FailedMark
  <2> QED BY <2>1, <2>2
<1>2. [r EXCEPT !.rp[g] = Marked(r, @, Pair(g, "FAILED"))] = q0
  BY DEF Rested, RamType
<1> HIDE DEF page
<1>3. q0.rp[f] = r.rp[f] /\ q0.rp[g] = page /\ q0.cur = r.cur
  BY <1>0 DEF Rested, RamType
<1>4. q = [q0 EXCEPT !.rp = [@ EXCEPT ![f] = last], !.cur = [@ EXCEPT ![f] = "FAILED"], !.need = Slots]
  BY <1>2 DEF update_slots_for_failed, Rested, RamType, f
<1>5. /\ last \in Sound
      /\ last.gen = r.rp[f].gen /\ last.mode = r.rp[f].mode /\ last.disk_num = r.rp[f].disk_num /\ last.id = r.rp[f].id
      /\ Owned(r.rp[f]) => last.status[f] \in {"GOOD", "FAILED"}
  <2>1. /\ last \in Sound
        /\ last.gen = r.rp[f].gen /\ last.mode = r.rp[f].mode /\ last.disk_num = r.rp[f].disk_num /\ last.id = r.rp[f].id
    BY <1>0, <1>3, MarkedIs
  <2>2. ASSUME Owned(r.rp[f]) PROVE last.status[f] \in {"GOOD", "FAILED"}
    <3>1. r.rp[f].status[f] \in {"GOOD", "FAILED"} \/ r.rp[g].disk_num = g
      BY <1>0, <2>2 DEF Lonely
    <3> QED BY <1>0, <1>3, <3>1, FailedMark
  <2> QED BY <2>1, <2>2
<1> HIDE DEF last
<1>6. /\ q.rp[g] = page /\ q.rp[f] = last /\ q.need = Slots /\ q.cur = [r.cur EXCEPT ![f] = "FAILED"]
      /\ q = [r EXCEPT !.rp = q.rp, !.cur = q.cur, !.need = q.need]
  <2>1. r.rp \in [Slots -> Sound] /\ r.cur \in [Slots -> SlotStatus]
    BY <1>0 DEF RamType
  <2>2. q0 \in RamType /\ q0.rp = [r.rp EXCEPT ![g] = page] /\ q0.cur = r.cur
    BY <1>0, <1>1 DEF RamType
  <2>3. q.rp = [q0.rp EXCEPT ![f] = last] /\ q.cur = [r.cur EXCEPT ![f] = "FAILED"] /\ q.need = Slots
    <3> HIDE DEF q0
    <3> QED BY <1>4, <2>2 DEF RamType
  <2>4. q = [r EXCEPT !.rp = q.rp, !.cur = q.cur, !.need = q.need]
    <3> HIDE DEF q
    <3> QED BY <1>0, <1>4, <2>3 DEF RamType
  <2>5. q.rp[g] = page /\ q.rp[f] = last
    <3> HIDE DEF q, q0
    <3> QED BY <1>0, <2>1, <2>2, <2>3
  <2> HIDE DEF q, q0
  <2> QED BY <2>3, <2>4, <2>5
<1>7. Rested(q)
  BY <1>0, FailedRests
<1> HIDE DEF q
<1>8. ASSUME NEW s \in Slots
      PROVE /\ q.rp[s].gen = r.rp[s].gen /\ q.rp[s].mode = r.rp[s].mode
            /\ q.rp[s].disk_num = r.rp[s].disk_num /\ q.rp[s].id = r.rp[s].id
            /\ Owner(q.rp[s]) = Owner(r.rp[s])
            /\ Owned(q.rp[s]) => q.rp[s].status[s] \in {"GOOD", "FAILED"}
  <2>1. CASE s = g
    BY <1>1, <1>6, <2>1 DEF Owner, Owned, Valid
  <2>2. CASE s = f
    BY <1>5, <1>6, <2>2 DEF Owner, Owned, Valid
  <2> QED BY <1>0, <2>1, <2>2
<1>9. Remarked(q, r)
  BY <1>6, <1>8 DEF Remarked
<1> QED BY <1>6, <1>7, <1>9 DEF q, f

----------------------------------------------------------------------------
(* A member that fails: the array after its pages are stored.              *)

\* The pages of a failure, in either order, leave nothing to resume that may
\* not be.
LEMMA FailedPlain ==
  ASSUME NEW r, r \in RamType, NEW n \in MediaType, Good(n), PagesStored(r, n), Fitted(r),
         NEW q, q \in RamType, Remarked(q, r), NEW s \in Slots
  PROVE Plain(n, s, Following(q.rp[s]))
<1> DEFINE t == Across(s)
           p == Following(q.rp[s])
           w == Put(n, s, p)
<1>0. /\ t \in Slots /\ t # s /\ Across(t) = s /\ (\A x \in Slots : x = s \/ x = t)
      /\ q.rp[s] \in Sound /\ q.rp[s] \in Page /\ n.flash[s] \in Page /\ n.flash[t] \in Page
  BY SMTT(30) DEF Slots, Across, RamType, Sound, MediaType, Pages
<1>1. /\ p \in Page /\ p.gen = q.rp[s].gen + 1 /\ p.mode = q.rp[s].mode
      /\ p.disk_num = q.rp[s].disk_num /\ p.status = q.rp[s].status /\ p.id = q.rp[s].id
      /\ Owner(p) = Owner(q.rp[s])
  BY <1>0, FollowingIs
<1> HIDE DEF p
<1>2. SUFFICES ASSUME Owned(p)
      PROVE /\ p.disk_num = s /\ p.status[s] \in {"GOOD", "FAILED"}
            /\ Mates(w.flash) /\ n.flash[t].status[t] = "REBUILDING" => n.flash[t].gen < p.gen
  BY DEF Plain, p
<1>3. q.rp[s].gen = r.rp[s].gen /\ q.rp[s].mode = r.rp[s].mode /\ q.rp[s].disk_num = r.rp[s].disk_num
      /\ q.rp[s].id = r.rp[s].id /\ Owner(q.rp[s]) = Owner(r.rp[s])
      /\ (Owned(q.rp[s]) => q.rp[s].status[s] \in {"GOOD", "FAILED"})
  BY DEF Remarked
<1>4. r.rp[s] = n.flash[s] /\ Owned(n.flash[s])
  <2>1. Owned(r.rp[s])
    BY <1>1, <1>2, <1>3 DEF Owned
  <2>2. Owner(r.rp[s]) = r.bay[s] /\ Ready(r, s)
    BY <2>1 DEF Fitted, Owned, Ready
  <2> QED BY <2>1, <2>2 DEF PagesStored
<1>5. p.disk_num = s /\ p.status[s] \in {"GOOD", "FAILED"}
  <2>1. n.flash[s].disk_num = s
    BY <1>4 DEF Good, Stated
  <2>2. Owned(q.rp[s])
    BY <1>1, <1>2 DEF Owned
  <2> QED BY <1>1, <1>3, <1>4, <2>1, <2>2
<1>6. ASSUME Mates(w.flash), n.flash[t].status[t] = "REBUILDING" PROVE n.flash[t].gen < p.gen
  <2>1. w.flash[s] = p /\ w.flash[t] = n.flash[t]
    BY <1>0, <1>1, PutIs
  <2>2. Mates(n.flash)
    <3>1. Owned(n.flash[t]) /\ n.flash[t].mode = "RAID1" /\ p.mode = "RAID1" /\ p.id = n.flash[t].id
      BY <1>0, <1>6, <2>1 DEF Mates, Slots
    <3>2. n.flash[s].mode = "RAID1" /\ n.flash[s].id = n.flash[t].id
      BY <1>1, <1>3, <1>4, <3>1
    <3> QED BY <1>0, <1>4, <3>1, <3>2 DEF Mates, Slots
  <2>3. n.flash[t].gen <= n.flash[s].gen
    BY <1>6, <2>2 DEF Good, Behind
  <2>4. n.flash[t].gen \in Nat /\ n.flash[s].gen \in Nat
    BY <1>0 DEF Page
  <2> QED BY <1>1, <1>3, <1>4, <2>3, <2>4
<1> QED BY <1>5, <1>6

\* The mirror after the failure of a drive was recorded.
Fell(w, r) ==
  /\ w.bay = r.bay /\ w.mode = r.mode /\ w.ms = r.ms /\ w.reenum = r.reenum /\ ~w.mirror /\ ~w.inst
  /\ \A s \in Slots : /\ w.rp[s].id = r.rp[s].id /\ Owner(w.rp[s]) = Owner(r.rp[s])
                      /\ Owned(w.rp[s]) => w.rp[s].status[s] \in {"GOOD", "FAILED"}

\* A mirror that fell is good.
LEMMA FellGood ==
  ASSUME NEW r, r \in RamType, Mirrors(r), MirrorPages(r), OneArray(r),
         NEW w, w \in RamType, MirrorPages(w), Fell(w, r), NEW k, \A s \in Slots : k.flash[s] = w.rp[s]
  PROVE RamGood(w, k)
<1>0. w.use \in Slots /\ 0 \in Slots /\ 1 \in Slots /\ \A s \in Slots : Across(s) \in Slots
  BY DEF RamType, Slots, Across
<1>1. Both(w) <=> Both(r)
  BY DEF Fell, Both, Ready
<1>2. AutoRebuild => Both(r)
  <2>1. CASE r.queue[0] \in {"GOOD", "REBUILDING"}
    BY <2>1 DEF MirrorPages, Both, Belongs
  <2>2. CASE r.queue[0] \in {"DEGRADED", "DATA_LOST", "BROKEN"}
    BY <2>2 DEF OneArray
  <2>3. r.queue[0] \in ArrayStatus
    BY <1>0 DEF RamType
  <2> QED BY <2>1, <2>2, <2>3 DEF Mirrors, ArrayStatus
<1>3. PagesStored(w, k) /\ NotServed(w, k) /\ Copies(w, k)
  BY DEF PagesStored, NotServed, Copies, Fell, Mirrors
<1>4. Fitted(w)
  BY DEF Fitted, Fell, OneArray, Owned
<1>5. Lonely(w)
  BY DEF Lonely, Fell
<1>6. Both(w) => w.rp[0].id = w.rp[1].id
  BY <1>0, <1>1 DEF OneArray, Fell
<1>7. w.ms \in {"GOOD", "STH_NOT_VALID"} /\ ~w.inst /\ ~w.mirror
  BY DEF OneArray, Fell
<1>8. \A s \in Slots : Belongs(w, s) => Owned(w.rp[s]) /\ w.rp[s].status[s] # "REBUILDING"
  BY DEF Belongs, Ready, Owned, Fell
<1>9. ASSUME Mirrors(w), w.queue[0] = "GOOD" PROVE \A s \in Slots : w.rp[s].status[s] # "REBUILDING"
  BY <1>8, <1>9 DEF MirrorPages
<1>10. ASSUME Mirrors(w), w.queue[0] = "DEGRADED"
       PROVE w.rp[w.use].status[w.use] # "REBUILDING" /\ ~Resumes(w.rp, w.use)
  <2>1. w.rp[w.use].status[w.use] # "REBUILDING"
    BY <1>0, <1>8, <1>10 DEF MirrorPages
  <2>2. ~Resumes(w.rp, w.use)
    <3> SUFFICES ASSUME Resumes(w.rp, w.use) PROVE FALSE
      OBVIOUS
    <3>1. Owned(w.rp[Across(w.use)]) /\ w.rp[Across(w.use)].status[Across(w.use)] = "REBUILDING"
      BY <1>0 DEF Resumes, Mates
    <3> QED BY <1>0, <3>1 DEF Fell
  <2> QED BY <2>1, <2>2
<1>11. OneArray(w)
  BY <1>1, <1>2, <1>4, <1>5, <1>6, <1>7, <1>9, <1>10 DEF OneArray, Whole1
<1> QED BY <1>3, <1>11 DEF RamGood

\* x is r with the rebuild stopped.
Stopped(x, r) ==
  /\ x.rp = r.rp /\ x.bay = r.bay /\ x.map = r.map /\ x.io = r.io /\ x.ms = r.ms /\ x.mode = r.mode
  /\ x.reenum = r.reenum /\ ~x.mirror /\ ~x.inst

\* y is q but for the status of the array.
Rated(y, q) ==
  /\ y.rp = q.rp /\ y.need = q.need /\ y.bay = q.bay /\ y.map = q.map /\ y.io = q.io /\ y.ms = q.ms /\ y.mode = q.mode
  /\ y.reenum = q.reenum /\ y.mirror = q.mirror /\ y.inst = q.inst

\* r runs a mirror, and n is what the drives and the flash will hold.
Runs1(r, n) ==
  /\ r \in RamType /\ Mirrors(r) /\ MirrorPages(r) /\ RamGood(r, n) /\ r.map = [s \in Slots |-> s]

\* The pages of a failure are stored.
LEMMA FailStores ==
  ASSUME NEW r, NEW m, NEW n, Runs1(r, n),
         NEW x, Ordered(x, m, n), Stopped(x, r), NEW g \in Slots,
         NEW y, Rested(y), Rated(y, update_slots_for_failed(x, g, Across(g)))
  PROVE LET w == store_slots(y)
        IN \E k : Ordered(w, m, k) /\ Fell(w, r) /\ But(w, y) /\ \A s \in Slots : k.flash[s] = w.rp[s]
<1> DEFINE q == update_slots_for_failed(x, g, Across(g))
           w == store_slots(y)
<1>0. r \in RamType /\ Mirrors(r) /\ MirrorPages(r) /\ RamGood(r, n) /\ r.map = [s \in Slots |-> s]
  BY DEF Runs1
<1>1. OneArray(r) /\ PagesStored(r, n) /\ Fitted(r) /\ Lonely(r)
  BY <1>0, AloneLonely DEF RamGood, OneArray
<1>2. x \in RamType /\ Rested(x) /\ n \in MediaType /\ Good(n)
  BY OrderedIs
<1>3. Lonely(x) /\ PagesStored(x, n) /\ Fitted(x)
  BY <1>1 DEF Stopped, Lonely, PagesStored, Fitted, Ready
<1>4. \A s \in Slots : Owned(x.rp[s]) => x.rp[s].disk_num = s /\ x.rp[s].status[s] \in {"GOOD", "REBUILDING", "FAILED"}
  <2> SUFFICES ASSUME NEW s \in Slots, Owned(x.rp[s])
               PROVE x.rp[s].disk_num = s /\ x.rp[s].status[s] \in {"GOOD", "REBUILDING", "FAILED"}
    OBVIOUS
  <2>1. Owner(x.rp[s]) = x.bay[s] /\ Ready(x, s)
    BY <1>3 DEF Fitted, Owned, Ready
  <2>2. x.rp[s] = n.flash[s]
    BY <1>3, <2>1 DEF PagesStored
  <2> QED BY <1>2, <2>2 DEF Good, Stated
<1>5. Rested(q) /\ Remarked(q, x) /\ q.need = Slots
  BY <1>2, <1>3, <1>4, FailedIs
<1>6. q \in RamType /\ q.bay = x.bay /\ q.map = x.map /\ q.io = x.io /\ q.ms = x.ms /\ q.mode = x.mode
      /\ q.reenum = x.reenum /\ q.mirror = x.mirror /\ q.inst = x.inst
  <2> HIDE DEF q
  <2>1. q = [x EXCEPT !.rp = q.rp, !.cur = q.cur, !.need = q.need] /\ q \in RamType
    BY <1>5 DEF Remarked, Rested
  <2> QED BY <1>2, <2>1 DEF RamType
<1> HIDE DEF q
<1>7. \A s \in Slots : Plain(n, s, Following(y.rp[s]))
  BY <1>2, <1>3, <1>5, <1>6, FailedPlain DEF Rated, q
<1>8. /\ y.rp = q.rp /\ y.need = Slots /\ y.bay = r.bay /\ y.map = r.map /\ y.io = x.io /\ y.ms = r.ms /\ y.mode = r.mode
      /\ y.reenum = r.reenum /\ ~y.mirror /\ ~y.inst
  BY <1>5, <1>6 DEF Rated, Stopped, q
<1>9. Ordered(y, m, n)
  BY <1>8, OrderedSame DEF Stopped
<1>10. Stores(y)
  BY <1>0, <1>1, <1>8 DEF Stores, OneArray
<1>11. PICK k : /\ Ordered(w, m, k) /\ But(w, y) /\ w.need = {}
                /\ \A s \in Slots : w.rp[s] = IF s \in y.need THEN Following(y.rp[s]) ELSE y.rp[s]
                /\ \A s \in Slots : k.flash[s] = IF s \in y.need THEN w.rp[s] ELSE n.flash[s]
  <2>1. \A s \in y.need : Plain(n, s, Following(y.rp[s]))
    BY <1>7, <1>8
  <2> HIDE DEF w
  <2> QED BY <1>0, <1>8, <1>9, <1>10, <2>1, StoresOrdered DEF w
<1> HIDE DEF w
<1>12. /\ \A s \in Slots : w.rp[s] = Following(q.rp[s]) /\ k.flash[s] = w.rp[s]
       /\ w.bay = y.bay /\ w.ms = y.ms /\ w.mode = y.mode /\ w.reenum = y.reenum /\ ~w.mirror /\ ~w.inst
  <2>1. y \in RamType
    BY DEF Rested
  <2> QED BY <1>8, <1>11, <2>1, ButIs
<1>13. ASSUME NEW s \in Slots
       PROVE w.rp[s].id = r.rp[s].id /\ Owner(w.rp[s]) = Owner(r.rp[s]) /\ (Owned(w.rp[s]) => w.rp[s].status[s] \in {"GOOD", "FAILED"})
  <2>1. q.rp[s] \in Sound
    BY <1>6 DEF RamType
  <2>2. w.rp[s].id = q.rp[s].id /\ Owner(w.rp[s]) = Owner(q.rp[s]) /\ w.rp[s].status = q.rp[s].status
    BY <1>12, <2>1, FollowingIs
  <2>3. q.rp[s].id = x.rp[s].id /\ Owner(q.rp[s]) = Owner(x.rp[s]) /\ (Owned(q.rp[s]) => q.rp[s].status[s] \in {"GOOD", "FAILED"})
    BY <1>5 DEF Remarked
  <2>4. x.rp = r.rp
    BY DEF Stopped
  <2> QED BY <2>2, <2>3, <2>4 DEF Owned
<1>14. Fell(w, r)
  BY <1>8, <1>12, <1>13 DEF Fell
<1> QED BY <1>11, <1>12, <1>14 DEF w

----------------------------------------------------------------------------
(* Rearray: the array judged anew after a failure.                         *)

\* A mirror with a failed member is degraded or broken.
LEMMA FailedStands ==
  ASSUME NEW q, NEW g \in Slots, NEW pair, pair[Across(g)] = "FAILED"
  PROVE LET y == set_raid1_array_status(q, pair)
        IN y = append_array_status(q, "DEGRADED") \/ y = append_array_status(q, "BROKEN")
<1>1. \A s \in Slots : s = g \/ s = Across(g)
  BY DEF Slots, Across
<1>2. 0 \in Slots /\ 1 \in Slots /\ Across(0) = 1 /\ Across(1) = 0
  BY DEF Slots, Across
<1>3. raid1_at_least_one_good(q, g, "FAILED") = append_array_status(q, "DEGRADED")
  BY DEF raid1_at_least_one_good, raid1_degraded
<1>4. CASE g = 0
  BY <1>2, <1>3, <1>4 DEF set_raid1_array_status
<1>5. CASE g = 1
  BY <1>2, <1>3, <1>5 DEF set_raid1_array_status
<1> QED BY <1>4, <1>5 DEF Slots

\* set_raid1_array_status after a failure: no rebuild.
LEMMA FailedRates ==
  ASSUME NEW q, Rested(q), q.num = 0, NEW g \in Slots, q.cur[Across(g)] = "FAILED"
  PROVE LET y == set_raid1_array_status(q, q.cur) IN Rested(y) /\ Rated(y, q)
<1> DEFINE y == set_raid1_array_status(q, q.cur)
<1>1. PICK st : Judged(y, q, st)
  <2>1. y = append_array_status(q, "DEGRADED") \/ y = append_array_status(q, "BROKEN")
    BY FailedStands
  <2>2. q.num < 2
    OBVIOUS
  <2> QED BY <2>1, <2>2, AppendJudges
<1>2. Rested(y)
  BY Raid1Rests
<1> HIDE DEF y
<1>3. q \in RamType /\ q.num \in Slots
  BY DEF Rested, Slots
<1>4. /\ y.rp = q.rp /\ y.need = q.need /\ y.bay = q.bay /\ y.map = q.map /\ y.io = q.io /\ y.ms = q.ms /\ y.mode = q.mode
      /\ y.reenum = q.reenum /\ y.mirror = q.mirror /\ y.inst = q.inst
  BY <1>1, <1>3, JudgedIs
<1>5. Rated(y, q)
  BY <1>4 DEF Rated
<1> QED BY <1>2, <1>5 DEF y

\* The whole of it: judged, stored, read from the good slot.
LEMMA RearrayStores ==
  ASSUME NEW r, NEW m, NEW n, Runs1(r, n),
         NEW x, Ordered(x, m, n), Stopped(x, r), NEW g \in Slots
  PROVE LET q == [update_slots_for_failed(x, g, Across(g)) EXCEPT !.num = 0]
            w == update_raid1_read_use_slot(store_slots(set_raid1_array_status(q, q.cur)))
        IN \E k : Ordered(w, m, k) /\ Fell(w, r) /\ \A s \in Slots : k.flash[s] = w.rp[s]
<1> DEFINE f == update_slots_for_failed(x, g, Across(g))
           q == [f EXCEPT !.num = 0]
           y == set_raid1_array_status(q, q.cur)
           z == store_slots(y)
           w == update_raid1_read_use_slot(z)
<1>1. x \in RamType /\ Rested(x) /\ Across(g) \in Slots
  BY OrderedIs DEF Slots, Across
<1>2. Rested(f)
  BY <1>1, FailedRests
<1>3. f.cur[Across(g)] = "FAILED"
  BY <1>1 DEF update_slots_for_failed, RamType
<1> HIDE DEF f
<1>4. /\ Rested(q) /\ q \in RamType /\ q.num = 0 /\ q.cur[Across(g)] = "FAILED"
      /\ q.rp = f.rp /\ q.need = f.need /\ q.bay = f.bay /\ q.map = f.map /\ q.io = f.io /\ q.ms = f.ms /\ q.mode = f.mode
      /\ q.reenum = f.reenum /\ q.mirror = f.mirror /\ q.inst = f.inst
  <2>1. f \in RamType /\ 0 \in 0..2
    BY <1>2 DEF Rested
  <2>2. q \in RamType
    BY <2>1 DEF RamType
  <2>3. /\ q.num = 0 /\ q.cur = f.cur
        /\ q.rp = f.rp /\ q.need = f.need /\ q.bay = f.bay /\ q.map = f.map /\ q.io = f.io /\ q.ms = f.ms /\ q.mode = f.mode
        /\ q.reenum = f.reenum /\ q.mirror = f.mirror /\ q.inst = f.inst /\ q.busy = f.busy /\ q.retry = f.retry
    BY <2>1 DEF RamType
  <2> HIDE DEF q
  <2> QED BY <1>2, <1>3, <2>2, <2>3 DEF Rested
<1> HIDE DEF q
<1>5. Rested(y) /\ Rated(y, q)
  BY <1>4, FailedRates
<1> HIDE DEF y
<1>7. Rated(y, f)
  BY <1>4, <1>5 DEF Rated
<1>8. PICK k : Ordered(z, m, k) /\ Fell(z, r) /\ \A s \in Slots : k.flash[s] = z.rp[s]
  <2>1. Rated(y, update_slots_for_failed(x, g, Across(g)))
    BY <1>7 DEF f
  <2> QED BY <1>5, <2>1, FailStores
<1> HIDE DEF z
<1>9. Rested(w) /\ w = [z EXCEPT !.use = w.use]
  <2>1. Rested(z)
    BY <1>8, OrderedIs
  <2> QED BY <2>1, UsedIs
<1> HIDE DEF w
<1>10. w.rp = z.rp /\ w.bay = z.bay /\ w.io = z.io /\ w.ms = z.ms /\ w.mode = z.mode /\ w.reenum = z.reenum
       /\ w.mirror = z.mirror /\ w.inst = z.inst
  <2>1. z \in RamType
    BY <1>8, OrderedIs
  <2> QED BY <1>9, <2>1 DEF RamType
<1>11. Ordered(w, m, k)
  BY <1>8, <1>9, <1>10, OrderedSame
<1>12. Fell(w, r)
  BY <1>8, <1>10 DEF Fell
<1> QED BY <1>8, <1>10, <1>11, <1>12 DEF w, z, y, q, f

\* Nothing that the rebuild and the pages rest on differs between x and r.
Calmed(x, r) ==
  /\ x.rp = r.rp /\ x.bay = r.bay /\ x.queue = r.queue /\ x.num = r.num /\ x.ms = r.ms /\ x.mode = r.mode /\ x.use = r.use
  /\ x.src = r.src /\ x.pos = r.pos /\ x.cp = r.cp /\ x.reenum = r.reenum /\ x.map = r.map /\ x.io = r.io
  /\ x.mirror => r.mirror /\ (x.inst <=> r.inst)
  /\ x.busy => x.lba = x.pos
  /\ x.inst => x.busy

\* A rebuild that pauses is good.
LEMMA CalmGood ==
  ASSUME NEW r, NEW n, RamGood(r, n), NEW x, Calmed(x, r) PROVE RamGood(x, n)
<1>1. PagesStored(x, n) /\ NotServed(x, n)
  BY DEF RamGood, Calmed, PagesStored, NotServed, Ready
<1>2. Copies(x, n)
  <2> SUFFICES ASSUME x.mirror /\ ~x.inst PROVE Copies(x, n)
    BY DEF Copies
  <2>1. r.mirror /\ ~r.inst
    BY DEF Calmed
  <2> QED BY <2>1 DEF RamGood, Copies, Calmed
<1>3. OneArray(x)
  <2>1. /\ Fitted(x) <=> Fitted(r)
        /\ Lonely(x) <=> Lonely(r)
        /\ Both(x) <=> Both(r)
        /\ Mirrors(x) <=> Mirrors(r)
        /\ Whole1(r) => Whole1(x)
    BY DEF Calmed, Fitted, Lonely, Both, Mirrors, Whole1, Ready
  <2>2. OneArray(r)
    BY DEF RamGood
  <2> QED BY <2>1, <2>2 DEF OneArray, Calmed
<1> QED BY <1>1, <1>2, <1>3 DEF RamGood

----------------------------------------------------------------------------
(* WriteDone.                                                              *)

\* The writes ordered by r lead from m to n.
Base(r, m, n) == \A y : Rested(y) /\ y.io = r.io /\ y.bay = r.bay => Ordered(y, m, n)

\* w is r, or r with the failure of a drive stored.
Copes(w, r, m, n) ==
  \E k : /\ Ordered(w, m, k)
         /\ \/ Fell(w, r) /\ \A s \in Slots : k.flash[s] = w.rp[s]
            \/ k = n /\ Calmed(w, r)

\* With nothing ordered, the mirror runs on the media.
LEMMA IdleRuns ==
  ASSUME RaidInv, PagesInv, SkipInv, Idle, Mirrors(ram)
  PROVE Runs1(ram, Media) /\ Base(ram, Media, Media) /\ ram \in RamType
<1>1. /\ RamGood(ram, Media) /\ ram.bay = bay /\ ram \in RamType /\ ram.io = << >>
      /\ \A r : Rested(r) /\ r.bay = bay /\ r.io = << >> => Ordered(r, Media, Media)
  BY IdleOrdered
<1>2. MirrorPages(ram) /\ ram.map = [s \in Slots |-> s]
  BY DEF PagesInv, RamPages, AptPages
<1> QED BY <1>1, <1>2 DEF Runs1, Base

\* A mirror that copes with an error keeps SkipInv.
LEMMA CopeSkips ==
  ASSUME RaidInv, PagesInv, RaidInv', PagesInv', SkipInv, Idle, Mirrors(ram), UNCHANGED <<bay, flash, other, data, acked>>, CmdInv',
         Copes(ram', ram, Media, Media)
  PROVE SkipInv'
<1>1. Runs1(ram, Media) /\ ram \in RamType
  BY IdleRuns
<1>2. PICK k : /\ Ordered(ram', Media, k)
               /\ \/ Fell(ram', ram) /\ \A s \in Slots : k.flash[s] = ram'.rp[s]
                  \/ k = Media /\ Calmed(ram', ram)
  BY DEF Copes
<1>3. RamGood(ram', k)
  <2>1. CASE Fell(ram', ram) /\ \A s \in Slots : k.flash[s] = ram'.rp[s]
    <3>1. MirrorPages(ram') /\ ram' \in RamType
      BY DEF PagesInv, RamPages, RaidInv, TypeInv, RamInv
    <3>2. Mirrors(ram) /\ MirrorPages(ram) /\ OneArray(ram)
      BY <1>1 DEF Runs1, RamGood
    <3> QED BY <1>1, <2>1, <3>1, <3>2, FellGood
  <2>2. CASE k = Media /\ Calmed(ram', ram)
    BY <1>1, <2>2, CalmGood DEF Runs1
  <2> QED BY <1>2, <2>1, <2>2
<1> QED BY <1>2, <1>3, OrderedSkips

\* A rebuild that stops orders nothing.
LEMMA StoppedOrdered ==
  ASSUME NEW r, NEW m, NEW n, Base(r, m, n), NEW x, Rested(x), Stopped(x, r)
  PROVE Ordered(x, m, n)
BY DEF Base, Stopped

\* raid1_error_detection copes with the error of a write.
LEMMA WriteFailedCopes ==
  ASSUME NEW r, NEW m, NEW n, Runs1(r, n), Base(r, m, n), Rested(r), NEW bad
  PROVE Copes(WriteFailed(r, bad), r, m, n)
<1> DEFINE fail == IF 0 \in bad THEN 0 ELSE 1
           q == r.queue[0]
           queue == [r.queue EXCEPT ![0] = "DEGRADED"]
           cur == [r.cur EXCEPT ![fail] = "FAILED"]
           r1 == IF q = "GOOD" \/ (q = "REBUILDING" /\ r.cur[fail] = "REBUILDING")
                 THEN [r EXCEPT !.queue[0] = "DEGRADED", !.cur[fail] = "FAILED"] ELSE r
           x == IF q = "REBUILDING" THEN [r1 EXCEPT !.mirror = FALSE] ELSE r1
           r3 == IF x.cur[0] = "FAILED" THEN update_slots_for_failed(x, 1, 0)
                 ELSE update_slots_for_failed(x, 0, 1)
           r4 == [r3 EXCEPT !.num = 0]
           w == update_raid1_read_use_slot(store_slots(set_raid1_array_status(r4, r3.cur)))
<1>0. r \in RamType /\ ~r.busy /\ ~r.inst /\ (r.mirror => q = "REBUILDING")
  <2>1. r \in RamType /\ ~r.busy
    BY DEF Rested
  <2>2. ~r.inst
    BY <2>1 DEF Runs1, RamGood, OneArray
  <2>3. r.mirror => q = "REBUILDING"
    BY <2>2 DEF Runs1, RamGood, Copies
  <2> QED BY <2>1, <2>2, <2>3
<1>1. /\ Rested(r1) /\ r1.rp = r.rp /\ r1.bay = r.bay /\ r1.map = r.map /\ r1.io = r.io /\ r1.ms = r.ms /\ r1.mode = r.mode
      /\ r1.reenum = r.reenum /\ r1.mirror = r.mirror /\ r1.inst = r.inst
  <2>1. queue \in [Slots -> ArrayStatus] /\ cur \in [Slots -> SlotStatus]
    BY <1>0, StatusIs DEF RamType
  <2>2. [r EXCEPT !.queue[0] = "DEGRADED", !.cur[fail] = "FAILED"] = [r EXCEPT !.queue = queue, !.cur = cur]
    BY <1>0 DEF RamType
  <2> HIDE DEF queue, cur
  <2> DEFINE e == [r EXCEPT !.queue = queue, !.cur = cur]
  <2>3. /\ Rested(e) /\ e.rp = r.rp /\ e.bay = r.bay /\ e.map = r.map /\ e.io = r.io /\ e.ms = r.ms /\ e.mode = r.mode
        /\ e.reenum = r.reenum /\ e.mirror = r.mirror /\ e.inst = r.inst
    BY <1>0, <2>1 DEF Rested, RamType
  <2> HIDE DEF e
  <2>4. r1 = e \/ r1 = r
    BY <2>2 DEF e
  <2> HIDE DEF r1
  <2> QED BY <2>3, <2>4
<1> HIDE DEF r1
<1>2. Rested(x) /\ Stopped(x, r)
  <2>1. CASE q = "REBUILDING"
    <3>1. x = [r1 EXCEPT !.mirror = FALSE]
      BY <2>1
    <3> HIDE DEF x
    <3>2. /\ Rested(x) /\ x.rp = r.rp /\ x.bay = r.bay /\ x.map = r.map /\ x.io = r.io /\ x.ms = r.ms /\ x.mode = r.mode
          /\ x.reenum = r.reenum /\ ~x.mirror /\ x.inst = r.inst
      BY <1>1, <3>1 DEF Rested, RamType
    <3> QED BY <1>0, <3>2 DEF Stopped
  <2>2. CASE q # "REBUILDING"
    <3>1. x = r1
      BY <2>2
    <3> HIDE DEF x
    <3> QED BY <1>0, <1>1, <2>2, <3>1 DEF Stopped
  <2> QED BY <2>1, <2>2
<1> HIDE DEF x
<1>3. PICK g \in Slots : r3 = update_slots_for_failed(x, g, Across(g))
  <2>1. 0 \in Slots /\ 1 \in Slots /\ Across(0) = 1 /\ Across(1) = 0
    BY DEF Slots, Across
  <2>2. r3 = update_slots_for_failed(x, 0, Across(0)) \/ r3 = update_slots_for_failed(x, 1, Across(1))
    BY <2>1
  <2> HIDE DEF r3
  <2> QED BY <2>1, <2>2
<1>4. r4.cur = r3.cur
  <2>1. Rested(r3)
    <3>1. Across(g) \in Slots
      BY DEF Slots, Across
    <3> HIDE DEF r3
    <3> QED BY <1>2, <1>3, <3>1, FailedRests
  <2> HIDE DEF r3
  <2> QED BY <2>1 DEF Rested, RamType
<1> HIDE DEF r3
<1>5. Ordered(x, m, n)
  BY <1>2, StoppedOrdered
<1>6. \E k : Ordered(w, m, k) /\ Fell(w, r) /\ \A s \in Slots : k.flash[s] = w.rp[s]
  <2> DEFINE z == [update_slots_for_failed(x, g, Across(g)) EXCEPT !.num = 0]
             v == update_raid1_read_use_slot(store_slots(set_raid1_array_status(z, z.cur)))
  <2>1. \E k : Ordered(v, m, k) /\ Fell(v, r) /\ \A s \in Slots : k.flash[s] = v.rp[s]
    BY <1>2, <1>5, RearrayStores
  <2>2. w = v
    <3>1. r4 = z
      BY <1>3
    <3> QED BY <1>4, <3>1
  <2> HIDE DEF v, w
  <2> QED BY <2>1, <2>2
<1>7. WriteFailed(r, bad) = w
  BY DEF WriteFailed, r4, r3, x, r1
<1> HIDE DEF w
<1> QED BY <1>6, <1>7 DEF Copes

\* The end of a write of the host: it is acknowledged when a drive that counts
\* has it.
LEMMA WriteDoneSkips ==
  ASSUME RaidInv, PagesInv, RaidInv', PagesInv', SkipInv, WritesPaged, WriteDone PROVE SkipInv'
<1> DEFINE bad == {s \in Slots : cmd.disk[s] = "err"}
<1>1. CASE bad = {}
  BY <1>1, AckSkips
<1>2. CASE bad # {}
  <2>1. /\ cmd # NoCmd /\ cmd' = NoCmd /\ UNCHANGED <<bay, flash, other, data, acked, on, left>>
        /\ ram' = raid1_error_detection(ram, bad)
    BY <1>2 DEF WriteDone
  <2> HIDE DEF bad
  <2>2. CmdInv'
    BY <2>1, CmdGone DEF RaidInv, TypeInv, SkipInv
  <2>3. CASE ram.mode # "RAID1"
    <3>1. ram' = ram
      BY <2>1, <2>3 DEF raid1_error_detection
    <3> QED BY <2>1, <2>2, <3>1, QuietSkips
  <2>4. CASE ram.mode = "RAID1"
    <3>1. Idle /\ Mirrors(ram) /\ ~ram.busy
      BY <2>1, <2>4 DEF SkipInv, CmdInv, PagesInv
    <3>2. Rested(ram)
      BY <3>1, RestedIs DEF RaidInv, TypeInv
    <3>3. Copes(WriteFailed(ram, bad), ram, Media, Media)
      BY <3>1, <3>2, IdleRuns, WriteFailedCopes
    <3>4. ram' = WriteFailed(ram, bad)
      BY <2>1, <2>4 DEF raid1_error_detection
    <3> QED BY <2>1, <2>2, <3>1, <3>3, <3>4, CopeSkips
  <2> QED BY <2>3, <2>4
<1> QED BY <1>1, <1>2

----------------------------------------------------------------------------
(* RebuildStops, BlockFailed, and an instant rebuild that fails.           *)

\* A rebuild that pauses copes.
LEMMA CalmedCopes ==
  ASSUME NEW r, NEW m, NEW n, Base(r, m, n), NEW x, Rested(x), Calmed(x, r)
  PROVE Copes(x, r, m, n)
<1>1. Ordered(x, m, n)
  BY DEF Base, Calmed
<1> QED BY <1>1 DEF Copes

\* A rebuild stopped by an error.
LEMMA StopsCopes ==
  ASSUME NEW r, NEW m, NEW n, Runs1(r, n), Base(r, m, n), ~r.inst, NEW x, x \in RamType, ~x.busy, Calmed(x, r)
  PROVE Copes(RebuildStops(x), r, m, n)
<1> DEFINE failed == {s \in Slots : x.cur[s] = "FAILED"}
           f == IF 0 \in failed THEN 0 ELSE 1
           y == [x EXCEPT !.mirror = FALSE]
           q == [update_slots_for_failed(y, Across(f), f) EXCEPT !.num = 0]
           w == update_raid1_read_use_slot(store_slots(set_raid1_array_status(q, q.cur)))
<1>1. /\ Rested(y) /\ y.rp = x.rp /\ y.bay = x.bay /\ y.map = x.map /\ y.io = x.io /\ y.ms = x.ms /\ y.mode = x.mode
      /\ y.reenum = x.reenum /\ ~y.mirror /\ y.inst = x.inst /\ ~y.busy
      /\ y.queue = x.queue /\ y.num = x.num /\ y.use = x.use /\ y.src = x.src /\ y.pos = x.pos /\ y.cp = x.cp /\ y.lba = x.lba
  BY DEF Rested, RamType
<1> HIDE DEF y
<1>2. Stopped(y, r) /\ Calmed(y, r)
  BY <1>1 DEF Stopped, Calmed
<1>3. f \in Slots /\ Across(f) \in Slots /\ Across(Across(f)) = f
  BY DEF Slots, Across
<1> HIDE DEF f
<1>4. Ordered(y, m, n)
  BY <1>1, <1>2, StoppedOrdered
<1>5. \E k : Ordered(w, m, k) /\ Fell(w, r) /\ \A s \in Slots : k.flash[s] = w.rp[s]
  <2> DEFINE g == Across(f)
  <2>1. g \in Slots /\ Across(g) = f
    BY <1>3
  <2> HIDE DEF g
  <2> DEFINE z == [update_slots_for_failed(y, g, Across(g)) EXCEPT !.num = 0]
             v == update_raid1_read_use_slot(store_slots(set_raid1_array_status(z, z.cur)))
  <2>2. \E k : Ordered(v, m, k) /\ Fell(v, r) /\ \A s \in Slots : k.flash[s] = v.rp[s]
    BY <1>2, <1>4, <2>1, RearrayStores
  <2>3. v = w
    BY <2>1 DEF g
  <2> HIDE DEF v, w
  <2> QED BY <2>2, <2>3
<1>6. Copes(w, r, m, n)
  <2> HIDE DEF w
  <2> QED BY <1>5 DEF Copes
<1>7. Copes(y, r, m, n)
  BY <1>1, <1>2, CalmedCopes
<1>8. RebuildStops(x) = w \/ RebuildStops(x) = y \/ (RebuildStops(x) = x /\ x.retry < MaxRetry)
  BY DEF RebuildStops, w, q, f, y
<1> HIDE DEF w
<1>9. ASSUME x.retry < MaxRetry PROVE Copes(x, r, m, n)
  BY <1>9, CalmedCopes DEF Rested
<1> QED BY <1>6, <1>7, <1>8, <1>9

\* A block that was not copied.
LEMMA BlockFailedCopes ==
  ASSUME NEW r, NEW m, NEW n, Runs1(r, n), Base(r, m, n), ~r.inst, NEW x, Rested(x), x.mirror, Calmed(x, r), NEW bothDone
  PROVE Copes(BlockFailed(x, bothDone), r, m, n)
<1> DEFINE again == x.errAt = x.pos
           r1 == IF again THEN [x EXCEPT !.retry = @ + 1] ELSE [x EXCEPT !.errAt = x.pos]
           cur == [r1.cur EXCEPT ![Across(x.src)] = "FAILED"]
           q == [r1 EXCEPT !.cur = cur]
<1>1. /\ r1 \in RamType /\ ~r1.busy
      /\ r1.rp = x.rp /\ r1.bay = x.bay /\ r1.map = x.map /\ r1.io = x.io /\ r1.ms = x.ms /\ r1.mode = x.mode
      /\ r1.reenum = x.reenum /\ r1.mirror = x.mirror /\ r1.inst = x.inst
      /\ r1.queue = x.queue /\ r1.num = x.num /\ r1.use = x.use /\ r1.src = x.src /\ r1.pos = x.pos /\ r1.cp = x.cp
      /\ r1.lba = x.lba
  <2>1. x.retry + 1 \in 0..MaxRetry /\ x.pos \in Int
    BY Constants DEF Rested, RamType
  <2> QED BY <2>1 DEF Rested, RamType
<1> HIDE DEF r1
<1>2. cur \in [Slots -> SlotStatus]
  BY <1>1, StatusIs DEF RamType
<1>3. q = [r1 EXCEPT !.cur[Across(x.src)] = "FAILED"]
  OBVIOUS
<1> HIDE DEF cur
<1>4. /\ q \in RamType /\ ~q.busy
      /\ q.rp = x.rp /\ q.bay = x.bay /\ q.map = x.map /\ q.io = x.io /\ q.ms = x.ms /\ q.mode = x.mode
      /\ q.reenum = x.reenum /\ q.mirror = x.mirror /\ q.inst = x.inst
      /\ q.queue = x.queue /\ q.num = x.num /\ q.use = x.use /\ q.src = x.src /\ q.pos = x.pos /\ q.cp = x.cp
      /\ q.lba = x.lba
  BY <1>1, <1>2 DEF RamType
<1> HIDE DEF q
<1>5. Calmed(r1, r) /\ Calmed(q, r)
  BY <1>1, <1>4 DEF Calmed
<1>6. Copes(RebuildStops(r1), r, m, n) /\ Copes(RebuildStops(q), r, m, n)
  BY <1>1, <1>4, <1>5, StopsCopes
<1>7. BlockFailed(x, bothDone) = RebuildStops(q) \/ BlockFailed(x, bothDone) = RebuildStops(r1)
  BY <1>3 DEF BlockFailed, r1
<1> QED BY <1>6, <1>7

\* An instant rebuild that failed.
LEMMA InstantFailedCopes ==
  ASSUME NEW r, NEW m, NEW n, Runs1(r, n), Base(r, m, n), NEW x, x \in RamType, ~x.busy,
         x.rp = r.rp, x.bay = r.bay, x.map = r.map, x.io = r.io, x.ms = r.ms, x.mode = r.mode, x.reenum = r.reenum
  PROVE Copes(InstantDone(x, FALSE), r, m, n)
<1> DEFINE y == [x EXCEPT !.inst = FALSE, !.mirror = FALSE]
           q(g) == update_slots_for_failed(y, g, Across(g))
<1>1. Rested(y) /\ Stopped(y, r)
  <2>1. /\ Rested(y) /\ y.rp = x.rp /\ y.bay = x.bay /\ y.map = x.map /\ y.io = x.io /\ y.ms = x.ms /\ y.mode = x.mode
        /\ y.reenum = x.reenum /\ ~y.mirror /\ ~y.inst
    BY DEF Rested, RamType
  <2> HIDE DEF y
  <2> QED BY <2>1 DEF Stopped
<1> HIDE DEF y
<1>2. Ordered(y, m, n)
  BY <1>1, StoppedOrdered
<1>3. ASSUME NEW g \in Slots PROVE Copes(store_slots(q(g)), r, m, n)
  <2>1. Across(g) \in Slots
    BY DEF Slots, Across
  <2>2. Rested(q(g)) /\ Rated(q(g), q(g))
    BY <1>1, <2>1, FailedRests DEF Rated
  <2> DEFINE w == store_slots(q(g))
  <2>3. \E k : Ordered(w, m, k) /\ Fell(w, r) /\ But(w, q(g)) /\ \A s \in Slots : k.flash[s] = w.rp[s]
    BY <1>1, <1>2, <2>2, FailStores
  <2> HIDE DEF w, q
  <2>4. \E k : Ordered(w, m, k) /\ Fell(w, r) /\ \A s \in Slots : k.flash[s] = w.rp[s]
    BY <2>3
  <2>5. Copes(w, r, m, n)
    BY <2>4 DEF Copes
  <2> QED BY <2>5 DEF w
<1>4. 0 \in Slots /\ 1 \in Slots /\ Across(0) = 1 /\ Across(1) = 0
  BY DEF Slots, Across
<1>5. InstantDone(x, FALSE) = store_slots(q(0)) \/ InstantDone(x, FALSE) = store_slots(q(1))
  BY <1>4 DEF InstantDone, y
<1> HIDE DEF q
<1> QED BY <1>3, <1>4, <1>5

----------------------------------------------------------------------------
(* ReadFails.                                                              *)

\* A block is not copied, by an error or in time.
LEMMA CopyFailsSkips ==
  ASSUME RaidInv, PagesInv, RaidInv', PagesInv', SkipInv, chk_rb_done,
         LET r == [ram EXCEPT !.busy = FALSE] IN CopyFails(r) \/ CopyTimesOut(r)
  PROVE SkipInv'
<1> DEFINE r == [ram EXCEPT !.busy = FALSE]
<1>1. /\ Idle /\ ram.busy /\ UNCHANGED <<bay, flash, other, acked, cmd, on>> /\ ram \in RamType /\ ram.mirror
      /\ (~ram.inst => ram.retry < MaxRetry) /\ cmd = NoCmd /\ Typed
  <2>1. Idle /\ ram.busy /\ UNCHANGED <<bay, flash, other, acked, cmd, on>>
    BY DEF chk_rb_done
  <2> QED BY <2>1 DEF RaidInv, TypeInv, RamInv
<1>2. Mirrors(ram)
  BY <1>1 DEF PagesInv, RamPages, MirrorPages
<1>3. Runs1(ram, Media) /\ Base(ram, Media, Media)
  BY <1>1, <1>2, IdleRuns
<1>4. /\ r \in RamType /\ ~r.busy /\ r.mirror /\ r.inst = ram.inst
      /\ r.rp = ram.rp /\ r.bay = ram.bay /\ r.map = ram.map /\ r.io = ram.io /\ r.ms = ram.ms /\ r.mode = ram.mode
      /\ r.reenum = ram.reenum /\ r.queue = ram.queue /\ r.num = ram.num /\ r.use = ram.use /\ r.src = ram.src
      /\ r.pos = ram.pos /\ r.cp = ram.cp /\ (~ram.inst => Rested(r))
  BY <1>1 DEF RamType, Rested
<1> HIDE DEF r
<1>5. UNCHANGED data /\ left'["write"] = left["write"]
  <2>1. UNCHANGED data /\ (Happens("fail") \/ Happens("timeout") \/ UNCHANGED left)
    BY DEF CopyFails, CopyTimesOut, r
  <2>2. "fail" \in Events /\ "timeout" \in Events /\ "fail" # "write" /\ "timeout" # "write"
    BY DEF Events
  <2> QED BY <1>1, <2>1, <2>2, StillWrites
<1>6. CmdInv'
  BY <1>1, <1>5, CmdGone DEF SkipInv
<1>7. Copes(ram', ram, Media, Media)
  <2>1. CASE ram.inst
    <3>1. ram' = InstantDone(r, FALSE)
      BY <1>4, <2>1 DEF CopyFails, CopyTimesOut, r
    <3> QED BY <1>3, <1>4, <3>1, InstantFailedCopes
  <2>2. CASE ~ram.inst
    <3>1. Rested(r)
      BY <1>4, <2>2
    <3>4. Calmed(r, ram)
      BY <1>1, <1>4, <2>2 DEF Calmed
    <3>2. ram' = r \/ \E bothDone \in BOOLEAN : ram' = BlockFailed(r, bothDone)
      BY <1>4, <2>2 DEF CopyFails, CopyTimesOut, r
    <3> QED BY <1>3, <1>4, <2>2, <3>1, <3>4, <3>2, CalmedCopes, BlockFailedCopes
  <2> QED BY <2>1, <2>2
<1> QED BY <1>1, <1>2, <1>5, <1>6, <1>7, CopeSkips

\* With automatic rebuild the mirror that runs has pages of both drives.
LEMMA AutoBoth ==
  ASSUME NEW r, r \in RamType, Mirrors(r), MirrorPages(r), OneArray(r), AutoRebuild PROVE Both(r)
<1>1. CASE r.queue[0] \in {"GOOD", "REBUILDING"}
  BY <1>1 DEF MirrorPages, Both, Belongs
<1>2. CASE r.queue[0] \in {"DEGRADED", "DATA_LOST", "BROKEN"}
  BY <1>2 DEF OneArray
<1>3. r.queue[0] \in ArrayStatus
  BY DEF RamType, Slots
<1> QED BY <1>1, <1>2, <1>3 DEF Mirrors, ArrayStatus

\* An error of a read.
LEMMA ReadFailsSkips ==
  ASSUME RaidInv, PagesInv, SkipInv, NEW s \in Slots, NEW b \in Blocks, ReadFails(s, b) PROVE SkipInv'
<1> DEFINE cur == [ram.cur EXCEPT ![s] = "FAILED"]
           failed == [ram EXCEPT !.cur = cur]
           degraded == [ram.queue EXCEPT ![0] = "DEGRADED"]
           lost == [ram.queue EXCEPT ![0] = IF @ = "GOOD" THEN "DEGRADED" ELSE "DATA_LOST"]
           copies == [failed EXCEPT !.queue = degraded, !.instCnt = @ + 1, !.mirror = TRUE,
                                    !.src = Across(s), !.inst = TRUE, !.lba = b, !.busy = TRUE]
           gives == [failed EXCEPT !.queue = lost, !.src = Across(s)]
           last == update_raid1_read_use_slot(gives)
           q == ram.queue[0]
<1>1. /\ Idle /\ Mirrors(ram) /\ cmd = NoCmd /\ ~ram.busy /\ q # "REBUILDING" /\ ram.mode = "RAID1"
      /\ UNCHANGED <<bay, flash, other, data, acked, cmd, on>> /\ Happens("fail")
      /\ ram \in RamType /\ Typed
  <2>1. ram \in RamType /\ Typed
    BY DEF RaidInv, TypeInv, RamInv
  <2> QED BY <2>1 DEF ReadFails, Serving, Idle, Mirrors, media
<1>2. left'["write"] = left["write"]
  <2>1. "fail" \in Events /\ "fail" # "write"
    BY DEF Events
  <2> QED BY <1>1, <2>1, StillWrites
<1>3. /\ RamGood(ram, Media) /\ ram.io = << >> /\ MirrorPages(ram) /\ OneArray(ram)
  <2>1. MirrorPages(ram)
    BY DEF PagesInv, RamPages
  <2> QED BY <1>1, <2>1, IdleOrdered DEF RamGood
<1>4. ~ram.mirror /\ ~ram.inst /\ Lonely(ram) /\ (AutoRebuild => Both(ram))
  <2>1. ~ram.inst
    BY <1>1, <1>3 DEF OneArray
  <2>2. ~ram.mirror
    BY <1>1, <1>3, <2>1 DEF RamGood, Copies
  <2> QED BY <1>1, <1>3, <2>1, <2>2, AloneLonely, AutoBoth
<1>5. (ram' = copies /\ q = "GOOD") \/ ram' = last
  BY <1>1 DEF ReadFails, RamType
<1>6. degraded \in [Slots -> ArrayStatus] /\ lost \in [Slots -> ArrayStatus] /\ cur \in [Slots -> SlotStatus] /\ Across(s) \in Slots
      /\ degraded[0] = "DEGRADED" /\ lost[0] = IF q = "GOOD" THEN "DEGRADED" ELSE "DATA_LOST"
  BY <1>1, StatusIs DEF RamType, Slots, Across
<1> HIDE DEF degraded, lost, cur
<1>7. /\ copies.rp = ram.rp /\ copies.bay = ram.bay /\ copies.io = ram.io /\ copies.ms = ram.ms /\ copies.mode = ram.mode
      /\ copies.reenum = ram.reenum /\ copies.queue[0] = "DEGRADED" /\ copies.use = ram.use /\ copies.inst /\ copies.busy
      /\ copies.use \in Slots
  BY <1>1, <1>6 DEF RamType
<1>8. /\ last.rp = ram.rp /\ last.bay = ram.bay /\ last.io = ram.io /\ last.ms = ram.ms /\ last.mode = ram.mode
      /\ last.reenum = ram.reenum /\ last.queue[0] = (IF q = "GOOD" THEN "DEGRADED" ELSE "DATA_LOST") /\ ~last.inst /\ ~last.mirror
      /\ last.use \in Slots
  <2>1. gives \in RamType /\ Rested(gives)
    <3>1. gives \in RamType
      BY <1>1, <1>6 DEF RamType
    <3> QED BY <1>1, <1>4, <1>6, <3>1 DEF Rested, RamType
  <2>2. /\ gives.rp = ram.rp /\ gives.bay = ram.bay /\ gives.io = ram.io /\ gives.ms = ram.ms /\ gives.mode = ram.mode
        /\ gives.reenum = ram.reenum /\ gives.queue = lost /\ gives.inst = ram.inst /\ gives.mirror = ram.mirror
    BY <1>1, <1>6 DEF RamType
  <2> HIDE DEF gives
  <2>3. Rested(last) /\ last = [gives EXCEPT !.use = last.use]
    BY <2>1, UsedIs
  <2> HIDE DEF last
  <2>4. /\ last.rp = gives.rp /\ last.bay = gives.bay /\ last.io = gives.io /\ last.ms = gives.ms /\ last.mode = gives.mode
        /\ last.reenum = gives.reenum /\ last.queue = gives.queue /\ last.inst = gives.inst /\ last.mirror = gives.mirror
        /\ last.use \in Slots
    BY <2>1, <2>3 DEF RamType, Rested
  <2> QED BY <1>4, <1>6, <2>2, <2>4
<1> HIDE DEF copies, last
<1> DEFINE w == ram'
<1>9. /\ w.rp = ram.rp /\ w.bay = ram.bay /\ w.io = ram.io /\ w.ms = ram.ms /\ w.mode = ram.mode /\ w.reenum = ram.reenum
      /\ w.queue[0] = (IF q = "GOOD" THEN "DEGRADED" ELSE "DATA_LOST") /\ (w.inst => w.busy) /\ (w.mirror => w.inst)
      /\ (w.inst => q = "GOOD") /\ w.use \in Slots
  BY <1>5, <1>7, <1>8
<1> HIDE DEF w
<1>10. PagesStored(w, Media) /\ NotServed(w, Media) /\ Copies(w, Media)
  BY <1>1, <1>3, <1>9 DEF RamGood, PagesStored, NotServed, Copies, Ready
<1>11. OneArray(w)
  <2>1. /\ Fitted(w) <=> Fitted(ram)
        /\ Lonely(w) <=> Lonely(ram)
        /\ Both(w) <=> Both(ram)
    BY <1>9 DEF Fitted, Lonely, Both, Ready
  <2>2. /\ Fitted(ram) /\ ram.ms \in {"GOOD", "STH_NOT_VALID"}
        /\ (Both(ram) => ram.rp[0].id = ram.rp[1].id)
        /\ q = "GOOD" => \A x \in Slots : ram.rp[x].status[x] # "REBUILDING"
    BY <1>1, <1>3 DEF OneArray, Whole1
  <2>3. q = "GOOD" => ~Resumes(w.rp, w.use)
    <3>1. Across(w.use) \in Slots
      BY <1>9 DEF Slots, Across
    <3> QED BY <1>9, <2>2, <3>1 DEF Resumes
  <2>4. Whole1(w)
    BY <1>9, <2>2 DEF Whole1
  <2> QED BY <1>4, <1>9, <2>1, <2>2, <2>3, <2>4 DEF OneArray
<1>12. RamGood(w, Media)
  BY <1>10, <1>11 DEF RamGood
<1> QED BY <1>1, <1>2, <1>3, <1>9, <1>12, RamSkips DEF w

----------------------------------------------------------------------------
(* The rebuild that the host asks for: what it finds.                      *)

\* What a rebuild that the host asks for finds: the page of the slot that is read is in the flash, and no rebuild can be
\* resumed that the new check point could harm.
LEMMA AskedFinds ==
  ASSUME NEW r, NEW n, n \in MediaType, Good(n), Runs1(r, n), r.queue[0] = "DEGRADED", r.mode = "RAID1", Whole(r), ~r.busy,
         FixedBays, Fit(r.bay), \A i \in Slots : Apt(n.flash[i], i) /\ Apt(r.rp[i], i)
  PROVE LET g == r.use
            t == Across(g)
        IN /\ g \in Slots /\ r.rp[g] = n.flash[g] /\ r.rp[g].disk_num = g /\ Owner(r.rp[g]) = r.bay[g] /\ r.rp[g].mode = "RAID1"
           /\ r.ms \in {"GOOD", "STH_NOT_VALID"} /\ ~r.inst
           /\ n.flash[t].status[t] = "REBUILDING" /\ Owner(n.flash[t]) = r.bay[t] => n.flash[t].gen <= r.rp[g].gen
           /\ \A s \in Slots : Allows(n, r.bay[s], Step)
<1> DEFINE g == r.use
           t == Across(g)
<1>1. /\ g \in Slots /\ t \in Slots /\ t # g /\ Across(t) = g /\ (\A x \in Slots : x = g \/ x = t)
      /\ r \in RamType /\ Mirrors(r) /\ MirrorPages(r) /\ OneArray(r) /\ PagesStored(r, n)
      /\ Across(0) = 1 /\ Across(1) = 0 /\ 0 \in Slots /\ 1 \in Slots
  BY DEF Runs1, RamGood, RamType, Slots, Across
<1>2. /\ Ready(r, g) /\ Owner(r.rp[g]) = r.bay[g] /\ r.rp[g].mode = "RAID1" /\ Owned(r.rp[g])
  <2>1. Belongs(r, g)
    BY <1>1 DEF MirrorPages
  <2> QED BY <2>1 DEF Belongs, Ready, Owned
<1>3. r.rp[g] = n.flash[g]
  BY <1>1, <1>2 DEF PagesStored
<1>4. r.rp[g].disk_num = g /\ r.rp[g].status[g] # "REBUILDING"
  BY <1>1, <1>2, <1>3 DEF Good, Stated, OneArray
<1>5. /\ r.ms \in {"GOOD", "STH_NOT_VALID"} /\ ~r.inst /\ (Both(r) => r.rp[0].id = r.rp[1].id /\ ~Resumes(r.rp, g))
  BY <1>1 DEF OneArray
<1>6. ASSUME Owner(n.flash[t]) = r.bay[t] \/ Owner(r.rp[t]) = r.bay[t]
      PROVE Both(r) /\ r.rp[t] = n.flash[t] /\ Owned(n.flash[t])
  <2>1. Ready(r, t)
    BY <1>1 DEF Whole
  <2>2. r.rp[t] = n.flash[t]
    BY <1>1, <1>6, <2>1 DEF PagesStored
  <2> QED BY <1>1, <1>2, <1>6, <2>1, <2>2 DEF Both, Owned, Ready
<1>7. ASSUME n.flash[t].status[t] = "REBUILDING", Owner(n.flash[t]) = r.bay[t] PROVE n.flash[t].gen <= r.rp[g].gen
  <2>1. Both(r) /\ r.rp[t] = n.flash[t] /\ Owned(n.flash[t])
    BY <1>6, <1>7
  <2>2. r.rp[t].mode = "RAID1"
    BY <1>1, <2>1 DEF MirrorPages, Apt
  <2>3. Mates(n.flash)
    BY <1>1, <1>2, <1>3, <1>5, <2>1, <2>2 DEF Mates
  <2> QED BY <1>1, <1>3, <1>7, <2>3 DEF Good, Behind
<1>8. ASSUME NEW s \in Slots PROVE Allows(n, r.bay[s], Step)
  <2>1. SUFFICES ASSUME NEW h \in Slots, Resumes(n.flash, h) PROVE Allowed(n, h, r.bay[s], Step)
    BY DEF Allows
  <2> DEFINE source == Owner(n.flash[h])
             target == Owner(n.flash[Across(h)])
  <2>2. Sync(n, source, target, Step - Step)
    <3>1. Step - Step = 0
      BY Constants
    <3> QED BY <3>1, SyncNone
  <2>3. ASSUME h = 1
        PROVE /\ r.bay[s] # target
              /\ Sync(n, source, target, Size) \/ \A c1 \in 1..2 : n.other[target][c1] # Bad => Step <= n.other[target][c1]
    <3>1. Sync(n, source, target, Size) \/ Covers(n, source, target)
      BY <1>1, <2>1, <2>3 DEF Good, Resumable
    <3>2. Sync(n, source, target, Size) \/ \A c1 \in 1..2 : n.other[target][c1] # Bad => Step <= n.other[target][c1]
      <4> HIDE DEF source, target
      <4> QED BY <3>1 DEF Covers
    <3>3. ASSUME r.bay[s] = target PROVE FALSE
      <4>1. /\ target = Owner(n.flash[0]) /\ Owned(n.flash[0]) /\ n.flash[0].status[0] = "REBUILDING"
            /\ r.bay[s] # NoDrive
        BY <1>1, <2>1, <2>3, <3>3 DEF Resumes, Mates, Owned
      <4>2. 0 \in Fits[target] /\ s \in Fits[target] /\ target \in Drives
        <5>1. 0 \in Fits[target] /\ s \in Fits[target]
          BY <1>1, <3>3, <4>1 DEF Apt, Fit
        <5>2. r.bay \in Bays
          BY <1>1 DEF RamType
        <5> QED BY <3>3, <4>1, <5>1, <5>2 DEF Bays
      <4>3. s = 0
        BY <4>2 DEF FixedBays
      <4>4. g = 1
        BY <1>1, <1>3, <1>4, <4>1
      <4>5. Both(r) /\ r.rp[t] = n.flash[t]
        BY <1>1, <1>6, <3>3, <4>1, <4>3, <4>4
      <4>6. Resumes(r.rp, g)
        BY <1>1, <1>3, <2>1, <2>3, <4>4, <4>5 DEF Resumes, Mates
      <4> QED BY <1>5, <4>5, <4>6
    <3> QED BY <3>2, <3>3
  <2> HIDE DEF source, target
  <2> QED BY <2>2, <2>3 DEF Allowed, source, target
<1> QED BY <1>1, <1>2, <1>3, <1>4, <1>5, <1>7, <1>8

----------------------------------------------------------------------------
(* RebuildCommand.                                                         *)

\* RebuildCommand on r, up to the slot that is read.
AskedRebuild(r, g) ==
  LET begun == [StartRebuild(r, g, 0) EXCEPT !.queue[0] = "REBUILDING", !.cur = Pair(g, "REBUILDING")]
  IN  store_slots(SetCheckPoint(update_slots_for_rebuilding(begun, g), Step))

\* The pages and the check points of a rebuild that the host asked for.
LEMMA AskedStarts ==
  ASSUME NEW r, NEW m, NEW n, Runs1(r, n), Base(r, m, n), Rested(r), Whole(r), r.bay \in Bays,
         NEW g \in Slots, r.rp[g].disk_num = g, Owner(r.rp[g]) = r.bay[g], r.rp[g].mode = "RAID1",
         r.ms \in {"GOOD", "STH_NOT_VALID"},
         LET t == Across(g)
         IN n.flash[t].status[t] = "REBUILDING" /\ Owner(n.flash[t]) = r.bay[t] => n.flash[t].gen <= r.rp[g].gen,
         \A s \in Slots : Allows(n, r.bay[s], Step)
  PROVE LET w == AskedRebuild(r, g)
        IN \E k : /\ Ordered(w, m, k) /\ (\A s \in Slots : k.flash[s] = w.rp[s])
                  /\ \A s \in Slots, c \in 1..2 : k.other[w.bay[s]][c] = Step
                  /\ w.mirror /\ w.src = g /\ w.pos = 0 /\ w.queue[0] = "REBUILDING" /\ w.cp[0] = Step /\ w.cp[1] = Step
                  /\ w.inst = r.inst /\ w.ms = r.ms /\ w.mode = r.mode /\ w.reenum = r.reenum
                  /\ w.rp[g].status[g] = "GOOD" /\ w.rp[0].id = w.rp[1].id
                  /\ \A s \in Slots : Owner(w.rp[s]) = w.bay[s]
<1> DEFINE t == Across(g)
           c == StartRebuild(r, g, 0)
           begun == [c EXCEPT !.queue[0] = "REBUILDING", !.cur = Pair(g, "REBUILDING")]
           b == update_slots_for_rebuilding(begun, g)
           q == SetCheckPoint(b, Step)
           w == store_slots(q)
<1>1. /\ t \in Slots /\ t # g /\ Across(t) = g /\ (\A x \in Slots : x = g \/ x = t)
      /\ r \in RamType
  BY DEF Slots, Across, Runs1
<1>2. Rested(c)
  BY StartRests, Constants
<1>3. /\ c.mirror /\ c.src = g /\ c.pos = 0 /\ ~c.busy /\ c.rp = r.rp /\ c.bay = r.bay /\ c.io = r.io /\ c.map = r.map
      /\ c.reenum = r.reenum /\ c.ms = r.ms /\ c.mode = r.mode /\ c.inst = r.inst
  BY <1>1 DEF StartRebuild, RamType
<1> HIDE DEF c
<1>4. begun \in RamType
  <2>1. Pair(g, "REBUILDING") \in [Slots -> SlotStatus]
    BY PairIs, StatusIs
  <2> HIDE DEF begun
  <2>2. c.queue \in [Slots -> ArrayStatus] /\ "REBUILDING" \in ArrayStatus /\ c \in RamType
    BY <1>2 DEF RamType, Rested, ArrayStatus
  <2>3. [c.queue EXCEPT ![0] = "REBUILDING"] \in [Slots -> ArrayStatus]
    BY <2>2
  <2> QED BY <2>1, <2>2, <2>3 DEF begun, RamType
<1>5. /\ Rested(begun) /\ begun.rp = r.rp /\ begun.bay = r.bay /\ begun.io = r.io /\ begun.map = r.map
      /\ begun.mirror /\ begun.src = g /\ begun.pos = 0 /\ begun.reenum = r.reenum /\ begun.ms = r.ms
      /\ begun.mode = r.mode /\ begun.inst = r.inst /\ begun.queue[0] = "REBUILDING" /\ begun.cur = Pair(g, "REBUILDING")
  <2>1. c \in RamType /\ c.queue \in [Slots -> ArrayStatus] /\ ~c.busy /\ c.retry < MaxRetry
    BY <1>2, <1>3 DEF Rested, RamType
  <2>2. /\ begun.rp = c.rp /\ begun.bay = c.bay /\ begun.io = c.io /\ begun.map = c.map /\ begun.busy = c.busy
        /\ begun.mirror = c.mirror /\ begun.src = c.src /\ begun.pos = c.pos /\ begun.reenum = c.reenum /\ begun.ms = c.ms
        /\ begun.mode = c.mode /\ begun.inst = c.inst /\ begun.retry = c.retry /\ begun.cur = Pair(g, "REBUILDING")
    BY <2>1 DEF RamType
  <2>3. begun.queue[0] = "REBUILDING"
    BY <2>1 DEF RamType, Slots
  <2> HIDE DEF begun
  <2>4. Rested(begun)
    BY <1>4, <2>1, <2>2 DEF Rested
  <2> QED BY <1>3, <2>2, <2>3, <2>4
<1> HIDE DEF begun
<1>6. /\ Rested(b) /\ Begins(b, g) /\ b.rp[g].gen = r.rp[g].gen /\ b.need = Slots
      /\ b.cur = [begun.cur EXCEPT ![t] = "REBUILDING"]
      /\ b = [begun EXCEPT !.rp = b.rp, !.cur = b.cur, !.need = b.need]
  <2>1. Whole(begun)
    BY <1>5 DEF Whole, Ready
  <2>2. begun.rp[g].disk_num = g
    BY <1>5
  <2>3. LET y == update_slots_for_rebuilding(begun, g)
        IN /\ Rested(y) /\ Begins(y, g) /\ y.rp[g].gen = begun.rp[g].gen /\ y.rp[g].mode = begun.rp[g].mode
           /\ y.need = Slots /\ y.cur = [begun.cur EXCEPT ![Across(g)] = "REBUILDING"]
           /\ y = [begun EXCEPT !.rp = y.rp, !.cur = y.cur, !.need = y.need]
    <3>1. Rested(begun)
      BY <1>5
    <3> QED BY <3>1, <2>1, <2>2, RebuildingIs
  <2> QED BY <1>5, <2>3
<1> HIDE DEF b
<1>7. /\ b.mirror /\ b.src = g /\ b.pos = 0 /\ b.queue[0] = "REBUILDING" /\ b.bay = r.bay /\ b.io = r.io /\ b.map = r.map
      /\ b.reenum = r.reenum /\ b.ms = r.ms /\ b.mode = r.mode /\ b.inst = r.inst /\ ~b.busy
      /\ b.cur[g] = "GOOD" /\ b.cur[t] = "REBUILDING"
  <2>1. begun \in RamType /\ begun.cur \in [Slots -> SlotStatus] /\ ~b.busy
    BY <1>5, <1>6 DEF RamType, Rested
  <2>2. begun.cur[g] = "GOOD"
    BY <1>5 DEF Pair
  <2>3. b.cur[g] = "GOOD" /\ b.cur[t] = "REBUILDING"
    BY <1>1, <1>6, <2>1, <2>2
  <2>4. /\ b.mirror = begun.mirror /\ b.src = begun.src /\ b.pos = begun.pos /\ b.queue = begun.queue
        /\ b.bay = begun.bay /\ b.io = begun.io /\ b.map = begun.map /\ b.mode = begun.mode /\ b.ms = begun.ms
        /\ b.reenum = begun.reenum /\ b.inst = begun.inst
    BY <1>6, <2>1, ZenonT(60) DEF RamType
  <2> QED BY <1>5, <2>1, <2>3, <2>4
<1>8. Ordered(b, m, n)
  BY <1>6, <1>7 DEF Base
<1>9. PICK n1 : /\ Ordered(q, m, n1) /\ OtherThan(n1, n)
                /\ \A x \in Drives, y \in 1..2 :
                     n1.other[x][y] = IF \E s \in Slots : Ready(b, s) /\ x = b.bay[s] THEN Step ELSE n.other[x][y]
  <2>1. \A s \in Slots : Allows(n, b.bay[s], Step)
    BY <1>7
  <2> QED BY <1>8, <2>1, SetOrdered, Constants
<1>10. /\ q.mirror /\ q.src = g /\ q.pos = 0 /\ q.rp = b.rp /\ q.need = b.need /\ q.queue = b.queue
       /\ q.bay = b.bay /\ q.map = b.map /\ q.reenum = b.reenum /\ q.cur = b.cur /\ q.ms = b.ms /\ q.mode = b.mode
       /\ q.inst = b.inst /\ q.cp = [s \in Slots |-> Step]
  BY <1>6, <1>7, SMTT(30) DEF SetCheckPoint, WriteOthers, WriteOther, Ready, Rested, RamType
<1> HIDE DEF q
<1>11. \A s \in Slots, y \in 1..2 : n1.other[q.bay[s]][y] = Step
  <2>1. r.bay \in Bays /\ \A s \in Slots : r.bay[s] # NoDrive
    BY DEF Whole, Ready
  <2> QED BY <1>7, <1>9, <1>10, <2>1 DEF Ready, Bays
<1>12. PICK k : /\ Ordered(w, m, k) /\ But(w, q) /\ w.need = {}
                /\ \A s \in Slots : w.rp[s] = Following(q.rp[s]) /\ k.flash[s] = w.rp[s]
                /\ k.data = n1.data /\ k.acked = n1.acked /\ k.other = n1.other
  <2>1. Begins(q, g) /\ q.need = Slots /\ q.rp[g].gen = r.rp[g].gen
    BY <1>6, <1>7, <1>10 DEF Begins
  <2>2. q.map = [x \in Slots |-> x]
    BY <1>7, <1>10 DEF Runs1
  <2>3. Stores(q) /\ Leader(q) = g
    BY <1>1, <1>7, <1>10 DEF Stores, Leader, Slots, Across
  <2>4. n1.flash[t].status[t] = "REBUILDING" /\ Owner(n1.flash[t]) = q.bay[t] => n1.flash[t].gen <= q.rp[g].gen
    BY <1>7, <1>9, <1>10, <2>1 DEF OtherThan
  <2>5. n1.flash[t].status[t] = "REBUILDING" /\ Owner(n1.flash[t]) = q.bay[t] /\ n1.flash[t].id = q.bay
            => n1.flash[t].gen <= q.rp[g].gen
    BY <2>4
  <2> HIDE DEF w
  <2>6. \E k : /\ Ordered(store_slots(q), m, k) /\ But(store_slots(q), q) /\ store_slots(q).need = {}
               /\ \A s \in Slots : store_slots(q).rp[s] = Following(q.rp[s]) /\ k.flash[s] = store_slots(q).rp[s]
               /\ k.data = n1.data /\ k.acked = n1.acked /\ k.other = n1.other
    BY <1>9, <1>11, <2>1, <2>2, <2>3, <2>5, RebuildStored
  <2> QED BY <2>6 DEF w
<1> HIDE DEF w
<1>13. q \in RamType
  BY <1>9, OrderedIs
<1>14. /\ w.queue = q.queue /\ w.bay = q.bay /\ w.mirror = q.mirror /\ w.reenum = q.reenum /\ w.src = q.src
       /\ w.pos = q.pos /\ w.cp = q.cp /\ w.ms = q.ms /\ w.mode = q.mode /\ w.inst = q.inst
  BY <1>12, <1>13, ButIs
<1>15. \A s \in Slots : /\ w.rp[s].id = q.rp[s].id /\ w.rp[s].status = q.rp[s].status
                        /\ Owner(w.rp[s]) = Owner(q.rp[s])
  <2>1. \A s \in Slots : q.rp[s] \in Sound
    BY <1>13 DEF RamType
  <2> QED BY <1>12, <2>1, FollowingIs
<1>16. /\ w.rp[g].status[g] = "GOOD" /\ w.rp[0].id = w.rp[1].id /\ \A s \in Slots : Owner(w.rp[s]) = w.bay[s]
  BY <1>1, <1>6, <1>7, <1>10, <1>14, <1>15 DEF Begins, Pair, Slots
<1>17. w.cp[0] = Step /\ w.cp[1] = Step
  BY <1>10, <1>14 DEF Slots
<1>20. w = AskedRebuild(r, g)
  BY DEF w, q, b, begun, c, AskedRebuild
<1>18. \A s \in Slots, y \in 1..2 : k.other[w.bay[s]][y] = Step
  BY <1>11, <1>12, <1>14
<1>19. /\ w.mirror /\ w.src = g /\ w.pos = 0 /\ w.queue[0] = "REBUILDING"
       /\ w.inst = r.inst /\ w.ms = r.ms /\ w.mode = r.mode /\ w.reenum = r.reenum
  BY <1>7, <1>10, <1>14
<1> QED BY <1>12, <1>16, <1>17, <1>18, <1>19, <1>20

\* The host asks for a rebuild.
LEMMA RebuildCommandSkips ==
  ASSUME RaidInv, PagesInv, FixedBays, SkipInv, RebuildCommand PROVE SkipInv'
<1> DEFINE g == ram.use
           w == AskedRebuild(ram, g)
           x == update_raid1_read_use_slot(w)
<1>1. /\ Idle /\ Mirrors(ram) /\ cmd = NoCmd /\ ~ram.busy /\ ram.queue[0] = "DEGRADED" /\ ram.mode = "RAID1"
      /\ UNCHANGED <<bay, flash, other, data, acked, cmd, on>> /\ Happens("rebuild")
      /\ ram' = x /\ Typed
  <2>1. Typed
    BY DEF RaidInv, TypeInv
  <2> QED BY <2>1 DEF RebuildCommand, Serving, Idle, Mirrors, media, AskedRebuild
<1>2. left'["write"] = left["write"]
  <2>1. "rebuild" \in Events /\ "rebuild" # "write"
    BY DEF Events
  <2> QED BY <1>1, <2>1, StillWrites
<1>3. CmdInv'
  BY <1>1, <1>2, CmdGone DEF SkipInv
<1> DEFINE n == Media
<1>4. Runs1(ram, n) /\ Base(ram, n, n) /\ ram \in RamType /\ Good(n) /\ n \in MediaType /\ n.flash = flash
  BY <1>1, IdleRuns, IdleOrdered, MediaIs
<1> HIDE DEF n
<1>5. Rested(ram) /\ Whole(ram) /\ ram.bay \in Bays
  <2>1. Whole(ram)
    BY <1>1 DEF RaidInv, DriveInv, Offered, Mirrors, Idle
  <2>2. Rested(ram)
    BY <1>1 DEF RaidInv, TypeInv, RamInv, Rested
  <2> QED BY <1>4, <2>1, <2>2 DEF RamType
<1>6. Fit(ram.bay) /\ \A i \in Slots : Apt(n.flash[i], i) /\ Apt(ram.rp[i], i)
  BY <1>4 DEF PagesInv, RamPages, AptPages
<1>7. /\ g \in Slots /\ ram.rp[g] = n.flash[g] /\ ram.rp[g].disk_num = g /\ Owner(ram.rp[g]) = ram.bay[g]
      /\ ram.rp[g].mode = "RAID1"
      /\ ram.ms \in {"GOOD", "STH_NOT_VALID"} /\ ~ram.inst
      /\ LET t == Across(g)
         IN n.flash[t].status[t] = "REBUILDING" /\ Owner(n.flash[t]) = ram.bay[t] => n.flash[t].gen <= ram.rp[g].gen
      /\ \A s \in Slots : Allows(n, ram.bay[s], Step)
  BY <1>1, <1>4, <1>5, <1>6, AskedFinds
<1>8. PICK k :    /\ Ordered(w, n, k) /\ (\A s \in Slots : k.flash[s] = w.rp[s])
                  /\ \A s \in Slots, c \in 1..2 : k.other[w.bay[s]][c] = Step
                  /\ w.mirror /\ w.src = g /\ w.pos = 0 /\ w.queue[0] = "REBUILDING" /\ w.cp[0] = Step /\ w.cp[1] = Step
                  /\ w.inst = ram.inst /\ w.ms = ram.ms /\ w.mode = ram.mode /\ w.reenum = ram.reenum
                  /\ w.rp[g].status[g] = "GOOD" /\ w.rp[0].id = w.rp[1].id
                  /\ \A s \in Slots : Owner(w.rp[s]) = w.bay[s]
  <2> HIDE DEF g
  <2> QED BY <1>4, <1>5, <1>7, AskedStarts
<1> HIDE DEF w
<1>9. Rested(w) /\ w \in RamType
  BY <1>8, OrderedIs
<1>10. Rested(x) /\ x = [w EXCEPT !.use = x.use]
  BY <1>9, UsedIs
<1> HIDE DEF x
<1>11. /\ x.rp = w.rp /\ x.bay = w.bay /\ x.io = w.io /\ x.mirror = w.mirror /\ x.src = w.src /\ x.pos = w.pos
       /\ x.queue = w.queue /\ x.cp = w.cp /\ x.inst = w.inst /\ x.ms = w.ms /\ x.mode = w.mode /\ x.reenum = w.reenum
       /\ ~x.busy
  BY <1>9, <1>10 DEF RamType, Rested
<1>12. Ordered(x, n, k)
  BY <1>8, <1>10, <1>11, OrderedSame
<1>13. RamGood(x, k)
  <2>1. PagesStored(x, k) /\ NotServed(x, k)
    BY <1>1, <1>8, <1>11 DEF PagesStored, NotServed
  <2>2. Copies(x, k)
    <3>1. Sync(k, x.bay[x.src], x.bay[Across(x.src)], x.pos)
      BY <1>8, <1>11, SyncNone
    <3>2. x.cp[1] <= x.cp[0] /\ \A e \in 1..2 : k.other[x.bay[x.src]][e] <= x.cp[0]
      BY <1>7, <1>8, <1>11, Constants
    <3> QED BY <1>8, <1>11, <3>1, <3>2 DEF Copies
  <2>3. OneArray(x)
    BY <1>7, <1>8, <1>11 DEF OneArray, Fitted, Whole1
  <2> QED BY <2>1, <2>2, <2>3 DEF RamGood
<1>14. Ordered(ram', Media, k) /\ RamGood(ram', k)
  BY <1>1, <1>12, <1>13 DEF n
<1> QED BY <1>1, <1>3, <1>14, OrderedSkips

----------------------------------------------------------------------------
(* A block copied: what stays of a mirror as its rebuild goes on.          *)

\* A rebuild between the two drives whose pages are in the flash.
Mirrored(r, n) ==
  LET g == r.src
      t == Across(g)
  IN  /\ g \in Slots /\ t \in Slots /\ t # g /\ Across(t) = g /\ (\A s \in Slots : s = g \/ s = t)
      /\ Whole(r) /\ \A s \in Slots : Ready(r, s) /\ Owner(r.rp[s]) = r.bay[s] /\ Owned(r.rp[s])
                                       /\ r.rp[s] = n.flash[s] /\ r.rp[s].disk_num = s /\ r.rp[s].mode = "RAID1"
      /\ r.rp[0].id = r.rp[1].id /\ Mates(n.flash) /\ r.ms \in {"GOOD", "STH_NOT_VALID"}
      /\ r.bay[0] # r.bay[1]

\* What a rebuild that runs is made of.
LEMMA MirroredIs ==
  ASSUME NEW r, NEW n, Good(n), Runs1(r, n), r.mirror, r.bay[0] # r.bay[1]
  PROVE Mirrored(r, n)
<1> DEFINE g == r.src
           t == Across(g)
<1>1. /\ g \in Slots /\ t \in Slots /\ t # g /\ Across(t) = g /\ (\A x \in Slots : x = g \/ x = t) /\ 0 \in Slots /\ 1 \in Slots
      /\ r \in RamType /\ Mirrors(r) /\ MirrorPages(r) /\ OneArray(r) /\ PagesStored(r, n)
  BY DEF Runs1, RamGood, RamType, Slots, Across
<1>2. ASSUME NEW s \in Slots
      PROVE Ready(r, s) /\ Owner(r.rp[s]) = r.bay[s] /\ Owned(r.rp[s]) /\ r.rp[s] = n.flash[s] /\ r.rp[s].disk_num = s
            /\ r.rp[s].mode = "RAID1"
  <2>1. Ready(r, s) /\ Owner(r.rp[s]) = r.bay[s] /\ r.rp[s].mode = "RAID1"
    BY <1>1 DEF MirrorPages, Belongs
  <2>2. r.rp[s] = n.flash[s]
    BY <1>1, <2>1 DEF PagesStored
  <2>3. Owned(r.rp[s])
    BY <2>1 DEF Owned, Ready
  <2> QED BY <2>1, <2>2, <2>3 DEF Good, Stated
<1>3. Both(r)
  BY <1>2 DEF Both
<1>4. r.rp[0].id = r.rp[1].id /\ r.ms \in {"GOOD", "STH_NOT_VALID"}
  BY <1>1, <1>3 DEF OneArray
<1>5. Mates(n.flash)
  BY <1>1, <1>2, <1>4 DEF Mates
<1> QED BY <1>1, <1>2, <1>4, <1>5 DEF Mirrored, Whole

\* A mirror that runs a rebuild resumes no other one.
LEMMA ResumesSource ==
  ASSUME NEW r, NEW n, Mirrored(r, n), r.rp[r.src].status[r.src] = "GOOD", NEW h \in Slots, Resumes(n.flash, h)
  PROVE h = r.src
BY DEF Mirrored, Resumes

\* The rebuild has gone on: the target has one block more, and the check points cover it.
Advanced(w, r) ==
  /\ w.rp = r.rp /\ w.bay = r.bay /\ w.queue = r.queue /\ w.num = r.num /\ w.ms = r.ms /\ w.mode = r.mode /\ w.use = r.use
  /\ w.src = r.src /\ w.inst = r.inst /\ w.mirror = r.mirror /\ w.reenum = r.reenum /\ ~w.busy

\* A rebuild that goes on keeps the state in RAM good.
LEMMA AdvancedGood ==
  ASSUME NEW r, NEW n, RamGood(r, n), r.mirror, ~r.inst, NEW w, Advanced(w, r), NEW p, p.flash = n.flash,
         LET source == r.bay[r.src]
             target == r.bay[Across(r.src)]
         IN /\ Sync(p, source, target, w.pos)
            /\ r.src = 1 => \/ Sync(p, source, target, Size)
                            \/ w.cp[1] <= w.cp[0] /\ \A e \in 1..2 : p.other[source][e] <= w.cp[0]
  PROVE RamGood(w, p)
<1>1. PagesStored(w, p) /\ NotServed(w, p)
  BY DEF RamGood, PagesStored, NotServed, Advanced, Ready
<1>2. Copies(w, p)
  BY DEF RamGood, Copies, Advanced
<1>3. OneArray(w)
  <2>1. OneArray(r)
    BY DEF RamGood
  <2>2. /\ Mirrors(w) <=> Mirrors(r)
        /\ Fitted(w) <=> Fitted(r)
        /\ Lonely(w) <=> Lonely(r)
        /\ Both(w) <=> Both(r)
        /\ Whole1(w) <=> Whole1(r)
    BY DEF Advanced, Mirrors, Fitted, Lonely, Both, Whole1, Ready
  <2> QED BY <2>1, <2>2 DEF OneArray, Advanced
<1> QED BY <1>1, <1>2, <1>3 DEF RamGood

\* What is copied below b is copied below less.
LEMMA SyncLess ==
  ASSUME NEW n, NEW x, NEW y, NEW b \in Int, NEW c \in Int, Sync(n, x, y, b), c <= b
  PROVE Sync(n, x, y, c)
BY Constants DEF Sync, Blocks

\* What is copied to the end is copied below any block.
LEMMA SyncAll ==
  ASSUME NEW n, NEW x, NEW y, NEW c \in Int, Sync(n, x, y, Size)
  PROVE Sync(n, x, y, c)
BY Constants DEF Sync, Blocks

\* The check points of a rebuild that has gone past them are moved on.
LEMMA OthersAdvance ==
  ASSUME NEW r, NEW n, Good(n), n \in MediaType, Runs1(r, n), Base(r, n, n), r.mirror, ~r.inst, r.bay[0] # r.bay[1],
         NEW b, Rested(b), b.io = r.io, Advanced(b, r), b.cp = r.cp, b.pos > r.cp[0],
         Sync(n, r.bay[r.src], r.bay[Across(r.src)], b.pos)
  PROVE LET w == WriteOthers([b EXCEPT !.cp = [s \in Slots |-> @[s] + Step]])
        IN \E k : Ordered(w, n, k) /\ RamGood(w, k)
<1> DEFINE x == [b EXCEPT !.cp = [s \in Slots |-> @[s] + Step]]
           w == WriteOthers(x)
           g == r.src
           t == Across(g)
           S == r.bay[g]
           T == r.bay[t]
<1>1. /\ Mirrored(r, n) /\ r \in RamType /\ b \in RamType /\ b.cp \in [Slots -> Nat] /\ b.pos \in Int /\ RamGood(r, n)
      /\ b.cp[0] \in Nat /\ b.cp[1] \in Nat
  BY MirroredIs DEF Runs1, Rested, RamType, Slots
<1>2. /\ g \in Slots /\ t \in Slots /\ t # g /\ Across(t) = g /\ 0 \in Slots /\ 1 \in Slots /\ Across(0) = 1 /\ Across(1) = 0
      /\ Slots = {0, 1}
  BY <1>1 DEF Mirrored, Slots, Across
<1>3. /\ r.rp[g].status[g] = "GOOD"
      /\ g = 1 => \/ Sync(n, S, T, Size)
                  \/ r.cp[1] <= r.cp[0] /\ \A e \in 1..2 : n.other[S][e] <= r.cp[0]
  BY <1>1 DEF RamGood, Copies
<1>4. /\ x \in RamType /\ Rested(x) /\ x.bay = r.bay /\ x.io = r.io
      /\ x.cp[0] = b.cp[0] + Step /\ x.cp[1] = b.cp[1] + Step
      /\ Advanced(x, r) /\ x.pos = b.pos
  <2>1. x.cp[0] = b.cp[0] + Step /\ x.cp[1] = b.cp[1] + Step
    BY <1>1, <1>2 DEF RamType
  <2>2. [s \in Slots |-> b.cp[s] + Step] \in [Slots -> Nat]
    BY <1>1, Constants
  <2>3. x \in RamType
    BY <1>1, <2>2 DEF RamType
  <2>4. /\ x.bay = b.bay /\ x.io = b.io /\ x.busy = b.busy /\ x.mirror = b.mirror /\ x.retry = b.retry /\ x.pos = b.pos
        /\ x.rp = b.rp /\ x.queue = b.queue /\ x.num = b.num /\ x.ms = b.ms /\ x.mode = b.mode /\ x.use = b.use
        /\ x.src = b.src /\ x.inst = b.inst /\ x.reenum = b.reenum
    BY <1>1 DEF RamType
  <2> HIDE DEF x
  <2> QED BY <2>1, <2>3, <2>4 DEF Rested, Advanced
<1> HIDE DEF x
<1>5. Ordered(x, n, n)
  BY <1>4 DEF Base
<1>6. ASSUME NEW m, NEW s \in Slots, m.flash = n.flash,
             \A h \in Slots : h = g => Allowed(m, h, r.bay[s], x.cp[s])
      PROVE Allows(m, r.bay[s], x.cp[s])
  <2> SUFFICES ASSUME NEW h \in Slots, Resumes(m.flash, h) PROVE Allowed(m, h, r.bay[s], x.cp[s])
    BY DEF Allows
  <2> QED BY <1>1, <1>3, <1>6, ResumesSource
<1>7. n.flash[g] = r.rp[g] /\ n.flash[t] = r.rp[t] /\ Owner(n.flash[g]) = S /\ Owner(n.flash[t]) = T /\ S # T /\ S # NoDrive /\ T # NoDrive
  BY <1>1, <1>2 DEF Mirrored, Ready
<1>8. Sync(n, S, T, b.cp[0])
  BY <1>1, SyncLess
<1>9. Allows(n, r.bay[0], x.cp[0])
  <2>1. x.cp[0] - Step = b.cp[0]
    BY <1>1, <1>4, Constants
  <2>2. Allowed(n, g, r.bay[0], x.cp[0])
    <3>1. r.bay[0] = S => Sync(n, S, T, x.cp[0] - Step)
      BY <1>8, <2>1
    <3>2. CASE g = 0
      BY <1>7, <3>1, <3>2 DEF Allowed
    <3>3. CASE g = 1
      <4>1. r.bay[0] # S /\ x.cp[0] >= Step
        BY <1>1, <1>2, <1>4, <1>7, <3>3, Constants
      <4>2. Sync(n, S, T, Size) \/ \A e \in 1..2 : n.other[S][e] <= x.cp[0]
        <5>1. CASE Sync(n, S, T, Size)
          BY <5>1
        <5>2. CASE \A e \in 1..2 : n.other[S][e] <= r.cp[0]
          <6>1. n.other[S] \in [1..2 -> Nat \cup {Bad}]
            BY <1>1, <1>2, <1>7 DEF MediaType, RamType, Bays
          <6>2. \A e \in 1..2 : n.other[S][e] \in Int
            BY <6>1 DEF Bad
          <6> QED BY <1>1, <1>4, <5>2, <6>2, Constants
        <5> QED BY <1>3, <3>3, <5>1, <5>2
      <4> QED BY <1>7, <4>1, <4>2 DEF Allowed
    <3> QED BY <1>2, <3>2, <3>3
  <2> QED BY <1>2, <1>6, <2>2
<1> DEFINE n1 == Fill(n, 0, x.cp[0])
<1>10. /\ n1.flash = n.flash /\ OtherThan(n1, n)
       /\ \A c \in 1..2 : n1.other[r.bay[0]][c] = x.cp[0]
  <2>1. n.bay = r.bay /\ r.bay[0] # NoDrive /\ r.bay[0] \in Drives
    <3>1. n.bay = x.bay
      BY <1>5 DEF Ordered
    <3> QED BY <1>1, <1>2, <1>4, <3>1 DEF Mirrored, Ready, RamType, Bays
  <2>2. x.cp[0] \in Nat
    BY <1>1, <1>4, Constants
  <2> QED BY <1>2, <2>1, <2>2, FillIsMedia DEF OtherThan
<1> HIDE DEF n1
<1>11. Allows(n1, r.bay[1], x.cp[1])
  <2>1. x.cp[1] - Step = b.cp[1]
    BY <1>1, <1>4, Constants
  <2>2. Allowed(n1, g, r.bay[1], x.cp[1])
    <3>1. CASE g = 0
      <4>1. r.bay[1] # S
        BY <1>2, <1>7, <3>1
      <4> QED BY <1>7, <1>10, <3>1, <4>1 DEF Allowed
    <3>2. CASE g = 1
      <4>1. r.bay[1] = S /\ r.bay[0] = T /\ r.bay[1] # T
        BY <1>2, <1>7, <3>2
      <4>2. CASE Sync(n, S, T, Size)
        <5>1. Sync(n1, S, T, Size) /\ Sync(n1, S, T, x.cp[1] - Step)
          BY <1>1, <1>10, <2>1, <4>2, OtherThanSync, SyncAll
        <5> QED BY <1>7, <1>10, <4>1, <5>1 DEF Allowed
      <4>3. CASE r.cp[1] <= r.cp[0]
        <5>1. Sync(n, S, T, b.cp[1])
          BY <1>1, <1>8, <4>3, SyncLess
        <5>2. Sync(n1, S, T, x.cp[1] - Step)
          BY <1>10, <2>1, <5>1, OtherThanSync
        <5>3. \A c \in 1..2 : x.cp[1] <= n1.other[T][c]
          BY <1>1, <1>4, <1>10, <4>1, <4>3, Constants
        <5> QED BY <1>7, <1>10, <4>1, <5>2, <5>3 DEF Allowed
      <4> QED BY <1>3, <3>2, <4>2, <4>3
    <3> QED BY <1>2, <3>1, <3>2
  <2> QED BY <1>2, <1>6, <1>10, <2>2
<1>12. Ready(x, 0) /\ Ready(x, 1)
  BY <1>1, <1>2, <1>4 DEF Mirrored, Ready
<1>13. PICK p : /\ Ordered(w, n, p) /\ OtherThan(p, n)
                /\ \A d \in Drives, c \in 1..2 :
                     p.other[d][c] = IF Ready(x, 1) /\ d = x.bay[1] THEN x.cp[1]
                                     ELSE IF Ready(x, 0) /\ d = x.bay[0] THEN x.cp[0] ELSE n.other[d][c]
  <2>1. Allows(n, x.bay[0], x.cp[0]) /\ Allows(IF Ready(x, 0) THEN Fill(n, 0, x.cp[0]) ELSE n, x.bay[1], x.cp[1])
    BY <1>4, <1>9, <1>11, <1>12 DEF n1
  <2> HIDE DEF w
  <2>2. \E p : /\ Ordered(WriteOthers(x), n, p) /\ OtherThan(p, n)
                /\ \A d \in Drives, c \in 1..2 :
                     p.other[d][c] = IF Ready(x, 1) /\ d = x.bay[1] THEN x.cp[1]
                                     ELSE IF Ready(x, 0) /\ d = x.bay[0] THEN x.cp[0] ELSE n.other[d][c]
    BY <1>5, <2>1, OthersOrdered
  <2> QED BY <2>2 DEF w
<1>14. /\ w.rp = x.rp /\ w.bay = x.bay /\ w.queue = x.queue /\ w.num = x.num /\ w.ms = x.ms /\ w.mode = x.mode /\ w.use = x.use
       /\ w.src = x.src /\ w.inst = x.inst /\ w.mirror = x.mirror /\ w.reenum = x.reenum /\ w.busy = x.busy /\ w.pos = x.pos
       /\ w.cp = x.cp
  BY <1>4 DEF WriteOthers, WriteOther, Ready, RamType
<1> HIDE DEF w
<1>15. Advanced(w, r) /\ w.pos = b.pos
  BY <1>4, <1>14 DEF Advanced
<1>16. Sync(p, S, T, w.pos)
  BY <1>13, <1>15, OtherThanSync
<1>17. ASSUME g = 1 PROVE Sync(p, S, T, Size) \/ (w.cp[1] <= w.cp[0] /\ \A e \in 1..2 : p.other[S][e] <= w.cp[0])
  <2>1. CASE Sync(n, S, T, Size)
    BY <1>13, <2>1, OtherThanSync
  <2>2. CASE r.cp[1] <= r.cp[0]
    <3>1. x.cp[1] <= x.cp[0]
      BY <1>1, <1>4, <2>2, Constants
    <3>2. S = x.bay[1] /\ S \in Drives
      BY <1>1, <1>2, <1>4, <1>7, <1>17 DEF RamType, Bays
    <3>3. \A e \in 1..2 : p.other[S][e] = x.cp[1]
      BY <1>12, <1>13, <3>2
    <3> QED BY <1>14, <3>1, <3>3
  <2> QED BY <1>3, <1>17, <2>1, <2>2
<1>18. RamGood(w, p)
  <2>1. p.flash = n.flash
    BY <1>13 DEF OtherThan
  <2> QED BY <1>1, <1>15, <1>16, <1>17, <2>1, AdvancedGood
<1> QED BY <1>13, <1>18 DEF w, x

----------------------------------------------------------------------------
(* RebuildDone: the pages after the last block.                            *)

\* The last block is copied: no check point is left, and both pages say that their drives are good.
LEMMA DoneStores ==
  ASSUME NEW r, NEW n, Good(n), n \in MediaType, Runs1(r, n), Base(r, n, n), r.mirror, ~r.inst, r.bay[0] # r.bay[1],
         NEW b, Rested(b), b.io = r.io, b.map = r.map, Advanced(b, r),
         Sync(n, r.bay[r.src], r.bay[Across(r.src)], Size)
  PROVE LET w == RebuildDone(b)
        IN \E k : Ordered(w, n, k) /\ Fell(w, r) /\ \A s \in Slots : k.flash[s] = w.rp[s]
<1> DEFINE g == r.src
           t == Across(g)
           S == r.bay[g]
           T == r.bay[t]
           good == [s \in Slots |-> "GOOD"]
           pages == [s \in Slots |-> [b.rp[s] EXCEPT !.gen = b.rp[b.src].gen, !.status = good]]
           queue == [b.queue EXCEPT ![0] = "GOOD"]
           a == [b EXCEPT !.mirror = FALSE, !.cur = good, !.queue = queue, !.rp = pages, !.num = 1]
           r1 == append_array_status(a, "GOOD")
           c == SetCheckPoint(r1, 0)
           d == [c EXCEPT !.need = Slots]
           w == store_slots(d)
<1>0. /\ Mirrored(r, n) /\ r \in RamType /\ b \in RamType /\ RamGood(r, n) /\ b.rp = r.rp /\ b.src = g
      /\ g \in Slots /\ r.rp \in [Slots -> Sound]
  BY MirroredIs DEF Runs1, Rested, RamType, Advanced
<1>1. good \in [Slots -> SlotStatus]
  BY StatusIs
<1>2. pages \in [Slots -> Sound] /\ \A s \in Slots : /\ pages[s].gen = r.rp[g].gen /\ pages[s].mode = r.rp[s].mode
                                 /\ pages[s].disk_num = r.rp[s].disk_num /\ pages[s].id = r.rp[s].id
                                 /\ Owner(pages[s]) = Owner(r.rp[s]) /\ pages[s].status = good
  <2>1. r.rp[g].gen \in Nat
    BY <1>0 DEF Sound, Page
  <2> HIDE DEF good
  <2>2. ASSUME NEW s \in Slots
        PROVE pages[s] \in Sound /\ pages[s].gen = r.rp[g].gen /\ pages[s].mode = r.rp[s].mode
                                 /\ pages[s].disk_num = r.rp[s].disk_num /\ pages[s].id = r.rp[s].id
                                 /\ Owner(pages[s]) = Owner(r.rp[s]) /\ pages[s].status = good
    BY <1>0, <1>1, <2>1 DEF Sound, Page, Valid, Owner
  <2>3. DOMAIN pages = Slots
    OBVIOUS
  <2> HIDE DEF pages
  <2>4. pages \in [Slots -> Sound]
    <3>1. pages = [s \in Slots |-> pages[s]]
      BY DEF pages
    <3> QED BY <2>2, <3>1
  <2> QED BY <2>2, <2>4
<1>3. queue \in [Slots -> ArrayStatus] /\ queue[0] = "GOOD"
  BY <1>0, StatusIs DEF RamType, Slots
<1>4. RebuildDone(b) = w
  <2>1. a = [b EXCEPT !.mirror = FALSE, !.cur = good, !.queue[0] = "GOOD", !.rp = pages, !.num = 1]
    BY <1>0 DEF RamType
  <2> QED BY <2>1 DEF RebuildDone, w, d, c, r1, good, pages
<1>5. \A s \in Slots : good[s] = "GOOD"
  OBVIOUS
<1> HIDE DEF good, pages, queue
<1>6. /\ Rested(a) /\ a.bay = r.bay /\ a.io = r.io /\ a.map = r.map /\ ~a.mirror /\ ~a.inst /\ a.rp = pages /\ a.ms = r.ms
      /\ a.mode = r.mode /\ a.reenum = r.reenum /\ a.queue = queue /\ a.num = 1
  <2>1. 1 \in 0..2
    OBVIOUS
  <2>2. a \in RamType
    BY <1>0, <1>1, <1>2, <1>3, <2>1 DEF RamType
  <2>3. /\ a.bay = b.bay /\ a.io = b.io /\ a.map = b.map /\ ~a.mirror /\ a.inst = b.inst /\ a.rp = pages /\ a.ms = b.ms
        /\ a.mode = b.mode /\ a.reenum = b.reenum /\ a.queue = queue /\ a.num = 1 /\ a.busy = b.busy
    BY <1>0 DEF RamType
  <2> HIDE DEF a
  <2> QED BY <2>2, <2>3 DEF Rested, Advanced
<1> HIDE DEF a
<1>7. /\ Rested(r1) /\ r1.bay = r.bay /\ r1.io = r.io /\ r1.map = r.map /\ ~r1.mirror /\ ~r1.inst /\ r1.rp = pages
      /\ r1.ms = r.ms /\ r1.mode = r.mode /\ r1.reenum = r.reenum /\ r1.queue[0] = "GOOD"
  <2>1. Rested(r1) /\ Judged(r1, a, "GOOD") /\ a.num \in Slots /\ a \in RamType
    <3>1. Rested(a) /\ "GOOD" \in ArrayStatus /\ a.num < 2 /\ a.num \in Slots /\ a \in RamType
      BY <1>6, StatusIs DEF Slots, Rested
    <3>2. Rested(append_array_status(a, "GOOD"))
      BY <3>1, AppendRests
    <3>3. Judged(append_array_status(a, "GOOD"), a, "GOOD")
      BY <3>1, AppendJudges
    <3> QED BY <3>1, <3>2, <3>3
  <2> HIDE DEF r1
  <2>2. /\ \A i \in Slots : i # a.num => r1.queue[i] = a.queue[i]
        /\ r1.map = a.map /\ r1.bay = a.bay /\ r1.rp = a.rp /\ r1.io = a.io /\ r1.ms = a.ms /\ r1.mode = a.mode
        /\ r1.mirror = a.mirror /\ r1.inst = a.inst /\ r1.reenum = a.reenum
    BY <2>1, JudgedIs
  <2> QED BY <1>3, <1>6, <2>1, <2>2 DEF Slots
<1> HIDE DEF r1
<1>8. Ordered(r1, n, n)
  BY <1>7 DEF Base
<1>9. r.rp[g].status[g] = "GOOD"
  BY <1>0 DEF RamGood, Copies
<1>10. n.flash[g] = r.rp[g] /\ n.flash[t] = r.rp[t] /\ Owner(n.flash[g]) = S /\ Owner(n.flash[t]) = T
  BY <1>0 DEF Mirrored
<1>11. ASSUME NEW s \in Slots PROVE Allows(n, r1.bay[s], 0)
  <2> SUFFICES ASSUME NEW h \in Slots, Resumes(n.flash, h) PROVE Allowed(n, h, r1.bay[s], 0)
    BY DEF Allows
  <2>1. h = g
    BY <1>0, <1>9, ResumesSource
  <2>2. Sync(n, S, T, 0 - Step)
    BY SyncAll, Constants
  <2> QED BY <1>10, <2>1, <2>2 DEF Allowed
<1>12. PICK p : Ordered(c, n, p) /\ OtherThan(p, n)
  <2> HIDE DEF c
  <2>1. \E p : Ordered(SetCheckPoint(r1, 0), n, p) /\ OtherThan(p, n)
    BY <1>8, <1>11, SetOrdered
  <2> QED BY <2>1 DEF c
<1>13. /\ c.bay = r1.bay /\ c.map = r1.map /\ c.mirror = r1.mirror /\ c.inst = r1.inst /\ c.rp = r1.rp
       /\ c.ms = r1.ms /\ c.mode = r1.mode /\ c.reenum = r1.reenum /\ c.queue = r1.queue
  BY <1>7 DEF SetCheckPoint, WriteOthers, WriteOther, Ready, Rested, RamType
<1> HIDE DEF c
<1>14. /\ Rested(d) /\ d \in RamType /\ d.io = c.io /\ d.need = Slots
       /\ d.bay = c.bay /\ d.map = c.map /\ d.mirror = c.mirror /\ d.inst = c.inst /\ d.rp = c.rp
       /\ d.ms = c.ms /\ d.mode = c.mode /\ d.reenum = c.reenum /\ d.queue = c.queue
  <2>1. Rested(c) /\ c \in RamType
    BY <1>12, OrderedIs
  <2>2. d \in RamType
    BY <2>1 DEF RamType
  <2>3. /\ d.io = c.io /\ d.need = Slots /\ d.busy = c.busy /\ d.retry = c.retry
        /\ d.bay = c.bay /\ d.map = c.map /\ d.mirror = c.mirror /\ d.inst = c.inst /\ d.rp = c.rp
        /\ d.ms = c.ms /\ d.mode = c.mode /\ d.reenum = c.reenum /\ d.queue = c.queue
    BY <2>1 DEF RamType
  <2> HIDE DEF d
  <2> QED BY <2>1, <2>2, <2>3 DEF Rested
<1> HIDE DEF d
<1>15. Ordered(d, n, p)
  BY <1>12, <1>14, OrderedSame
<1>16. /\ d.rp = pages /\ d.bay = r.bay /\ d.map = r.map /\ ~d.mirror /\ ~d.inst /\ d.ms = r.ms /\ d.mode = r.mode
       /\ d.reenum = r.reenum
  BY <1>7, <1>13, <1>14
<1>17. ASSUME NEW s \in Slots PROVE Plain(p, s, Following(d.rp[s]))
  <2> DEFINE f == Following(d.rp[s])
             o == Across(s)
  <2>1. d.rp[s] \in Sound
    BY <1>2, <1>16
  <2>2. /\ f.gen = r.rp[g].gen + 1 /\ f.disk_num = s /\ f.status[s] = "GOOD"
    <3>1. f.gen = d.rp[s].gen + 1 /\ f.disk_num = d.rp[s].disk_num /\ f.status = d.rp[s].status
      BY <2>1, FollowingIs
    <3> QED BY <1>0, <1>2, <1>5, <1>16, <3>1 DEF Mirrored
  <2> HIDE DEF f
  <2>3. ASSUME p.flash[o].status[o] = "REBUILDING" PROVE p.flash[o].gen < f.gen
    <3>1. p.flash = n.flash
      BY <1>12 DEF OtherThan
    <3>2. o = t
      BY <1>0, <1>9, <1>10, <2>3, <3>1 DEF Mirrored, Slots, Across
    <3>3. n.flash[t].gen <= n.flash[g].gen
      BY <1>0, <2>3, <3>1, <3>2 DEF Good, Behind, Mirrored
    <3>4. n.flash[t].gen \in Nat /\ n.flash[g].gen \in Nat
      BY <1>0, <1>10 DEF Mirrored, Sound, Page
    <3> QED BY <1>10, <2>2, <3>1, <3>2, <3>3, <3>4
  <2> QED BY <2>2, <2>3 DEF Plain, f
<1>18. d.map = [x \in Slots |-> x] /\ Stores(d)
  BY <1>0, <1>16 DEF Runs1, Stores, Mirrored
<1>19. PICK k : /\ Ordered(w, n, k) /\ But(w, d)
                /\ \A s \in Slots : w.rp[s] = Following(d.rp[s]) /\ k.flash[s] = w.rp[s]
  <2> HIDE DEF w
  <2>1. \A s \in d.need : Plain(p, s, Following(d.rp[s]))
    BY <1>14, <1>17
  <2>2. \E k : /\ Ordered(store_slots(d), n, k) /\ But(store_slots(d), d) /\ store_slots(d).need = {}
               /\ d.need # {} => Still(k.flash)
               /\ \A s \in Slots : store_slots(d).rp[s] = IF s \in d.need THEN Following(d.rp[s]) ELSE d.rp[s]
               /\ \A s \in Slots : k.flash[s] = IF s \in d.need THEN store_slots(d).rp[s] ELSE p.flash[s]
               /\ k.data = p.data /\ k.acked = p.acked /\ k.other = p.other
    BY <1>15, <1>18, <2>1, StoresOrdered
  <2> QED BY <1>14, <2>2 DEF w
<1> HIDE DEF w
<1>20. /\ w.bay = d.bay /\ w.mode = d.mode /\ w.ms = d.ms /\ w.reenum = d.reenum /\ w.mirror = d.mirror /\ w.inst = d.inst
  BY <1>14, <1>19, ButIs
<1>21. ASSUME NEW s \in Slots
       PROVE w.rp[s].id = r.rp[s].id /\ Owner(w.rp[s]) = Owner(r.rp[s]) /\ w.rp[s].status[s] = "GOOD"
  <2>1. d.rp[s] \in Sound
    BY <1>2, <1>16
  <2>2. w.rp[s].id = d.rp[s].id /\ Owner(w.rp[s]) = Owner(d.rp[s]) /\ w.rp[s].status = d.rp[s].status
    BY <1>19, <2>1, FollowingIs
  <2> QED BY <1>2, <1>5, <1>16, <2>2
<1>22. Fell(w, r)
  BY <1>16, <1>20, <1>21 DEF Fell
<1> QED BY <1>4, <1>19, <1>22

----------------------------------------------------------------------------
(* BlockDone and InstantDone.                                              *)

\* SkipInv from what a function ordered.
LEMMA MovedSkips ==
  ASSUME CmdInv', NEW k, Ordered(ram', Media', k), RamGood(ram', k)
  PROVE SkipInv'
<1> DEFINE n == Media'
<1>1. Safe(n, ram'.io) /\ k = Last(n, ram'.io)
  BY DEF Ordered, Leads
<1>2. Safe(Media, ram.io)' /\ Last(Media, ram.io)' = k
  BY <1>1
<1>3. PairInv'
  BY PairedKept DEF Ordered
<1> QED BY <1>2, <1>3 DEF SkipInv

\* RAID_RB_DONE_UPDATE after a block was copied: what is ordered then leaves the rebuild in order.
LEMMA BlockDoneGood ==
  ASSUME NEW r, NEW n, Good(n), n \in MediaType, Runs1(r, n), Base(r, n, n), r.mirror, ~r.inst, Rested(r), r.bay[0] # r.bay[1],
         Sync(n, r.bay[r.src], r.bay[Across(r.src)], r.pos + 1),
         NEW w, w = BlockDone(r), w \in RamType, MirrorPages(w)
  PROVE \E k : Ordered(w, n, k) /\ RamGood(w, k)
<1> DEFINE b == [r EXCEPT !.pos = @ + 1, !.retry = 0]
<1>1. r \in RamType /\ r.pos \in Int /\ RamGood(r, n) /\ ~r.busy
  BY DEF Runs1, RamType, Rested
<1>2. /\ Rested(b) /\ b.io = r.io /\ b.map = r.map /\ Advanced(b, r) /\ b.cp = r.cp /\ b.pos = r.pos + 1
  <2>1. 0 \in 0..MaxRetry /\ 0 < MaxRetry
    BY Constants
  <2>2. r.pos + 1 \in Int /\ r.pos + 1 >= -Step
    <3>1. r.pos \in {p \in Int : p >= -Step}
      BY <1>1 DEF RamType
    <3> QED BY <3>1, Constants
  <2>3. b \in RamType
    BY <1>1, <2>1, <2>2 DEF RamType
  <2>4. /\ b.io = r.io /\ b.map = r.map /\ b.cp = r.cp /\ b.pos = r.pos + 1 /\ b.retry = 0 /\ b.busy = r.busy
        /\ b.rp = r.rp /\ b.bay = r.bay /\ b.queue = r.queue /\ b.num = r.num /\ b.ms = r.ms /\ b.mode = r.mode /\ b.use = r.use
        /\ b.src = r.src /\ b.inst = r.inst /\ b.mirror = r.mirror /\ b.reenum = r.reenum
    BY <1>1 DEF RamType
  <2> HIDE DEF b
  <2> QED BY <1>1, <2>1, <2>3, <2>4 DEF Rested, Advanced
<1>3. w = IF b.pos >= Size THEN RebuildDone(b)
          ELSE IF b.pos > b.cp[0] THEN WriteOthers([b EXCEPT !.cp = [s \in Slots |-> @[s] + Step]]) ELSE b
  BY DEF BlockDone
<1> HIDE DEF b
<1>4. CASE b.pos >= Size
  <2>1. Sync(n, r.bay[r.src], r.bay[Across(r.src)], Size)
    BY <1>1, <1>2, <1>4, SyncLess, Constants
  <2>2. PICK k : Ordered(w, n, k) /\ Fell(w, r) /\ \A s \in Slots : k.flash[s] = w.rp[s]
    <3>1. w = RebuildDone(b)
      BY <1>3, <1>4
    <3> QED BY <1>2, <2>1, <3>1, DoneStores
  <2>3. RamGood(w, k)
    BY <1>1, <2>2, FellGood DEF Runs1, RamGood
  <2> QED BY <2>2, <2>3
<1>5. CASE ~(b.pos >= Size) /\ b.pos > b.cp[0]
  <2>1. w = WriteOthers([b EXCEPT !.cp = [s \in Slots |-> @[s] + Step]])
    BY <1>3, <1>5
  <2>2. b.pos > r.cp[0] /\ Sync(n, r.bay[r.src], r.bay[Across(r.src)], b.pos)
    BY <1>2, <1>5
  <2> QED BY <1>2, <2>1, <2>2, OthersAdvance
<1>6. CASE ~(b.pos >= Size) /\ ~(b.pos > b.cp[0])
  <2>1. w = b
    BY <1>3, <1>6
  <2>2. Ordered(b, n, n)
    BY <1>2 DEF Base, Advanced
  <2>3. r.src = 1 => \/ Sync(n, r.bay[r.src], r.bay[Across(r.src)], Size)
                     \/ b.cp[1] <= b.cp[0] /\ \A e \in 1..2 : n.other[r.bay[r.src]][e] <= b.cp[0]
    BY <1>1, <1>2 DEF RamGood, Copies
  <2>4. Sync(n, r.bay[r.src], r.bay[Across(r.src)], b.pos)
    BY <1>2
  <2>5. RamGood(b, n)
    BY <1>1, <1>2, <2>3, <2>4, AdvancedGood
  <2> QED BY <2>1, <2>2, <2>5
<1> QED BY <1>4, <1>5, <1>6

\* The end of an instant rebuild that copied its block: the mirror is whole.
LEMMA InstantDoneGood ==
  ASSUME NEW r, NEW n, r \in RamType, Mirrors(r), RamGood(r, n), r.mirror, r.inst,
         NEW x, x \in RamType, ~x.busy, x.rp = r.rp, x.bay = r.bay, x.io = r.io, x.ms = r.ms, x.mode = r.mode, x.reenum = r.reenum
  PROVE LET w == InstantDone(x, TRUE) IN RamGood(w, n) /\ Rested(w) /\ w.io = r.io /\ w.bay = r.bay
<1> DEFINE good == [s \in Slots |-> "GOOD"]
           w == [x EXCEPT !.inst = FALSE, !.mirror = FALSE, !.queue[0] = "GOOD", !.cur = good]
<1>1. InstantDone(x, TRUE) = w
  BY DEF InstantDone, RamType
<1>2. good \in [Slots -> SlotStatus] /\ [x.queue EXCEPT ![0] = "GOOD"] \in [Slots -> ArrayStatus]
  BY StatusIs DEF RamType
<1> HIDE DEF good
<1>3. /\ ~w.inst /\ ~w.mirror /\ w.queue[0] = "GOOD" /\ w.rp = r.rp /\ w.bay = r.bay /\ w.io = r.io /\ w.ms = r.ms
      /\ w.mode = r.mode /\ w.reenum = r.reenum /\ w \in RamType /\ ~w.busy
  <2>1. w \in RamType
    BY <1>2 DEF RamType
  <2>2. w.queue[0] = "GOOD"
    BY DEF RamType, Slots
  <2> QED BY <2>1, <2>2 DEF RamType
<1> HIDE DEF w
<1>4. PagesStored(w, n) /\ NotServed(w, n) /\ Copies(w, n)
  BY <1>3 DEF RamGood, PagesStored, NotServed, Copies, Ready, Mirrors
<1>5. OneArray(w)
  <2>1. /\ Fitted(r) /\ (Both(r) => r.rp[0].id = r.rp[1].id) /\ r.ms \in {"GOOD", "STH_NOT_VALID"} /\ Whole1(r)
    BY DEF RamGood, OneArray
  <2>2. (Fitted(w) <=> Fitted(r)) /\ (Both(w) <=> Both(r))
    BY <1>3 DEF Fitted, Both, Ready
  <2>3. Whole1(w)
    BY <1>3, <2>1 DEF Whole1
  <2> QED BY <1>3, <2>1, <2>2, <2>3 DEF OneArray
<1> QED BY <1>1, <1>3, <1>4, <1>5 DEF RamGood, Rested

----------------------------------------------------------------------------
(* CopyDone.                                                               *)

\* A block is copied: the rebuild goes on from the next one, with its check
\* points, or ends.
LEMMA CopyDoneSkips ==
  ASSUME RaidInv, PagesInv, RaidInv', PagesInv', FixedBays, SkipInv, chk_rb_done,
         CopyDone([ram EXCEPT !.busy = FALSE])
  PROVE SkipInv'
<1> DEFINE r == [ram EXCEPT !.busy = FALSE]
           n == Media'
           S == bay[ram.src]
           T == bay[Across(ram.src)]
           b == ram.lba
<1>1. /\ Idle /\ ram.busy /\ UNCHANGED <<bay, flash, other, acked, cmd, on, left>> /\ ram \in RamType /\ ram.mirror
      /\ (~ram.inst => ram.retry < MaxRetry) /\ cmd = NoCmd /\ Typed /\ Typed' /\ ram.bay = bay /\ Whole(ram)
      /\ b \in Blocks /\ data' = [data EXCEPT ![T][b] = data[S][b]]
      /\ ram' = IF ram.inst THEN InstantDone(r, TRUE) ELSE BlockDone(r)
  <2>1. /\ Idle /\ ram.busy /\ UNCHANGED <<bay, flash, other, acked, cmd, on, left>> /\ b \in Blocks
        /\ data' = [data EXCEPT ![T][b] = data[S][b]]
    BY DEF chk_rb_done, CopyDone
  <2>2. ram' = IF r.inst THEN InstantDone(r, TRUE) ELSE BlockDone(r)
    BY DEF CopyDone
  <2>3. /\ ram \in RamType /\ ram.mirror /\ (~ram.inst => ram.retry < MaxRetry) /\ cmd = NoCmd /\ Typed /\ Typed'
        /\ ram.bay = bay /\ Whole(ram)
    BY <2>1 DEF RaidInv, TypeInv, RamInv, DriveInv, Idle
  <2>4. r.inst = ram.inst
    BY <2>3 DEF RamType
  <2> HIDE DEF r
  <2> QED BY <2>1, <2>2, <2>3, <2>4
<1>2. /\ r \in RamType /\ ~r.busy /\ r.mirror /\ r.inst = ram.inst
      /\ r.rp = ram.rp /\ r.bay = ram.bay /\ r.map = ram.map /\ r.io = ram.io /\ r.ms = ram.ms /\ r.mode = ram.mode
      /\ r.reenum = ram.reenum /\ r.queue = ram.queue /\ r.num = ram.num /\ r.use = ram.use /\ r.src = ram.src
      /\ r.pos = ram.pos /\ r.cp = ram.cp /\ r.cur = ram.cur /\ (~ram.inst => Rested(r))
  BY <1>1 DEF RamType, Rested
<1> HIDE DEF r
<1>3. Mirrors(ram) /\ MirrorPages(ram)
  BY <1>1 DEF PagesInv, RamPages, MirrorPages
<1>4. Runs1(ram, Media) /\ Base(ram, Media, Media) /\ Good(Media) /\ RamGood(ram, Media) /\ ram.io = << >>
  BY <1>1, <1>3, IdleRuns, IdleOrdered
<1>5. ram.src \in Slots /\ Across(ram.src) \in Slots /\ S \in Drives /\ T \in Drives /\ \A s \in Slots : s = ram.src \/ s = Across(ram.src)
  <2>1. ram.src \in Slots /\ Across(ram.src) \in Slots /\ \A s \in Slots : s = ram.src \/ s = Across(ram.src)
    BY <1>1 DEF RamType, Slots, Across
  <2> QED BY <1>1, <2>1, MirrorInBays
<1>6. bay[0] # bay[1]
  <2>1. Fit(bay) /\ bay \in Bays /\ 0 \in Slots /\ 1 \in Slots /\ bay[0] # NoDrive
    BY <1>1 DEF PagesInv, Typed, Whole, Ready, Slots
  <2> QED BY <2>1, BaysDiffer
<1>7. /\ \A d \in Drives, x \in Blocks : data'[d][x] = IF d = T /\ x = b THEN data[S][b] ELSE data[d][x]
      /\ \A d \in Drives, x \in Blocks : data[d][x] \in Nat /\ data'[d][x] \in Nat
      /\ \A x \in Blocks : acked[x] \in Nat
  BY <1>1, <1>5 DEF Typed
<1>8. CmdInv'
  <2>1. Now' = Now /\ Now \in Nat
    BY <1>1, NowIs DEF Now
  <2>2. \A x \in Blocks : acked[x] <= Now /\ \A d \in Drives : data[d][x] <= Now
    BY <1>1 DEF SkipInv, CmdInv
  <2>3. \A x \in Blocks : acked'[x] <= Now' /\ \A d \in Drives : data'[d][x] <= Now'
    BY <1>1, <1>5, <1>7, <2>1, <2>2
  <2> QED BY <1>1, <2>3 DEF CmdInv
<1>9. n.bay = bay /\ n.flash = flash /\ n.other = other /\ n.data = data' /\ n.acked = acked /\ n \in MediaType
  BY <1>1 DEF Media, MediaType, Typed
<1>10. Media.bay = bay /\ Media.flash = flash /\ Media.other = other /\ Media.data = data /\ Media.acked = acked
  BY DEF Media
<1> HIDE DEF n
<1>11. Carries(n, Media, {S, T})
  <2>1. ASSUME NEW x \in {S, T}, NEW t \in {S, T}, NEW z, Sync(Media, x, t, z) PROVE Sync(n, x, t, z)
    <3> SUFFICES ASSUME NEW y \in Blocks, y < z, data'[x][y] <= acked[y] PROVE data'[t][y] >= data'[x][y]
      BY <1>9 DEF Sync
    <3>1. CASE y = b
      <4>1. data'[x][y] = data[S][b] /\ data'[t][y] = data[S][b] /\ data[S][b] \in Nat
        BY <1>5, <1>7, <3>1
      <4> QED BY <4>1
    <3>2. CASE y # b
      <4>1. data'[x][y] = data[x][y] /\ data'[t][y] = data[t][y]
        BY <1>5, <1>7, <3>2
      <4> QED BY <1>10, <2>1, <4>1 DEF Sync
    <3> QED BY <3>1, <3>2
  <2>2. \A x, t \in {S, T} : \A z : Sync(Media, x, t, z) => Sync(n, x, t, z)
    BY <2>1
  <2> QED BY <1>9, <1>10, <2>2 DEF Carries
<1>12. Mirrored(ram, Media)
  BY <1>1, <1>4, <1>6, MirroredIs
<1>13. Good(n)
  <2>1. \A s \in Slots : Owner(Media.flash[s]) \in {S, T}
    <3>1. \A s \in Slots : Owner(Media.flash[s]) = bay[s]
      BY <1>1, <1>12 DEF Mirrored
    <3> QED BY <1>5, <3>1
  <2> QED BY <1>4, <1>11, <2>1, CarriesGood
<1>14. RamGood(ram, n)
  BY <1>1, <1>4, <1>11, CarriesRam
<1>15. ASSUME NEW y, Rested(y), y.io = ram.io, y.bay = ram.bay PROVE Ordered(y, n, n)
  BY <1>1, <1>4, <1>9, <1>13, <1>15, LeadsNowhere, PairedNone DEF Ordered
<1>16. \E k : Ordered(ram', n, k) /\ RamGood(ram', k)
  <2>1. CASE ram.inst
    <3>1. ram' = InstantDone(r, TRUE)
      BY <1>1, <2>1
    <3>2. RamGood(ram', n) /\ Rested(ram') /\ ram'.io = ram.io /\ ram'.bay = ram.bay
      <4>1. LET w == InstantDone(r, TRUE) IN RamGood(w, n) /\ Rested(w) /\ w.io = ram.io /\ w.bay = ram.bay
        BY <1>1, <1>2, <1>3, <1>14, <2>1, InstantDoneGood
      <4> QED BY <3>1, <4>1
    <3> QED BY <1>15, <3>2
  <2>2. CASE ~ram.inst
    <3>1. ram' = BlockDone(r)
      BY <1>1, <2>2
    <3>2. Calmed(r, ram)
      BY <1>1, <1>2, <2>2 DEF Calmed
    <3>3. RamGood(r, n)
      BY <1>14, <3>2, CalmGood
    <3>4. Runs1(r, n)
      <4>1. Mirrors(r) /\ MirrorPages(r)
        <5>1. Mirrors(r) /\ \A s \in Slots : Belongs(r, s) <=> Belongs(ram, s)
          BY <1>2, <1>3 DEF Mirrors, Belongs, Ready
        <5>2. ram.use \in Slots
          BY <1>1 DEF RamType
        <5>3. /\ \A s \in Slots : ram.rp[s].mode # "JBOD"
              /\ \A s \in Slots : ram.cur[s] \in {"GOOD", "REBUILDING"} => Belongs(ram, s)
              /\ ram.queue[0] \in {"GOOD", "REBUILDING"} => \A s \in Slots : Belongs(ram, s)
              /\ ram.queue[0] = "DEGRADED" => Belongs(ram, ram.use)
              /\ \A s \in Slots : Belongs(ram, s)
          BY <1>1, <1>3 DEF MirrorPages
        <5> QED BY <1>2, <5>1, <5>2, <5>3 DEF MirrorPages
      <4>2. r.map = [s \in Slots |-> s]
        BY <1>2, <1>4 DEF Runs1
      <4> QED BY <1>2, <3>3, <4>1, <4>2 DEF Runs1
    <3>5. Base(r, n, n)
      BY <1>2, <1>15 DEF Base
    <3>6. ram' \in RamType /\ MirrorPages(ram')
      BY DEF RaidInv, TypeInv, RamInv, PagesInv, RamPages
    <3>7. Sync(n, r.bay[r.src], r.bay[Across(r.src)], r.pos + 1)
      <4>1. Sync(n, S, T, ram.pos) /\ b = ram.pos
        BY <1>1, <1>14, <2>2 DEF RamGood, Copies
      <4>2. Sync(n, S, T, ram.pos + 1)
        <5> SUFFICES ASSUME NEW y \in Blocks, y < ram.pos + 1, data'[S][y] <= acked[y] PROVE data'[T][y] >= data'[S][y]
          BY <1>9 DEF Sync
        <5>1. CASE y = b
          <6>1. data'[S][y] = data[S][b] /\ data'[T][y] = data[S][b] /\ data[S][b] \in Nat
            BY <1>5, <1>7, <5>1
          <6> QED BY <6>1
        <5>2. CASE y # b
          <6>1. y < ram.pos
            BY <1>1, <4>1, <5>2 DEF Blocks, RamType
          <6> QED BY <1>9, <4>1, <6>1 DEF Sync
        <5> QED BY <5>1, <5>2
      <4> QED BY <1>1, <1>2, <4>2
    <3>8. r.bay[0] # r.bay[1]
      BY <1>1, <1>2, <1>6
    <3>9. Rested(r) /\ r.mirror /\ ~r.inst
      BY <1>2, <2>2
    <3> HIDE DEF S, T, b
    <3> QED BY <1>9, <1>13, <3>1, <3>4, <3>5, <3>6, <3>7, <3>8, <3>9, BlockDoneGood
  <2> QED BY <2>1, <2>2
<1>17. PICK k : Ordered(ram', n, k) /\ RamGood(ram', k)
  BY <1>16
<1>18. Ordered(ram', Media', k)
  BY <1>17 DEF n
<1> QED BY <1>8, <1>17, <1>18, MovedSkips

----------------------------------------------------------------------------
(* chk_rb_done, the step, and the theorems for any number of power cuts.   *)

\* A mirror as configured.
LEMMA InitSkips == ASSUME Init PROVE SkipInv
<1>1. /\ flash = [s \in Slots |-> OwnPage(s)] /\ ram = InitRam /\ cmd = NoCmd /\ ~on /\ left = Budget
      /\ acked = [b \in Blocks |-> 1] /\ data = [d \in Drives |-> [b \in Blocks |-> IF d \in {Own[0], Own[1]} THEN 1 ELSE 0]]
  BY DEF Init
<1>2. \A s, t \in Slots : flash[s].status[t] = "GOOD" /\ flash[s].disk_num = s
  BY <1>1 DEF OwnPage
<1>3. Stated(flash) /\ Behind(flash) /\ Still(flash)
  <2>1. \A s \in Slots : Across(s) \in Slots
    BY DEF Slots, Across
  <2> QED BY <1>2, <2>1 DEF Stated, Behind, Still, Resumes
<1>4. Good(Media)
  <2>1. Media.flash = flash
    BY DEF Media
  <2> QED BY <1>3, <2>1, StillGood
<1>5. ram.io = << >>
  BY <1>1 DEF InitRam
<1>6. Safe(Media, ram.io)
  BY <1>4, <1>5, LeadsNowhere DEF Leads
<1>7. CmdInv
  <2>1. Budget["write"] \in Nat
    BY ArrayAssumption DEF Events
  <2>2. Now = 1
    BY <1>1, <2>1 DEF Now
  <2> QED BY <1>1, <2>2 DEF CmdInv
<1>8. PairInv
  BY <1>5, PairedNone DEF PairInv
<1> QED BY <1>1, <1>6, <1>7, <1>8 DEF SkipInv

\* chk_rb_done keeps SkipInv.
LEMMA ChkRbDoneSkips ==
  ASSUME RaidInv, PagesInv, RaidInv', PagesInv', FixedBays, SkipInv, chk_rb_done PROVE SkipInv'
<1> DEFINE r == [ram EXCEPT !.busy = FALSE]
<1>1. CopyDone(r) \/ CopyFails(r) \/ CopyTimesOut(r)
  BY DEF chk_rb_done
<1> QED BY <1>1, CopyDoneSkips, CopyFailsSkips

\* So does each step of the firmware.
LEMMA FirmwareSkips ==
  ASSUME RaidInv, PagesInv, RaidInv', PagesInv', FixedBays, SkipInv, WritesPaged, Firmware PROVE SkipInv'
<1>1. \/ PowerOn \/ ReEnumerate \/ IoStep \/ WriteDone \/ initiate_rb_IO \/ chk_rb_done
      \/ \E s \in Slots : DiskWrite(s)
  BY DEF Firmware, usb_chk
<1> QED BY <1>1, PowerOnSkips, ReEnumerateSkips, IoStepSkips, WriteDoneSkips, InitiateSkips, ChkRbDoneSkips, DiskWriteSkips

\* So does each step, when no cut tears the last copy of a check point.
LEMMA NextSkips ==
  ASSUME RaidInv, PagesInv, RaidInv', PagesInv', FixedBays, SkipInv, WritesPaged, [Next]_vars, [LastCopyKept]_vars
  PROVE SkipInv'
<1>1. CASE UNCHANGED vars
  <2>1. CmdInv'
    BY <1>1 DEF vars, SkipInv, CmdInv, Now, Idle
  <2> QED BY <1>1, <2>1, QuietSkips DEF vars
<1>2. CASE Firmware
  BY <1>2, FirmwareSkips
<1>3. CASE PowerCut
  <2>1. vars' # vars
    BY <1>3 DEF PowerCut, vars
  <2> QED BY <1>3, <2>1, PowerCutSkips
<1>4. CASE \E l \in Slots, b \in Blocks : HostWrite(l, b)
  BY <1>4, HostWriteSkips
<1>5. CASE \E s \in Slots, b \in Blocks : ReadFails(s, b)
  BY <1>5, ReadFailsSkips
<1> QED BY <1>1, <1>2, <1>3, <1>4, <1>5, ChangeDrivesSkips, HotPlugSkips, MoveSwitchSkips, ConfigButtonSkips, RebuildCommandSkips DEF Next

\* SkipInv says that nothing is skipped.
LEMMA SkipsNothing == ASSUME RaidInv, SkipInv PROVE NothingSkipped
<1> SUFFICES ASSUME Serving(0), ram.mirror, ~ram.inst, bay = ram.bay
             PROVE Sync(Media, ram.bay[ram.src], ram.bay[Across(ram.src)], ram.pos)
  BY DEF NothingSkipped, Sync, Media
<1>1. RamGood(ram, Media)
  BY IdleOrdered DEF Serving
<1> QED BY <1>1 DEF RamGood, Copies

\* With automatic rebuild a mirror that writes has stored pages of both
\* drives.
LEMMA AutoPaged == ASSUME RaidInv, PagesInv, SkipInv, AutoRebuild PROVE WritesPaged
<1> SUFFICES ASSUME cmd # NoCmd, ram.mode = "RAID1", NEW s \in Slots PROVE Owner(flash[s]) = bay[s]
  BY DEF WritesPaged
<1>1. Idle /\ Mirrors(ram) /\ MirrorPages(ram)
  BY DEF SkipInv, CmdInv, PagesInv, RamPages
<1>2. RamGood(ram, Media) /\ ram.bay = bay /\ ram \in RamType
  BY <1>1, IdleOrdered
<1>3. Both(ram)
  BY <1>1, <1>2, AutoBoth DEF RamGood
<1> QED BY <1>2, <1>3 DEF Both, RamGood, PagesStored, Media

\* No rebuild of a mirror skips a block that the host was told is written
\* (raid_rebuild, raid.c:3376, and raid1_resume_rebuild, raid.c:945), however
\* often the power fails, drives fail or are exchanged, and for every size and
\* check-point distance: as long as no cut tears the last readable copy of a
\* check point, and a mirror writes to drives it has stored pages for.
THEOREM NothingSkippedHolds ==
  ASSUME FixedBays PROVE Spec /\ [][LastCopyKept]_vars /\ []WritesPaged => []NothingSkipped
<1>1. Init => SkipInv
  BY InitSkips
<1>2. /\ RaidInv /\ PagesInv /\ RaidInv' /\ PagesInv' /\ SkipInv /\ WritesPaged /\ [Next]_vars /\ [LastCopyKept]_vars
      => SkipInv'
  BY NextSkips
<1>3. RaidInv /\ SkipInv => NothingSkipped
  BY SkipsNothing
<1> QED BY <1>1, <1>2, <1>3, RaidInvHolds, PagesInvHolds, PTL DEF Spec

\* With automatic rebuild the second condition always holds.
THEOREM AutoSkipsNothing ==
  ASSUME FixedBays, AutoRebuild PROVE Spec /\ [][LastCopyKept]_vars => []NothingSkipped
<1>1. Init => SkipInv
  BY InitSkips
<1>2. /\ RaidInv /\ PagesInv /\ RaidInv' /\ PagesInv' /\ SkipInv /\ [Next]_vars /\ [LastCopyKept]_vars
      => SkipInv'
  BY NextSkips, AutoPaged
<1>3. RaidInv /\ SkipInv => NothingSkipped
  BY SkipsNothing
<1> QED BY <1>1, <1>2, <1>3, RaidInvHolds, PagesInvHolds, PTL DEF Spec

----------------------------------------------------------------------------
(* At most one power cut: both copies of a check point can be read, or     *)
(* neither, until it comes (EvenInv).                                      *)

\* A mirror as configured has both copies of the check point of each of its
\* drives.
LEMMA EvenInit == ASSUME Init PROVE EvenInv
<1>1. /\ other = [d \in Drives |-> [c \in 1..2 |-> IF d \in {Own[0], Own[1]} THEN Step ELSE Bad]] /\ left = Budget
  BY DEF Init
<1>2. Budget["cut"] \in Nat
  BY ArrayAssumption DEF Events
<1>3. \A d \in Drives : other[d][1] = other[d][2]
  BY <1>1
<1> QED BY <1>1, <1>2, <1>3 DEF EvenInv

\* Only a power cut counts as one.
LEMMA CutsCounted ==
  ASSUME RaidInv, [Next]_vars
  PROVE /\ left["cut"] \in Nat /\ Budget["cut"] \in Nat /\ left'["cut"] \in Int
        /\ IF PowerCut THEN left'["cut"] = left["cut"] - 1 ELSE left'["cut"] = left["cut"]
<1>1. left \in [Events -> Nat] /\ "cut" \in Events /\ Budget["cut"] \in Nat
  BY ArrayAssumption DEF RaidInv, TypeInv, Typed, Events
<1>2. \A e \in Events \ {"cut", "any"} : Happens(e) => left'["cut"] = left["cut"]
  BY <1>1 DEF Happens, Events
<1>3. Happens("cut") => left'["cut"] = left["cut"] - 1
  BY <1>1 DEF Happens, Events
<1>4. {"plug", "switch", "write", "fail", "rebuild", "timeout"} \subseteq Events \ {"cut", "any"}
  BY DEF Events
<1>5. CASE PowerCut
  BY <1>1, <1>3, <1>5 DEF PowerCut
<1>6. CASE ~PowerCut
  <2> SUFFICES left'["cut"] = left["cut"]
    BY <1>1, <1>6
  <2>1. CASE UNCHANGED vars
    BY <2>1 DEF vars
  <2>2. CASE Firmware
    <3>1. CASE PowerOn \/ ReEnumerate \/ IoStep
      BY <3>1 DEF PowerOn, ReEnumerate, IoStep
    <3>2. CASE usb_chk
      <4>1. CASE WriteDone \/ initiate_rb_IO
        BY <4>1 DEF WriteDone, initiate_rb_IO
      <4>2. CASE chk_rb_done
        <5>1. UNCHANGED left \/ Happens("fail") \/ Happens("timeout")
          BY <4>2 DEF chk_rb_done, CopyDone, CopyFails, CopyTimesOut
        <5> QED BY <1>2, <1>4, <5>1
      <4> QED BY <3>2, <4>1, <4>2 DEF usb_chk
    <3>3. CASE \E s \in Slots : DiskWrite(s)
      BY <1>2, <1>4, <3>3 DEF DiskWrite
    <3> QED BY <2>2, <3>1, <3>2, <3>3 DEF Firmware
  <2>3. CASE ChangeDrives \/ HotPlug \/ MoveSwitch \/ ConfigButton
    BY <1>2, <1>4, <2>3 DEF ChangeDrives, HotPlug, MoveSwitch, ConfigButton
  <2>4. CASE \E l \in Slots, b \in Blocks : HostWrite(l, b)
    BY <1>2, <1>4, <2>4 DEF HostWrite
  <2>5. CASE \E s \in Slots, b \in Blocks : ReadFails(s, b)
    BY <1>2, <1>4, <2>5 DEF ReadFails
  <2>6. CASE RebuildCommand
    BY <1>2, <1>4, <2>6 DEF RebuildCommand
  <2> QED BY <1>6, <2>1, <2>2, <2>3, <2>4, <2>5, <2>6 DEF Next
<1> QED BY <1>5, <1>6

\* Only IoStep and a power cut write a check point.
LEMMA OthersStay ==
  ASSUME RaidInv, PagesInv, [Next]_vars, ~PowerCut, ~IoStep
  PROVE other' = other /\ (ram.io = << >> \/ (ram' = ram /\ bay' = bay))
<1>1. CASE UNCHANGED vars
  BY <1>1 DEF vars
<1>2. CASE Firmware
  <2>1. CASE PowerOn
    BY <2>1, InitRamPages DEF PowerOn, PagesInv, media
  <2>2. CASE ReEnumerate
    BY <2>2 DEF ReEnumerate, media
  <2>3. CASE WriteDone
    BY <2>3 DEF WriteDone, PagesInv
  <2>4. CASE initiate_rb_IO
    BY <2>4 DEF initiate_rb_IO, RebuildMayStart, Idle, media
  <2>5. CASE chk_rb_done
    BY <2>5 DEF chk_rb_done, Idle
  <2>6. CASE \E s \in Slots : DiskWrite(s)
    BY <2>6 DEF DiskWrite
  <2> QED BY <1>2, <2>1, <2>2, <2>3, <2>4, <2>5, <2>6 DEF Firmware, usb_chk
<1>3. CASE ChangeDrives
  BY <1>3, InitRamPages DEF ChangeDrives, PagesInv
<1>4. CASE HotPlug
  BY <1>4 DEF HotPlug
<1>5. CASE MoveSwitch
  BY <1>5 DEF MoveSwitch
<1>6. CASE ConfigButton
  BY <1>6 DEF ConfigButton, Idle
<1>7. CASE \E l \in Slots, b \in Blocks : HostWrite(l, b)
  BY <1>7 DEF HostWrite, media
<1>8. CASE \E s \in Slots, b \in Blocks : ReadFails(s, b)
  BY <1>8 DEF ReadFails, Serving, Idle, media
<1>9. CASE RebuildCommand
  BY <1>9 DEF RebuildCommand, Serving, Idle, media
<1> QED BY <1>1, <1>2, <1>3, <1>4, <1>5, <1>6, <1>7, <1>8, <1>9 DEF Next

\* The check point that IoStep writes.
LEMMA IoStepWrites ==
  ASSUME RaidInv, IoStep
  PROVE LET o == Head(ram.io)
        IN /\ bay' = bay /\ left' = left
           /\ IF o.op = "other"
              THEN /\ o.at \in Slots /\ o.copy \in 1..2 /\ o.cp # Bad /\ ram'.io = Tail(ram.io)
                   /\ \A d \in Drives, c \in 1..2 :
                        other'[d][c] = IF d = bay[o.at] /\ c = o.copy THEN o.cp ELSE other[d][c]
              ELSE other' = other
<1> DEFINE o == Head(ram.io)
<1>1. ram \in RamType /\ o \in Orders /\ other \in [Drives -> [1..2 -> Nat \cup {Bad}]]
  <2>1. ram \in RamType /\ ram.io \in Seq(Orders) /\ ram.io # << >>
    BY DEF RaidInv, TypeInv, RamInv, RamType, IoStep
  <2> QED BY <2>1, TailIs DEF RaidInv, TypeInv, Typed
<1>2. CASE o.op = "other"
  <2>1. o.at \in Slots /\ o.copy \in 1..2 /\ o.cp # Bad
    BY <1>1, <1>2 DEF Orders, Bad
  <2>2. ram'.io = Tail(ram.io)
    BY <1>1, <1>2 DEF IoStep, RamType
  <2>3. other' = [other EXCEPT ![bay[o.at]][o.copy] = o.cp] /\ bay' = bay /\ left' = left
    BY <1>2 DEF IoStep
  <2> HIDE DEF o
  <2>4. \A d \in Drives, c \in 1..2 :
          other'[d][c] = IF d = bay[o.at] /\ c = o.copy THEN o.cp ELSE other[d][c]
    BY <1>1, <2>1, <2>3
  <2> QED BY <1>2, <2>1, <2>2, <2>3, <2>4 DEF o
<1>3. CASE o.op # "other"
  BY <1>3 DEF IoStep
<1> QED BY <1>2, <1>3

\* The first copy written, the second one is next; the second one written,
\* both can be read.
LEMMA IoStepEven ==
  ASSUME RaidInv, PairInv, IoStep, EvenInv PROVE EvenInv'
<1> DEFINE o == Head(ram.io)
           e == bay[o.at]
           Even(d) == other[d][1] = Bad <=> other[d][2] = Bad
<1>1. bay' = bay /\ left' = left /\ ram.io # << >> /\ ram.io \in Seq(Orders)
  BY IoStepWrites DEF IoStep, RaidInv, TypeInv, RamInv, RamType
<1> SUFFICES ASSUME left["cut"] = Budget["cut"], NEW d \in Drives
             PROVE (other[d][1] = Bad <=> other[d][2] = Bad)' \/ (other'[d][1] # Bad /\ \E s \in Slots : Between(s)' /\ bay'[s] = d)
  BY <1>1 DEF EvenInv
<1>2. Even(d) \/ (other[d][1] # Bad /\ \E s \in Slots : Between(s) /\ bay[s] = d)
  BY DEF EvenInv
<1>3. CASE o.op # "other"
  <2>1. other' = other
    BY <1>3, IoStepWrites
  <2>2. \A s \in Slots : ~Between(s)
    BY <1>3 DEF Between
  <2> QED BY <1>2, <2>1, <2>2
<1>4. CASE o.op = "other"
  <2>1. /\ o.at \in Slots /\ o.copy \in 1..2 /\ o.cp # Bad /\ ram'.io = Tail(ram.io)
        /\ \A c \in 1..2 : other'[d][c] = IF d = e /\ c = o.copy THEN o.cp ELSE other[d][c]
    BY <1>4, IoStepWrites
  <2>2. CASE Paired(ram.io)
    <3>1. /\ o.copy = 1 /\ Tail(ram.io) # << >>
          /\ Head(Tail(ram.io)).op = "other" /\ Head(Tail(ram.io)).at = o.at /\ Head(Tail(ram.io)).copy = 2
      BY <1>1, <1>4, <2>2, PairedTail
    <3>2. Even(d)
      BY <1>2, <3>1 DEF Between
    <3>3. PICK s \in Slots : s = o.at
      BY <2>1
    <3>4. Between(s)'
      BY <2>1, <3>1, <3>3 DEF Between
    <3>5. CASE d = e
      <4>1. other'[d][1] # Bad /\ bay'[s] = d
        BY <1>1, <2>1, <3>1, <3>3, <3>5
      <4> QED BY <3>4, <4>1
    <3>6. CASE d # e
      BY <2>1, <3>2, <3>6
    <3> QED BY <3>5, <3>6
  <2>3. CASE ~Paired(ram.io)
    <3>1. o.copy = 2 /\ (e \in Drives => other[e][1] # Bad)
      BY <2>3 DEF PairInv, Between
    <3>2. d # e => Even(d)
      BY <1>2 DEF Between
    <3> HIDE DEF o
    <3> QED BY <2>1, <3>1, <3>2
  <2> QED BY <2>2, <2>3
<1> QED BY <1>3, <1>4

\* EvenInv holds as long as SkipInv does.
LEMMA EvenStep ==
  ASSUME RaidInv, PagesInv, [Next]_vars, left["cut"] = Budget["cut"] => PairInv, EvenInv PROVE EvenInv'
<1>1. /\ left["cut"] \in Nat /\ Budget["cut"] \in Nat /\ left'["cut"] \in Int
      /\ IF PowerCut THEN left'["cut"] = left["cut"] - 1 ELSE left'["cut"] = left["cut"]
  BY CutsCounted
<1>2. left'["cut"] <= Budget["cut"]
  BY <1>1 DEF EvenInv
<1> SUFFICES ASSUME left'["cut"] = Budget["cut"] PROVE EvenInv'
  BY <1>2 DEF EvenInv
<1>3. ~PowerCut /\ left["cut"] = Budget["cut"]
  BY <1>1 DEF EvenInv
<1>4. CASE IoStep
  BY <1>3, <1>4, IoStepEven
<1>5. CASE ~IoStep
  <2>1. other' = other /\ (ram.io = << >> \/ (ram' = ram /\ bay' = bay))
    BY <1>3, <1>5, OthersStay
  <2>2. \A s \in Slots : Between(s) => Between(s)' /\ bay'[s] = bay[s]
    BY <2>1 DEF Between
  <2>3. \A d \in Drives : \/ (other[d][1] = Bad <=> other[d][2] = Bad)
                          \/ other[d][1] # Bad /\ \E s \in Slots : Between(s) /\ bay[s] = d
    BY <1>3 DEF EvenInv
  <2>4. \A d \in Drives : \/ (other'[d][1] = Bad <=> other'[d][2] = Bad)
                          \/ other'[d][1] # Bad /\ \E s \in Slots : Between(s)' /\ bay'[s] = d
    BY <2>1, <2>2, <2>3
  <2> QED BY <1>2, <2>4 DEF EvenInv
<1> QED BY <1>4, <1>5

\* The first power cut tears no last copy of a check point.
LEMMA FirstCutKeeps ==
  ASSUME RaidInv, PairInv, EvenInv, PowerCut, left["cut"] = Budget["cut"] PROVE LastCopyKept
<1> DEFINE o == Head(ram.io)
           e == bay[o.at]
<1>1. other \in [Drives -> [1..2 -> Nat \cup {Bad}]] /\ ram.io \in Seq(Orders)
  BY DEF RaidInv, TypeInv, Typed, RamInv, RamType
<1>2. CASE other' = other
  BY <1>2 DEF LastCopyKept
<1>3. CASE Writing("other") /\ other' = [other EXCEPT ![e][o.copy] = Bad]
  <2>1. ram.io # << >> /\ o.op = "other"
    BY <1>3 DEF Writing
  <2>2. o \in Orders
    BY <1>1, <2>1, TailIs
  <2>3. o.at \in Slots /\ o.copy \in 1..2
    BY <2>1, <2>2 DEF Orders
  <2>4. \A d \in Drives, c \in 1..2 : other'[d][c] = IF d = e /\ c = o.copy THEN Bad ELSE other[d][c]
    <3>1. other' = [other EXCEPT ![e][o.copy] = Bad]
      BY <1>3
    <3> HIDE DEF o, e
    <3> QED BY <1>1, <2>3, <3>1
  <2> SUFFICES ASSUME NEW d \in Drives, \E c \in 1..2 : other[d][c] # Bad PROVE \E c \in 1..2 : other'[d][c] # Bad
    BY DEF LastCopyKept
  <2>5. CASE d # e
    BY <2>4, <2>5
  <2>6. CASE d = e
    <3>1. CASE Paired(ram.io)
      <4>1. o.copy = 1
        BY <1>1, <2>1, <3>1, PairedTail
      <4>2. other[d][1] = Bad <=> other[d][2] = Bad
        BY <4>1 DEF EvenInv, Between
      <4>3. other[d][2] # Bad
        BY <4>2
      <4> QED BY <2>4, <4>1, <4>3
    <3>2. CASE ~Paired(ram.io)
      <4>1. o.copy = 2 /\ o.at \in Slots /\ (e \in Drives => other[e][1] # Bad)
        BY <3>2 DEF PairInv, Between
      <4> HIDE DEF e, o
      <4> QED BY <2>4, <2>6, <4>1
    <3> QED BY <3>1, <3>2
  <2> QED BY <2>5, <2>6
<1> QED BY <1>2, <1>3 DEF PowerCut

\* No other step tears one.
LEMMA NoCutKeeps ==
  ASSUME RaidInv, PagesInv, [Next]_vars, ~PowerCut PROVE LastCopyKept
<1>1. CASE IoStep
  <2> DEFINE o == Head(ram.io)
  <2>1. CASE o.op = "other"
    <3>1. /\ o.copy \in 1..2 /\ o.cp # Bad
          /\ \A d \in Drives, c \in 1..2 : other'[d][c] = IF d = bay[o.at] /\ c = o.copy THEN o.cp ELSE other[d][c]
      BY <1>1, <2>1, IoStepWrites
    <3> QED BY <3>1 DEF LastCopyKept
  <2>2. CASE o.op # "other"
    BY <1>1, <2>2, IoStepWrites DEF LastCopyKept
  <2> QED BY <2>1, <2>2
<1>2. CASE ~IoStep
  BY <1>2, OthersStay DEF LastCopyKept
<1> QED BY <1>1, <1>2

\* A step after which there was at most one power cut.
LEMMA OneCutStep ==
  ASSUME RaidInv, PagesInv, RaidInv', PagesInv', FixedBays, EvenInv, SkipInvOneCut, SkipInv => WritesPaged, [Next]_vars
  PROVE SkipInvOneCut'
<1> SUFFICES ASSUME Budget["cut"] - left'["cut"] <= 1 PROVE SkipInv'
  BY DEF SkipInvOneCut
<1>1. /\ left["cut"] \in Nat /\ Budget["cut"] \in Nat /\ left'["cut"] \in Int
      /\ IF PowerCut THEN left'["cut"] = left["cut"] - 1 ELSE left'["cut"] = left["cut"]
  BY CutsCounted
<1>2. SkipInv
  <2>1. Budget["cut"] - left["cut"] <= 1
    BY <1>1
  <2> QED BY <2>1 DEF SkipInvOneCut
<1>3. LastCopyKept
  <2>1. CASE PowerCut
    <3>1. left["cut"] = Budget["cut"]
      BY <1>1, <2>1 DEF EvenInv
    <3> QED BY <1>2, <2>1, <3>1, FirstCutKeeps DEF SkipInv
  <2>2. CASE ~PowerCut
    BY <2>2, NoCutKeeps
  <2> QED BY <2>1, <2>2
<1> QED BY <1>2, <1>3, NextSkips

\* A mirror as configured.
LEMMA OneCutInit == ASSUME Init PROVE SkipInvOneCut
BY InitSkips DEF SkipInvOneCut

\* Before the first power cut the check points are written in pairs.
LEMMA OneCutPairs == ASSUME SkipInvOneCut PROVE left["cut"] = Budget["cut"] => PairInv
<1> SUFFICES ASSUME left["cut"] = Budget["cut"] PROVE PairInv
  OBVIOUS
<1>1. Budget["cut"] \in Nat
  BY ArrayAssumption DEF Events
<1>2. Budget["cut"] - left["cut"] <= 1
  BY <1>1
<1> QED BY <1>2 DEF SkipInvOneCut, SkipInv

\* With at most one power cut nothing that a later start can resume skips a
\* block (raid1_resume_rebuild, raid.c:945): SkipInv holds, as the first cut
\* tears no last copy of a check point (Write_Disk_MetaData, raid.c:1674), as
\* long as a mirror writes to drives it has stored pages for.
THEOREM OneCutHolds ==
  ASSUME FixedBays PROVE Spec /\ []WritesPaged => []SkipInvOneCut
<1>1. Init => EvenInv /\ SkipInvOneCut
  BY EvenInit, OneCutInit
<1>2. /\ RaidInv /\ PagesInv /\ RaidInv' /\ PagesInv' /\ EvenInv /\ SkipInvOneCut /\ WritesPaged /\ [Next]_vars
      => EvenInv' /\ SkipInvOneCut'
  BY EvenStep, OneCutPairs, OneCutStep
<1> QED BY <1>1, <1>2, RaidInvHolds, PagesInvHolds, PTL DEF Spec

\* With automatic rebuild a mirror always does: then no rebuild skips a block
\* that the host was told is written (raid_rebuild, raid.c:3376) while there
\* was at most one power cut.
THEOREM AutoOneCut ==
  ASSUME FixedBays, AutoRebuild
  PROVE Spec => []SkipInvOneCut /\ [](Budget["cut"] - left["cut"] <= 1 => NothingSkipped)
<1>1. Init => EvenInv /\ SkipInvOneCut
  BY EvenInit, OneCutInit
<1>2. /\ RaidInv /\ PagesInv /\ RaidInv' /\ PagesInv' /\ EvenInv /\ SkipInvOneCut /\ [Next]_vars
      => EvenInv' /\ SkipInvOneCut'
  <2> SUFFICES ASSUME RaidInv, PagesInv, RaidInv', PagesInv', EvenInv, SkipInvOneCut, [Next]_vars
               PROVE EvenInv' /\ SkipInvOneCut'
    OBVIOUS
  <2>1. SkipInv => WritesPaged
    BY AutoPaged
  <2> QED BY <2>1, EvenStep, OneCutPairs, OneCutStep
<1>3. RaidInv /\ SkipInvOneCut => (Budget["cut"] - left["cut"] <= 1 => NothingSkipped)
  BY SkipsNothing DEF SkipInvOneCut
<1> QED BY <1>1, <1>2, <1>3, RaidInvHolds, PagesInvHolds, PTL DEF Spec
=============================================================================
