---------------------------- MODULE UsbSegProofs ----------------------------
(***************************************************************************)
(* The segments of the data buffers.  First the connections of dbuf.c and  *)
(* dbuf_obj.c, for every state of the segments.  Then the segments of the  *)
(* bulk-only transport: what the operators of Dbuf do to the segments of a *)
(* command and of an IDENTIFY DEVICE, and how each such step keeps SegInv, *)
(* the part of the invariant about the segments.                           *)
(***************************************************************************)
EXTENDS UsbInvariant, TLAPS

Segment == [in : Ports, out : Ports, busy : BOOLEAN, full : BOOLEAN]

\* Segments with the same fields are the same.
LEMMA SameSegment ==
  ASSUME NEW x \in Segment, NEW y \in Segment,
         x.in = y.in, x.out = y.out, x.busy = y.busy, x.full = y.full
  PROVE x = y
BY DEF Segment

\* Joining a segment sets its ports and fills it.
LEMMA JoinedIs ==
  ASSUME NEW x \in Segment, NEW j, j.in \in Ports, j.out \in Ports
  PROVE /\ Joined(x, j) \in Segment
        /\ Joined(x, j).in = j.in /\ Joined(x, j).out = j.out
        /\ Joined(x, j).busy = x.busy /\ Joined(x, j).full
BY DEF Joined, Segment

\* Marking a joined segment as busy changes nothing else of it.
LEMMA BusyIs ==
  ASSUME NEW x \in Segment, NEW j, j.in \in Ports, j.out \in Ports,
         NEW y, y = [Joined(x, j) EXCEPT !.busy = TRUE]
  PROVE y \in Segment /\ y.in = j.in /\ y.out = j.out /\ y.busy /\ y.full
<1> DEFINE z == Joined(x, j)
<1>1. z \in Segment /\ z.in = j.in /\ z.out = j.out /\ z.full
  BY JoinedIs
<1> HIDE DEF z
<1> QED BY <1>1 DEF Segment, z

\* Joins picks a route of the index that ends in the segment.
LEMMA JoinsIs ==
  ASSUME NEW i, NEW s \in SegsOf(i)
  PROVE Joins(i, s) \in Route(i) /\ Joins(i, s).seg = s
<1>1. \E r \in Route(i) : r.seg = s
  BY DEF SegsOf
<1> QED BY <1>1 DEF Joins

\* A route is a segment and its two ports.
Shaped(r) == r = [seg |-> r.seg, in |-> r.in, out |-> r.out] /\ r.in \in Ports /\ r.out \in Ports

LEMMA RouteShape ==
  ASSUME NEW i \in Index, NEW r \in Route(i)
  PROVE Shaped(r)
<1>1. i.use \in Uses
  BY DEF Index
<1>2. \A n : \A a \in Ports, b \in Ports : Shaped(Tx(n, a, b)) /\ Shaped(Rx(n, a, b))
  BY DEF Tx, Rx, Shaped
<1>3. Sata(i.ch) \in Ports /\ Sata(1 - i.ch) \in Ports
  BY DEF Sata, Ports
<1>4. CASE i.use \in {"U2SR", "U2SW"}
  <2>1. r \in HostRoute(i)
    BY <1>4 DEF Route, Copies
  <2>2. CASE i.use = "U2SR"
    BY <1>2, <1>3, <2>1, <2>2 DEF HostRoute, Ports
  <2>3. CASE i.use = "U2SW"
    BY <1>2, <1>3, <2>1, <2>3 DEF HostRoute, Ports
  <2> QED BY <1>4, <2>2, <2>3
<1>5. CASE i.use \in {"RAIDR", "RAIDW"}
  <2>1. r \in RaidRoute(i)
    BY <1>5 DEF Route, Copies
  <2> QED BY <1>2, <1>5, <2>1 DEF RaidRoute, Ports
<1>6. CASE i.use \in Copies
  <2>1. r \in CopyRoute(i)
    BY <1>6 DEF Route, Copies
  <2> QED BY <1>2, <1>3, <1>6, <2>1 DEF CopyRoute, Copies, Ports
<1>7. CASE i.use \in {"B2SR", "B2SR2", "B2SW", "U2BR", "U2BW"}
  <2>1. r \in CpuRoute(i)
    BY <1>7 DEF Route, Copies
  <2> QED BY <1>2, <1>3, <1>7, <2>1 DEF CpuRoute, Ports
<1> QED BY <1>1, <1>4, <1>5, <1>6, <1>7 DEF Uses, Reads, Writes

\* Joining the host to a read later, once its turn has come, gives the same
\* connection as joining both sides at once: set_dbufSource with
\* keep_sourceDbufConnection is set_dbufConnection.
THEOREM ReadInTwoSteps ==
  ASSUME NEW d \in Segments, NEW i \in Index, i.use \in {"U2SR", "U2BR"}
  PROVE keep_sourceDbufConnection(set_dbufSource(d, i), i) = set_dbufConnection(d, i)
<1> DEFINE half == set_dbufSource(d, i)
           both == keep_sourceDbufConnection(half, i)
           once == set_dbufConnection(d, i)
<1>1. Marked(i) = SegsOf(i) /\ i.use # "RAIDR"
  BY DEF Marked
<1>2. \A r \in Route(i) : ~Feeds(r)
  BY DEF Route, HostRoute, CpuRoute, Copies, Tx, Rx, Feeds, Index
<1>3. ASSUME NEW s \in SegsOf(i)
      PROVE /\ ~Feeds(Joins(i, s)) /\ Joins(i, s).in \in Ports /\ Joins(i, s).out \in Ports
            /\ Joins(i, s) = [seg |-> s, in |-> Joins(i, s).in, out |-> Joins(i, s).out]
  BY <1>2, JoinsIs, RouteShape DEF Shaped
<1>4. ASSUME NEW s \in Segs PROVE both[s] = once[s]
  <2>1. d[s] \in Segment /\ d[s].busy \in BOOLEAN
    BY DEF Segments, Segment
  <2>2. CASE s \notin SegsOf(i)
    <3>1. half[s] = d[s] /\ both[s] = half[s]
      BY <1>1, <2>2 DEF set_dbufSource, keep_sourceDbufConnection, Entry
    <3>2. once[s] = [d[s] EXCEPT !.busy = d[s].busy \/ FALSE]
      BY <1>1, <2>2 DEF set_dbufConnection
    <3>3. once[s] \in Segment /\ once[s].in = d[s].in /\ once[s].out = d[s].out
          /\ once[s].busy = d[s].busy /\ once[s].full = d[s].full
      BY <2>1, <3>2 DEF Segment
    <3> QED BY <2>1, <3>1, <3>3, SameSegment
  <2>3. CASE s \in SegsOf(i)
    <3> DEFINE j == Joins(i, s)
    <3>1. once[s] \in Segment /\ once[s].in = j.in /\ once[s].out = j.out /\ once[s].busy /\ once[s].full
      <4>1. once[s] = [Joined(d[s], j) EXCEPT !.busy = TRUE]
        BY <1>1, <2>3 DEF set_dbufConnection
      <4> QED BY <1>3, <2>1, <2>3, <4>1, BusyIs
    <3>2. CASE s \in Entry(i)
      <4> DEFINE k == [j EXCEPT !.out = None]
                 h == [Joined(d[s], k) EXCEPT !.busy = TRUE]
      <4>1. k.in = j.in /\ k.out = None /\ None \in Ports
        <5>1. k = [seg |-> s, in |-> j.in, out |-> None]
          BY <1>3, <2>3
        <5> QED BY <5>1 DEF Ports
      <4>2. half[s] = h
        BY <1>1, <1>3, <2>3, <3>2 DEF set_dbufSource
      <4> HIDE DEF k
      <4>3. h \in Segment /\ h.in = j.in /\ h.busy /\ h.full
        <5>1. k.in \in Ports /\ k.out \in Ports
          BY <1>3, <2>3, <4>1
        <5>2. h = [Joined(d[s], k) EXCEPT !.busy = TRUE]
          OBVIOUS
        <5> HIDE DEF h
        <5>3. h \in Segment /\ h.in = k.in /\ h.busy /\ h.full
          BY <2>1, <5>1, <5>2, BusyIs
        <5> QED BY <4>1, <5>3
      <4> HIDE DEF h
      <4>4. both[s] = [h EXCEPT !.out = j.out, !.busy = h.busy \/ TRUE]
        BY <1>1, <1>3, <2>3, <3>2, <4>2 DEF keep_sourceDbufConnection
      <4>5. both[s] \in Segment /\ both[s].in = j.in /\ both[s].out = j.out /\ both[s].busy /\ both[s].full
        BY <1>3, <2>3, <4>3, <4>4 DEF Segment
      <4> QED BY <3>1, <4>5, SameSegment
    <3>3. CASE s \notin Entry(i)
      <4>1. half[s] = d[s]
        BY <1>1, <3>3 DEF set_dbufSource
      <4>2. both[s] = [Joined(d[s], j) EXCEPT !.busy = TRUE]
        BY <1>1, <1>3, <2>3, <3>3, <4>1 DEF keep_sourceDbufConnection
      <4>3. both[s] \in Segment /\ both[s].in = j.in /\ both[s].out = j.out /\ both[s].busy /\ both[s].full
        BY <1>3, <2>1, <2>3, <4>2, BusyIs
      <4> QED BY <3>1, <4>3, SameSegment
    <3> QED BY <3>2, <3>3
  <2> QED BY <2>2, <2>3
<1>5. both = [s \in Segs |-> both[s]] /\ once = [s \in Segs |-> once[s]]
  BY DEF keep_sourceDbufConnection, set_dbufConnection
<1> QED BY <1>4, <1>5

\* The segments a command has joined come back as they were, whatever the use,
\* but for the copies of a rebuild and the RAID engine: set_dbufConnection,
\* reset_dbuf_seg and free_dbufConnection touch the same segments.
THEOREM SegmentsComeBack ==
  ASSUME NEW d \in Segments, NEW i \in Index, i.use \notin {"REBUILDW", "RAIDR", "RAIDW"},
         \A s \in SegsOf(i) : d[s] = Free
  PROVE free_dbufConnection(reset_dbuf_seg(set_dbufConnection(d, i), i), i) = d
<1> DEFINE e == set_dbufConnection(d, i)
           f == reset_dbuf_seg(e, i)
           g == free_dbufConnection(f, i)
<1>1. Marked(i) = SegsOf(i) /\ ResetSegs(i) = SegsOf(i)
  BY DEF Marked, ResetSegs
<1>2. ASSUME NEW s \in Segs PROVE g[s] = d[s]
  <2>1. d[s] \in Segment /\ d[s].busy \in BOOLEAN
    BY DEF Segments, Segment
  <2>2. CASE s \notin SegsOf(i)
    <3>1. e[s] = [d[s] EXCEPT !.busy = d[s].busy \/ FALSE] /\ f[s] = e[s] /\ g[s] = f[s]
      BY <1>1, <2>2 DEF set_dbufConnection, reset_dbuf_seg, free_dbufConnection
    <3>2. e[s] \in Segment /\ e[s].in = d[s].in /\ e[s].out = d[s].out
          /\ e[s].busy = d[s].busy /\ e[s].full = d[s].full
      BY <2>1, <3>1 DEF Segment
    <3> QED BY <2>1, <3>1, <3>2, SameSegment
  <2>3. CASE s \in SegsOf(i)
    <3>1. e[s] = [Joined(d[s], Joins(i, s)) EXCEPT !.busy = TRUE]
      BY <1>1, <2>3 DEF set_dbufConnection
    <3>2. Joins(i, s).in \in Ports /\ Joins(i, s).out \in Ports
      BY <2>3, JoinsIs, RouteShape DEF Shaped
    <3>3. e[s] \in Segment
      BY <2>1, <3>1, <3>2, BusyIs
    <3>4. f[s] = [e[s] EXCEPT !.full = FALSE]
      BY <1>1, <2>3 DEF reset_dbuf_seg
    <3>5. g[s] = [f[s] EXCEPT !.in = None, !.out = None, !.busy = FALSE]
      BY <2>3 DEF free_dbufConnection
    <3> HIDE DEF e, f, g
    <3>6. f[s] \in Segment /\ ~f[s].full
      BY <3>3, <3>4 DEF Segment
    <3>7. g[s] \in Segment /\ g[s].in = None /\ g[s].out = None /\ ~g[s].busy /\ ~g[s].full
      BY <3>5, <3>6 DEF Segment, Ports
    <3>8. d[s].in = None /\ d[s].out = None /\ ~d[s].busy /\ ~d[s].full
      BY <2>3 DEF Free
    <3>9. g[s].busy = d[s].busy /\ g[s].full = d[s].full
      BY <2>1, <3>7, <3>8 DEF Segment
    <3> QED BY <2>1, <3>7, <3>8, <3>9, SameSegment
  <2> QED BY <2>2, <2>3
<1>3. g = [s \in Segs |-> g[s]] /\ d = [s \in Segs |-> d[s]]
  BY DEF free_dbufConnection, Segments
<1> QED BY <1>2, <1>3

\* Each use joins a port to one segment of a bank: no port is asked to fill or
\* to empty two segments.
LEMMA RouteApart ==
  ASSUME NEW i \in Index, NEW p \in Route(i), NEW q \in Route(i), p # q, p.seg[1] = q.seg[1]
  PROVE p.seg # q.seg /\ p.in # q.in /\ p.out # q.out
<1>1. i.use \in Uses /\ i.ch \in {0, 1}
  BY DEF Index
<1>2. CASE i.use \in {"U2SR", "U2SW"}
  <2>1. p \in HostRoute(i) /\ q \in HostRoute(i)
    BY <1>2 DEF Route, Copies
  <2>2. CASE i.use = "U2SR"
    BY <1>1, <2>1, <2>2 DEF HostRoute, Sata, Tx, Rx
  <2>3. CASE i.use = "U2SW"
    BY <1>1, <2>1, <2>3 DEF HostRoute, Sata, Tx, Rx
  <2> QED BY <1>2, <2>2, <2>3
<1>3. CASE i.use \in {"RAIDR", "RAIDW"}
  <2>1. p \in RaidRoute(i) /\ q \in RaidRoute(i)
    BY <1>3 DEF Route, Copies
  <2>2. CASE i.use = "RAIDR"
    BY <2>1, <2>2 DEF RaidRoute, Tx, Rx
  <2>3. CASE i.use = "RAIDW"
    BY <2>1, <2>3 DEF RaidRoute, Tx, Rx
  <2> QED BY <1>3, <2>2, <2>3
<1>4. CASE i.use \in Copies
  <2>1. p \in CopyRoute(i) /\ q \in CopyRoute(i)
    BY <1>4 DEF Route, Copies
  <2> QED BY <1>1, <1>4, <2>1 DEF CopyRoute, Copies, Sata, Tx, Rx
<1>5. CASE i.use \in {"B2SR", "B2SR2", "B2SW", "U2BR", "U2BW"}
  <2>1. p \in CpuRoute(i) /\ q \in CpuRoute(i)
    BY <1>5 DEF Route, Copies
  <2>2. CASE i.use = "B2SR"
    BY <1>1, <2>1, <2>2 DEF CpuRoute, Sata, Tx, Rx
  <2>3. CASE i.use = "B2SW"
    BY <1>1, <2>1, <2>3 DEF CpuRoute, Sata, Tx, Rx
  <2>4. CASE i.use \in {"B2SR2", "U2BR", "U2BW"}
    BY <2>1, <2>4 DEF CpuRoute, Sata, Tx, Rx
  <2> QED BY <1>5, <2>2, <2>3, <2>4
<1> QED BY <1>1, <1>2, <1>3, <1>4, <1>5 DEF Uses, Reads, Writes

\* A connection gives no port a second segment, when no segment outside the
\* index has one of its ports: set_dbufConnection keeps PortsApart.
THEOREM ConnectionKeepsPortsApart ==
  ASSUME NEW d \in Segments, NEW i \in Index, PortsApart(d),
         \A s \in Segs \ SegsOf(i) : \A r \in Route(i) :
           s[1] = r.seg[1] => d[s].in # r.in /\ d[s].out # r.out
  PROVE PortsApart(set_dbufConnection(d, i))
<1> DEFINE e == set_dbufConnection(d, i)
<1>1. ASSUME NEW s \in Segs, s \notin SegsOf(i)
      PROVE e[s].in = d[s].in /\ e[s].out = d[s].out
  <2>1. e[s] = [d[s] EXCEPT !.busy = d[s].busy \/ s \in Marked(i)]
    BY <1>1 DEF set_dbufConnection
  <2> QED BY <2>1 DEF Segments
<1>2. ASSUME NEW s \in SegsOf(i), s \in Segs
      PROVE e[s].in = Joins(i, s).in /\ e[s].out = Joins(i, s).out
            /\ Joins(i, s) \in Route(i) /\ Joins(i, s).seg = s
  <2>1. e[s] = [Joined(d[s], Joins(i, s)) EXCEPT !.busy = Joined(d[s], Joins(i, s)).busy \/ s \in Marked(i)]
    BY <1>2 DEF set_dbufConnection
  <2>2. Joins(i, s).in \in Ports /\ Joins(i, s).out \in Ports /\ d[s] \in Segment
    BY <1>2, JoinsIs, RouteShape DEF Shaped, Segments, Segment
  <2> DEFINE x == Joined(d[s], Joins(i, s))
  <2>3. x \in Segment /\ x.in = Joins(i, s).in /\ x.out = Joins(i, s).out
    BY <2>2, JoinedIs
  <2> HIDE DEF x
  <2>4. e[s].in = x.in /\ e[s].out = x.out
    BY <2>1, <2>3 DEF x, Segment
  <2> QED BY <2>3, <2>4, JoinsIs
<1>3. SUFFICES ASSUME NEW s \in Segs, NEW t \in Segs, s # t, s[1] = t[1]
               PROVE /\ e[s].in # None => e[s].in # e[t].in
                     /\ e[s].out # None => e[s].out # e[t].out
  BY DEF PortsApart
<1> HIDE DEF e
<1>4. CASE s \notin SegsOf(i) /\ t \notin SegsOf(i)
  BY <1>1, <1>3, <1>4 DEF PortsApart
<1>5. CASE s \notin SegsOf(i) /\ t \in SegsOf(i)
  BY <1>1, <1>2, <1>3, <1>5
<1>6. CASE s \in SegsOf(i) /\ t \notin SegsOf(i)
  BY <1>1, <1>2, <1>3, <1>6
<1>7. CASE s \in SegsOf(i) /\ t \in SegsOf(i)
  BY <1>2, <1>3, <1>7, RouteApart
<1> QED BY <1>4, <1>5, <1>6, <1>7

\* The segment of an index that the drive fills or empties.
DriveSide(j) == {r.seg : r \in {q \in Route(j) : q.in = Sata(j.ch) \/ q.out = Sata(j.ch)}}

\* Where that segment is.
LEMMA DriveSideIs ==
  ASSUME NEW j \in Index, j.use \in {"U2SR", "U2SW"}
  PROVE DriveSide(j) = {<<IF j.use = "U2SR" THEN "tx" ELSE "rx",
                          IF ~j.uas2 THEN 1 ELSE IF j.aes THEN 3 ELSE 2>>}
<1>1. Route(j) = HostRoute(j)
  BY DEF Route, Copies
<1>2. Sata(j.ch) \in {"SATA0", "SATA1"} /\ j.aes \in BOOLEAN /\ j.uas2 \in BOOLEAN
  BY DEF Sata, Index
<1>3. CASE j.use = "U2SR" /\ j.aes
  <2> DEFINE p == Tx(IF j.uas2 THEN 3 ELSE 1, Sata(j.ch), "AESE")
             q == Tx(2, "AESD", "USB")
  <2>1. Route(j) = {p, q}
    BY <1>1, <1>3 DEF HostRoute
  <2>2. p.in = Sata(j.ch) /\ p.seg = <<"tx", IF j.uas2 THEN 3 ELSE 1>> /\ q.in # Sata(j.ch) /\ q.out # Sata(j.ch)
    BY <1>2 DEF Tx, Rx
  <2> HIDE DEF p, q
  <2> QED BY <1>3, <2>1, <2>2 DEF DriveSide
<1>4. CASE j.use = "U2SR" /\ ~j.aes
  <2> DEFINE p == Tx(IF j.uas2 THEN 2 ELSE 1, Sata(j.ch), "USB")
  <2>1. Route(j) = {p}
    BY <1>1, <1>4 DEF HostRoute
  <2>2. p.in = Sata(j.ch) /\ p.seg = <<"tx", IF j.uas2 THEN 2 ELSE 1>>
    BY <1>2 DEF Tx, Rx
  <2> HIDE DEF p
  <2> QED BY <1>4, <2>1, <2>2 DEF DriveSide
<1>5. CASE j.use = "U2SW" /\ j.aes
  <2> DEFINE p == Rx(IF j.uas2 THEN 3 ELSE 1, "AESE", Sata(j.ch))
             q == Rx(2, "USB", "AESD")
  <2>1. Route(j) = {q, p}
    BY <1>1, <1>5 DEF HostRoute
  <2>2. p.out = Sata(j.ch) /\ p.seg = <<"rx", IF j.uas2 THEN 3 ELSE 1>> /\ q.in # Sata(j.ch) /\ q.out # Sata(j.ch)
    BY <1>2 DEF Tx, Rx
  <2> HIDE DEF p, q
  <2> QED BY <1>5, <2>1, <2>2 DEF DriveSide
<1>6. CASE j.use = "U2SW" /\ ~j.aes
  <2> DEFINE p == Rx(IF j.uas2 THEN 2 ELSE 1, "USB", Sata(j.ch))
  <2>1. Route(j) = {p}
    BY <1>1, <1>6 DEF HostRoute
  <2>2. p.out = Sata(j.ch) /\ p.seg = <<"rx", IF j.uas2 THEN 2 ELSE 1>>
    BY <1>2 DEF Tx, Rx
  <2> HIDE DEF p
  <2> QED BY <1>6, <2>1, <2>2 DEF DriveSide
<1> QED BY <1>3, <1>4, <1>5, <1>6

\* GetIdleSeg_UAS gives a command only a set whose segment next to the drive
\* is idle: it tests TX 1 and TX 3 or TX 2 (RX for a write), and these are the
\* segments set_dbufConnection then joins to the drive.
THEOREM IdleSetIsIdle ==
  ASSUME NEW d \in Segments, NEW i \in Index, i.use \in {"U2SR", "U2SW"}, ~i.uas2,
         NEW j \in GetIdleSeg_UAS(d, i)
  PROVE j \in Index /\ \A s \in DriveSide(j) : ~d[s].busy
<1>1. [i EXCEPT !.uas2 = TRUE] \in Index
  BY DEF Index
<1>2. j = i \/ j = [i EXCEPT !.uas2 = TRUE]
  BY DEF GetIdleSeg_UAS
<1>3. j \in Index /\ j.use = i.use /\ j.aes = i.aes
  BY <1>1, <1>2 DEF Index
<1>4. CASE j = i /\ ~d[<<IF i.use = "U2SR" THEN "tx" ELSE "rx", 1>>].busy
  BY <1>3, <1>4, DriveSideIs
<1>5. CASE j = [i EXCEPT !.uas2 = TRUE]
           /\ ~d[<<IF i.use = "U2SR" THEN "tx" ELSE "rx", IF i.aes THEN 3 ELSE 2>>].busy
  <2>1. j.uas2
    BY <1>5 DEF Index
  <2> QED BY <1>3, <1>5, <2>1, DriveSideIs
<1>6. \/ j = i /\ ~d[<<IF i.use = "U2SR" THEN "tx" ELSE "rx", 1>>].busy
      \/ j = [i EXCEPT !.uas2 = TRUE]
         /\ ~d[<<IF i.use = "U2SR" THEN "tx" ELSE "rx", IF i.aes THEN 3 ELSE 2>>].busy
  BY DEF GetIdleSeg_UAS
<1> QED BY <1>3, <1>4, <1>5, <1>6

\* The two sets meet the drive in different segments, so two commands of the
\* queue may hold one each: what makes the second set of the UAS transport safe.
THEOREM SetsApart ==
  ASSUME NEW i \in Index, NEW j \in Index, i.use \in {"U2SR", "U2SW"}, j.use \in {"U2SR", "U2SW"},
         ~i.uas2, j.uas2
  PROVE DriveSide(i) \cap DriveSide(j) = {}
<1>1. ASSUME NEW a, NEW b, NEW m, NEW n, m # n
      PROVE {<<a, m>>} \cap {<<b, n>>} = {}
  BY <1>1
<1> QED BY <1>1, DriveSideIs

----------------------------------------------------------------------------
(* The bulk-only transport. *)

CtxSegs == {U2BR, U2BW, ReadSeg, WriteSeg}
Identifies == {ReadID(0), ReadID(1)}

(***************************************************************************)
(* The uses.                                                               *)
(***************************************************************************)
LEMMA UseIs ==
  ASSUME NEW i \in CtxSegs \cup Identifies
  PROVE /\ i \in Index /\ i # NoSeg /\ i.use \in {"U2BR", "U2BW", "U2SR", "U2SW", "B2SR"}
        /\ Marked(i) = SegsOf(i) /\ ResetSegs(i) = SegsOf(i)
<1>1. \E u \in {"U2BR", "U2BW", "U2SR", "U2SW", "B2SR"}, ch \in Chs, a \in BOOLEAN :
        /\ i = [use |-> u, ch |-> ch, aes |-> a, uas2 |-> FALSE]
        /\ a => u \in {"U2SR", "U2SW"}
  BY BotAssumption DEF CtxSegs, Identifies, U2BR, U2BW, ReadSeg, WriteSeg, ReadID, NoSeg, None, Chs
<1>2. i \in Index /\ i # NoSeg /\ i.use \in {"U2BR", "U2BW", "U2SR", "U2SW", "B2SR"}
  BY <1>1 DEF NoSeg, None, Chs, Index, Uses, Reads, Writes, Copies
<1> QED BY <1>2 DEF Marked, ResetSegs

\* The routes of the commands: none meets TX 4, and only a READ fills TX 1.
LEMMA CtxRoute ==
  ASSUME NEW i \in CtxSegs, NEW r \in Route(i)
  PROVE /\ r.seg \in Segs /\ r.seg # <<"tx", 4>> /\ (r.seg = <<"tx", 1>> => i = ReadSeg)
        /\ r.in \in Ports \ {None} /\ r.out \in Ports \ {None}
<1>1. CASE i = U2BR
  BY <1>1 DEF U2BR, NoSeg, Route, CpuRoute, Copies, Tx, Segs, Ports, None
<1>2. CASE i = U2BW
  BY <1>2 DEF U2BW, NoSeg, Route, CpuRoute, Copies, Rx, Segs, Ports, None
<1>3. CASE i = ReadSeg
  BY <1>3, BotAssumption DEF ReadSeg, NoSeg, Route, HostRoute, Copies, Sata, Tx, Segs, Ports, None
<1>4. CASE i = WriteSeg
  BY <1>4, BotAssumption DEF WriteSeg, NoSeg, Route, HostRoute, Copies, Sata, Rx, Segs, Ports, None
<1> QED BY <1>1, <1>2, <1>3, <1>4 DEF CtxSegs

LEMMA ReadRoute ==
  Route(ReadSeg) = IF Cipher THEN {Tx(1, "SATA0", "AESE"), Tx(2, "AESD", "USB")} ELSE {Tx(1, "SATA0", "USB")}
<1> DEFINE i == ReadSeg
<1>1. Cipher \in BOOLEAN /\ i.use = "U2SR" /\ i.ch = 0 /\ i.aes = Cipher /\ ~i.uas2
  BY BotAssumption DEF ReadSeg, NoSeg
<1> HIDE DEF i
<1>2. CASE Cipher
  <2>1. Route(i) = HostRoute(i) /\ i.aes /\ (IF i.uas2 THEN 3 ELSE 1) = 1 /\ Sata(i.ch) = "SATA0"
    BY <1>1, <1>2 DEF Route, Copies, Sata
  <2> QED BY <1>1, <1>2, <2>1 DEF HostRoute, i
<1>3. CASE ~Cipher
  <2>1. Route(i) = HostRoute(i) /\ ~i.aes /\ (IF i.uas2 THEN 2 ELSE 1) = 1 /\ Sata(i.ch) = "SATA0"
    BY <1>1, <1>3 DEF Route, Copies, Sata
  <2> QED BY <1>1, <1>3, <2>1 DEF HostRoute, i
<1> QED BY <1>2, <1>3 DEF i

\* An IDENTIFY DEVICE goes through TX 4.
LEMMA IdRoute ==
  ASSUME NEW ch \in Chs
  PROVE /\ ReadID(ch) \in Identifies /\ SegsOf(ReadID(ch)) = {<<"tx", 4>>} /\ <<"tx", 4>> \in Segs
        /\ Joins(ReadID(ch), <<"tx", 4>>) = Tx(4, Sata(ch), "CPU")
<1>1. Route(ReadID(ch)) = {Tx(4, Sata(ch), "CPU")}
  BY DEF ReadID, NoSeg, Route, CpuRoute, Copies, None
<1>2. Tx(4, Sata(ch), "CPU").seg = <<"tx", 4>>
  BY DEF Tx
<1> QED BY <1>1, <1>2 DEF SegsOf, Joins, Identifies, Chs, Segs

\* The segments of a use are among the ten, and Joins gives a port of each.
LEMMA JoinsPorts ==
  ASSUME NEW i \in CtxSegs \cup Identifies, NEW s \in SegsOf(i)
  PROVE /\ s \in Segs /\ Joins(i, s) \in Route(i) /\ Joins(i, s).seg = s
        /\ Joins(i, s).in \in Ports /\ Joins(i, s).out \in Ports
<1>1. Joins(i, s) \in Route(i) /\ Joins(i, s).seg = s
  BY JoinsIs
<1>2. i \in Index
  BY UseIs
<1>3. Joins(i, s).in \in Ports /\ Joins(i, s).out \in Ports
  BY <1>1, <1>2, RouteShape DEF Shaped
<1>4. s \in Segs
  BY <1>1, CtxRoute, IdRoute DEF Identifies, Chs
<1> QED BY <1>1, <1>3, <1>4

\* Joining a segment and marking it as busy.
LEMMA JoinedBusy ==
  ASSUME NEW x \in Segment, NEW j, j.in \in Ports, j.out \in Ports
  PROVE LET y == [Joined(x, j) EXCEPT !.busy = TRUE]
        IN y \in Segment /\ y.in = j.in /\ y.out = j.out /\ y.busy
<1> DEFINE z == Joined(x, j)
<1>1. z \in Segment /\ z.in = j.in /\ z.out = j.out
  BY JoinedIs
<1> HIDE DEF z
<1>2. LET y == [z EXCEPT !.busy = TRUE] IN y \in Segment /\ y.in = j.in /\ y.out = j.out /\ y.busy
  BY <1>1 DEF Segment
<1> QED BY <1>2 DEF z

(***************************************************************************)
(* What the operators do to a segment of the use, and to the others.       *)
(***************************************************************************)
LEMMA SetIs ==
  ASSUME NEW d \in Segments, NEW i \in CtxSegs \cup Identifies, NEW s \in Segs
  PROVE LET e == set_dbufConnection(d, i)
        IN /\ e[s] \in Segment
           /\ s \notin SegsOf(i) => e[s] = d[s]
           /\ s \in SegsOf(i) => e[s].busy /\ e[s].in = Joins(i, s).in /\ e[s].out = Joins(i, s).out
<1> DEFINE e == set_dbufConnection(d, i)
<1>1. Marked(i) = SegsOf(i)
  BY UseIs
<1>2. d[s] \in Segment /\ d[s].busy \in BOOLEAN
  BY DEF Segments, Segment
<1>3. CASE s \notin SegsOf(i)
  <2>1. e[s] = [d[s] EXCEPT !.busy = d[s].busy \/ FALSE]
    BY <1>1, <1>3 DEF set_dbufConnection
  <2>2. e[s] \in Segment /\ e[s].in = d[s].in /\ e[s].out = d[s].out /\ e[s].full = d[s].full
        /\ e[s].busy = d[s].busy
    BY <1>2, <2>1 DEF Segment
  <2> QED BY <1>2, <1>3, <2>2, SameSegment
<1>4. CASE s \in SegsOf(i)
  <2> DEFINE j == Joins(i, s)
  <2>1. e[s] = [Joined(d[s], j) EXCEPT !.busy = TRUE]
    BY <1>1, <1>4 DEF set_dbufConnection
  <2>2. j.in \in Ports /\ j.out \in Ports
    BY <1>4, JoinsPorts
  <2> HIDE DEF e, j
  <2>3. e[s] \in Segment /\ e[s].in = j.in /\ e[s].out = j.out /\ e[s].busy
    BY <1>2, <2>1, <2>2, JoinedBusy
  <2> QED BY <1>4, <2>3 DEF e, j
<1> QED BY <1>3, <1>4

LEMMA ReleaseIs ==
  ASSUME NEW d \in Segments, NEW i \in CtxSegs \cup Identifies, NEW s \in Segs
  PROVE LET e == free_dbufConnection(reset_dbuf_seg(d, i), i)
        IN /\ e[s] \in Segment
           /\ s \notin SegsOf(i) => e[s] = d[s]
           /\ s \in SegsOf(i) => ~e[s].busy /\ e[s].in = None /\ e[s].out = None
<1> DEFINE f == reset_dbuf_seg(d, i)
           e == free_dbufConnection(f, i)
<1>1. ResetSegs(i) = SegsOf(i)
  BY UseIs
<1>2. d[s] \in Segment
  BY DEF Segments, Segment
<1>3. f[s] \in Segment /\ (s \notin SegsOf(i) => f[s] = d[s])
  BY <1>1, <1>2 DEF reset_dbuf_seg, Segment
<1>4. e[s] = IF s \in SegsOf(i) THEN [f[s] EXCEPT !.in = None, !.out = None, !.busy = FALSE] ELSE f[s]
  BY DEF free_dbufConnection
<1> HIDE DEF f, e
<1>5. e[s] \in Segment /\ (s \notin SegsOf(i) => e[s] = d[s])
      /\ (s \in SegsOf(i) => ~e[s].busy /\ e[s].in = None /\ e[s].out = None)
  BY <1>3, <1>4 DEF Segment, Ports, None
<1> QED BY <1>5 DEF e, f

\* An early timeout frees the segment without emptying it.
LEMMA FreeIs ==
  ASSUME NEW d \in Segments, NEW i \in CtxSegs \cup Identifies, NEW s \in Segs
  PROVE LET e == free_dbufConnection(d, i)
        IN /\ e[s] \in Segment
           /\ s \notin SegsOf(i) => e[s] = d[s]
           /\ s \in SegsOf(i) => ~e[s].busy /\ e[s].in = None /\ e[s].out = None
<1> DEFINE e == free_dbufConnection(d, i)
<1>1. d[s] \in Segment
  BY DEF Segments, Segment
<1>2. e[s] = IF s \in SegsOf(i) THEN [d[s] EXCEPT !.in = None, !.out = None, !.busy = FALSE] ELSE d[s]
  BY DEF free_dbufConnection
<1> HIDE DEF e
<1>3. e[s] \in Segment /\ (s \notin SegsOf(i) => e[s] = d[s])
      /\ (s \in SegsOf(i) => ~e[s].busy /\ e[s].in = None /\ e[s].out = None)
  BY <1>1, <1>2 DEF Segment, Ports, None
<1> QED BY <1>3 DEF e

\* The read path in two steps; a segment of another port is not touched.
LEMMA SourceIs ==
  ASSUME NEW d \in Segments, NEW i \in {U2BR, ReadSeg}, NEW s \in Segs
  PROVE LET e == set_dbufSource(d, i)
        IN /\ e[s] \in Segment
           /\ s \notin Entry(i) => e[s] = d[s]
           /\ s \in Entry(i) => s \in SegsOf(i) /\ e[s].busy /\ e[s].in = Joins(i, s).in /\ e[s].out = None
<1> DEFINE e == set_dbufSource(d, i)
<1>1. i \in CtxSegs /\ i.use \in {"U2BR", "U2SR"}
  BY DEF CtxSegs, U2BR, ReadSeg, NoSeg
<1>2. d[s] \in Segment
  BY DEF Segments, Segment
<1>3. CASE s \notin Entry(i)
  BY <1>1, <1>2, <1>3 DEF set_dbufSource
<1>4. CASE s \in Entry(i)
  <2>1. s \in SegsOf(i) /\ Joins(i, s).in \in Ports /\ Joins(i, s).out \in Ports /\ Joins(i, s) \in Route(i)
    BY <1>1, <1>4, JoinsPorts DEF Entry
  <2>2. ~Feeds(Joins(i, s))
    BY <1>1, <2>1, BotAssumption DEF CtxSegs, U2BR, U2BW, ReadSeg, WriteSeg, NoSeg, Route, HostRoute, CpuRoute,
                       Copies, Sata, Tx, Rx, Feeds
  <2> DEFINE k == [Joins(i, s) EXCEPT !.out = None]
  <2>3. e[s] = [Joined(d[s], k) EXCEPT !.busy = TRUE]
    BY <1>1, <1>4, <2>2 DEF set_dbufSource
  <2>4. k.in = Joins(i, s).in /\ k.out = None /\ k.in \in Ports /\ k.out \in Ports
    <3>1. Joins(i, s) = [seg |-> Joins(i, s).seg, in |-> Joins(i, s).in, out |-> Joins(i, s).out]
      BY <1>1, <2>1, RouteShape, UseIs DEF Shaped
    <3> QED BY <2>1, <3>1 DEF Ports, None
  <2> HIDE DEF e, k
  <2>5. e[s] \in Segment /\ e[s].in = k.in /\ e[s].out = k.out /\ e[s].busy
    BY <1>2, <2>3, <2>4, JoinedBusy
  <2> QED BY <1>4, <2>1, <2>4, <2>5 DEF e
<1> QED BY <1>3, <1>4

LEMMA KeepIs ==
  ASSUME NEW d \in Segments, NEW i \in {U2BR, ReadSeg}, NEW s \in Segs
  PROVE LET e == keep_sourceDbufConnection(d, i)
        IN /\ e[s] \in Segment
           /\ s \notin SegsOf(i) => e[s] = d[s]
           /\ s \in SegsOf(i) => /\ e[s].busy /\ e[s].out = Joins(i, s).out
                                 /\ e[s].in = IF s \in Entry(i) THEN d[s].in ELSE Joins(i, s).in
<1> DEFINE e == keep_sourceDbufConnection(d, i)
<1>1. i \in CtxSegs /\ i.use \in {"U2BR", "U2SR"}
  BY DEF CtxSegs, U2BR, ReadSeg, NoSeg
<1>2. d[s] \in Segment
  BY DEF Segments, Segment
<1>3. CASE s \notin SegsOf(i)
  BY <1>1, <1>2, <1>3 DEF keep_sourceDbufConnection
<1>4. CASE s \in SegsOf(i)
  <2>1. Joins(i, s).in \in Ports /\ Joins(i, s).out \in Ports /\ Joins(i, s) \in Route(i)
    BY <1>1, <1>4, JoinsPorts
  <2>2. ~Feeds(Joins(i, s))
    BY <1>1, <2>1, BotAssumption DEF CtxSegs, U2BR, U2BW, ReadSeg, WriteSeg, NoSeg, Route, HostRoute, CpuRoute,
                       Copies, Sata, Tx, Rx, Feeds
  <2>3. CASE s \notin Entry(i)
    <3> DEFINE j == Joins(i, s)
    <3>1. e[s] = [Joined(d[s], j) EXCEPT !.busy = TRUE]
      BY <1>1, <1>4, <2>2, <2>3 DEF keep_sourceDbufConnection
    <3> HIDE DEF e, j
    <3>2. e[s] \in Segment /\ e[s].in = j.in /\ e[s].out = j.out /\ e[s].busy
      BY <1>2, <2>1, <3>1, JoinedBusy DEF j
    <3> QED BY <1>4, <2>3, <3>2 DEF e, j
  <2>4. CASE s \in Entry(i)
    <3>1. e[s] = [d[s] EXCEPT !.out = Joins(i, s).out, !.busy = d[s].busy \/ TRUE]
      BY <1>1, <1>4, <2>2, <2>4 DEF keep_sourceDbufConnection
    <3> HIDE DEF e
    <3>2. e[s] \in Segment /\ e[s].in = d[s].in /\ e[s].out = Joins(i, s).out /\ e[s].busy
      BY <1>2, <2>1, <3>1 DEF Segment
    <3> QED BY <1>4, <2>4, <3>2 DEF e
  <2> QED BY <2>3, <2>4
<1> QED BY <1>3, <1>4

\* The drive has sent its last data: its segment, TX 1, is no longer filled.
LEMMA LastDataIs ==
  ASSUME NEW d \in Segments, NEW s \in Segs
  PROVE LET e == free_SourcedbufConnection(d, ReadSeg)
        IN /\ e[s] \in Segment /\ e[s].busy = d[s].busy /\ e[s].out = d[s].out /\ e[s].in \in {None, d[s].in}
           /\ s = <<"tx", 1>> => e[s].in = None
<1> DEFINE e == free_SourcedbufConnection(d, ReadSeg)
<1>1. d[s] \in Segment
  BY DEF Segments, Segment
<1>2. e[s] = IF s \in Entry(ReadSeg) THEN [d[s] EXCEPT !.in = None] ELSE d[s]
  BY DEF free_SourcedbufConnection, ReadSeg, NoSeg
<1>3. <<"tx", 1>> \in Entry(ReadSeg)
  <2>1. <<"tx", 1>> \in SegsOf(ReadSeg)
    <3>1. Tx(1, "SATA0", "AESE") \in Route(ReadSeg) \/ Tx(1, "SATA0", "USB") \in Route(ReadSeg)
      BY ReadRoute
    <3> QED BY <3>1 DEF SegsOf, Tx
  <2>2. Joins(ReadSeg, <<"tx", 1>>).in = "SATA0"
    <3>1. Joins(ReadSeg, <<"tx", 1>>) \in Route(ReadSeg) /\ Joins(ReadSeg, <<"tx", 1>>).seg = <<"tx", 1>>
      BY <2>1, JoinsIs
    <3> DEFINE j == Joins(ReadSeg, <<"tx", 1>>)
    <3> HIDE DEF j
    <3>2. j \in {Tx(1, "SATA0", "AESE"), Tx(2, "AESD", "USB"), Tx(1, "SATA0", "USB")} /\ j.seg = <<"tx", 1>>
      BY <3>1, ReadRoute DEF j
    <3> QED BY <3>2 DEF Tx, j
  <2> QED BY <2>1, <2>2 DEF Entry
<1> HIDE DEF e
<1>4. /\ e[s] \in Segment /\ e[s].busy = d[s].busy /\ e[s].out = d[s].out /\ e[s].in \in {None, d[s].in}
      /\ s = <<"tx", 1>> => e[s].in = None
  BY <1>1, <1>2, <1>3 DEF Segment, Ports, None
<1> QED BY <1>4 DEF e

(***************************************************************************)
(* SegInv, with the use that the command in execution holds, or none.      *)
(***************************************************************************)
Holds(m) == IF Held(m) THEN m.ctx.seg ELSE NoSeg

Serving(x, i, s) == /\ i # NoSeg
                    /\ \E r \in Route(i) : r.seg = s /\ x.in \in {None, r.in} /\ x.out \in {None, r.out}
Identifying(x, s, dr) == /\ s = <<"tx", 4>> /\ x.out = "CPU"
                         /\ \E ch \in Chs : dr[ch].st = "id" /\ x.in = Sata(ch)

OwnedSeg(x, i, s, dr) == /\ ~x.busy => x.in = None /\ x.out = None
                         /\ x.busy => Serving(x, i, s) \/ Identifying(x, s, dr)
Owned(d, i, dr) == /\ \A s \in Segs : OwnedSeg(d[s], i, s, dr)
                   /\ d[<<"tx", 1>>].in = "SATA0" => dr[0].st = "active"

LEMMA SegInvIs ==
  ASSUME NEW m
  PROVE SegInv(m) <=> Owned(m.seg, Holds(m), m.drive)
BY DEF SegInv, Owned, OwnedSeg, Serving, Identifying, ForCommand, ForIdentify, Holds

\* The drives may change as long as those that read an IDENTIFY DEVICE, and
\* drive 0 at work, stay so; a command that held nothing may come to hold.
LEMMA OwnedFrame ==
  ASSUME NEW d, NEW i, NEW j, NEW dr, NEW er, Owned(d, i, dr), i \in {NoSeg, j},
         \A ch \in Chs : dr[ch].st = "id" => er[ch].st = "id",
         dr[0].st = "active" => er[0].st = "active"
  PROVE Owned(d, j, er)
BY DEF Owned, OwnedSeg, Serving, Identifying

LEMMA FreshSegs ==
  ASSUME NEW i, NEW dr
  PROVE rst_all_seg \in Segments /\ Owned(rst_all_seg, i, dr)
<1>1. /\ Free.in = None /\ Free.out = None /\ ~Free.busy
      /\ Free \in [in : Ports, out : Ports, busy : BOOLEAN, full : BOOLEAN]
  BY DEF Free, Ports, None
<1>2. <<"tx", 1>> \in Segs
  BY DEF Segs
<1> QED BY <1>1, <1>2 DEF rst_all_seg, Segments, Owned, OwnedSeg, None

\* What the three ways to give a command its segments have in common.
Gives(d, e, i) ==
  \A s \in Segs : /\ e[s] \in Segment
                  /\ e[s] = d[s] \/ (e[s].busy /\ \E r \in Route(i) : /\ r.seg = s
                                       /\ e[s].in \in {None, d[s].in, r.in} /\ e[s].out \in {None, r.out})

LEMMA GivesOwned ==
  ASSUME NEW d \in Segments, NEW e, e = [s \in Segs |-> e[s]], NEW i \in CtxSegs, NEW j \in {NoSeg, i}, NEW dr,
         Gives(d, e, i), Owned(d, j, dr), i = ReadSeg => dr[0].st = "active"
  PROVE e \in Segments /\ Owned(e, i, dr)
<1>1. e \in Segments
  BY DEF Gives, Segments, Segment
<1>2. i # NoSeg
  BY UseIs
<1>3. ASSUME NEW s \in Segs PROVE OwnedSeg(e[s], i, s, dr)
  <2>1. OwnedSeg(d[s], j, s, dr)
    BY DEF Owned
  <2>2. CASE e[s] = d[s]
    BY <1>2, <2>1, <2>2 DEF OwnedSeg, Serving
  <2>3. CASE e[s] # d[s]
    <3>1. PICK r \in Route(i) : r.seg = s /\ e[s].busy /\ e[s].in \in {None, d[s].in, r.in} /\ e[s].out \in {None, r.out}
      BY <2>3 DEF Gives
    <3>2. s # <<"tx", 4>>
      BY <3>1, CtxRoute
    <3>3. \A q \in Route(i) : q.seg = s => q = r
      <4>1. i \in Index
        BY UseIs
      <4> QED BY <3>1, <4>1, RouteApart
    <3>4. d[s].in \in {None, r.in}
      BY <2>1, <3>2, <3>3 DEF OwnedSeg, Serving, Identifying
    <3> QED BY <1>2, <3>1, <3>4 DEF OwnedSeg, Serving
  <2> QED BY <2>2, <2>3
<1>4. e[<<"tx", 1>>].in = "SATA0" => dr[0].st = "active"
  <2>1. <<"tx", 1>> \in Segs
    BY DEF Segs
  <2>2. CASE e[<<"tx", 1>>] = d[<<"tx", 1>>]
    BY <2>2 DEF Owned
  <2>3. CASE e[<<"tx", 1>>] # d[<<"tx", 1>>]
    <3>1. \E r \in Route(i) : r.seg = <<"tx", 1>>
      BY <2>1, <2>3 DEF Gives
    <3> QED BY <3>1, CtxRoute
  <2> QED BY <2>2, <2>3
<1> QED BY <1>1, <1>3, <1>4 DEF Owned

LEMMA GivenSource ==
  ASSUME NEW d \in Segments, NEW i \in {U2BR, ReadSeg}, NEW j \in {NoSeg, i}, NEW dr,
         Owned(d, j, dr), i = ReadSeg => dr[0].st = "active"
  PROVE set_dbufSource(d, i) \in Segments /\ Owned(set_dbufSource(d, i), i, dr)
<1> DEFINE e == set_dbufSource(d, i)
<1>1. i \in CtxSegs
  BY DEF CtxSegs
<1>2. e = [s \in Segs |-> e[s]]
  BY DEF set_dbufSource, U2BR, ReadSeg, NoSeg
<1>3. Gives(d, e, i)
  <2>1. ASSUME NEW s \in Segs, e[s] # d[s]
        PROVE /\ e[s].busy /\ e[s].in = Joins(i, s).in /\ e[s].out = None
              /\ Joins(i, s) \in Route(i) /\ Joins(i, s).seg = s
    BY <1>1, <2>1, SourceIs, JoinsPorts
  <2> QED BY <2>1, SourceIs DEF Gives
<1> HIDE DEF e
<1> QED BY <1>1, <1>2, <1>3, GivesOwned DEF e

LEMMA GivenKeep ==
  ASSUME NEW d \in Segments, NEW i \in {U2BR, ReadSeg}, NEW j \in {NoSeg, i}, NEW dr,
         Owned(d, j, dr), i = ReadSeg => dr[0].st = "active"
  PROVE keep_sourceDbufConnection(d, i) \in Segments /\ Owned(keep_sourceDbufConnection(d, i), i, dr)
<1> DEFINE e == keep_sourceDbufConnection(d, i)
<1>1. i \in CtxSegs
  BY DEF CtxSegs
<1>2. e = [s \in Segs |-> e[s]]
  BY DEF keep_sourceDbufConnection, U2BR, ReadSeg, NoSeg
<1>3. Gives(d, e, i)
  <2>1. ASSUME NEW s \in Segs, e[s] # d[s]
        PROVE /\ e[s].busy /\ e[s].in \in {d[s].in, Joins(i, s).in} /\ e[s].out = Joins(i, s).out
              /\ Joins(i, s) \in Route(i) /\ Joins(i, s).seg = s
    BY <1>1, <2>1, KeepIs, JoinsPorts
  <2> QED BY <2>1, KeepIs DEF Gives
<1> HIDE DEF e
<1> QED BY <1>1, <1>2, <1>3, GivesOwned DEF e

LEMMA GivenSet ==
  ASSUME NEW d \in Segments, NEW i \in {U2BW, WriteSeg}, NEW j \in {NoSeg, i}, NEW dr, Owned(d, j, dr)
  PROVE set_dbufConnection(d, i) \in Segments /\ Owned(set_dbufConnection(d, i), i, dr)
<1> DEFINE e == set_dbufConnection(d, i)
<1>1. i \in CtxSegs /\ i # ReadSeg
  BY DEF CtxSegs, U2BW, WriteSeg, ReadSeg, NoSeg
<1>2. e = [s \in Segs |-> e[s]]
  BY DEF set_dbufConnection
<1>3. Gives(d, e, i)
  <2>1. ASSUME NEW s \in Segs, e[s] # d[s]
        PROVE /\ e[s].busy /\ e[s].in = Joins(i, s).in /\ e[s].out = Joins(i, s).out
              /\ Joins(i, s) \in Route(i) /\ Joins(i, s).seg = s
    BY <1>1, <2>1, SetIs, JoinsPorts
  <2> QED BY <1>1, <2>1, SetIs DEF Gives
<1> HIDE DEF e
<1> QED BY <1>1, <1>2, <1>3, GivesOwned DEF e

\* A command gives its segments back.
LEMMA GivenBack ==
  ASSUME NEW d \in Segments, NEW i \in CtxSegs, NEW dr, Owned(d, i, dr)
  PROVE LET e == free_dbufConnection(reset_dbuf_seg(d, i), i)
        IN e \in Segments /\ Owned(e, NoSeg, dr)
<1> DEFINE e == free_dbufConnection(reset_dbuf_seg(d, i), i)
<1>1. ASSUME NEW s \in Segs
      PROVE /\ e[s] \in Segment /\ (s \notin SegsOf(i) => e[s] = d[s])
            /\ s \in SegsOf(i) => ~e[s].busy /\ e[s].in = None /\ e[s].out = None
  BY ReleaseIs
<1>2. e \in Segments
  BY <1>1 DEF free_dbufConnection, Segments, Segment
<1> HIDE DEF e
<1>3. ASSUME NEW s \in Segs PROVE OwnedSeg(e[s], NoSeg, s, dr)
  <2>1. OwnedSeg(d[s], i, s, dr)
    BY DEF Owned
  <2>2. CASE s \in SegsOf(i)
    BY <1>1, <2>2 DEF OwnedSeg
  <2>3. CASE s \notin SegsOf(i)
    <3>1. ~Serving(d[s], i, s)
      BY <2>3 DEF Serving, SegsOf
    <3> QED BY <1>1, <2>1, <2>3, <3>1 DEF OwnedSeg
  <2> QED BY <2>2, <2>3
<1>4. e[<<"tx", 1>>].in = "SATA0" => dr[0].st = "active"
  <2>1. <<"tx", 1>> \in Segs
    BY DEF Segs
  <2> QED BY <1>1, <2>1 DEF Owned, None
<1> QED BY <1>2, <1>3, <1>4 DEF Owned, e

\* The drive of a READ is done: the host may still take what is in the segments.
LEMMA LastDataOwned ==
  ASSUME NEW d \in Segments, NEW dr, NEW er, Owned(d, ReadSeg, dr),
         \A ch \in Chs : dr[ch].st = "id" => er[ch].st = "id"
  PROVE LET e == free_SourcedbufConnection(d, ReadSeg)
        IN e \in Segments /\ Owned(e, ReadSeg, er)
<1> DEFINE e == free_SourcedbufConnection(d, ReadSeg)
<1>0. ReadSeg.use = "U2SR"
  BY DEF ReadSeg, NoSeg
<1>1. ASSUME NEW s \in Segs
      PROVE /\ e[s] \in Segment /\ e[s].busy = d[s].busy /\ e[s].out = d[s].out /\ e[s].in \in {None, d[s].in}
            /\ s = <<"tx", 1>> => e[s].in = None
            /\ s = <<"tx", 4>> => e[s] = d[s]
  <2>1. <<"tx", 4>> \notin Entry(ReadSeg)
    BY CtxRoute DEF CtxSegs, Entry, SegsOf
  <2>2. s = <<"tx", 4>> => e[s] = d[s]
    BY <2>1 DEF free_SourcedbufConnection
  <2> QED BY <2>2, LastDataIs
<1>2. e \in Segments
  BY <1>1 DEF free_SourcedbufConnection, Segments, Segment
<1> HIDE DEF e
<1>3. ASSUME NEW s \in Segs PROVE OwnedSeg(e[s], ReadSeg, s, er)
  <2>1. OwnedSeg(d[s], ReadSeg, s, dr)
    BY DEF Owned
  <2>2. CASE s = <<"tx", 4>>
    BY <1>1, <2>1, <2>2 DEF OwnedSeg, Serving, Identifying
  <2>3. CASE s # <<"tx", 4>>
    BY <1>1, <2>1, <2>3 DEF OwnedSeg, Serving, Identifying
  <2> QED BY <2>2, <2>3
<1>4. e[<<"tx", 1>>].in # "SATA0"
  <2>1. <<"tx", 1>> \in Segs
    BY DEF Segs
  <2> QED BY <1>1, <2>1 DEF None
<1> QED BY <1>2, <1>3, <1>4 DEF Owned, e

(***************************************************************************)
(* IDENTIFY DEVICE.                                                        *)
(***************************************************************************)
\* It starts when TX 4 is idle.
LEMMA IdStarts ==
  ASSUME NEW d \in Segments, NEW i \in CtxSegs \cup {NoSeg}, NEW ch \in Chs, NEW dr, NEW er,
         Owned(d, i, dr), er[ch].st = "id", \A c \in Chs : dr[c].st = "id" => er[c].st = "id",
         dr[0].st = "active" => er[0].st = "active"
  PROVE LET e == set_dbufConnection(d, ReadID(ch))
        IN e \in Segments /\ Owned(e, i, er)
<1> DEFINE e == set_dbufConnection(d, ReadID(ch))
<1>1. /\ ReadID(ch) \in Identifies /\ SegsOf(ReadID(ch)) = {<<"tx", 4>>}
      /\ Tx(4, Sata(ch), "CPU").in = Sata(ch) /\ Tx(4, Sata(ch), "CPU").out = "CPU"
      /\ Joins(ReadID(ch), <<"tx", 4>>) = Tx(4, Sata(ch), "CPU")
  BY IdRoute DEF Tx
<1>2. ASSUME NEW s \in Segs
      PROVE /\ e[s] \in Segment /\ (s # <<"tx", 4>> => e[s] = d[s])
            /\ s = <<"tx", 4>> => e[s].busy /\ e[s].in = Sata(ch) /\ e[s].out = "CPU"
  BY <1>1, SetIs
<1>3. e \in Segments
  BY <1>2 DEF set_dbufConnection, Segments, Segment
<1> HIDE DEF e
<1>4. ASSUME NEW s \in Segs PROVE OwnedSeg(e[s], i, s, er)
  <2>1. CASE s = <<"tx", 4>>
    BY <1>2, <2>1 DEF OwnedSeg, Identifying
  <2>2. CASE s # <<"tx", 4>>
    BY <1>2, <2>2 DEF Owned, OwnedSeg, Identifying
  <2> QED BY <2>1, <2>2
<1>5. e[<<"tx", 1>>].in = "SATA0" => er[0].st = "active"
  <2>1. <<"tx", 1>> \in Segs
    BY DEF Segs
  <2> QED BY <1>2, <2>1 DEF Owned
<1> QED BY <1>3, <1>4, <1>5 DEF Owned, e

\* What frees TX 4: nothing of it is a command's.
Frees(d, e) == \A s \in Segs : /\ e[s] \in Segment /\ (s # <<"tx", 4>> => e[s] = d[s])
                               /\ s = <<"tx", 4>> => ~e[s].busy /\ e[s].in = None /\ e[s].out = None

LEMMA FreesOwned ==
  ASSUME NEW d \in Segments, NEW e, e = [s \in Segs |-> e[s]], Frees(d, e), NEW i, NEW dr, NEW er,
         Owned(d, i, dr), dr[0].st = "active" => er[0].st = "active"
  PROVE e \in Segments /\ Owned(e, i, er)
<1>1. e \in Segments
  BY DEF Frees, Segments, Segment
<1>2. ASSUME NEW s \in Segs PROVE OwnedSeg(e[s], i, s, er)
  BY DEF Frees, Owned, OwnedSeg, Identifying
<1>3. <<"tx", 1>> \in Segs
  BY DEF Segs
<1> QED BY <1>1, <1>2, <1>3 DEF Owned, Frees

LEMMA IdFreed ==
  ASSUME NEW d \in Segments, NEW ch \in Chs
  PROVE LET e == free_dbufConnection(d, ReadID(ch))
            f == free_dbufConnection(reset_dbuf_seg(d, ReadID(ch)), ReadID(ch))
        IN /\ e = [s \in Segs |-> e[s]] /\ Frees(d, e)
           /\ f = [s \in Segs |-> f[s]] /\ Frees(d, f)
<1>1. ReadID(ch) \in Identifies /\ SegsOf(ReadID(ch)) = {<<"tx", 4>>}
  BY IdRoute
<1> DEFINE e == free_dbufConnection(d, ReadID(ch))
           f == free_dbufConnection(reset_dbuf_seg(d, ReadID(ch)), ReadID(ch))
<1>2. Frees(d, e)
  BY <1>1, FreeIs DEF Frees
<1>3. Frees(d, f)
  BY <1>1, ReleaseIs DEF Frees
<1>4. e = [s \in Segs |-> e[s]]
  BY DEF free_dbufConnection
<1>5. f = [s \in Segs |-> f[s]]
  BY DEF free_dbufConnection
<1> QED BY <1>2, <1>3, <1>4, <1>5
=============================================================================
