-------------------------- MODULE SataQueueProofs --------------------------
(***************************************************************************)
(* What the operations of sata.c do to the pool of CCMs and to the two     *)
(* queues that are linked through scm_next, given the invariant PoolInv.   *)
(***************************************************************************)
EXTENDS SataInvariant, SataChannelProofs

Links == [Tags -> Tags \cup {NoTag}]

(***************************************************************************)
(* The linked queues by themselves.                                        *)
(***************************************************************************)
LEMMA MembersWithin ==
  ASSUME NEW W \in SUBSET Tags, NEW next \in Links, NEW head, QueueOf(next, head, W)
  PROVE  Members(next, head) \subseteq W
BY DEF Members, QueueOf

LEMMA MembersClosed ==
  ASSUME NEW next \in Links, NEW head, NEW t \in Members(next, head), next[t] # NoTag
  PROVE  next[t] \in Members(next, head)
BY DEF Members, Links

\* The walk of an append loop ends: else following scm_next would be an
\* injection of the members into themselves that misses the head.
LEMMA QueueEnds ==
  ASSUME NEW W \in SUBSET Tags, NEW next \in Links, NEW head \in W,
         QueueOf(next, head, W)
  PROVE  Tails(next, head) # {}
<1> DEFINE M == Members(next, head)
           f == [t \in M |-> next[t]]
<1> SUFFICES ASSUME Tails(next, head) = {} PROVE FALSE
  OBVIOUS
<1>1. M \subseteq W /\ head \in M
  BY MembersWithin, NullFacts DEF Members
<1>2. \A t \in M : next[t] # NoTag /\ next[t] \in M
  BY MembersClosed DEF Tails
<1>3. head # NoTag
  BY NullFacts
<1>4. f \in [M -> M \ {head}]
  BY <1>1, <1>2, <1>3 DEF QueueOf
<1>5. IsFiniteSet(M) /\ Cardinality(M) \in Nat /\ IsFiniteSet(M \ {head})
      /\ Cardinality(M \ {head}) = Cardinality(M) - 1
  <2>1. IsFiniteSet(Tags)
    BY SizeAssumption, FS_Interval DEF Tags
  <2>2. IsFiniteSet(M)
    BY <1>1, <2>1, FS_Subset
  <2> QED BY <1>1, <2>2, FS_RemoveElement, FS_CardinalityType
<1>6. \E x, y \in M : x # y /\ f[x] = f[y]
  <2>1. Cardinality(M \ {head}) < Cardinality(M)
    BY <1>5
  <2> HIDE DEF M, f
  <2> QED BY <1>4, <1>5, <2>1, FS_PigeonHole
<1> QED BY <1>1, <1>2, <1>6 DEF QueueOf

\* A member is in every set that holds the head and follows the links.
LEMMA MemberIn ==
  ASSUME NEW next, NEW head, NEW t \in Members(next, head), NEW S \in SUBSET Tags,
         head \in S, \A u \in S : next[u] # NoTag => next[u] \in S
  PROVE  t \in S
BY DEF Members

LEMMA QueueEmpty ==
  ASSUME NEW W, NEW next, QueueOf(next, NoTag, W)
  PROVE  W = {}
BY DEF QueueOf, Members

LEMMA QueueSame ==
  ASSUME NEW W \in SUBSET Tags, NEW next, NEW head, QueueOf(next, head, W),
         NEW n, \A t \in W : n[t] = next[t]
  PROVE  QueueOf(n, head, W)
<1>1. W \subseteq Members(n, head)
  <2>1. CASE head = NoTag
    BY <2>1, QueueEmpty
  <2>2. CASE head # NoTag
    <3> SUFFICES ASSUME NEW t \in W, NEW S \in SUBSET Tags, head \in S,
                        \A u \in S : n[u] # NoTag => n[u] \in S
                 PROVE  t \in S
      BY <2>2 DEF Members
    <3> DEFINE K == S \cap W
    <3>1. /\ t \in Members(next, head) /\ head \in K /\ K \in SUBSET Tags
          /\ \A u \in K : next[u] # NoTag => next[u] \in K
      BY <2>2 DEF QueueOf
    <3> HIDE DEF K
    <3>2. t \in K
      BY <3>1, MemberIn
    <3> QED BY <3>2 DEF K
  <2> QED BY <2>1, <2>2
<1> QED BY <1>1 DEF QueueOf

LEMMA QueueAppend ==
  ASSUME NEW W \in SUBSET Tags, NEW next \in Links, NEW head \in Tags,
         QueueOf(next, head, W),
         NEW p \in Tags \ W, next[p] = NoTag, NEW t \in W, next[t] = NoTag
  PROVE  QueueOf([next EXCEPT ![t] = p], head, W \cup {p})
<1> DEFINE n == [next EXCEPT ![t] = p]
<1>1. n \in Links /\ t \in Tags /\ t # p
  BY DEF Links
<1>2. n[t] = p /\ \A u \in Tags : u # t => n[u] = next[u]
  BY <1>1 DEF Links
<1> HIDE DEF n
<1>3. head \in W /\ p # head
  BY NullFacts DEF QueueOf
<1>4. \A u \in W \cup {p} : n[u] \in W \cup {p} \cup {NoTag}
  BY <1>2 DEF QueueOf
<1>5. \A u \in W \cup {p} : n[u] # head
  BY <1>2, <1>3, NullFacts DEF QueueOf
<1>6. \A u, v \in W \cup {p} : n[u] = n[v] => u = v \/ n[u] = NoTag
  <2> SUFFICES ASSUME NEW u \in W \cup {p}, NEW v \in W \cup {p}, n[u] = n[v],
                      n[u] # NoTag
               PROVE  u = v
    OBVIOUS
  <2>1. u # p /\ v # p
    BY <1>1, <1>2
  <2>2. CASE u = t \/ v = t
    BY <1>2, <2>1, <2>2, NullFacts DEF QueueOf
  <2>3. CASE u # t /\ v # t
    BY <1>2, <2>1, <2>3 DEF QueueOf
  <2> QED BY <2>2, <2>3
<1>7. W \cup {p} \subseteq Members(n, head)
  <2> SUFFICES ASSUME NEW x \in W \cup {p}, NEW S \in SUBSET Tags, head \in S,
                      \A u \in S : n[u] # NoTag => n[u] \in S
               PROVE  x \in S
    BY <1>1, NullFacts DEF Members
  <2>1. \A u \in S : next[u] # NoTag => next[u] \in S
    BY <1>2
  <2>2. W \subseteq S
    <3> SUFFICES ASSUME NEW y \in W PROVE y \in S
      OBVIOUS
    <3>1. y \in Members(next, head)
      BY DEF QueueOf
    <3> QED BY <2>1, <3>1, MemberIn
  <2>3. p \in S
    BY <1>1, <1>2, <2>2, NullFacts
  <2> QED BY <2>2, <2>3
<1>8. QueueOf(n, head, W \cup {p})
  BY <1>3, <1>4, <1>5, <1>6, <1>7 DEF QueueOf
<1> QED BY <1>8 DEF n

LEMMA QueueFirst ==
  ASSUME NEW W \in SUBSET Tags, NEW next \in Links, QueueOf(next, NoTag, W),
         NEW p \in Tags \ W, next[p] = NoTag
  PROVE  QueueOf(next, p, W \cup {p})
<1>1. W = {}
  BY QueueEmpty
<1>2. p \in Members(next, p)
  BY NullFacts DEF Members
<1> QED BY <1>1, <1>2, NullFacts DEF QueueOf

LEMMA QueueRest ==
  ASSUME NEW W \in SUBSET Tags, NEW next \in Links, NEW head \in Tags,
         QueueOf(next, head, W)
  PROVE  QueueOf([next EXCEPT ![head] = NoTag], next[head], W \ {head})
<1> DEFINE n == [next EXCEPT ![head] = NoTag]
           second == next[head]
<1>1. /\ \A u \in Tags : n[u] = IF u = head THEN NoTag ELSE next[u]
      /\ head # NoTag /\ head \in W /\ second \in W \cup {NoTag}
  BY NullFacts DEF QueueOf, Links
<1> HIDE DEF n
<1>2. W \ {head} \subseteq Members(n, second)
  <2> SUFFICES ASSUME NEW x \in W \ {head} PROVE x \in Members(n, second)
    OBVIOUS
  <2>0. x \in Members(next, head) /\ x \in Tags
    BY DEF QueueOf
  <2>1. second # NoTag
    <3> SUFFICES ASSUME second = NoTag PROVE FALSE
      OBVIOUS
    <3>1. \A u \in {head} : next[u] # NoTag => next[u] \in {head}
      OBVIOUS
    <3>2. x \in {head}
      BY <2>0, <3>1, MemberIn
    <3> QED BY <3>2
  <2> SUFFICES ASSUME NEW S \in SUBSET Tags, second \in S,
                      \A u \in S : n[u] # NoTag => n[u] \in S
               PROVE  x \in S
    BY <2>0, <2>1 DEF Members
  <2> DEFINE K == S \cup {head}
  <2>2. /\ \A u \in K : next[u] # NoTag => next[u] \in K
        /\ head \in K /\ K \in SUBSET Tags
    BY <1>1
  <2> HIDE DEF K
  <2>3. x \in K
    BY <2>0, <2>2, MemberIn
  <2> QED BY <2>3 DEF K
<1>3. QueueOf(n, second, W \ {head})
  BY <1>1, <1>2, NullFacts DEF QueueOf
<1> QED BY <1>3 DEF n

(***************************************************************************)
(* The pool.                                                               *)
(***************************************************************************)
LEMMA WaitingTags ==
  ASSUME NEW s
  PROVE  /\ LegacyWaiting(s) \subseteq Tags /\ NcqWaiting(s) \subseteq Tags
         /\ LegacyWaiting(s) \cap NcqWaiting(s) = {}
         /\ Waiting(s) = LegacyWaiting(s) \cup NcqWaiting(s)
BY DEF LegacyWaiting, NcqWaiting, Waiting

\* PoolInv reads of an SCM at the drive only that it is there.
LEMMA PoolSame ==
  ASSUME NEW s \in Channel, PoolInv(s), NEW r \in Channel,
         r.next = s.next, r.que = s.que, r.ncq_que = s.ncq_que,
         r.cFree = s.cFree, r.default_cFree = s.default_cFree,
         r.sBusy = s.sBusy, r.prot = s.prot, r.EXQH \subseteq r.sBusy,
         \A t \in Tags \ s.sBusy : r.ctxt[t] = s.ctxt[t]
  PROVE  PoolInv(r) /\ Waiting(r) = Waiting(s)
<1>1. Waiting(r) = Waiting(s)
  BY DEF Waiting
<1>2. LegacyWaiting(r) = LegacyWaiting(s) /\ NcqWaiting(r) = NcqWaiting(s)
  BY <1>1 DEF LegacyWaiting, NcqWaiting
<1>3. \A t \in r.cFree : r.ctxt[t] = NoCmd
  BY DEF PoolInv, Channel
<1> QED BY <1>1, <1>2, <1>3 DEF PoolInv

\* The tags T have left the drive and are detached.
Detached(s, T) == [DetachCCM(s, T) EXCEPT !.sBusy = s.sBusy \ T]

LEMMA DetachPool ==
  ASSUME NEW s \in Channel, PoolInv(s), NEW T \in SUBSET s.sBusy,
         T \cap s.EXQH = {},
         NEW d, d = Detached(s, T)
  PROVE  /\ d \in Channel /\ PoolInv(d) /\ Waiting(d) = Waiting(s)
         /\ d.sBusy = s.sBusy \ T /\ d.cFree = s.cFree \cup T
         /\ d.State = s.State /\ d.subState = s.subState /\ d.cur = s.cur
         /\ d.EXQH = s.EXQH /\ d.prot = s.prot
         /\ d.default_cFree = s.default_cFree
         /\ d.ctxt = [t \in Tags |-> IF t \in T THEN NoCmd ELSE s.ctxt[t]]
<1>1. /\ d.sBusy = s.sBusy \ T /\ d.cFree = s.cFree \cup T
      /\ d.State = s.State /\ d.subState = s.subState /\ d.cur = s.cur
      /\ d.EXQH = s.EXQH /\ d.prot = s.prot
      /\ d.default_cFree = s.default_cFree /\ d.que = s.que /\ d.ncq_que = s.ncq_que
      /\ d.ctxt = [t \in Tags |-> IF t \in T THEN NoCmd ELSE s.ctxt[t]]
      /\ d.next = [t \in Tags |-> IF t \in T THEN NoTag ELSE s.next[t]]
  BY DEF Detached, DetachCCM, Channel
<1>2. T \subseteq Tags /\ s.sBusy \subseteq Tags /\ s.cFree \subseteq Tags
  BY DEF Channel
<1>3. d \in Channel
  <2>1. DetachCCM(s, T) \in Channel
    BY <1>2, DetachCCMType
  <2> QED BY <2>1, <1>2 DEF Detached, Channel
<1>4. Waiting(d) = Waiting(s)
  BY <1>1, <1>2 DEF Waiting
<1>5. LegacyWaiting(d) = LegacyWaiting(s) /\ NcqWaiting(d) = NcqWaiting(s)
  BY <1>1, <1>4 DEF LegacyWaiting, NcqWaiting
<1>6. \A t \in Waiting(s) : d.next[t] = s.next[t]
  BY <1>1, <1>2 DEF Waiting
<1>7. QueueOf(d.next, d.que, LegacyWaiting(d))
  BY <1>1, <1>5, <1>6, WaitingTags, QueueSame DEF PoolInv
<1>8. QueueOf(d.next, d.ncq_que, NcqWaiting(d))
  BY <1>1, <1>5, <1>6, WaitingTags, QueueSame DEF PoolInv
<1>9. \A t \in d.cFree : d.ctxt[t] = NoCmd
  BY <1>1, <1>2 DEF PoolInv
<1>10. d.sBusy \cap d.cFree = {} /\ d.EXQH \subseteq d.sBusy /\ d.default_cFree # {}
      /\ d.default_cFree \subseteq d.cFree \cup d.sBusy \cup Waiting(d)
  BY <1>1, <1>4 DEF PoolInv
<1> QED BY <1>1, <1>3, <1>4, <1>7, <1>8, <1>9, <1>10 DEF PoolInv

LEMMA DeletePool ==
  ASSUME NEW s \in Channel, PoolInv(s), s.cur \in s.sBusy, s.cur \notin s.EXQH,
         NEW r, r = delete_curSCM(s)
  PROVE  /\ r \in Channel /\ PoolInv(r) /\ Waiting(r) = Waiting(s)
         /\ r.sBusy = s.sBusy \ {s.cur} /\ r.cFree = s.cFree \cup {s.cur}
         /\ r.State = s.State /\ r.subState = s.subState /\ r.cur = NoTag
         /\ r.EXQH = s.EXQH /\ r.prot = s.prot /\ r.default_cFree = s.default_cFree
         /\ r.ctxt = [t \in Tags |-> IF t = s.cur THEN NoCmd ELSE s.ctxt[t]]
<1> DEFINE d == Detached(s, {s.cur})
<1>1. s.cur # NoTag /\ s.cur \in Tags
  BY NullFacts DEF Channel
<1>2. /\ d \in Channel /\ PoolInv(d) /\ Waiting(d) = Waiting(s)
      /\ d.sBusy = s.sBusy \ {s.cur} /\ d.cFree = s.cFree \cup {s.cur}
      /\ d.State = s.State /\ d.subState = s.subState
      /\ d.EXQH = s.EXQH /\ d.prot = s.prot /\ d.default_cFree = s.default_cFree
      /\ d.ctxt = [t \in Tags |-> IF t \in {s.cur} THEN NoCmd ELSE s.ctxt[t]]
  <2>1. {s.cur} \in SUBSET s.sBusy /\ {s.cur} \cap s.EXQH = {}
    OBVIOUS
  <2> QED BY <2>1, DetachPool
<1>3. r = [d EXCEPT !.cur = NoTag]
  BY <1>1 DEF delete_curSCM, Detached, DetachCCM, Channel
<1> HIDE DEF d
<1>4. /\ r.sBusy = d.sBusy /\ r.cFree = d.cFree /\ r.State = d.State
      /\ r.subState = d.subState /\ r.cur = NoTag /\ r.EXQH = d.EXQH
      /\ r.prot = d.prot /\ r.default_cFree = d.default_cFree /\ r.ctxt = d.ctxt
      /\ r.next = d.next /\ r.que = d.que /\ r.ncq_que = d.ncq_que /\ r \in Channel
  BY <1>2, <1>3, delete_curSCMType DEF Channel
<1>5. PoolInv(r) /\ Waiting(r) = Waiting(d)
  <2>1. r.EXQH \subseteq r.sBusy
    BY <1>2, <1>4 DEF PoolInv
  <2> QED BY <1>2, <1>4, <2>1, PoolSame
<1> QED BY <1>1, <1>2, <1>4, <1>5

\* After a reset the whole pool is free and nothing is queued.
LEMMA ResetPool ==
  ASSUME NEW s \in Channel, s.default_cFree # {}, s.EXQH = {},
         NEW d, d = InitSataObj(s)
  PROVE  /\ d \in Channel /\ PoolInv(d) /\ Waiting(d) = {}
         /\ d.sBusy = {} /\ d.cFree = s.default_cFree /\ d.cur = NoTag
         /\ d.State = s.State /\ d.EXQH = {} /\ d.default_cFree = s.default_cFree
<1>1. /\ d.sBusy = {} /\ d.cFree = s.default_cFree /\ d.cur = NoTag
      /\ d.State = s.State /\ d.EXQH = {} /\ d.default_cFree = s.default_cFree
      /\ d.que = NoTag /\ d.ncq_que = NoTag
      /\ d.ctxt = [t \in Tags |-> NoCmd] /\ d.next = [t \in Tags |-> NoTag]
  BY DEF InitSataObj, Channel
<1>2. Waiting(d) = {}
  BY <1>1 DEF Waiting
<1>3. LegacyWaiting(d) = {} /\ NcqWaiting(d) = {}
  BY <1>2 DEF LegacyWaiting, NcqWaiting
<1>4. d.cFree \subseteq Tags
  BY <1>1 DEF Channel
<1>5. PoolInv(d)
  BY <1>1, <1>3, <1>4 DEF PoolInv, QueueOf
<1> QED BY <1>1, <1>2, <1>5, InitSataObjType

(***************************************************************************)
(* A command gets its CCM.                                                 *)
(***************************************************************************)
\* Between BindScm and the append: the pool is in order without the new SCM.
Bound(b, t, c, p) ==
  /\ b \in Channel /\ t \in Tags
  /\ b.sBusy \cap b.cFree = {} /\ b.EXQH \subseteq b.sBusy /\ b.default_cFree # {}
  /\ \A u \in b.cFree : b.ctxt[u] = NoCmd
  /\ b.default_cFree \subseteq b.cFree \cup b.sBusy \cup Waiting(b)
  /\ t \in Waiting(b) /\ t \notin b.cFree
  /\ b.next[t] = NoTag /\ b.ctxt[t] = c /\ b.prot[t] = p
  /\ QueueOf(b.next, b.que, LegacyWaiting(b) \ {t})
  /\ QueueOf(b.next, b.ncq_que, NcqWaiting(b) \ {t})

\* No SCM of s has lost its command in r.
KeepsBound(r, s) == \A u \in Tags : s.ctxt[u] # NoCmd => r.ctxt[u] = s.ctxt[u]

LEMMA BindPool ==
  ASSUME NEW s \in Channel, PoolInv(s), NEW t \in s.cFree,
         NEW c \in Cmds \cup {Internal}, NEW p \in Prots,
         NEW b, b = BindScm(s, t, c, p)
  PROVE  /\ Bound(b, t, c, p) /\ KeepsBound(b, s)
         /\ Waiting(b) = Waiting(s) \cup {t} /\ t \notin Waiting(s) /\ t \notin s.sBusy
         /\ b.sBusy = s.sBusy /\ b.EXQH = s.EXQH /\ b.cur = s.cur
         /\ b.State = s.State /\ b.subState = s.subState
         /\ b.default_cFree = s.default_cFree
         /\ b.que = s.que /\ b.ncq_que = s.ncq_que
         /\ \A u \in Tags \ {t} : /\ b.ctxt[u] = s.ctxt[u] /\ b.prot[u] = s.prot[u]
                                  /\ b.next[u] = s.next[u]
<1>1. t \in Tags /\ c # NoCmd /\ t \notin s.sBusy /\ s.ctxt[t] = NoCmd
  BY NullAssumption DEF Channel, PoolInv
<1>2. b \in Channel
  BY <1>1, BindScmType
<1>3. /\ b.sBusy = s.sBusy /\ b.EXQH = s.EXQH /\ b.cur = s.cur
      /\ b.State = s.State /\ b.subState = s.subState
      /\ b.default_cFree = s.default_cFree /\ b.cFree = s.cFree \ {t}
      /\ b.que = s.que /\ b.ncq_que = s.ncq_que
  BY DEF BindScm
<1>4. b.ctxt[t] = c /\ b.prot[t] = p /\ b.next[t] = NoTag
  BY <1>1 DEF BindScm, Channel
<1>5. \A u \in Tags \ {t} : /\ b.ctxt[u] = s.ctxt[u] /\ b.prot[u] = s.prot[u]
                            /\ b.next[u] = s.next[u]
  BY <1>1 DEF BindScm, Channel
<1>6. Waiting(b) = Waiting(s) \cup {t} /\ t \notin Waiting(s)
  BY <1>1, <1>3, <1>4, <1>5 DEF Waiting
<1>7. /\ LegacyWaiting(b) \ {t} = LegacyWaiting(s)
      /\ NcqWaiting(b) \ {t} = NcqWaiting(s)
  BY <1>5, <1>6, WaitingTags DEF LegacyWaiting, NcqWaiting
<1>8. /\ QueueOf(b.next, b.que, LegacyWaiting(b) \ {t})
      /\ QueueOf(b.next, b.ncq_que, NcqWaiting(b) \ {t})
  <2>1. /\ \A u \in LegacyWaiting(s) \cup NcqWaiting(s) : b.next[u] = s.next[u]
        /\ LegacyWaiting(s) \in SUBSET Tags /\ NcqWaiting(s) \in SUBSET Tags
    BY <1>5, <1>6, WaitingTags
  <2>2. /\ QueueOf(s.next, s.que, LegacyWaiting(s))
        /\ QueueOf(s.next, s.ncq_que, NcqWaiting(s))
    BY DEF PoolInv
  <2>3. /\ QueueOf(b.next, b.que, LegacyWaiting(s))
        /\ QueueOf(b.next, b.ncq_que, NcqWaiting(s))
    BY <1>3, <2>1, <2>2, QueueSame
  <2> QED BY <1>7, <2>3
<1>9. \A u \in b.cFree : b.ctxt[u] = NoCmd
  BY <1>3, <1>5 DEF PoolInv, Channel
<1>10. b.sBusy \cap b.cFree = {} /\ b.EXQH \subseteq b.sBusy /\ b.default_cFree # {}
      /\ b.default_cFree \subseteq b.cFree \cup b.sBusy \cup Waiting(b)
  BY <1>3, <1>6 DEF PoolInv
<1>11. KeepsBound(b, s)
  BY <1>1, <1>5 DEF KeepsBound
<1> QED BY <1>1, <1>2, <1>3, <1>4, <1>5, <1>6, <1>8, <1>9, <1>10, <1>11 DEF Bound

\* It is parked at the end of a queue of its class.
LEMMA AppendPool ==
  ASSUME NEW b, NEW t, NEW c, NEW p, Bound(b, t, c, p),
         NEW q \in {"que", "ncq_que"}, q = "ncq_que" <=> p \in NcqProts,
         NEW r, r = AppendQue(b, q, t)
  PROVE  /\ r \in Channel /\ PoolInv(r)
         /\ r.sBusy = b.sBusy /\ r.EXQH = b.EXQH /\ r.cur = b.cur
         /\ r.State = b.State /\ r.subState = b.subState
         /\ r.ctxt = b.ctxt /\ r.prot = b.prot
<1> DEFINE W    == IF q = "que" THEN LegacyWaiting(b) \ {t} ELSE NcqWaiting(b) \ {t}
           V    == IF q = "que" THEN NcqWaiting(b) ELSE LegacyWaiting(b)
           head == IF q = "que" THEN b.que ELSE b.ncq_que
           tail == CHOOSE u \in Tails(b.next, head) : TRUE
           n    == [b.next EXCEPT ![tail] = t]
           Grown(nx, hd) ==
             r = IF q = "que" THEN [b EXCEPT !.next = nx, !.que = hd]
                 ELSE [b EXCEPT !.next = nx, !.ncq_que = hd]
<1>1. /\ b \in Channel /\ t \in Tags /\ b.next[t] = NoTag /\ b.next \in Links
      /\ W \subseteq Tags /\ t \notin W /\ V \subseteq Tags /\ t \notin V
      /\ W \cap V = {} /\ QueueOf(b.next, head, W)
      /\ head \in Tags \cup {NoTag}
  BY WaitingTags DEF Bound, Channel, Links, LegacyWaiting, NcqWaiting
<1>2. [b.next EXCEPT ![t] = NoTag] = b.next
  BY <1>1 DEF Links
<1>3. \E nx \in Links, hd \in Tags :
        /\ Grown(nx, hd)
        /\ QueueOf(nx, hd, W \cup {t})
        /\ \A u \in V : nx[u] = b.next[u]
  <2>1. CASE head = NoTag
    <3>1. Grown(b.next, t)
      <4>1. q = "que" => b.que = NoTag
        BY <2>1
      <4>2. q = "ncq_que" => b.ncq_que = NoTag
        BY <2>1
      <4> QED BY <1>2, <4>1, <4>2 DEF AppendQue
    <3>2. QueueOf(b.next, t, W \cup {t})
      BY <1>1, <2>1, QueueFirst
    <3> HIDE DEF Grown, W, V, head
    <3> QED BY <1>1, <3>1, <3>2
  <2>2. CASE head # NoTag
    <3>1. head \in W /\ Tails(b.next, head) # {}
      BY <1>1, <2>2, QueueEnds DEF QueueOf
    <3>2. tail \in W /\ b.next[tail] = NoTag
      BY <1>1, <3>1, MembersWithin DEF Tails
    <3>3. Grown(n, head)
      <4>1. r = [b EXCEPT !.next = n]
        BY <1>2, <2>2, <3>1 DEF AppendQue
      <4> HIDE DEF n
      <4> QED BY <4>1, <1>1 DEF Channel
    <3>4. QueueOf(n, head, W \cup {t})
      <4> HIDE DEF W, V, head, tail
      <4> QED BY <1>1, <2>2, <3>2, QueueAppend
    <3>5. n \in Links /\ \A u \in V : n[u] = b.next[u]
      BY <1>1, <3>2 DEF Links
    <3> HIDE DEF Grown, W, V, head, n
    <3> QED BY <1>1, <2>2, <3>3, <3>4, <3>5
  <2> QED BY <2>1, <2>2
<1>4. PICK nx \in Links, hd \in Tags :
        /\ Grown(nx, hd)
        /\ QueueOf(nx, hd, W \cup {t})
        /\ \A u \in V : nx[u] = b.next[u]
  BY <1>3
<1>5. /\ r.sBusy = b.sBusy /\ r.EXQH = b.EXQH /\ r.cur = b.cur
      /\ r.State = b.State /\ r.subState = b.subState
      /\ r.ctxt = b.ctxt /\ r.prot = b.prot /\ r.cFree = b.cFree
      /\ r.default_cFree = b.default_cFree /\ r.next = nx
  BY <1>1, <1>4 DEF Channel
<1>6. r \in Channel
  BY <1>1, AppendQueType
<1>7. LegacyWaiting(r) = LegacyWaiting(b) /\ NcqWaiting(r) = NcqWaiting(b)
  BY <1>5 DEF LegacyWaiting, NcqWaiting, Waiting
<1>9. Waiting(r) = Waiting(b)
  BY <1>5 DEF Waiting
<1>8. /\ QueueOf(r.next, r.que, LegacyWaiting(r))
      /\ QueueOf(r.next, r.ncq_que, NcqWaiting(r))
  <2>1. CASE q = "que"
    <3>1. t \in LegacyWaiting(b) /\ W \cup {t} = LegacyWaiting(b)
          /\ V = NcqWaiting(b) /\ t \notin NcqWaiting(b)
      BY <2>1, <1>1 DEF Bound, LegacyWaiting
    <3>2. r.que = hd /\ r.ncq_que = b.ncq_que
      BY <1>1, <1>4, <2>1 DEF Channel
    <3>3. QueueOf(b.next, b.ncq_que, V)
      BY <3>1 DEF Bound
    <3> HIDE DEF W, V
    <3>4. QueueOf(nx, b.ncq_que, V)
      BY <1>1, <1>4, <3>3, QueueSame
    <3> QED BY <1>4, <1>5, <1>7, <3>1, <3>2, <3>4
  <2>2. CASE q = "ncq_que"
    <3>1. t \in NcqWaiting(b) /\ W \cup {t} = NcqWaiting(b)
          /\ V = LegacyWaiting(b) /\ t \notin LegacyWaiting(b)
      BY <2>2, <1>1 DEF Bound, NcqWaiting
    <3>2. r.ncq_que = hd /\ r.que = b.que
      BY <1>1, <1>4, <2>2 DEF Channel
    <3>3. QueueOf(b.next, b.que, V)
      BY <3>1 DEF Bound
    <3> HIDE DEF W, V
    <3>4. QueueOf(nx, b.que, V)
      BY <1>1, <1>4, <3>3, QueueSame
    <3> QED BY <1>4, <1>5, <1>7, <3>1, <3>2, <3>4
  <2> QED BY <2>1, <2>2
<1> QED BY <1>5, <1>6, <1>8, <1>9 DEF PoolInv, Bound

\* An SCM that is handed to the drive leaves the waiting ones: PoolInv holds
\* again, and the two queues are those of the other SCMs.
LEMMA BusyPool ==
  ASSUME NEW b, NEW t, NEW c, NEW p, Bound(b, t, c, p),
         NEW r \in Channel, r.sBusy = b.sBusy \cup {t}, r.EXQH = b.EXQH \cup {t},
         r.cFree = b.cFree, r.default_cFree = b.default_cFree,
         r.ctxt = b.ctxt, r.prot = b.prot, r.que = b.que, r.ncq_que = b.ncq_que,
         \A u \in Tags \ {t} : r.next[u] = b.next[u]
  PROVE  PoolInv(r) /\ Waiting(r) = Waiting(b) \ {t}
<1>1. b \in Channel /\ t \in Tags
  BY DEF Bound
<1>2. Waiting(r) = Waiting(b) \ {t}
  BY DEF Waiting
<1>3. /\ LegacyWaiting(r) = LegacyWaiting(b) \ {t}
      /\ NcqWaiting(r) = NcqWaiting(b) \ {t}
  BY <1>2 DEF LegacyWaiting, NcqWaiting
<1>4. \A u \in Tags \ {t} : r.next[u] = b.next[u]
  OBVIOUS
<1>5. QueueOf(r.next, r.que, LegacyWaiting(r))
  <2>1. /\ \A u \in LegacyWaiting(r) : r.next[u] = b.next[u]
        /\ LegacyWaiting(r) \in SUBSET Tags
    BY <1>3, <1>4, WaitingTags
  <2>2. QueueOf(b.next, b.que, LegacyWaiting(r))
    BY <1>3 DEF Bound
  <2> QED BY <2>1, <2>2, QueueSame
<1>6. QueueOf(r.next, r.ncq_que, NcqWaiting(r))
  <2>1. /\ \A u \in NcqWaiting(r) : r.next[u] = b.next[u]
        /\ NcqWaiting(r) \in SUBSET Tags
    BY <1>3, <1>4, WaitingTags
  <2>2. QueueOf(b.next, b.ncq_que, NcqWaiting(r))
    BY <1>3 DEF Bound
  <2> QED BY <2>1, <2>2, QueueSame
<1> QED BY <1>1, <1>2, <1>5, <1>6 DEF PoolInv, Bound

LEMMA ExecPool ==
  ASSUME NEW b, NEW t, NEW c, NEW p, Bound(b, t, c, p), c # NoCmd,
         NEW r, r = exec_scm(b, t)
  PROVE  /\ r \in Channel /\ PoolInv(r) /\ Waiting(r) = Waiting(b) \ {t}
         /\ r.sBusy = b.sBusy \cup {t} /\ r.EXQH = b.EXQH \cup {t} /\ r.cur = t
         /\ r.State = IF b.State = "PRE_READY" THEN "PRE_READY" ELSE "ACTIVE"
         /\ r.subState = b.subState /\ r.ctxt = b.ctxt /\ r.prot = b.prot
<1>1. b \in Channel /\ t \in Tags /\ b.ctxt[t] # NoCmd
  BY DEF Bound
<1>2. r \in Channel
  BY <1>1, exec_scmType
<1>3. /\ r.sBusy = b.sBusy \cup {t} /\ r.EXQH = b.EXQH \cup {t} /\ r.cur = t
      /\ r.State = IF b.State = "PRE_READY" THEN "PRE_READY" ELSE "ACTIVE"
      /\ r.subState = b.subState /\ r.ctxt = b.ctxt /\ r.prot = b.prot
      /\ r.cFree = b.cFree /\ r.default_cFree = b.default_cFree
      /\ r.que = b.que /\ r.ncq_que = b.ncq_que
      /\ \A u \in Tags \ {t} : r.next[u] = b.next[u]
  BY <1>1 DEF exec_scm, Channel
<1>4. PoolInv(r) /\ Waiting(r) = Waiting(b) \ {t}
  BY <1>2, <1>3, BusyPool
<1> QED BY <1>2, <1>3, <1>4

LEMMA ExecNcqPool ==
  ASSUME NEW b, NEW t, NEW c, NEW p, Bound(b, t, c, p),
         NEW r, r = exec_ncq_scm(b, t)
  PROVE  /\ r \in Channel /\ PoolInv(r) /\ Waiting(r) = Waiting(b) \ {t}
         /\ r.sBusy = b.sBusy \cup {t} /\ r.EXQH = b.EXQH \cup {t} /\ r.cur = b.cur
         /\ r.State = "NCQ_ACTIVE"
         /\ r.subState = IF b.State = "READY" THEN "NCQ_IDLE" ELSE b.subState
         /\ r.ctxt = b.ctxt /\ r.prot = b.prot
<1>1. b \in Channel /\ t \in Tags
  BY DEF Bound
<1>2. r \in Channel
  BY <1>1, exec_ncq_scmType
<1>3. /\ r.sBusy = b.sBusy \cup {t} /\ r.EXQH = b.EXQH \cup {t} /\ r.cur = b.cur
      /\ r.State = "NCQ_ACTIVE"
      /\ r.subState = IF b.State = "READY" THEN "NCQ_IDLE" ELSE b.subState
      /\ r.ctxt = b.ctxt /\ r.prot = b.prot
      /\ r.cFree = b.cFree /\ r.default_cFree = b.default_cFree
      /\ r.que = b.que /\ r.ncq_que = b.ncq_que
      /\ \A u \in Tags \ {t} : r.next[u] = b.next[u]
  BY <1>1 DEF exec_ncq_scm, Channel
<1>4. PoolInv(r) /\ Waiting(r) = Waiting(b) \ {t}
  BY <1>2, <1>3, BusyPool
<1> QED BY <1>2, <1>3, <1>4

(***************************************************************************)
(* sata_exec_ctxt and sata_exec_ncq_ctxt as wholes: the command is handed  *)
(* to the drive or parked.                                                 *)
(***************************************************************************)
\* What is at the drive is the same in r as in s, but for sobj_State.
SameBusy(r, s) ==
  /\ r \in Channel /\ PoolInv(r) /\ KeepsBound(r, s)
  /\ r.sBusy = s.sBusy /\ r.EXQH = s.EXQH /\ r.cur = s.cur /\ r.subState = s.subState
  /\ \A u \in s.sBusy : r.ctxt[u] = s.ctxt[u] /\ r.prot[u] = s.prot[u]

\* The SCM t has been handed to the drive.
AddsBusy(r, s, t) ==
  /\ r \in Channel /\ PoolInv(r) /\ KeepsBound(r, s) /\ t \in Tags \ s.sBusy
  /\ r.sBusy = s.sBusy \cup {t} /\ r.EXQH = s.EXQH \cup {t}
  /\ \A u \in s.sBusy : r.ctxt[u] = s.ctxt[u] /\ r.prot[u] = s.prot[u]

LEMMA StartLegacy ==
  ASSUME NEW s \in Channel, PoolInv(s), s.cFree # {}, s.State \in {"READY", "PRE_READY"},
         NEW c \in Cmds \cup {Internal}, NEW p \in Prots,
         NEW r, r = exec_ctxt(s, c, p)
  PROVE  /\ AddsBusy(r, s, r.cur) /\ Waiting(r) = Waiting(s)
         /\ r.ctxt[r.cur] = c /\ r.prot[r.cur] = p
         /\ r.State = IF s.State = "PRE_READY" THEN "PRE_READY" ELSE "ACTIVE"
         /\ r.subState = s.subState
<1> DEFINE t == AllocateCCM(s)
           b == BindScm(s, t, c, p)
<1>1. t \in s.cFree
  BY AllocateCCMFree
<1>2. r = exec_scm(b, t)
  BY DEF exec_ctxt, append_scm, BindScm
<1>3. c # NoCmd
  BY NullAssumption
<1> HIDE DEF t
<1>4. /\ Bound(b, t, c, p) /\ KeepsBound(b, s)
      /\ Waiting(b) = Waiting(s) \cup {t} /\ t \notin Waiting(s) /\ t \notin s.sBusy
      /\ b.sBusy = s.sBusy /\ b.EXQH = s.EXQH /\ b.State = s.State
      /\ b.subState = s.subState
      /\ \A u \in Tags \ {t} : b.ctxt[u] = s.ctxt[u] /\ b.prot[u] = s.prot[u]
  BY <1>1, BindPool
<1> HIDE DEF b
<1>5. /\ r \in Channel /\ PoolInv(r) /\ Waiting(r) = Waiting(b) \ {t}
      /\ r.sBusy = b.sBusy \cup {t} /\ r.EXQH = b.EXQH \cup {t} /\ r.cur = t
      /\ r.State = IF b.State = "PRE_READY" THEN "PRE_READY" ELSE "ACTIVE"
      /\ r.subState = b.subState /\ r.ctxt = b.ctxt /\ r.prot = b.prot
  BY <1>2, <1>3, <1>4, ExecPool
<1>6. b.ctxt[t] = c /\ b.prot[t] = p /\ t \in Tags
  BY <1>4 DEF Bound
<1>7. s.sBusy \subseteq Tags /\ Waiting(r) = Waiting(s)
  BY <1>4, <1>5 DEF Channel
<1> QED BY <1>4, <1>5, <1>6, <1>7 DEF AddsBusy, KeepsBound

LEMMA ParkLegacy ==
  ASSUME NEW s \in Channel, PoolInv(s), s.cFree # {},
         s.State = "ACTIVE" \/ (NcqPhase(s) /\ s.subState # "NCQ_ERROR"),
         NEW c \in Cmds \cup {Internal}, NEW p \in Prots \ NcqProts,
         NEW r, r = exec_ctxt(s, c, p)
  PROVE  /\ SameBusy(r, s) /\ \E t \in Tags : r.ctxt[t] = c
         /\ r.State = IF NcqPhase(s) THEN "NCQ_FLUSH" ELSE "ACTIVE"
<1> DEFINE t == AllocateCCM(s)
           b == BindScm(s, t, c, p)
           st == IF s.State = "NCQ_ACTIVE" THEN "NCQ_FLUSH" ELSE s.State
           d == [b EXCEPT !.State = st]
<1>1. t \in s.cFree
  BY AllocateCCMFree
<1>2. r = AppendQue(d, "que", t)
  <2>1. b.State = s.State /\ b.subState = s.subState
    BY DEF BindScm
  <2>2. r = append_scm(b, t)
    BY DEF exec_ctxt
  <2> HIDE DEF b, t
  <2> QED BY <2>1, <2>2 DEF append_scm, NcqPhase
<1> HIDE DEF t
<1>4. /\ Bound(b, t, c, p) /\ KeepsBound(b, s) /\ t \notin s.sBusy
      /\ b.sBusy = s.sBusy /\ b.EXQH = s.EXQH /\ b.State = s.State /\ b.cur = s.cur
      /\ b.subState = s.subState
      /\ \A u \in Tags \ {t} : b.ctxt[u] = s.ctxt[u] /\ b.prot[u] = s.prot[u]
  BY <1>1, BindPool
<1> HIDE DEF b
<1>5. st \in States
  BY DEF Channel, States
<1>6. /\ Bound(d, t, c, p)
      /\ d.sBusy = b.sBusy /\ d.EXQH = b.EXQH /\ d.State = st /\ d.cur = b.cur
      /\ d.subState = b.subState /\ d.ctxt = b.ctxt /\ d.prot = b.prot
  <2> HIDE DEF st
  <2>1. /\ d \in Channel
        /\ d.sBusy = b.sBusy /\ d.EXQH = b.EXQH /\ d.State = st /\ d.cur = b.cur
        /\ d.subState = b.subState /\ d.ctxt = b.ctxt /\ d.prot = b.prot
        /\ d.next = b.next /\ d.que = b.que /\ d.ncq_que = b.ncq_que
        /\ d.cFree = b.cFree /\ d.default_cFree = b.default_cFree
    BY <1>4, <1>5 DEF Bound, Channel
  <2> HIDE DEF d
  <2>2. /\ Waiting(d) = Waiting(b) /\ LegacyWaiting(d) = LegacyWaiting(b)
        /\ NcqWaiting(d) = NcqWaiting(b)
    BY <2>1 DEF Waiting, LegacyWaiting, NcqWaiting
  <2> QED BY <1>4, <2>1, <2>2 DEF Bound
<1> HIDE DEF d
<1>7. /\ r \in Channel /\ PoolInv(r)
      /\ r.sBusy = d.sBusy /\ r.EXQH = d.EXQH /\ r.cur = d.cur
      /\ r.State = d.State /\ r.subState = d.subState
      /\ r.ctxt = d.ctxt /\ r.prot = d.prot
  BY <1>2, <1>6, AppendPool
<1>8. r.State = IF NcqPhase(s) THEN "NCQ_FLUSH" ELSE "ACTIVE"
  BY <1>6, <1>7 DEF NcqPhase
<1>9. t \in Tags /\ r.ctxt[t] = c
  BY <1>6, <1>7 DEF Bound
<1> QED BY <1>4, <1>6, <1>7, <1>8, <1>9 DEF SameBusy, KeepsBound, Channel

LEMMA StartNcq ==
  ASSUME NEW s \in Channel, PoolInv(s), s.cFree # {}, s.State \in {"READY", "NCQ_ACTIVE"},
         NEW c \in Cmds, NEW p \in NcqProts,
         NEW r, r = exec_ncq_ctxt(s, c, p)
  PROVE  \E t \in Tags :
           /\ AddsBusy(r, s, t) /\ r.ctxt[t] = c /\ r.prot[t] = p
           /\ r.State = "NCQ_ACTIVE" /\ r.cur = s.cur
           /\ r.subState = IF s.State = "READY" THEN "NCQ_IDLE" ELSE s.subState
<1> DEFINE t == AllocateCCM(s)
           b == BindScm(s, t, c, p)
<1>1. t \in s.cFree /\ t \in Tags /\ p \in Prots
  BY AllocateCCMFree DEF Prots
<1>2. r = exec_ncq_scm(b, t)
  BY DEF exec_ncq_ctxt, append_ncq_scm, BindScm
<1> HIDE DEF t
<1>4. /\ Bound(b, t, c, p) /\ KeepsBound(b, s) /\ t \notin s.sBusy
      /\ b.sBusy = s.sBusy /\ b.EXQH = s.EXQH /\ b.State = s.State
      /\ b.subState = s.subState /\ b.cur = s.cur
      /\ \A u \in Tags \ {t} : b.ctxt[u] = s.ctxt[u] /\ b.prot[u] = s.prot[u]
  BY <1>1, BindPool
<1> HIDE DEF b
<1>5. /\ r \in Channel /\ PoolInv(r)
      /\ r.sBusy = b.sBusy \cup {t} /\ r.EXQH = b.EXQH \cup {t} /\ r.cur = b.cur
      /\ r.State = "NCQ_ACTIVE"
      /\ r.subState = IF b.State = "READY" THEN "NCQ_IDLE" ELSE b.subState
      /\ r.ctxt = b.ctxt /\ r.prot = b.prot
  BY <1>2, <1>4, ExecNcqPool
<1>6. AddsBusy(r, s, t) /\ r.ctxt[t] = c /\ r.prot[t] = p
  BY <1>1, <1>4, <1>5 DEF AddsBusy, KeepsBound, Bound, Channel
<1> QED BY <1>1, <1>4, <1>5, <1>6

LEMMA ParkNcq ==
  ASSUME NEW s \in Channel, PoolInv(s), s.cFree # {}, s.State \in {"ACTIVE", "NCQ_FLUSH"},
         NEW c \in Cmds, NEW p \in NcqProts,
         NEW r, r = exec_ncq_ctxt(s, c, p)
  PROVE  SameBusy(r, s) /\ r.State = s.State /\ \E t \in Tags : r.ctxt[t] = c
<1> DEFINE t == AllocateCCM(s)
           b == BindScm(s, t, c, p)
<1>1. t \in s.cFree /\ t \in Tags /\ p \in Prots
  BY AllocateCCMFree DEF Prots
<1>2. r = AppendQue(b, "ncq_que", t)
  BY DEF exec_ncq_ctxt, append_ncq_scm, BindScm
<1> HIDE DEF t
<1>4. /\ Bound(b, t, c, p) /\ KeepsBound(b, s) /\ t \notin s.sBusy
      /\ b.sBusy = s.sBusy /\ b.EXQH = s.EXQH /\ b.State = s.State
      /\ b.subState = s.subState /\ b.cur = s.cur
      /\ \A u \in Tags \ {t} : b.ctxt[u] = s.ctxt[u] /\ b.prot[u] = s.prot[u]
  BY <1>1, BindPool
<1> HIDE DEF b
<1>5. /\ r \in Channel /\ PoolInv(r)
      /\ r.sBusy = b.sBusy /\ r.EXQH = b.EXQH /\ r.cur = b.cur
      /\ r.State = b.State /\ r.subState = b.subState
      /\ r.ctxt = b.ctxt /\ r.prot = b.prot
  BY <1>2, <1>4, AppendPool
<1>6. r.ctxt[t] = c
  BY <1>4, <1>5 DEF Bound
<1> QED BY <1>1, <1>4, <1>5, <1>6 DEF SameBusy, KeepsBound, Channel

\* sata_exec_next_scm with nothing at the drive.
LEMMA NextPool ==
  ASSUME NEW s \in Channel, PoolInv(s), s.sBusy = {}, s.State = "READY",
         NEW r, r = exec_next_scm(s)
  PROVE  \/ r = s /\ Waiting(s) = {}
         \/ /\ AddsBusy(r, s, r.cur) /\ r.State = "ACTIVE" /\ r.subState = s.subState
            /\ r.prot[r.cur] \notin NcqProts /\ r.ctxt[r.cur] # NoCmd
         \/ \E t \in Tags :
              /\ AddsBusy(r, s, t) /\ r.State = "NCQ_ACTIVE" /\ r.subState = "NCQ_IDLE"
              /\ r.cur = s.cur /\ r.prot[t] \in NcqProts /\ r.ctxt[t] # NoCmd
<1>0. /\ s.next \in Links
      /\ QueueOf(s.next, s.que, LegacyWaiting(s))
      /\ QueueOf(s.next, s.ncq_que, NcqWaiting(s))
      /\ \A u \in LegacyWaiting(s) : u \notin NcqWaiting(s)
  BY WaitingTags DEF Channel, Links, PoolInv
<1>1. ASSUME NEW h \in Waiting(s), NEW d \in Channel,
             d.next = [s.next EXCEPT ![h] = NoTag],
             d.sBusy = {}, d.EXQH = s.EXQH, d.cFree = s.cFree,
             d.default_cFree = s.default_cFree, d.ctxt = s.ctxt, d.prot = s.prot,
             QueueOf(d.next, d.que, LegacyWaiting(s) \ {h}),
             QueueOf(d.next, d.ncq_que, NcqWaiting(s) \ {h})
      PROVE  Bound(d, h, s.ctxt[h], s.prot[h])
  <2>1. /\ Waiting(d) = Waiting(s) /\ LegacyWaiting(d) = LegacyWaiting(s)
        /\ NcqWaiting(d) = NcqWaiting(s)
    BY <1>1 DEF Waiting, LegacyWaiting, NcqWaiting
  <2>2. h \in Tags /\ h \notin s.cFree /\ d.next[h] = NoTag
    BY <1>0, <1>1 DEF PoolInv, Waiting, Links
  <2> QED BY <1>1, <2>1, <2>2 DEF Bound, PoolInv
<1>2. CASE s.que # NoTag
  <2> DEFINE h == s.que
             d == [s EXCEPT !.que = s.next[h], !.next = [s.next EXCEPT ![h] = NoTag]]
  <2>1. h \in LegacyWaiting(s) /\ h \in Tags /\ h \in Waiting(s)
    BY <1>0, <1>2, WaitingTags DEF QueueOf
  <2>2. d \in Channel
    BY <2>1 DEF Channel
  <2>3. r = exec_scm(d, h)
    BY <1>2 DEF exec_next_scm
  <2>4. QueueOf(d.next, d.que, LegacyWaiting(s) \ {h})
    BY <1>0, <2>1, WaitingTags, QueueRest DEF Channel
  <2>5. QueueOf(d.next, d.ncq_que, NcqWaiting(s) \ {h})
    <3>1. NcqWaiting(s) \ {h} = NcqWaiting(s) /\ d.ncq_que = s.ncq_que
      BY <1>0, <2>1
    <3>2. /\ \A u \in NcqWaiting(s) : d.next[u] = s.next[u]
          /\ NcqWaiting(s) \in SUBSET Tags
      BY <1>0, <2>1, WaitingTags DEF Links
    <3> HIDE DEF d, h
    <3> QED BY <1>0, <3>1, <3>2, QueueSame
  <2>6. /\ d.next = [s.next EXCEPT ![h] = NoTag]
        /\ d.sBusy = {} /\ d.EXQH = s.EXQH /\ d.cFree = s.cFree
        /\ d.default_cFree = s.default_cFree /\ d.ctxt = s.ctxt /\ d.prot = s.prot
        /\ d.State = "READY" /\ d.subState = s.subState
    BY DEF Channel
  <2> HIDE DEF d
  <2>7. Bound(d, h, s.ctxt[h], s.prot[h]) /\ s.ctxt[h] # NoCmd /\ s.prot[h] \notin NcqProts
    BY <1>1, <2>1, <2>2, <2>4, <2>5, <2>6 DEF LegacyWaiting, Waiting
  <2> HIDE DEF h
  <2>8. /\ r \in Channel /\ PoolInv(r)
        /\ r.sBusy = d.sBusy \cup {h} /\ r.EXQH = d.EXQH \cup {h} /\ r.cur = h
        /\ r.State = "ACTIVE" /\ r.subState = d.subState
        /\ r.ctxt = d.ctxt /\ r.prot = d.prot
    BY <2>3, <2>6, <2>7, ExecPool
  <2> QED BY <2>1, <2>6, <2>7, <2>8 DEF AddsBusy, KeepsBound
<1>3. CASE s.que = NoTag /\ s.ncq_que # NoTag
  <2> DEFINE h == s.ncq_que
             d == [s EXCEPT !.ncq_que = s.next[h], !.next = [s.next EXCEPT ![h] = NoTag]]
  <2>1. h \in NcqWaiting(s) /\ h \in Tags /\ h \in Waiting(s)
    BY <1>0, <1>3, WaitingTags DEF QueueOf
  <2>2. d \in Channel
    BY <2>1 DEF Channel
  <2>3. r = exec_ncq_scm(d, h)
    BY <1>3 DEF exec_next_scm
  <2>4. QueueOf(d.next, d.ncq_que, NcqWaiting(s) \ {h})
    BY <1>0, <2>1, WaitingTags, QueueRest DEF Channel
  <2>5. QueueOf(d.next, d.que, LegacyWaiting(s) \ {h})
    <3>1. LegacyWaiting(s) \ {h} = LegacyWaiting(s) /\ d.que = s.que
      BY <1>0, <2>1
    <3>2. /\ \A u \in LegacyWaiting(s) : d.next[u] = s.next[u]
          /\ LegacyWaiting(s) \in SUBSET Tags
      BY <1>0, <2>1, WaitingTags DEF Links
    <3> HIDE DEF d, h
    <3> QED BY <1>0, <3>1, <3>2, QueueSame
  <2>6. /\ d.next = [s.next EXCEPT ![h] = NoTag]
        /\ d.sBusy = {} /\ d.EXQH = s.EXQH /\ d.cFree = s.cFree
        /\ d.default_cFree = s.default_cFree /\ d.ctxt = s.ctxt /\ d.prot = s.prot
        /\ d.State = "READY" /\ d.cur = s.cur
    BY DEF Channel
  <2> HIDE DEF d
  <2>7. Bound(d, h, s.ctxt[h], s.prot[h]) /\ s.ctxt[h] # NoCmd /\ s.prot[h] \in NcqProts
    BY <1>1, <2>1, <2>2, <2>4, <2>5, <2>6 DEF NcqWaiting, Waiting
  <2> HIDE DEF h
  <2>8. /\ r \in Channel /\ PoolInv(r)
        /\ r.sBusy = d.sBusy \cup {h} /\ r.EXQH = d.EXQH \cup {h} /\ r.cur = d.cur
        /\ r.State = "NCQ_ACTIVE" /\ r.subState = "NCQ_IDLE"
        /\ r.ctxt = d.ctxt /\ r.prot = d.prot
    BY <2>3, <2>6, <2>7, ExecNcqPool
  <2>9. AddsBusy(r, s, h) /\ r.prot[h] \in NcqProts /\ r.ctxt[h] # NoCmd
    BY <2>1, <2>6, <2>7, <2>8 DEF AddsBusy, KeepsBound
  <2> QED BY <2>1, <2>6, <2>8, <2>9
<1>4. CASE s.que = NoTag /\ s.ncq_que = NoTag
  <2>1. LegacyWaiting(s) = {} /\ NcqWaiting(s) = {}
    BY <1>0, <1>4, QueueEmpty
  <2> QED BY <1>4, <2>1, WaitingTags DEF exec_next_scm
<1> QED BY <1>2, <1>3, <1>4
=============================================================================
