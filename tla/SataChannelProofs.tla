------------------------- MODULE SataChannelProofs -------------------------
(***************************************************************************)
(* Theorems about SataChannel for every number of CCMs, every queue depth, *)
(* every set of commands and every choice of faults and resets.            *)
(***************************************************************************)
EXTENDS SataChannel, FiniteSetTheorems, TLAPS

(***************************************************************************)
(* What the operations of sata.c keep of a SATA object: each returns a     *)
(* channel when it is given one.                                           *)
(***************************************************************************)
LEMMA NullFacts == NoTag \notin Tags /\ NoCmd \notin Cmds /\ 0 \in Tags
BY NullAssumption, SizeAssumption DEF Tags

LEMMA LeastTag ==
  ASSUME NEW S \in SUBSET Tags, S # {}
  PROVE  \E t \in S : \A u \in S : t <= u
<1> DEFINE Below(n) == S \cap (0 .. n)
           B == {Below(n) : n \in S}
           R == StrictSubsetOrdering(Tags)
<1>1. IsFiniteSet(Tags) /\ Tags \subseteq Nat
  BY SizeAssumption, FS_Interval DEF Tags
<1>2. IsWellFoundedOn(R, FiniteSubsetsOf(Tags))
  BY FS_StrictSubsetOrderingWellFounded
<1>3. B \subseteq FiniteSubsetsOf(Tags) /\ B # {}
  <2>1. FiniteSubsetsOf(Tags) = SUBSET Tags
    BY <1>1, FS_FiniteSubsetsOfFinite
  <2>2. \A n \in S : Below(n) \in SUBSET Tags
    OBVIOUS
  <2>3. PICK n : n \in S
    OBVIOUS
  <2>4. Below(n) \in B
    BY <2>3
  <2>5. B \subseteq SUBSET Tags
    BY <2>2
  <2> HIDE DEF B
  <2> QED BY <2>1, <2>4, <2>5
<1>4. PICK X \in B : \A Y \in B : ~ (<<Y, X>> \in R)
  <2> HIDE DEF B, R
  <2> QED BY <1>2, <1>3, WFMin, Zenon
<1>5. PICK m \in S : X = Below(m)
  BY <1>4
<1>6. SUFFICES ASSUME NEW u \in S, u < m PROVE FALSE
  BY <1>1
<1>7. Below(u) \in B /\ Below(u) \subseteq Below(m) /\ Below(u) # Below(m)
  BY <1>1, <1>6
<1> QED BY <1>4, <1>5, <1>7 DEF StrictSubsetOrdering

\* sata_AllocateCCM returns a free CCM whenever there is one.
LEMMA AllocateCCMFree ==
  ASSUME NEW s \in Channel, s.cFree # {}
  PROVE  AllocateCCM(s) \in s.cFree /\ AllocateCCM(s) \in Tags
<1>1. s.cFree \in SUBSET Tags
  BY DEF Channel
<1>2. \E t \in s.cFree : \A u \in s.cFree : t <= u
  BY <1>1, LeastTag
<1> QED BY <1>1, <1>2, Zenon DEF AllocateCCM

LEMMA DetachCCMType ==
  ASSUME NEW s \in Channel, NEW T \in SUBSET Tags
  PROVE  DetachCCM(s, T) \in Channel
BY DEF Channel, DetachCCM

LEMMA CleanupType == ASSUME NEW s \in Channel PROVE Cleanup_NCQCMD(s) \in Channel
BY DEF Channel, Cleanup_NCQCMD

LEMMA InitSataObjType == ASSUME NEW s \in Channel PROVE InitSataObj(s) \in Channel
BY DEF Channel, InitSataObj

LEMMA HardResetType == ASSUME NEW s \in Channel PROVE HardReset(s) \in Channel
BY DEF Channel, HardReset, States

LEMMA delete_curSCMType == ASSUME NEW s \in Channel PROVE delete_curSCM(s) \in Channel
<1>1. CASE s.cur = NoTag
  BY <1>1 DEF delete_curSCM
<1>2. CASE s.cur # NoTag
  <2> DEFINE d == [s EXCEPT !.sBusy = s.sBusy \ {s.cur}, !.cur = NoTag]
  <2>1. d \in Channel /\ {s.cur} \in SUBSET Tags
    BY <1>2 DEF Channel
  <2>2. delete_curSCM(s) = DetachCCM(d, {s.cur})
    BY <1>2 DEF delete_curSCM
  <2> QED BY <2>1, <2>2, DetachCCMType
<1> QED BY <1>1, <1>2

LEMMA exec_scmType ==
  ASSUME NEW s \in Channel, NEW p \in Tags
  PROVE  exec_scm(s, p) \in Channel
BY DEF Channel, exec_scm, States

LEMMA exec_ncq_scmType ==
  ASSUME NEW s \in Channel, NEW p \in Tags
  PROVE  exec_ncq_scm(s, p) \in Channel
BY DEF Channel, exec_ncq_scm, States, NcqSubStates

LEMMA AppendQueType ==
  ASSUME NEW s \in Channel, NEW q \in {"que", "ncq_que"}, NEW p \in Tags
  PROVE  AppendQue(s, q, p) \in Channel
<1> DEFINE nxt  == [s.next EXCEPT ![p] = NoTag]
           head == IF q = "que" THEN s.que ELSE s.ncq_que
           tail == CHOOSE t \in Tails(nxt, head) : TRUE
<1>1. nxt \in [Tags -> Tags \cup {NoTag}]
  BY DEF Channel
<1>2. CASE head = NoTag
  <2>1. AppendQue(s, q, p) = IF q = "que" THEN [s EXCEPT !.next = nxt, !.que = p]
                             ELSE [s EXCEPT !.next = nxt, !.ncq_que = p]
    BY <1>2 DEF AppendQue
  <2> HIDE DEF nxt
  <2> QED BY <1>1, <2>1 DEF Channel
<1>3. CASE head # NoTag /\ Tails(nxt, head) = {}
  BY <1>3 DEF AppendQue, Channel, States
<1>4. CASE head # NoTag /\ Tails(nxt, head) # {}
  <2>1. tail \in Tags
    BY <1>4 DEF Tails, Members
  <2>2. AppendQue(s, q, p) = [s EXCEPT !.next = [nxt EXCEPT ![tail] = p]]
    BY <1>4 DEF AppendQue
  <2> HIDE DEF tail, nxt
  <2>3. [nxt EXCEPT ![tail] = p] \in [Tags -> Tags \cup {NoTag}]
    BY <1>1, <2>1
  <2> QED BY <2>2, <2>3 DEF Channel
<1> QED BY <1>2, <1>3, <1>4

LEMMA append_scmType ==
  ASSUME NEW s \in Channel, NEW p \in Tags
  PROVE  append_scm(s, p) \in Channel
<1> DEFINE d == [s EXCEPT !.State = IF s.State = "NCQ_ACTIVE" THEN "NCQ_FLUSH"
                                    ELSE s.State]
<1>1. d \in Channel
  BY DEF Channel, States
<1>2. append_scm(s, p) \in {exec_scm(s, p), AppendQue(d, "que", p)}
  BY DEF append_scm
<1> QED BY <1>1, <1>2, exec_scmType, AppendQueType

LEMMA append_ncq_scmType ==
  ASSUME NEW s \in Channel, NEW p \in Tags
  PROVE  append_ncq_scm(s, p) \in Channel
BY exec_ncq_scmType, AppendQueType DEF append_ncq_scm

LEMMA exec_next_scmType ==
  ASSUME NEW s \in Channel
  PROVE  exec_next_scm(s) \in Channel
<1>1. CASE s.que # NoTag
  <2> DEFINE d == [s EXCEPT !.que = s.next[s.que],
                            !.next = [s.next EXCEPT ![s.que] = NoTag]]
  <2>1. d \in Channel /\ s.que \in Tags
    BY <1>1 DEF Channel
  <2> QED BY <1>1, <2>1, exec_scmType DEF exec_next_scm
<1>2. CASE s.que = NoTag /\ s.ncq_que # NoTag
  <2> DEFINE d == [s EXCEPT !.ncq_que = s.next[s.ncq_que],
                            !.next = [s.next EXCEPT ![s.ncq_que] = NoTag]]
  <2>1. d \in Channel /\ s.ncq_que \in Tags
    BY <1>2 DEF Channel
  <2> QED BY <1>2, <2>1, exec_ncq_scmType DEF exec_next_scm
<1> QED BY <1>1, <1>2 DEF exec_next_scm

LEMMA BindScmType ==
  ASSUME NEW s \in Channel, NEW t \in Tags, NEW c \in Cmds \cup {Internal},
         NEW p \in Prots
  PROVE  BindScm(s, t, c, p) \in Channel
BY DEF Channel, BindScm

LEMMA exec_ctxtType ==
  ASSUME NEW s \in Channel, NEW c \in Cmds \cup {Internal}, NEW p \in Prots
  PROVE  exec_ctxt(s, c, p) \in Channel
<1>1. CASE s.cFree = {}
  BY <1>1 DEF exec_ctxt
<1>2. CASE s.cFree # {}
  <2>1. AllocateCCM(s) \in Tags
    BY <1>2, AllocateCCMFree
  <2>2. BindScm(s, AllocateCCM(s), c, p) \in Channel
    BY <2>1, BindScmType
  <2> QED BY <1>2, <2>1, <2>2, append_scmType DEF exec_ctxt
<1> QED BY <1>1, <1>2

LEMMA exec_ncq_ctxtType ==
  ASSUME NEW s \in Channel, NEW c \in Cmds \cup {Internal}, NEW p \in Prots
  PROVE  exec_ncq_ctxt(s, c, p) \in Channel
<1>1. CASE s.cFree = {}
  BY <1>1 DEF exec_ncq_ctxt
<1>2. CASE s.cFree # {}
  <2>1. AllocateCCM(s) \in Tags
    BY <1>2, AllocateCCMFree
  <2>2. BindScm(s, AllocateCCM(s), c, p) \in Channel
    BY <2>1, BindScmType
  <2> QED BY <1>2, <2>1, <2>2, append_ncq_scmType DEF exec_ncq_ctxt
<1> QED BY <1>1, <1>2

LEMMA recovery_NCQ_errorType ==
  ASSUME NEW s \in Channel
  PROVE  recovery_NCQ_error(s) \in Channel
<1>1. exec_ctxt(s, Internal, "PIOIN") \in Channel
  BY exec_ctxtType DEF Prots
<1> QED BY <1>1 DEF recovery_NCQ_error, Channel, States

LEMMA abort_allType ==
  ASSUME NEW s \in Channel
  PROVE  abort_all(s) \in Channel
<1> DEFINE s1 == IF s.que = NoTag THEN s
                 ELSE [DetachCCM(s, {s.que}) EXCEPT !.que = NoTag]
           s2 == IF s1.ncq_que = NoTag THEN s1 ELSE DetachCCM(s1, {s1.ncq_que})
<1>1. s1 \in Channel
  <2>1. CASE s.que # NoTag
    <3>1. DetachCCM(s, {s.que}) \in Channel
      BY <2>1, DetachCCMType DEF Channel
    <3> QED BY <2>1, <3>1 DEF Channel
  <2> QED BY <2>1
<1> HIDE DEF s1
<1>2. s2 \in Channel
  BY <1>1, DetachCCMType DEF Channel
<1> HIDE DEF s2
<1>3. InitSataObj(HardReset(s2)) \in Channel
  BY <1>2, HardResetType, InitSataObjType
<1>4. abort_all(s) = IF s2.sBusy = {} THEN s2 ELSE InitSataObj(HardReset(s2))
  BY DEF abort_all, s1, s2
<1> QED BY <1>2, <1>3, <1>4

(***************************************************************************)
(* The operations of the interrupt service routine keep the types of what  *)
(* it works on.                                                            *)
(***************************************************************************)
WorldType == [ch : Channel, cmd : [Cmds -> CmdStates], fis : Fis,
              paused : SUBSET Pauses]

LEMMA CmdStatesFacts == {"none", "queued", "sata", "good", "failed", "aborted", "busy"}
                          \subseteq CmdStates
BY DEF CmdStates, Terminal

LEMMA FinishType ==
  ASSUME NEW w \in WorldType, NEW c, NEW st \in CmdStates
  PROVE  Finish(w, c, st) \in WorldType
BY DEF Finish, WorldType

LEMMA AbortType ==
  ASSUME NEW w \in WorldType, NEW C, NEW st \in CmdStates
  PROVE  Abort(w, C, st) \in WorldType
BY DEF Abort, WorldType

\* One component of the world is replaced.
LEMMA WithChannel ==
  ASSUME NEW w \in WorldType, NEW s \in Channel
  PROVE  [w EXCEPT !.ch = s] \in WorldType
BY DEF WorldType

LEMMA WithFis ==
  ASSUME NEW w \in WorldType, NEW f \in Fis
  PROVE  [w EXCEPT !.fis = f] \in WorldType
BY DEF WorldType

LEMMA ReleaseCurType == ASSUME NEW w \in WorldType PROVE ReleaseCur(w) \in WorldType
<1>1. CASE w.ch.cur = NoTag
  BY <1>1 DEF ReleaseCur
<1>2. CASE w.ch.cur # NoTag
  <2> DEFINE f == Finish(w, w.ch.ctxt[w.ch.cur], "good")
  <2>1. f \in WorldType /\ f.ch = w.ch /\ w.ch \in Channel
    BY FinishType, CmdStatesFacts DEF WorldType, Finish
  <2>2. w.ch.cur \in Tags
    BY <1>2, <2>1 DEF Channel
  <2>3. [f.ch EXCEPT !.ctxt[w.ch.cur] = NoCmd, !.cur = NoTag] \in Channel
    BY <2>1, <2>2 DEF Channel
  <2>4. ReleaseCur(w) =
          [f EXCEPT !.ch = [f.ch EXCEPT !.ctxt[w.ch.cur] = NoCmd, !.cur = NoTag]]
    BY <1>2, <2>1 DEF ReleaseCur, WorldType
  <2> QED BY <2>1, <2>3, <2>4, WithChannel
<1> QED BY <1>1, <1>2

\* The types of the components of a world.
LEMMA WorldParts ==
  ASSUME NEW w \in WorldType
  PROVE  /\ w.ch \in Channel /\ w.fis \in Fis /\ w.paused \subseteq Pauses
         /\ w.cmd \in [Cmds -> CmdStates]
         /\ w.fis.act \subseteq Tags /\ w.fis.dmasetup \in Tags \cup {NoTag}
         /\ w.ch.cur \in Tags \cup {NoTag} /\ w.ch.sBusy \subseteq Tags
         /\ w.ch.ctxt \in [Tags -> Cmds \cup {Internal, NoCmd}]
BY DEF WorldType, Fis, Channel

\* The value of sobj_subState or of sobj_State is replaced.
LEMMA WithSubState ==
  ASSUME NEW w \in WorldType, NEW sub \in InitSubStates \cup NcqSubStates
  PROVE  [w EXCEPT !.ch.subState = sub] \in WorldType
<1>1. [w.ch EXCEPT !.subState = sub] \in Channel
  BY WorldParts DEF Channel
<1>2. [w EXCEPT !.ch.subState = sub] = [w EXCEPT !.ch = [w.ch EXCEPT !.subState = sub]]
  BY DEF WorldType
<1> QED BY <1>1, <1>2, WithChannel

LEMMA ProcessSataDMASetupType ==
  ASSUME NEW w \in WorldType
  PROVE  ProcessSataDMASetup(w) \in WorldType
<1> DEFINE r == ReleaseCur(w)
           sub == IF w.ch.prot[w.fis.dmasetup] = "FPDMAIN" THEN "NCQ_RX_XFER"
                  ELSE "NCQ_TX_XFER"
           a == [r EXCEPT !.fis.dmasetup = NoTag]
           b == [a EXCEPT !.ch.cur = w.fis.dmasetup]
<1>1. r \in WorldType
  BY ReleaseCurType
<1>2. ProcessSataDMASetup(w) = [b EXCEPT !.ch.subState = sub]
  <2> HIDE DEF r, sub
  <2> QED BY DEF ProcessSataDMASetup, r, sub
<1> HIDE DEF r
<1>3. a \in WorldType
  BY <1>1 DEF WorldType, Fis
<1> HIDE DEF a
<1>4. b \in WorldType
  <2>1. [a.ch EXCEPT !.cur = w.fis.dmasetup] \in Channel
    BY <1>3, WorldParts DEF Channel
  <2>2. b = [a EXCEPT !.ch = [a.ch EXCEPT !.cur = w.fis.dmasetup]]
    BY <1>3 DEF WorldType
  <2> QED BY <1>3, <2>1, <2>2, WithChannel
<1>5. sub \in InitSubStates \cup NcqSubStates
  BY DEF NcqSubStates
<1> HIDE DEF b, sub
<1> QED BY <1>2, <1>4, <1>5, WithSubState

LEMMA CompleteTagsType ==
  ASSUME NEW w \in WorldType, NEW T \in SUBSET Tags
  PROVE  CompleteTags(w, T) \in WorldType
<1> DEFINE w1 == IF w.ch.cur \in T /\ w.ch.ctxt[w.ch.cur] # NoCmd
                 THEN ReleaseCur(w) ELSE w
           d  == DetachCCM(w1.ch, T)
           s  == [d EXCEPT !.sBusy = w1.ch.sBusy \ T]
           r  == [s EXCEPT !.State = "READY"]
<1>1. w1 \in WorldType
  BY ReleaseCurType
<1> HIDE DEF w1
<1>2. w1.ch \in Channel /\ d \in Channel /\ w1.ch.sBusy \subseteq Tags
  BY <1>1, WorldParts, DetachCCMType
<1> HIDE DEF d
<1>3. s \in Channel
  BY <1>2 DEF Channel
<1>4. r \in Channel
  BY <1>3 DEF Channel, States
<1>5. exec_next_scm(r) \in Channel
  BY <1>4, exec_next_scmType
<1>6. CompleteTags(w, T) = [w1 EXCEPT !.ch = IF s.sBusy = {} THEN exec_next_scm(r)
                                             ELSE s]
  BY DEF CompleteTags, w1, d
<1> HIDE DEF s, r
<1> QED BY <1>1, <1>3, <1>5, <1>6, WithChannel

LEMMA ProcessSataSetDevBitType ==
  ASSUME NEW w \in WorldType
  PROVE  ProcessSataSetDevBit(w) \in WorldType
<1> DEFINE w0 == [w EXCEPT !.fis.sdb = "none", !.fis.act = {}]
           w1 == IF w.fis.act = {} THEN w0
                 ELSE IF w.ch.subState = "NCQ_ERROR"
                 THEN [w0 EXCEPT !.ch.subState = "NCQ_CLEANUP"]
                 ELSE CompleteTags(w0, w.fis.act)
           w2 == [w1 EXCEPT !.paused = w1.paused \cup {"NCQ_ERROR_CLEANUP"}]
<1>1. w0 \in WorldType
  BY DEF WorldType, Fis, Outcome
<1> HIDE DEF w0
<1>2. w1 \in WorldType
  BY <1>1, WorldParts, CompleteTagsType, WithSubState DEF NcqSubStates
<1> HIDE DEF w1
<1>3. w2 \in WorldType
  BY <1>2 DEF WorldType, Pauses
<1>4. [w2 EXCEPT !.ch.subState = "NCQ_ERROR"] \in WorldType
  BY <1>3, WithSubState DEF NcqSubStates
<1>5. ProcessSataSetDevBit(w) =
        IF w.fis.sdb = "err" THEN [w2 EXCEPT !.ch.subState = "NCQ_ERROR"] ELSE w1
  BY <1>2 DEF ProcessSataSetDevBit, w0, w1, WorldType
<1> QED BY <1>2, <1>4, <1>5

LEMMA sata_NCQ_error_handleType ==
  ASSUME NEW w \in WorldType
  PROVE  sata_NCQ_error_handle(w) \in WorldType
BY WorldParts, recovery_NCQ_errorType, WithChannel DEF sata_NCQ_error_handle

LEMMA XferErrorType == ASSUME NEW w \in WorldType PROVE XferError(w) \in WorldType
<1>1. [w EXCEPT !.ch.subState = "NCQ_ERROR"] \in WorldType
  BY WithSubState DEF NcqSubStates
<1> QED BY <1>1, sata_NCQ_error_handleType, ProcessSataSetDevBitType DEF XferError

LEMMA ProcessDataTXDONEType ==
  ASSUME NEW w \in WorldType, NEW done
  PROVE  ProcessDataTXDONE(w, done) \in WorldType
<1> DEFINE a == [w EXCEPT !.fis.tx = "none"]
           c == IF w.ch.cur = NoTag THEN NoCmd ELSE w.ch.ctxt[w.ch.cur]
           sub == IF c = NoCmd THEN w.ch.subState ELSE "NCQ_IDLE"
<1>1. a \in WorldType
  BY DEF WorldType, Fis, Outcome
<1>2. sub \in InitSubStates \cup NcqSubStates
  BY WorldParts DEF Channel, NcqSubStates
<1>3. ProcessDataTXDONE(w, done) \in {w, [a EXCEPT !.ch.subState = sub]}
  BY DEF ProcessDataTXDONE
<1> HIDE DEF a, sub
<1> QED BY <1>1, <1>2, <1>3, WithSubState

LEMMA RxIdleType == ASSUME NEW w \in WorldType PROVE RxIdle(w) \in WorldType
<1> DEFINE a == [w EXCEPT !.fis.rx = "none"]
           sub == IF w.fis.rx = "none" \/ w.ch.cur = NoTag
                  THEN w.ch.subState ELSE "NCQ_IDLE"
<1>1. a \in WorldType
  BY DEF WorldType, Fis, Outcome
<1>2. sub \in InitSubStates \cup NcqSubStates
  BY WorldParts DEF Channel, NcqSubStates
<1>3. RxIdle(w) = [a EXCEPT !.ch.subState = sub]
  BY DEF RxIdle
<1> HIDE DEF a, sub
<1> QED BY <1>1, <1>2, <1>3, WithSubState

LEMMA read_QUEUE_ERROR_logType ==
  ASSUME NEW w \in WorldType, NEW bad \in Tags \cup {NoTag}
  PROVE  read_QUEUE_ERROR_log(w, bad) \in WorldType
<1>1. CASE bad = NoTag
  BY <1>1 DEF read_QUEUE_ERROR_log
<1>2. CASE bad # NoTag
  <2> DEFINE d == [w.ch EXCEPT !.sBusy = w.ch.sBusy \ {bad}]
  <2>1. d \in Channel
    BY WorldParts DEF Channel
  <2>2. DetachCCM(d, {bad}) \in Channel
    BY <1>2, <2>1, DetachCCMType
  <2>3. Abort(w, {w.ch.ctxt[bad]}, "failed") \in WorldType
    BY AbortType, CmdStatesFacts
  <2> QED BY <1>2, <2>2, <2>3, WithChannel DEF read_QUEUE_ERROR_log
<1> QED BY <1>1, <1>2

LEMMA CleanupDoneType ==
  ASSUME NEW w \in WorldType, NEW bad \in Tags \cup {NoTag}
  PROVE  CleanupDone(w, bad) \in WorldType
<1> DEFINE a  == [w EXCEPT !.ch.subState = "NCQ_IDLE", !.ch.State = "READY"]
           w1 == read_QUEUE_ERROR_log(a, bad)
           b  == Abort(w1, {w1.ch.ctxt[t] : t \in Tags}, "aborted")
           d  == [b EXCEPT !.ch = Cleanup_NCQCMD(w1.ch)]
<1>1. a \in WorldType
  <2>1. [w.ch EXCEPT !.subState = "NCQ_IDLE", !.State = "READY"] \in Channel
    BY WorldParts DEF Channel, NcqSubStates, States
  <2>2. a = [w EXCEPT !.ch = [w.ch EXCEPT !.subState = "NCQ_IDLE", !.State = "READY"]]
    BY DEF WorldType
  <2> QED BY <2>1, <2>2, WithChannel
<1> HIDE DEF a
<1>2. w1 \in WorldType
  BY <1>1, read_QUEUE_ERROR_logType
<1> HIDE DEF w1
<1>3. b \in WorldType /\ Cleanup_NCQCMD(w1.ch) \in Channel
  BY <1>2, WorldParts, AbortType, CmdStatesFacts, CleanupType
<1> HIDE DEF b
<1>4. d \in WorldType
  BY <1>3, WithChannel
<1>5. CleanupDone(w, bad) = [d EXCEPT !.paused = w1.paused \ {"NCQ_ERROR_CLEANUP"}]
  BY DEF CleanupDone, a, w1, b
<1> HIDE DEF d
<1> QED BY <1>2, <1>4, <1>5, WorldParts DEF WorldType

LEMMA uas_abort_allType ==
  ASSUME NEW w \in WorldType, NEW active
  PROVE  uas_abort_all(w, active) \in WorldType
<1> DEFINE heads == {w.ch.ctxt[t] : t \in {w.ch.que, w.ch.ncq_que} \ {NoTag}}
           cs == [c \in Cmds |-> IF c \in heads \cup {active} THEN "none" ELSE w.cmd[c]]
           s == [abort_all(w.ch) EXCEPT !.subState = "NCQ_IDLE"]
<1>1. abort_all(w.ch) \in Channel
  BY WorldParts, abort_allType
<1>2. s \in Channel
  BY <1>1 DEF Channel, NcqSubStates
<1>3. cs \in [Cmds -> CmdStates]
  BY WorldParts, CmdStatesFacts
<1>4. uas_abort_all(w, active) = [w EXCEPT !.cmd = cs, !.ch = s]
  BY DEF uas_abort_all
<1> HIDE DEF cs, s
<1> QED BY <1>2, <1>3, <1>4 DEF WorldType

LEMMA EndCommandType ==
  ASSUME NEW w \in WorldType, NEW st \in CmdStates
  PROVE  EndCommand(w, st) \in WorldType
<1> DEFINE s == [delete_curSCM(w.ch) EXCEPT !.State = "READY"]
<1>1. delete_curSCM(w.ch) \in Channel
  BY WorldParts, delete_curSCMType
<1>2. s \in Channel
  BY <1>1 DEF Channel, States
<1>3. exec_next_scm(s) \in Channel
  BY <1>2, exec_next_scmType
<1> HIDE DEF s
<1>4. Finish(w, w.ch.ctxt[w.ch.cur], st) \in WorldType
  BY FinishType
<1> QED BY <1>3, <1>4, WithChannel DEF EndCommand, s

LEMMA StatusOfType == ASSUME NEW o PROVE StatusOf(o) \in CmdStates
BY CmdStatesFacts DEF StatusOf

LEMMA ProcessDMADATADONEType ==
  ASSUME NEW w \in WorldType, NEW dir, NEW o
  PROVE  ProcessDMADATADONE(w, dir, o) \in WorldType
<1> DEFINE rx == IF dir = "rx" THEN "none" ELSE w.fis.rx
           tx == IF dir = "tx" THEN "none" ELSE w.fis.tx
           quiet == [w EXCEPT !.fis.rx = rx, !.fis.tx = tx]
           clear == [quiet EXCEPT !.fis.d2h = "none",
                                  !.fis.tx = IF dir = "rx" THEN "none" ELSE @]
<1>1. quiet \in WorldType
  BY DEF WorldType, Fis, Outcome
<1>2. clear \in WorldType
  BY DEF WorldType, Fis, Outcome
<1>3. CASE w.ch.cur # NoTag /\ w.ch.ctxt[w.ch.cur] = NoCmd
  <2>1. [quiet.ch EXCEPT !.cur = NoTag] \in Channel
    BY <1>1, WorldParts DEF Channel
  <2>2. [quiet EXCEPT !.ch.cur = NoTag] = [quiet EXCEPT !.ch = [quiet.ch EXCEPT !.cur = NoTag]]
    BY <1>1 DEF WorldType
  <2>3. [quiet EXCEPT !.ch.cur = NoTag] \in WorldType
    BY <1>1, <2>1, <2>2, WithChannel
  <2> QED BY <1>3, <2>3 DEF ProcessDMADATADONE
<1>4. CASE ~ (w.ch.cur # NoTag /\ w.ch.ctxt[w.ch.cur] = NoCmd)
  <2>1. EndCommand(clear, StatusOf(o)) \in WorldType
    BY <1>2, EndCommandType, StatusOfType
  <2>2. ProcessDMADATADONE(w, dir, o) \in {w, clear, EndCommand(clear, StatusOf(o))}
    BY <1>4 DEF ProcessDMADATADONE
  <2> HIDE DEF clear
  <2> QED BY <1>2, <2>1, <2>2
<1> QED BY <1>3, <1>4

LEMMA ProcessDMAStatusFisType ==
  ASSUME NEW w \in WorldType, NEW o
  PROVE  ProcessDMAStatusFis(w, o) \in WorldType
<1> DEFINE clear == [w EXCEPT !.fis.d2h = "none"]
<1>1. clear \in WorldType
  BY DEF WorldType, Fis, Outcome
<1>2. \A st \in {"good", StatusOf(o)} : EndCommand(clear, st) \in WorldType
  BY <1>1, EndCommandType, StatusOfType, CmdStatesFacts
<1>3. ProcessDMAStatusFis(w, o) \in {w, clear, EndCommand(clear, "good"),
                                     EndCommand(clear, StatusOf(o))}
  BY DEF ProcessDMAStatusFis
<1> HIDE DEF clear
<1> QED BY <1>1, <1>2, <1>3

(***************************************************************************)
(* The actions keep TypeOK.                                                *)
(***************************************************************************)
\* Every state of the interrupt routine starts from a well-typed world.
LEMMA WorldIsTyped == ASSUME TypeOK PROVE World \in WorldType
BY DEF TypeOK, World, WorldType

LEMMA NoFisType == NoFis \in Fis
BY DEF NoFis, Fis, Outcome

LEMMA IdleDriveType == IdleDrive \in Drive
BY DEF IdleDrive, Drive

\* What is left of TypeOK when a world and the rest are replaced.
LEMMA BecomesType ==
  ASSUME TypeOK, NEW w \in WorldType, Becomes(w), UNCHANGED isrRest
  PROVE  TypeOK'
BY DEF TypeOK, WorldType, Becomes, isrRest, uasVars, bounds

LEMMA HardRstType ==
  ASSUME NEW s \in Channel, HardRst(s)
  PROVE  /\ ch' \in Channel /\ fis' \in Fis /\ drive' \in Drive
         /\ sobj_init' \in BOOLEAN /\ chk_fis34_timer' \in BOOLEAN
BY HardResetType, InitSataObjType, NoFisType, IdleDriveType DEF HardRst

LEMMA ProtOfType == ASSUME NEW c \in Cmds PROVE ProtOf(c) \in Prots
<1>1. Kind[c] \in HostOps
  BY KindAssumption
<1> QED BY <1>1, Zenon DEF ProtOf, Prots, NcqProts, HostOps

LEMMA InitType == Init => TypeOK
<1> SUFFICES ASSUME Init PROVE TypeOK
  OBVIOUS
<1>1. ch \in Channel
  BY NullFacts DEF Init, Channel, States, InitSubStates, Prots
<1>2. cmd \in [Cmds -> CmdStates]
  BY CmdStatesFacts DEF Init
<1>3. newCtxt \in Seq(Cmds) /\ submits \in 0 .. MaxSubmit /\ resets \in 0 .. MaxResets
  BY BoundAssumption DEF Init
<1> QED BY <1>1, <1>2, <1>3, NoFisType, IdleDriveType DEF Init, TypeOK

LEMMA UasStepType == ASSUME TypeOK, UasStep PROVE TypeOK'
<1>1. CASE UasIdle
  <2>1. Head(newCtxt) \in Cmds /\ Tail(newCtxt) \in Seq(Cmds)
    BY <1>1 DEF UasIdle, TypeOK
  <2> QED BY <1>1, <2>1 DEF UasIdle, TypeOK, bounds
<1>2. CASE UasIdlePaused
  BY <1>2 DEF UasIdlePaused, TypeOK, bounds
<1>3. CASE UasCiuPaused
  BY <1>3 DEF UasCiuPaused, TypeOK, bounds
<1>4. ASSUME NEW c \in Cmds, CdbCheckReadWrite(c) PROVE TypeOK'
  BY <1>4 DEF CdbCheckReadWrite, TypeOK, bounds
<1>5. ASSUME NEW c \in Cmds, CdbCheckPending(c) PROVE TypeOK'
  <2>1. <<c>> \o newCtxt \in Seq(Cmds)
    BY DEF TypeOK
  <2> QED BY <1>5, <2>1 DEF CdbCheckPending, TypeOK, bounds, Pauses
<1>6. ASSUME NEW c \in Cmds, StartAtaCmd(c) PROVE TypeOK'
  <2>1. exec_ctxt(ch, c, ProtOf(c)) \in Channel
    BY ProtOfType, exec_ctxtType DEF TypeOK
  <2>2. cmd' \in [Cmds -> CmdStates]
    BY <1>6, CmdStatesFacts DEF StartAtaCmd, TypeOK
  <2> QED BY <1>6, <2>1, <2>2 DEF StartAtaCmd, Started, TypeOK, bounds, Pauses
<1>7. ASSUME NEW c \in Cmds, PassSoftReset(c) PROVE TypeOK'
  <2>1. [ch EXCEPT !.State = "PHY_RDY", !.EXQH = {}] \in Channel
    BY DEF TypeOK, Channel, States
  <2>2. cmd' \in [Cmds -> CmdStates]
    BY <1>7, CmdStatesFacts DEF PassSoftReset, TypeOK
  <2>3. ch' \in Channel
    BY <1>7, <2>1, InitSataObjType DEF PassSoftReset
  <2> QED BY <1>7, <2>2, <2>3, NoFisType, IdleDriveType
          DEF PassSoftReset, Started, TypeOK, bounds, Pauses
<1>8. ASSUME NEW c \in Cmds, PassHardReset(c) PROVE TypeOK'
  <2>1. cmd' \in [Cmds -> CmdStates]
    BY <1>8, CmdStatesFacts DEF PassHardReset, TypeOK
  <2>2. HardRst(ch) /\ ch \in Channel
    BY <1>8 DEF PassHardReset, TypeOK
  <2> QED BY <1>8, <2>1, <2>2, HardRstType
          DEF PassHardReset, Started, TypeOK, bounds, Pauses
<1>9. ASSUME NEW c \in Cmds, UasDispatch(c) PROVE TypeOK'
  <2>1. exec_ncq_ctxt(ch, c, ProtOf(c)) \in Channel
    BY ProtOfType, exec_ncq_ctxtType DEF TypeOK
  <2>2. cmd' \in [Cmds -> CmdStates]
    BY <1>9, CmdStatesFacts DEF UasDispatch, TypeOK
  <2> QED BY <1>9, <2>1, <2>2 DEF UasDispatch, TypeOK, bounds, Pauses
<1> QED BY <1>1, <1>2, <1>3, <1>4, <1>5, <1>6, <1>7, <1>8, <1>9 DEF UasStep

LEMMA DriveStepType == ASSUME TypeOK, DriveStep PROVE TypeOK'
<1> USE DEF firmwareVars, uasVars, bounds
<1>1. ASSUME NEW t \in Tags, DriveDmaSetup(t) PROVE TypeOK'
  BY <1>1 DEF DriveDmaSetup, TypeOK, Fis, Drive
<1>2. CASE DriveData
  <2>1. fis' \in Fis
    BY <1>2 DEF DriveData, TypeOK, Fis, Outcome
  <2>2. drive' \in Drive
    BY <1>2 DEF DriveData, TypeOK, Drive
  <2> QED BY <1>2, <2>1, <2>2 DEF DriveData, TypeOK
<1>3. ASSUME NEW S \in SUBSET Tags, DriveSetDevBits(S) PROVE TypeOK'
  <2>1. fis' \in Fis /\ drive' \in Drive
    BY <1>3 DEF DriveSetDevBits, TypeOK, Fis, Drive, Outcome
  <2>2. ch' \in Channel
    BY <1>3 DEF DriveSetDevBits, TypeOK, Channel
  <2> QED BY <1>3, <2>1, <2>2 DEF DriveSetDevBits, TypeOK
<1>4. CASE DriveFlush
  <2>1. fis' \in Fis /\ drive' \in Drive
    BY <1>4 DEF DriveFlush, TypeOK, Fis, Drive, Outcome
  <2>2. ch' \in Channel
    BY <1>4 DEF DriveFlush, TypeOK, Channel
  <2> QED BY <1>4, <2>1, <2>2 DEF DriveFlush, TypeOK
<1>5. CASE DriveLogData
  <2>1. PICK t \in ReadLog, r \in {"ok", "err"} :
          fis' = [fis EXCEPT !.rx = r] /\ ch' = [ch EXCEPT !.EXQH = ch.EXQH \ {t}]
    BY <1>5 DEF DriveLogData
  <2>2. fis' \in Fis
    BY <2>1 DEF TypeOK, Fis, Outcome
  <2>3. ch' \in Channel
    BY <2>1 DEF TypeOK, Channel
  <2>4. drive' \in Drive
    BY <1>5 DEF DriveLogData, TypeOK, Drive
  <2> QED BY <1>5, <2>2, <2>3, <2>4 DEF DriveLogData, TypeOK
<1>6. ASSUME NEW t \in Tags, DriveLegacy(t) PROVE TypeOK'
  <2>1. PICK o \in {"ok", "err"} :
          \/ fis' = [fis EXCEPT !.d2h = o]
          \/ fis' = [fis EXCEPT !.rx = o]
          \/ fis' = [fis EXCEPT !.tx = o]
    BY <1>6 DEF DriveLegacy
  <2>2. fis' \in Fis
    BY <2>1 DEF TypeOK, Fis, Outcome
  <2>3. ch' \in Channel
    BY <1>6 DEF DriveLegacy, TypeOK, Channel
  <2> QED BY <1>6, <2>2, <2>3 DEF DriveLegacy, TypeOK
<1> QED BY <1>1, <1>2, <1>3, <1>4, <1>5, <1>6 DEF DriveStep

LEMMA DriveFaultType == ASSUME TypeOK, DriveFault PROVE TypeOK'
<1> USE DEF firmwareVars, uasVars, bounds
<1>1. ASSUME NEW t \in Tags, DriveReject(t) PROVE TypeOK'
  <2>1. fis' \in Fis /\ drive' \in Drive
    BY <1>1 DEF DriveReject, TypeOK, Fis, Drive, Outcome
  <2> QED BY <1>1, <2>1 DEF DriveReject, TypeOK
<1>2. ASSUME NEW t \in Tags, NEW S \in SUBSET Tags, DriveNcqError(t, S) PROVE TypeOK'
  <2>1. fis' \in Fis /\ drive' \in Drive
    BY <1>2 DEF DriveNcqError, TypeOK, Fis, Drive, Outcome
  <2>2. ch' \in Channel
    BY <1>2 DEF DriveNcqError, TypeOK, Channel
  <2> QED BY <1>2, <2>1, <2>2 DEF DriveNcqError, TypeOK
<1> QED BY <1>1, <1>2 DEF DriveFault

LEMMA UsbType ==
  ASSUME TypeOK, NEW c \in Cmds, HostSend(c) \/ UsbDataDone(c) \/ UsbSiuDone(c)
  PROVE  TypeOK'
<1> USE DEF uasVars, bounds
<1>1. CASE HostSend(c)
  <2>1. cmd' \in [Cmds -> CmdStates]
    BY <1>1, CmdStatesFacts DEF HostSend, TypeOK
  <2>2. newCtxt' \in Seq(Cmds)
    BY <1>1 DEF HostSend, TypeOK
  <2>3. submits' \in 0 .. MaxSubmit
    BY <1>1, BoundAssumption DEF HostSend, TypeOK
  <2> QED BY <1>1, <2>1, <2>2, <2>3 DEF HostSend, TypeOK
<1>2. CASE UsbDataDone(c)
  BY <1>2 DEF UsbDataDone, TypeOK
<1>3. CASE UsbSiuDone(c)
  <2>1. cmd' \in [Cmds -> CmdStates]
    BY <1>3, CmdStatesFacts DEF UsbSiuDone, TypeOK
  <2> QED BY <1>3, <2>1 DEF UsbSiuDone, TypeOK
<1> QED BY <1>1, <1>2, <1>3

LEMMA IsrNcqType ==
  ASSUME TypeOK,
         \/ IsrDmaSetup \/ IsrDmaSetupNoSeg \/ IsrSetDevBits \/ IsrNcqD2H
         \/ IsrNcqTxXfer \/ IsrNcqRxXfer \/ IsrNcqError \/ IsrCleanupDone
  PROVE  TypeOK'
<1>0. World \in WorldType
  BY WorldIsTyped
<1>1. CASE IsrDmaSetup
  BY <1>0, <1>1, ProcessSataDMASetupType, BecomesType DEF IsrDmaSetup
<1>2. CASE IsrDmaSetupNoSeg
  BY <1>0, <1>2, ReleaseCurType, BecomesType DEF IsrDmaSetupNoSeg
<1>3. CASE IsrSetDevBits
  BY <1>0, <1>3, ProcessSataSetDevBitType, sata_NCQ_error_handleType, BecomesType
     DEF IsrSetDevBits
<1>4. CASE IsrNcqD2H
  <2> DEFINE w == [World EXCEPT !.fis.d2h = "none"]
  <2>1. w \in WorldType
    BY <1>0 DEF WorldType, Fis, Outcome
  <2>2. sata_NCQ_error_handle([w EXCEPT !.ch.subState = "NCQ_ERROR"]) \in WorldType
    BY <2>1, WithSubState, sata_NCQ_error_handleType DEF NcqSubStates
  <2> QED BY <1>4, <2>1, <2>2, BecomesType DEF IsrNcqD2H
<1>5. CASE IsrNcqTxXfer
  <2>1. XferError(ProcessDataTXDONE(World, xfer_done)) \in WorldType
    BY <1>0, ProcessDataTXDONEType, XferErrorType
  <2> QED BY <1>5, <2>1, BecomesType DEF IsrNcqTxXfer
<1>6. CASE IsrNcqRxXfer
  BY <1>0, <1>6, RxIdleType, XferErrorType, BecomesType DEF IsrNcqRxXfer
<1>7. CASE IsrNcqError
  BY <1>0, <1>7, ProcessSataSetDevBitType, BecomesType DEF IsrNcqError
<1>8. CASE IsrCleanupDone
  <2>1. LogRead \in WorldType
    <3>1. delete_curSCM(ch) \in Channel /\ [fis EXCEPT !.rx = "none"] \in Fis
      BY delete_curSCMType DEF TypeOK, Fis, Outcome
    <3>2. LogRead = [World EXCEPT !.fis = [fis EXCEPT !.rx = "none"],
                                  !.ch = delete_curSCM(ch)]
      BY DEF LogRead, World
    <3> QED BY <1>0, <3>1, <3>2 DEF WorldType
  <2>2. drive.bad \in Tags \cup {NoTag}
    BY DEF TypeOK, Drive
  <2> QED BY <1>8, <2>1, <2>2, CleanupDoneType, XferErrorType, BecomesType
          DEF IsrCleanupDone
<1> QED BY <1>1, <1>2, <1>3, <1>4, <1>5, <1>6, <1>7, <1>8

LEMMA IsrCleanupFailedType ==
  ASSUME TypeOK, NEW active, IsrCleanupFailed(active)
  PROVE  TypeOK'
<1> DEFINE w == uas_abort_all(LogRead, active)
<1>1. LogRead \in WorldType
  <2>1. delete_curSCM(ch) \in Channel /\ [fis EXCEPT !.rx = "none"] \in Fis
    BY delete_curSCMType DEF TypeOK, Fis, Outcome
  <2>2. LogRead = [World EXCEPT !.fis = [fis EXCEPT !.rx = "none"],
                                !.ch = delete_curSCM(ch)]
    BY DEF LogRead, World
  <2> QED BY <2>1, <2>2, WorldIsTyped DEF WorldType
<1>2. w \in WorldType
  BY <1>1, uas_abort_allType
<1> HIDE DEF w
<1>3. CASE w.ch.State = "RESETING"
  <2> DEFINE v == [w EXCEPT !.fis = NoFis]
  <2>1. v \in WorldType
    BY <1>2, WithFis, NoFisType
  <2>2. /\ Becomes(v) /\ drive' = IdleDrive /\ sobj_init' = FALSE
        /\ chk_fis34_timer' = TRUE /\ UNCHANGED <<xfer_done, uasVars, bounds>>
    BY <1>3 DEF IsrCleanupFailed, w
  <2> HIDE DEF v
  <2> QED BY <2>1, <2>2, IdleDriveType DEF TypeOK, WorldType, Becomes, uasVars, bounds
<1>4. CASE w.ch.State # "RESETING"
  <2>1. Becomes(XferError(w)) /\ UNCHANGED isrRest
    BY <1>4 DEF IsrCleanupFailed, w
  <2> QED BY <1>2, <2>1, XferErrorType, BecomesType
<1> QED BY <1>3, <1>4

LEMMA IsrActiveType == ASSUME TypeOK, IsrActive PROVE TypeOK'
<1> DEFINE w0 == [World EXCEPT !.fis.dmasetup = NoTag, !.fis.sdb = "none", !.fis.act = {}]
           w1 == IF fis.rx = "none" THEN w0 ELSE ProcessDMADATADONE(w0, "rx", fis.rx)
           w2 == IF fis.tx = "none" THEN w1 ELSE ProcessDMADATADONE(w1, "tx", fis.tx)
           w3 == IF fis.d2h = "none" THEN w2 ELSE ProcessDMAStatusFis(w2, fis.d2h)
<1>1. w0 \in WorldType
  BY WorldIsTyped DEF WorldType, Fis, Outcome
<1> HIDE DEF w0
<1>2. w1 \in WorldType
  BY <1>1, ProcessDMADATADONEType
<1> HIDE DEF w1
<1>3. w2 \in WorldType
  BY <1>2, ProcessDMADATADONEType
<1> HIDE DEF w2
<1>4. w3 \in WorldType
  BY <1>3, ProcessDMAStatusFisType
<1> HIDE DEF w3
<1>5. Becomes(w3) /\ UNCHANGED isrRest
  BY DEF IsrActive, w0, w1, w2, w3
<1> QED BY <1>4, <1>5, BecomesType

\* The initialisation after a reset.
LEMMA ata_initType == ASSUME NEW s \in Channel PROVE ata_init(s) \in Channel
<1>1. 0 .. (Depth - 1) \subseteq Tags
  BY SizeAssumption DEF Tags
<1> QED BY <1>1 DEF ata_init, Channel

LEMMA SpinUpType == ASSUME NEW s \in Channel PROVE SpinUp(s) \in Channel
<1>1. exec_ctxt(s, Internal, "ND") \in Channel
  BY exec_ctxtType DEF Prots
<1> QED BY <1>1 DEF SpinUp, Channel, InitSubStates

LEMMA IsrInitType ==
  ASSUME TypeOK, IsrPhyReady \/ IsrSignature \/ IsrReadId \/ IsrInitStep
  PROVE  TypeOK'
<1> USE DEF initRest, uasVars, bounds
<1>1. ch \in Channel /\ fis \in Fis
  BY DEF TypeOK
<1>2. CASE IsrPhyReady
  <2>1. ch' \in Channel
    BY <1>1, <1>2 DEF IsrPhyReady, Channel, States
  <2> QED BY <1>2, <2>1 DEF IsrPhyReady, TypeOK
<1>3. CASE IsrSignature
  <2> DEFINE s == [ch EXCEPT !.State = "PRE_READY", !.subState = "ATA_READ_ID"]
  <2>1. s \in Channel
    BY <1>1 DEF Channel, States, InitSubStates
  <2>2. ch' \in Channel
    BY <1>3, <2>1, exec_ctxtType DEF IsrSignature, Prots
  <2> QED BY <1>3, <2>2 DEF IsrSignature, TypeOK
<1>4. CASE IsrReadId
  <2>1. delete_curSCM(ch) \in Channel
    BY <1>1, delete_curSCMType
  <2>2. SpinUp(ata_init(delete_curSCM(ch))) \in Channel /\ SpinUp(delete_curSCM(ch)) \in Channel
    BY <2>1, ata_initType, SpinUpType
  <2>3. [delete_curSCM(ch) EXCEPT !.subState = "INITIALIZED_FAIL", !.State = "READY"]
          \in Channel
    BY <2>1 DEF Channel, States, InitSubStates
  <2>4. [ch EXCEPT !.subState = "NCQ_IDLE"] \in Channel
    BY <1>1 DEF Channel, NcqSubStates
  <2>5. ch' \in Channel
    BY <1>1, <1>4, <2>2, <2>3, <2>4 DEF IsrReadId
  <2>6. fis' \in Fis
    BY <1>1, <1>4 DEF IsrReadId, Fis, Outcome
  <2> QED BY <1>4, <2>5, <2>6 DEF IsrReadId, TypeOK
<1>5. CASE IsrInitStep
  <2>1. \A i \in 1 .. 4 : InitSteps[i] \in InitSubStates
    BY DEF InitSteps, InitSubStates
  <2>2. delete_curSCM(ch) \in Channel
    BY <1>1, delete_curSCMType
  <2>3. exec_ctxt(delete_curSCM(ch), Internal, "ND") \in Channel
    BY <2>2, exec_ctxtType DEF Prots
  <2>4. \A j \in 1 .. 4 : [exec_ctxt(delete_curSCM(ch), Internal, "ND")
                            EXCEPT !.subState = InitSteps[j]] \in Channel
    BY <2>1, <2>3 DEF Channel
  <2>5. [delete_curSCM(ch) EXCEPT !.State = "READY",
                                  !.subState = "INITIALIZED_COMPLETE"] \in Channel
    BY <2>2 DEF Channel, States, InitSubStates
  <2>6. ch' \in Channel
    <3> DEFINE e == exec_ctxt(delete_curSCM(ch), Internal, "ND")
               r == [delete_curSCM(ch) EXCEPT !.State = "READY",
                                              !.subState = "INITIALIZED_COMPLETE"]
    <3>1. exec_next_scm(r) \in Channel
      BY <2>5, exec_next_scmType
    <3>2. ch' = exec_next_scm(r)
          \/ \E j \in 1 .. 4 : ch' = [e EXCEPT !.subState = InitSteps[j]]
      <4>1. PICK i \in 1 .. 4 :
              \/ \E j \in (i + 1) .. 4 : ch' = [e EXCEPT !.subState = InitSteps[j]]
              \/ ch' = exec_next_scm(r)
        BY <1>5 DEF IsrInitStep
      <4> HIDE DEF e, r
      <4> QED BY <4>1
    <3> QED BY <2>4, <3>1, <3>2
  <2>7. fis' \in Fis
    BY <1>1, <1>5 DEF IsrInitStep, Fis, Outcome
  <2>8. chk_fis34_timer' \in BOOLEAN
    BY <1>5 DEF IsrInitStep, TypeOK
  <2> QED BY <1>5, <2>6, <2>7, <2>8 DEF IsrInitStep, TypeOK
<1> QED BY <1>2, <1>3, <1>4, <1>5

LEMMA IsrStepType == ASSUME TypeOK, IsrStep \/ IsrDmaSetupNoSeg PROVE TypeOK'
BY IsrNcqType, IsrCleanupFailedType, IsrActiveType, IsrInitType DEF IsrStep

LEMMA ResetType ==
  ASSUME TypeOK, TmfReset \/ TmfDeleteOnly \/ UsbReset \/ Fis34Timeout
  PROVE  TypeOK'
<1> USE DEF uasVars, bounds
<1>1. resets' \in 0 .. MaxResets
  BY BoundAssumption DEF TypeOK, TmfReset, TmfDeleteOnly, UsbReset, Fis34Timeout, Reset
<1>2. ch \in Channel /\ <<>> \in Seq(Cmds) /\ [c \in Cmds |-> "none"] \in [Cmds -> CmdStates]
  BY CmdStatesFacts DEF TypeOK
<1>3. ASSUME DeleteAllCtxts
      PROVE  /\ cmd' \in [Cmds -> CmdStates] /\ newCtxt' \in Seq(Cmds)
             /\ new_dispatched_CIU' \in Cmds \cup {NoCmd}
             /\ uas_cmd_state' \in {"IDLE", "CDB_CHECK", "CIU_DISPATCH", "CIU_PAUSED"}
  BY <1>2, <1>3 DEF DeleteAllCtxts, TypeOK
<1>4. CASE TmfReset
  BY <1>1, <1>2, <1>3, <1>4, HardRstType DEF TmfReset, DeleteAllCtxts, TypeOK, Pauses
<1>5. CASE TmfDeleteOnly
  BY <1>1, <1>2, <1>3, <1>5 DEF TmfDeleteOnly, DeleteAllCtxts, TypeOK
<1>6. CASE UsbReset
  BY <1>1, <1>2, <1>6, HardRstType DEF UsbReset, TypeOK
<1>7. CASE Fis34Timeout
  BY <1>1, <1>2, <1>7, HardRstType DEF Fis34Timeout, TypeOK
<1> QED BY <1>4, <1>5, <1>6, <1>7

LEMMA TypeStep == TypeOK /\ [Next]_vars => TypeOK'
<1> SUFFICES ASSUME TypeOK, [Next]_vars PROVE TypeOK'
  OBVIOUS
<1>1. CASE UNCHANGED vars
  BY <1>1 DEF vars, uasVars, bounds, TypeOK
<1>2. CASE Next
  BY <1>2, UsbType, UasStepType, IsrStepType, DriveStepType, DriveFaultType,
     ResetType DEF Next
<1> QED BY <1>1, <1>2

\* TypeOK: every pointer of the SATA object is NULL or one of its SCMs, every
\* mask holds tags of SCMs only, every context is in a known state of its
\* life, whatever the drive, the host and the resets do.
THEOREM TypeCorrect == Spec => []TypeOK
BY InitType, TypeStep, PTL DEF Spec
=============================================================================
