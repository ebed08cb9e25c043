-------------------------- MODULE SataSafetyProofs --------------------------
(***************************************************************************)
(* The safety of the channel for every number of CCMs, queue depth, set of *)
(* commands and choice of resets, under NoDoubleFree: Inv is inductive.    *)
(***************************************************************************)
EXTENDS SataQueueProofs, SataChannelProofs, SequenceTheorems

(***************************************************************************)
(* Parts of the invariant as facts about a channel.                        *)
(***************************************************************************)
\* Nothing is under way between the channel and the drive.
Quiet(f, d) ==
  /\ Silent(f) /\ f.sdb = "none" /\ f.act = {} /\ f.dmasetup = NoTag
  /\ d.mode = "ok" /\ d.dxfer = NoTag /\ d.xferred = {}

LEMMA IdleQuiet ==
  ASSUME NEW s, NEW f, NEW d, ChannelInv(s, f, d), Idle(s)
  PROVE  Quiet(f, d) /\ s.EXQH = {} /\ s.sBusy = {} /\ s.cur = NoTag /\ Waiting(s) = {}
BY DEF ChannelInv, PoolInv, PhaseInv, FrameInv, DriveInv, Idle, Quiet, NcqPhase

LEMMA QuietIdle ==
  ASSUME NEW s, NEW f, NEW d, Quiet(f, d), PoolInv(s), s.sBusy = {}, s.cur = NoTag,
         s.State \in {"RESETING", "PHY_RDY"} => s.cFree = s.default_cFree,
         Waiting(s) = {}, Idle(s)
  PROVE  ChannelInv(s, f, d)
BY DEF ChannelInv, PoolInv, PhaseInv, FrameInv, DriveInv, Idle, Quiet, NcqPhase,
       Starting, Single

\* A channel with nothing to do, or that is starting, holds no command of the
\* host.
LEMMA NoneBound ==
  ASSUME NEW s, NEW f, NEW d, ChannelInv(s, f, d), Starting(s) \/ Idle(s)
  PROVE  \A t \in Tags : s.ctxt[t] \notin Cmds
<1>1. Waiting(s) = {} /\ \A t \in s.sBusy : s.ctxt[t] = Internal
  BY DEF ChannelInv, PhaseInv, Starting, Idle, Single
<1> QED BY <1>1, NullAssumption DEF Waiting

LEMMA ResetInv ==
  ASSUME NEW s \in Channel, s.default_cFree # {}
  PROVE  ChannelInv(InitSataObj(HardReset(s)), NoFis, IdleDrive)
<1> DEFINE h == HardReset(s)
           r == InitSataObj(h)
<1>1. h \in Channel /\ h.State = "RESETING" /\ h.EXQH = {}
      /\ h.default_cFree = s.default_cFree
  BY HardResetType DEF HardReset, Channel
<1> HIDE DEF h
<1>2. /\ PoolInv(r) /\ Waiting(r) = {} /\ r.sBusy = {} /\ r.cFree = r.default_cFree
      /\ r.cur = NoTag /\ r.State = "RESETING"
  BY <1>1, ResetPool
<1> HIDE DEF r
<1>3. Quiet(NoFis, IdleDrive)
  BY DEF Quiet, Silent, NoFis, IdleDrive
<1>4. ChannelInv(r, NoFis, IdleDrive)
  BY <1>2, <1>3, QuietIdle DEF Idle
<1> QED BY <1>4 DEF r, h

LEMMA SameBusyInv ==
  ASSUME NEW s \in Channel, NEW f, NEW d, ChannelInv(s, f, d), NEW r, SameBusy(r, s),
         \/ s.State = "ACTIVE" /\ r.State = "ACTIVE"
         \/ NcqPhase(s) /\ NcqPhase(r)
  PROVE  ChannelInv(r, f, d)
<1>1. PoolInv(r)
  BY DEF SameBusy
<1>2. PhaseInv(r)
  BY DEF ChannelInv, PhaseInv, SameBusy, NcqPhase, Starting, Single, Idle
<1>3. FrameInv(r, f)
  BY DEF ChannelInv, PhaseInv, FrameInv, SameBusy, NcqPhase, Single, Idle
<1>4. DriveInv(r, f, d)
  BY DEF ChannelInv, PoolInv, DriveInv, SameBusy, NcqPhase
<1> QED BY <1>1, <1>2, <1>3, <1>4 DEF ChannelInv

LEMMA StartInv ==
  ASSUME NEW s \in Channel, NEW f, NEW d, Quiet(f, d), s.sBusy = {}, s.EXQH = {},
         NEW r, AddsBusy(r, s, r.cur),
         r.prot[r.cur] \notin NcqProts, r.ctxt[r.cur] # NoCmd,
         \/ r.State = "ACTIVE"
         \/ /\ r.State = "PRE_READY" /\ Waiting(r) = {} /\ r.subState \in InitSubStates
            /\ r.ctxt[r.cur] = Internal
            /\ r.prot[r.cur] = IF r.subState = "ATA_READ_ID" THEN "PIOIN" ELSE "ND"
  PROVE  ChannelInv(r, f, d)
<1>1. PoolInv(r) /\ r.cur \in Tags /\ r.sBusy = {r.cur} /\ r.EXQH = {r.cur}
  BY DEF AddsBusy
<1>2. PhaseInv(r)
  BY <1>1 DEF PhaseInv, NcqPhase, Starting, Single, Idle
<1>3. FrameInv(r, f)
  BY <1>1 DEF FrameInv, Quiet, Silent, NcqPhase, Single, Idle
<1>4. DriveInv(r, f, d)
  BY <1>1 DEF DriveInv, Quiet, NcqPhase
<1> QED BY <1>1, <1>2, <1>3, <1>4 DEF ChannelInv

LEMMA StartNcqInv ==
  ASSUME NEW s \in Channel, NEW f, NEW d, Quiet(f, d), s.sBusy = {}, s.EXQH = {},
         NEW r, NEW t, AddsBusy(r, s, t), r.prot[t] \in NcqProts, r.ctxt[t] # NoCmd,
         r.State = "NCQ_ACTIVE", r.subState = "NCQ_IDLE", r.cur = NoTag
  PROVE  ChannelInv(r, f, d)
<1>1. PoolInv(r) /\ t \in Tags /\ r.sBusy = {t} /\ r.EXQH = {t}
  BY DEF AddsBusy
<1>2. PhaseInv(r)
  BY <1>1 DEF PhaseInv, NcqPhase, Starting, Single, Idle
<1>3. FrameInv(r, f)
  BY <1>1 DEF FrameInv, Quiet, Silent, NcqPhase, Single, Idle
<1>4. DriveInv(r, f, d)
  BY <1>1, NullFacts DEF DriveInv, Quiet, NcqPhase
<1> QED BY <1>1, <1>2, <1>3, <1>4 DEF ChannelInv

LEMMA AddNcqInv ==
  ASSUME NEW s \in Channel, NEW f, NEW d, ChannelInv(s, f, d), s.State = "NCQ_ACTIVE",
         NEW r, NEW t, AddsBusy(r, s, t), r.prot[t] \in NcqProts, r.ctxt[t] # NoCmd,
         r.State = "NCQ_ACTIVE", r.subState = s.subState, r.cur = s.cur
  PROVE  ChannelInv(r, f, d)
<1>1. /\ PoolInv(r) /\ t \in Tags /\ t \notin s.sBusy /\ s.EXQH \subseteq s.sBusy
      /\ r.sBusy = s.sBusy \cup {t} /\ r.EXQH = s.EXQH \cup {t}
      /\ \A u \in s.sBusy : r.ctxt[u] = s.ctxt[u] /\ r.prot[u] = s.prot[u]
  BY DEF AddsBusy, ChannelInv, PoolInv
<1>2. PhaseInv(r)
  BY <1>1 DEF ChannelInv, PhaseInv, NcqPhase, Starting, Single, Idle
<1>3. FrameInv(r, f)
  BY <1>1 DEF ChannelInv, FrameInv, NcqPhase, Single, Idle
<1>4. DriveInv(r, f, d)
  BY <1>1, NullFacts DEF ChannelInv, PhaseInv, DriveInv, NcqPhase
<1> QED BY <1>1, <1>2, <1>3, <1>4 DEF ChannelInv

\* What is handed to the drive in one step: nothing, or one command.
Issues(s, r) ==
  \/ r.EXQH = s.EXQH /\ \A u \in s.EXQH : r.prot[u] = s.prot[u]
  \/ \E t \in Tags \ s.EXQH :
       /\ r.EXQH = s.EXQH \cup {t}
       /\ \A u \in s.EXQH : r.prot[u] = s.prot[u]
       /\ IF r.prot[t] \in NcqProts THEN \A u \in s.EXQH : s.prot[u] \in NcqProts
          ELSE s.EXQH = {}

LEMMA NextInv ==
  ASSUME NEW s \in Channel, PoolInv(s), s.sBusy = {}, s.State = "READY", s.cur = NoTag,
         NEW f, NEW d, Quiet(f, d),
         NEW r, r = exec_next_scm(s)
  PROVE  /\ ChannelInv(r, f, d) /\ Issues(s, r) /\ ~ Starting(r) /\ KeepsBound(r, s)
         /\ r.subState \in {s.subState, "NCQ_IDLE"}
<1>1. s.EXQH = {}
  BY DEF PoolInv
<1>2. CASE r = s /\ Waiting(s) = {}
  BY <1>2, QuietIdle DEF Idle, Issues, Starting, KeepsBound
<1>3. CASE /\ AddsBusy(r, s, r.cur) /\ r.State = "ACTIVE" /\ r.subState = s.subState
           /\ r.prot[r.cur] \notin NcqProts /\ r.ctxt[r.cur] # NoCmd
  <2>1. ChannelInv(r, f, d)
    BY <1>1, <1>3, StartInv
  <2> QED BY <1>1, <1>3, <2>1 DEF Issues, AddsBusy, Starting
<1>4. CASE \E t \in Tags :
              /\ AddsBusy(r, s, t) /\ r.State = "NCQ_ACTIVE" /\ r.subState = "NCQ_IDLE"
              /\ r.cur = s.cur /\ r.prot[t] \in NcqProts /\ r.ctxt[t] # NoCmd
  <2>1. ChannelInv(r, f, d)
    BY <1>1, <1>4, StartNcqInv
  <2> QED BY <1>1, <1>4, <2>1 DEF Issues, AddsBusy, Starting
<1> QED BY <1>2, <1>3, <1>4, NextPool

\* sata_exec_ctxt on a channel that takes commands.
LEMMA LegacyInv ==
  ASSUME NEW s \in Channel, NEW f, NEW d, ChannelInv(s, f, d), Ready(s),
         NEW c \in Cmds, NEW p \in Prots \ NcqProts,
         NEW r, r = exec_ctxt(s, c, p)
  PROVE  /\ ChannelInv(r, f, d) /\ Issues(s, r) /\ ~ Starting(r)
         /\ KeepsBound(r, s) /\ (s.cFree # {} => \E t \in Tags : r.ctxt[t] = c)
<1>1. PoolInv(s) /\ s.EXQH \subseteq s.sBusy /\ c # NoCmd /\ ~ Starting(s)
  BY NullAssumption DEF ChannelInv, PoolInv, Ready, Starting
<1>2. CASE s.cFree = {}
  BY <1>1, <1>2 DEF exec_ctxt, Issues, KeepsBound
<1>3. CASE s.cFree # {} /\ s.State = "READY"
  <2>1. Quiet(f, d) /\ s.EXQH = {} /\ s.sBusy = {}
    BY <1>3, IdleQuiet DEF Idle
  <2>2. /\ AddsBusy(r, s, r.cur) /\ r.ctxt[r.cur] = c /\ r.prot[r.cur] = p
        /\ r.State = "ACTIVE"
    BY <1>1, <1>3, StartLegacy
  <2>3. ChannelInv(r, f, d)
    BY <1>1, <2>1, <2>2, StartInv
  <2> QED BY <2>1, <2>2, <2>3 DEF Issues, AddsBusy, Starting
<1>4. CASE s.cFree # {} /\ s.State # "READY"
  <2>0. s.State = "ACTIVE" \/ NcqPhase(s)
    BY <1>4 DEF Ready, NcqPhase
  <2>1. s.State = "ACTIVE" \/ (NcqPhase(s) /\ s.subState # "NCQ_ERROR")
    BY <2>0 DEF ChannelInv, PhaseInv
  <2>2. /\ SameBusy(r, s) /\ \E t \in Tags : r.ctxt[t] = c
        /\ r.State = IF NcqPhase(s) THEN "NCQ_FLUSH" ELSE "ACTIVE"
    BY <1>1, <1>4, <2>1, ParkLegacy
  <2>3. \/ s.State = "ACTIVE" /\ r.State = "ACTIVE"
        \/ NcqPhase(s) /\ NcqPhase(r)
    BY <2>1, <2>2 DEF NcqPhase
  <2>4. ChannelInv(r, f, d)
    BY <2>2, <2>3, SameBusyInv
  <2> QED BY <1>1, <2>2, <2>3, <2>4 DEF Issues, SameBusy, Starting, NcqPhase
<1> QED BY <1>2, <1>3, <1>4

\* sata_exec_ncq_ctxt on a channel that takes commands.
LEMMA NcqInv ==
  ASSUME NEW s \in Channel, NEW f, NEW d, ChannelInv(s, f, d), Ready(s),
         NEW c \in Cmds, NEW p \in NcqProts,
         NEW r, r = exec_ncq_ctxt(s, c, p)
  PROVE  /\ ChannelInv(r, f, d) /\ Issues(s, r) /\ ~ Starting(r)
         /\ KeepsBound(r, s) /\ (s.cFree # {} => \E t \in Tags : r.ctxt[t] = c)
<1>1. PoolInv(s) /\ s.EXQH \subseteq s.sBusy /\ c # NoCmd /\ ~ Starting(s)
  BY NullAssumption DEF ChannelInv, PoolInv, Ready, Starting
<1>2. CASE s.cFree = {}
  BY <1>1, <1>2 DEF exec_ncq_ctxt, Issues, KeepsBound
<1>3. CASE s.cFree # {} /\ s.State = "READY"
  <2>1. Quiet(f, d) /\ s.EXQH = {} /\ s.sBusy = {} /\ s.cur = NoTag
    BY <1>3, IdleQuiet DEF Idle
  <2>2. PICK t \in Tags :
           /\ AddsBusy(r, s, t) /\ r.ctxt[t] = c /\ r.prot[t] = p
           /\ r.State = "NCQ_ACTIVE" /\ r.cur = NoTag /\ r.subState = "NCQ_IDLE"
    BY <1>1, <1>3, <2>1, StartNcq
  <2>3. ChannelInv(r, f, d)
    BY <1>1, <2>1, <2>2, StartNcqInv
  <2> QED BY <2>1, <2>2, <2>3 DEF Issues, AddsBusy, Starting
<1>4. CASE s.cFree # {} /\ s.State = "NCQ_ACTIVE"
  <2>1. PICK t \in Tags :
           /\ AddsBusy(r, s, t) /\ r.ctxt[t] = c /\ r.prot[t] = p
           /\ r.State = "NCQ_ACTIVE" /\ r.cur = s.cur /\ r.subState = s.subState
    BY <1>1, <1>4, StartNcq
  <2>2. ChannelInv(r, f, d)
    BY <1>1, <1>4, <2>1, AddNcqInv
  <2>3. \A u \in s.EXQH : s.prot[u] \in NcqProts
    BY <1>1, <1>4 DEF ChannelInv, PhaseInv, NcqPhase
  <2> QED BY <1>1, <2>1, <2>2, <2>3 DEF Issues, AddsBusy, Starting
<1>5. CASE s.cFree # {} /\ s.State \in {"ACTIVE", "NCQ_FLUSH"}
  <2>1. SameBusy(r, s) /\ r.State = s.State /\ \E t \in Tags : r.ctxt[t] = c
    BY <1>1, <1>5, ParkNcq
  <2>2. ChannelInv(r, f, d)
    BY <1>5, <2>1, SameBusyInv DEF NcqPhase
  <2> QED BY <1>1, <2>1, <2>2 DEF Issues, SameBusy, Starting
<1> QED BY <1>2, <1>3, <1>4, <1>5 DEF Ready

(***************************************************************************)
(* The interrupt service routine, on a world w and the drive d.            *)
(***************************************************************************)
\* A status is decided only for a command the channel holds, and whose data
\* the drive has moved or that it has reported.
Finishes(w, r, d) ==
  \A c \in Cmds : r.cmd[c] # w.cmd[c] =>
    /\ w.cmd[c] = "sata" /\ r.cmd[c] \in Terminal
    /\ \E t \in Tags : w.ch.ctxt[t] = c /\ (t \in d.xferred \/ t \notin w.ch.EXQH)

\* An SCM lets a command of the host go only when its status is decided.
Keeps(w, r) ==
  \A t \in Tags : w.ch.ctxt[t] \in Cmds =>
    r.ch.ctxt[t] = w.ch.ctxt[t] \/ r.cmd[w.ch.ctxt[t]] # "sata"

Effect(w, r, d) ==
  /\ ChannelInv(r.ch, r.fis, d)
  /\ Finishes(w, r, d) /\ Keeps(w, r)
  /\ Issues(w.ch, r.ch)
  /\ Starting(r.ch) => Starting(w.ch)

LEMMA FinishParts ==
  ASSUME NEW w \in WorldType, NEW c, NEW st \in Terminal,
         NEW r, r = Finish(w, c, st)
  PROVE  /\ r \in WorldType /\ r.ch = w.ch /\ r.fis = w.fis /\ r.paused = w.paused
         /\ \A e \in Cmds : r.cmd[e] # w.cmd[e] =>
              e = c /\ w.cmd[e] = "sata" /\ r.cmd[e] \in Terminal
         /\ c \in Cmds => r.cmd[c] # "sata"
<1>1. r \in WorldType
  BY FinishType DEF CmdStates
<1> QED BY <1>1 DEF Finish, WorldType, Terminal

LEMMA ReleaseCurParts ==
  ASSUME NEW w \in WorldType, NEW r, r = ReleaseCur(w)
  PROVE  /\ r \in WorldType /\ r.fis = w.fis /\ r.paused = w.paused
         /\ r.ch \in Channel /\ r.ch.cur = NoTag
         /\ r.ch.State = w.ch.State /\ r.ch.subState = w.ch.subState
         /\ r.ch.sBusy = w.ch.sBusy /\ r.ch.EXQH = w.ch.EXQH /\ r.ch.prot = w.ch.prot
         /\ r.ch.cFree = w.ch.cFree /\ r.ch.default_cFree = w.ch.default_cFree
         /\ r.ch.next = w.ch.next /\ r.ch.que = w.ch.que /\ r.ch.ncq_que = w.ch.ncq_que
         /\ \A t \in Tags : r.ch.ctxt[t] = IF t = w.ch.cur THEN NoCmd ELSE w.ch.ctxt[t]
         /\ \A e \in Cmds : r.cmd[e] # w.cmd[e] =>
              /\ w.ch.cur # NoTag /\ w.ch.ctxt[w.ch.cur] = e
              /\ w.cmd[e] = "sata" /\ r.cmd[e] \in Terminal
         /\ Keeps(w, r)
<1>0. r \in WorldType /\ r.ch \in Channel /\ w.ch \in Channel
  BY ReleaseCurType, WorldParts
<1>1. CASE w.ch.cur = NoTag
  BY <1>0, <1>1, NullFacts DEF ReleaseCur, Keeps
<1>2. CASE w.ch.cur # NoTag
  <2> DEFINE f == Finish(w, w.ch.ctxt[w.ch.cur], "good")
             s == [f.ch EXCEPT !.ctxt[w.ch.cur] = NoCmd, !.cur = NoTag]
  <2>1. /\ f \in WorldType /\ f.ch = w.ch /\ f.fis = w.fis /\ f.paused = w.paused
        /\ \A e \in Cmds : f.cmd[e] # w.cmd[e] =>
              e = w.ch.ctxt[w.ch.cur] /\ w.cmd[e] = "sata" /\ f.cmd[e] \in Terminal
        /\ w.ch.ctxt[w.ch.cur] \in Cmds => f.cmd[w.ch.ctxt[w.ch.cur]] # "sata"
    <3> DEFINE c == w.ch.ctxt[w.ch.cur]
    <3>1. "good" \in Terminal
      BY DEF Terminal
    <3> HIDE DEF c
    <3>2. /\ f \in WorldType /\ f.ch = w.ch /\ f.fis = w.fis /\ f.paused = w.paused
          /\ \A e \in Cmds : f.cmd[e] # w.cmd[e] =>
                e = c /\ w.cmd[e] = "sata" /\ f.cmd[e] \in Terminal
          /\ c \in Cmds => f.cmd[c] # "sata"
      BY <3>1, FinishParts DEF c
    <3> QED BY <3>2 DEF c
  <2>2. r = [f EXCEPT !.ch = s]
    BY <1>2, <2>1 DEF ReleaseCur, WorldType
  <2> HIDE DEF f
  <2>3. r.ch = s /\ r.fis = w.fis /\ r.paused = w.paused /\ r.cmd = f.cmd
    BY <2>1, <2>2 DEF WorldType
  <2>4. /\ s.cur = NoTag
        /\ s.State = w.ch.State /\ s.subState = w.ch.subState
        /\ s.sBusy = w.ch.sBusy /\ s.EXQH = w.ch.EXQH /\ s.prot = w.ch.prot
        /\ s.cFree = w.ch.cFree /\ s.default_cFree = w.ch.default_cFree
        /\ s.next = w.ch.next /\ s.que = w.ch.que /\ s.ncq_que = w.ch.ncq_que
        /\ \A t \in Tags : s.ctxt[t] = IF t = w.ch.cur THEN NoCmd ELSE w.ch.ctxt[t]
    BY <1>0, <1>2, <2>1 DEF Channel
  <2> HIDE DEF s
  <2>5. Keeps(w, r)
    BY <2>1, <2>3, <2>4 DEF Keeps
  <2> QED BY <1>0, <1>2, <2>1, <2>3, <2>4, <2>5
<1> QED BY <1>1, <1>2

\* sobj_curScm is let go in the queued states.
LEMMA ReleaseInv ==
  ASSUME NEW w \in WorldType, NEW d, ChannelInv(w.ch, w.fis, d), NcqPhase(w.ch),
         w.ch.cur \in w.ch.EXQH => w.ch.cur \in d.xferred,
         NEW r, r = ReleaseCur(w)
  PROVE  Effect(w, r, d)
<1>0. w.ch \in Channel
  BY WorldParts
<1>1. PoolInv(r.ch) /\ Waiting(r.ch) = Waiting(w.ch)
  <2>1. PoolInv(w.ch) /\ w.ch.cur \in w.ch.sBusy \cup {NoTag}
        /\ w.ch.EXQH \subseteq w.ch.sBusy
    BY DEF ChannelInv, PhaseInv, PoolInv
  <2>2. \A t \in Tags \ w.ch.sBusy : r.ch.ctxt[t] = w.ch.ctxt[t]
    BY <2>1, NullFacts, ReleaseCurParts
  <2> QED BY <1>0, <2>1, <2>2, ReleaseCurParts, PoolSame
<1>2. PhaseInv(r.ch)
  BY ReleaseCurParts DEF ChannelInv, PhaseInv, NcqPhase, Starting, Single, Idle
<1>3. FrameInv(r.ch, r.fis)
  BY ReleaseCurParts DEF ChannelInv, FrameInv, NcqPhase, Single, Idle
<1>4. DriveInv(r.ch, r.fis, d)
  <2>1. w.ch.EXQH \subseteq Tags /\ w.ch.sBusy \subseteq Tags /\ d.xferred \subseteq Tags
    BY <1>0 DEF Channel, ChannelInv, DriveInv
  <2> QED BY <2>1, ReleaseCurParts, NullFacts DEF ChannelInv, DriveInv, NcqPhase
<1>5. Finishes(w, r, d)
  <2>1. w.ch.cur \in Tags \cup {NoTag}
    BY <1>0 DEF Channel
  <2> QED BY <2>1, ReleaseCurParts DEF Finishes
<1>6. Issues(w.ch, r.ch) /\ (Starting(r.ch) => Starting(w.ch))
  BY ReleaseCurParts DEF Issues, Starting
<1> QED BY <1>1, <1>2, <1>3, <1>4, <1>5, <1>6, ReleaseCurParts DEF ChannelInv, Effect

LEMMA DmaSetupInv ==
  ASSUME NEW w \in WorldType, NEW d, ChannelInv(w.ch, w.fis, d), NcqPhase(w.ch),
         w.ch.subState = "NCQ_IDLE", w.fis.dmasetup # NoTag,
         NEW r, r = ProcessSataDMASetup(w)
  PROVE  Effect(w, r, d)
<1> DEFINE t == w.fis.dmasetup
           v == ReleaseCur(w)
           sub == IF w.ch.prot[t] = "FPDMAIN" THEN "NCQ_RX_XFER" ELSE "NCQ_TX_XFER"
<1>0. w.ch \in Channel /\ w.fis \in Fis
  BY WorldParts
<1>1. /\ d.dxfer = t /\ w.ch.cur # t /\ t \in w.ch.EXQH \ d.xferred /\ t \in w.ch.sBusy
      /\ t \in Tags /\ w.ch.ctxt[t] # NoCmd
      /\ w.ch.cur \in w.ch.EXQH => w.ch.cur \in d.xferred
  BY <1>0 DEF ChannelInv, PoolInv, DriveInv, Channel
<1>2. Effect(w, v, d)
  BY <1>1, ReleaseInv
<1>3. /\ v \in WorldType /\ v.fis = w.fis /\ v.ch \in Channel
      /\ v.ch.State = w.ch.State /\ v.ch.sBusy = w.ch.sBusy /\ v.ch.EXQH = w.ch.EXQH
      /\ v.ch.ctxt[t] # NoCmd /\ v.ch.prot = w.ch.prot
      /\ v.ch.subState = "NCQ_IDLE" /\ v.ch.cur = NoTag
  BY <1>1, ReleaseCurParts
<1>4. /\ r.ch = [v.ch EXCEPT !.cur = t, !.subState = sub]
      /\ r.fis = [v.fis EXCEPT !.dmasetup = NoTag] /\ r.cmd = v.cmd
  <2>1. r = [v EXCEPT !.fis.dmasetup = NoTag, !.ch.cur = t, !.ch.subState = sub]
    BY DEF ProcessSataDMASetup
  <2> HIDE DEF v, sub, t
  <2> QED BY <1>3, <2>1 DEF WorldType, Channel
<1> HIDE DEF v
<1>5. /\ r.ch \in Channel /\ r.ch.cur = t /\ r.ch.subState = sub
      /\ r.ch.State = v.ch.State /\ r.ch.sBusy = v.ch.sBusy /\ r.ch.EXQH = v.ch.EXQH
      /\ r.ch.ctxt = v.ch.ctxt /\ r.ch.prot = v.ch.prot /\ r.ch.cFree = v.ch.cFree
      /\ r.ch.default_cFree = v.ch.default_cFree
      /\ r.ch.next = v.ch.next /\ r.ch.que = v.ch.que /\ r.ch.ncq_que = v.ch.ncq_que
  BY <1>1, <1>3, <1>4 DEF Channel, NcqSubStates
<1>6. /\ r.fis.dmasetup = NoTag /\ r.fis.sdb = v.fis.sdb /\ r.fis.act = v.fis.act
      /\ r.fis.d2h = v.fis.d2h /\ r.fis.rx = v.fis.rx /\ r.fis.tx = v.fis.tx
  BY <1>0, <1>3, <1>4 DEF Fis
<1> HIDE DEF t
<1>7. PoolInv(r.ch) /\ Waiting(r.ch) = Waiting(v.ch)
  <2>1. PoolInv(v.ch) /\ r.ch.EXQH \subseteq r.ch.sBusy
    BY <1>2, <1>5 DEF Effect, ChannelInv, PoolInv
  <2> QED BY <1>3, <1>5, <2>1, PoolSame
<1>8. NcqPhase(v.ch) /\ NcqPhase(r.ch)
  BY <1>3, <1>5 DEF NcqPhase
<1>9. PhaseInv(r.ch)
  BY <1>1, <1>2, <1>3, <1>5, <1>8
     DEF Effect, ChannelInv, PhaseInv, NcqPhase, Starting, Single, Idle
<1>10. FrameInv(r.ch, r.fis)
  BY <1>2, <1>3, <1>5, <1>6, <1>8
     DEF Effect, ChannelInv, FrameInv, NcqPhase, Single, Idle
<1>11. DriveInv(r.ch, r.fis, d)
  <2>1. NoTag \notin v.ch.sBusy /\ NoTag \notin d.xferred
    BY <1>2, <1>3, NullFacts DEF Effect, ChannelInv, DriveInv, Channel
  <2> QED BY <1>1, <1>2, <1>3, <1>5, <1>6, <1>8, <2>1 DEF Effect, ChannelInv, DriveInv
<1>12. Keeps(w, r)
  BY <1>2, <1>4, <1>5 DEF Effect, Keeps
<1> QED BY <1>2, <1>4, <1>5, <1>7, <1>9, <1>10, <1>11, <1>12
        DEF Effect, ChannelInv, Finishes, Issues, Starting

LEMMA CompleteInv ==
  ASSUME NEW w \in WorldType, NEW d, ChannelInv(w.ch, w.fis, d), NcqPhase(w.ch),
         w.ch.subState = "NCQ_IDLE", w.fis.dmasetup = NoTag, w.fis.sdb = "none",
         NEW T \in SUBSET w.ch.sBusy, T \cap w.ch.EXQH = {},
         NEW r, r = CompleteTags(w, T)
  PROVE  Effect(w, r, d) /\ r.fis = w.fis /\ r.ch.subState = "NCQ_IDLE"
<1> DEFINE w1 == IF w.ch.cur \in T /\ w.ch.ctxt[w.ch.cur] # NoCmd THEN ReleaseCur(w) ELSE w
           s  == Detached(w1.ch, T)
           n  == [s EXCEPT !.State = "READY"]
<1>0. w.ch \in Channel /\ T \subseteq Tags /\ NoTag \notin T
  BY WorldParts, NullFacts
<1>1. /\ Effect(w, w1, d) /\ w1 \in WorldType /\ w1.fis = w.fis /\ w1.ch \in Channel
      /\ w1.ch.sBusy = w.ch.sBusy /\ w1.ch.EXQH = w.ch.EXQH /\ w1.ch.State = w.ch.State
      /\ w1.ch.subState = "NCQ_IDLE" /\ w1.ch.prot = w.ch.prot
      /\ w1.ch.cur \in (w.ch.sBusy \ T) \cup {NoTag}
  <2>1. CASE w.ch.cur \in T
    <3>1. w.ch.ctxt[w.ch.cur] # NoCmd
      BY <1>0, <2>1 DEF ChannelInv, PhaseInv
    <3>2. w1 = ReleaseCur(w)
      BY <2>1, <3>1
    <3> HIDE DEF w1
    <3>3. Effect(w, w1, d)
      BY <2>1, <3>2, ReleaseInv
    <3> QED BY <3>2, <3>3, ReleaseCurParts
  <2>2. CASE w.ch.cur \notin T
    <3>1. w1 = w
      BY <2>2
    <3>2. w.ch.cur \in (w.ch.sBusy \ T) \cup {NoTag}
      BY <2>2 DEF ChannelInv, PhaseInv
    <3> HIDE DEF w1
    <3> QED BY <1>0, <3>1, <3>2 DEF Effect, Finishes, Issues, Keeps
  <2> QED BY <2>1, <2>2
<1>2. r = [w1 EXCEPT !.ch = IF s.sBusy = {} THEN exec_next_scm(n) ELSE s]
  <2>1. s = [DetachCCM(w1.ch, T) EXCEPT !.sBusy = w1.ch.sBusy \ T]
    BY DEF Detached
  <2> QED BY <2>1 DEF CompleteTags
<1> HIDE DEF w1
<1>3. /\ s \in Channel /\ PoolInv(s) /\ Waiting(s) = Waiting(w1.ch)
      /\ s.sBusy = w.ch.sBusy \ T
      /\ s.State = w.ch.State /\ s.subState = "NCQ_IDLE" /\ s.cur = w1.ch.cur
      /\ s.EXQH = w.ch.EXQH /\ s.prot = w.ch.prot
      /\ s.ctxt = [t \in Tags |-> IF t \in T THEN NoCmd ELSE w1.ch.ctxt[t]]
  <2>1. PoolInv(w1.ch)
    BY <1>1 DEF Effect, ChannelInv
  <2> HIDE DEF s
  <2> QED BY <1>1, <2>1, DetachPool DEF s
<1> HIDE DEF s
<1>4. r.fis = w.fis /\ r.cmd = w1.cmd
      /\ r.ch = IF s.sBusy = {} THEN exec_next_scm(n) ELSE s
  BY <1>1, <1>2 DEF WorldType
\* The tags that leave have nothing to tell.
<1>7. \A t \in Tags : /\ w.ch.ctxt[t] \in Cmds
                      => s.ctxt[t] = w.ch.ctxt[t] \/ r.cmd[w.ch.ctxt[t]] # "sata"
  <2>1. \A t \in T : w1.ch.ctxt[t] = NoCmd
    BY <1>0, <1>1 DEF Effect, ChannelInv, DriveInv, NcqPhase
  <2>2. \A t \in Tags : s.ctxt[t] = w1.ch.ctxt[t]
    BY <1>3, <2>1
  <2> QED BY <1>1, <1>4, <2>2 DEF Effect, Keeps
<1>5. CASE s.sBusy = {}
  <2>1. s.EXQH = {} /\ s.cur = NoTag
    BY <1>1, <1>3, <1>5 DEF PoolInv
  <2>2. Quiet(w.fis, d)
    BY <1>3, <2>1 DEF ChannelInv, FrameInv, DriveInv, Quiet, Silent
  <2>3. /\ n \in Channel /\ n.State = "READY" /\ n.sBusy = {} /\ n.cur = NoTag
        /\ n.EXQH = {} /\ n.subState = "NCQ_IDLE" /\ PoolInv(n) /\ n.ctxt = s.ctxt
    <3>1. /\ n \in Channel /\ n.State = "READY" /\ n.sBusy = s.sBusy /\ n.cur = s.cur
          /\ n.EXQH = s.EXQH /\ n.subState = s.subState
          /\ n.next = s.next /\ n.que = s.que /\ n.ncq_que = s.ncq_que
          /\ n.cFree = s.cFree /\ n.default_cFree = s.default_cFree
          /\ n.prot = s.prot /\ n.ctxt = s.ctxt
      BY <1>3 DEF Channel, States
    <3> HIDE DEF n
    <3> QED BY <1>3, <1>5, <2>1, <3>1, PoolSame
  <2> HIDE DEF n
  <2>4. /\ ChannelInv(r.ch, w.fis, d) /\ Issues(n, r.ch) /\ ~ Starting(r.ch)
        /\ r.ch.subState = "NCQ_IDLE" /\ KeepsBound(r.ch, n)
    BY <1>4, <1>5, <2>2, <2>3, NextInv
  <2>5. Issues(w.ch, r.ch)
    BY <1>3, <2>1, <2>3, <2>4 DEF Issues
  <2>6. Finishes(w, r, d)
    BY <1>1, <1>4 DEF Effect, Finishes
  <2>7. Keeps(w, r)
    BY <1>4, <1>7, <2>3, <2>4, NullAssumption DEF Keeps, KeepsBound
  <2> QED BY <1>4, <2>4, <2>5, <2>6, <2>7 DEF Effect
<1>6. CASE s.sBusy # {}
  <2>0. r.ch = s /\ NcqPhase(s)
    BY <1>3, <1>4, <1>6 DEF NcqPhase
  <2>1. PhaseInv(s)
    <3>1. /\ PhaseInv(w.ch) /\ PhaseInv(w1.ch)
          /\ w.ch.sBusy \subseteq Tags /\ NcqPhase(w1.ch)
      BY <1>0, <1>1 DEF Effect, ChannelInv, Channel, NcqPhase
    <3>2. s.cur # NoTag => s.ctxt[s.cur] # NoCmd
      BY <1>1, <1>3, <3>1 DEF PhaseInv
    <3>3. s.cur \in s.sBusy \cup {NoTag} /\ \A t \in s.sBusy : s.prot[t] \in NcqProts
      BY <1>1, <1>3, <3>1 DEF PhaseInv
    <3> QED BY <1>3, <1>6, <2>0, <3>2, <3>3 DEF PhaseInv, NcqPhase, Starting, Single, Idle
  <2>2. FrameInv(s, w.fis)
    BY <1>1, <1>3, <2>0 DEF ChannelInv, FrameInv, NcqPhase, Single, Idle
  <2>3. DriveInv(s, w.fis, d)
    <3>1. w.ch.EXQH \subseteq Tags
      BY <1>0 DEF Channel
    <3>2. /\ DriveInv(w1.ch, w.fis, d) /\ NcqPhase(w1.ch)
      BY <1>1, <1>3, <2>0 DEF Effect, ChannelInv, NcqPhase
    <3>3. s.sBusy \subseteq Tags /\ d.xferred \subseteq Tags
      BY <1>1, <1>3, <3>1, <3>2 DEF DriveInv, Channel
    <3> QED BY <1>1, <1>3, <2>0, <3>1, <3>2, <3>3 DEF DriveInv, NcqPhase
  <2>4. Issues(w.ch, s) /\ ~ Starting(s)
    BY <1>3, <2>0 DEF Issues, Starting, NcqPhase
  <2>5. Finishes(w, r, d)
    BY <1>1, <1>4 DEF Effect, Finishes
  <2>6. Keeps(w, r)
    BY <1>7, <2>0 DEF Keeps
  <2> QED BY <1>3, <1>4, <2>0, <2>1, <2>2, <2>3, <2>4, <2>5, <2>6 DEF Effect, ChannelInv
<1> QED BY <1>5, <1>6

\* A frame is taken out of the registers: d holds for what is left of it.
LEMMA FrameTaken ==
  ASSUME NEW s, NEW f, NEW d, ChannelInv(s, f, d), NEW g,
         g.dmasetup \in {f.dmasetup, NoTag}, g.d2h \in {f.d2h, "none"},
         g.rx \in {f.rx, "none"}, g.tx \in {f.tx, "none"},
         \/ g.sdb = f.sdb /\ g.act = f.act
         \/ g.sdb = "none" /\ g.act = {}
  PROVE  ChannelInv(s, g, d)
<1>1. FrameInv(s, g)
  BY DEF ChannelInv, FrameInv, Silent
<1>2. DriveInv(s, g, d)
  BY DEF ChannelInv, DriveInv
<1> QED BY <1>1, <1>2 DEF ChannelInv

LEMMA SetDevBitInv ==
  ASSUME NEW w \in WorldType, NEW d, ChannelInv(w.ch, w.fis, d), NcqPhase(w.ch),
         w.ch.subState = "NCQ_IDLE", w.fis.dmasetup = NoTag,
         NEW r, r = ProcessSataSetDevBit(w)
  PROVE  Effect(w, r, d) /\ r.ch.subState # "NCQ_ERROR"
<1> DEFINE v == [w EXCEPT !.fis.sdb = "none", !.fis.act = {}]
           T == w.fis.act
<1>1. /\ v \in WorldType /\ v.ch = w.ch /\ v.cmd = w.cmd /\ v.paused = w.paused
      /\ v.fis.dmasetup = w.fis.dmasetup /\ v.fis.sdb = "none" /\ v.fis.act = {}
      /\ v.fis.d2h = w.fis.d2h /\ v.fis.rx = w.fis.rx /\ v.fis.tx = w.fis.tx
  BY DEF WorldType, Fis, Outcome
<1>2. r = IF T = {} THEN v ELSE CompleteTags(v, T)
  <2>1. w.fis.sdb # "err"
    BY DEF ChannelInv, FrameInv
  <2> QED BY <2>1 DEF ProcessSataSetDevBit
<1> HIDE DEF v
<1>3. ChannelInv(v.ch, v.fis, d)
  BY <1>1, FrameTaken
<1>4. CASE T = {}
  <2>1. r = v
    BY <1>2, <1>4
  <2> QED BY <1>1, <1>3, <2>1 DEF Effect, Finishes, Issues, Keeps
<1>5. CASE T # {}
  <2>1. T \in SUBSET w.ch.sBusy /\ T \cap w.ch.EXQH = {}
    BY DEF ChannelInv, FrameInv
  <2>2. r = CompleteTags(v, T)
    BY <1>2, <1>5
  <2> HIDE DEF T
  <2>3. Effect(v, r, d) /\ r.ch.subState = "NCQ_IDLE"
    BY <1>1, <1>3, <2>1, <2>2, CompleteInv
  <2> QED BY <1>1, <2>3 DEF Effect, Finishes, Keeps
<1> QED BY <1>4, <1>5

\* The world has changed in the frames and in sobj_subState at most.
LEMMA SubStateInv ==
  ASSUME NEW w \in WorldType, NEW d, NEW r \in WorldType,
         ChannelInv(w.ch, r.fis, d), NcqPhase(w.ch), r.cmd = w.cmd,
         NEW sub \in {"NCQ_IDLE", "NCQ_RX_XFER", "NCQ_TX_XFER"},
         r.ch = [w.ch EXCEPT !.subState = sub],
         r.fis.rx # "none" => sub = "NCQ_RX_XFER",
         r.fis.tx # "none" => sub = "NCQ_TX_XFER"
  PROVE  Effect(w, r, d)
<1>0. w.ch \in Channel /\ r.ch \in Channel
  BY WorldParts
<1>1. /\ r.ch.cur = w.ch.cur /\ r.ch.subState = sub
      /\ r.ch.State = w.ch.State /\ r.ch.sBusy = w.ch.sBusy /\ r.ch.EXQH = w.ch.EXQH
      /\ r.ch.ctxt = w.ch.ctxt /\ r.ch.prot = w.ch.prot /\ r.ch.cFree = w.ch.cFree
      /\ r.ch.default_cFree = w.ch.default_cFree
      /\ r.ch.next = w.ch.next /\ r.ch.que = w.ch.que /\ r.ch.ncq_que = w.ch.ncq_que
  BY <1>0 DEF Channel
<1>2. PoolInv(r.ch) /\ Waiting(r.ch) = Waiting(w.ch)
  <2>1. PoolInv(w.ch) /\ r.ch.EXQH \subseteq r.ch.sBusy
    BY <1>1 DEF ChannelInv, PoolInv
  <2> QED BY <1>0, <1>1, <2>1, PoolSame
<1>3. NcqPhase(r.ch)
  BY <1>1 DEF NcqPhase
<1>4. PhaseInv(r.ch)
  BY <1>1, <1>3 DEF ChannelInv, PhaseInv, NcqPhase, Starting, Single, Idle
<1>5. FrameInv(r.ch, r.fis)
  BY <1>1, <1>3 DEF ChannelInv, FrameInv, NcqPhase, Single, Idle
<1>6. DriveInv(r.ch, r.fis, d)
  BY <1>1, <1>3 DEF ChannelInv, DriveInv
<1> QED BY <1>1, <1>2, <1>4, <1>5, <1>6
        DEF Effect, ChannelInv, Finishes, Issues, Starting, Keeps

LEMMA TxInv ==
  ASSUME NEW w \in WorldType, NEW d, ChannelInv(w.ch, w.fis, d), NcqPhase(w.ch),
         w.ch.subState = "NCQ_TX_XFER", NEW done,
         NEW r, r = XferError(ProcessDataTXDONE(w, done))
  PROVE  Effect(w, r, d)
<1> DEFINE v == ProcessDataTXDONE(w, done)
           f == [w.fis EXCEPT !.tx = "none"]
<1>1. v = w \/ \E sub \in {"NCQ_IDLE", "NCQ_TX_XFER"} :
                 v = [w EXCEPT !.fis.tx = "none", !.ch.subState = sub]
  BY DEF ProcessDataTXDONE
<1>2. v \in WorldType
  BY ProcessDataTXDONEType
<1>3. w.fis \in Fis /\ w.ch \in Channel /\ w.fis.rx = "none"
  BY WorldParts DEF ChannelInv, FrameInv
<1> HIDE DEF v
<1>4. Effect(w, v, d) /\ v.fis.sdb = w.fis.sdb
  <2>1. CASE v = w
    BY <2>1 DEF Effect, Finishes, Issues, Keeps
  <2>2. CASE \E sub \in {"NCQ_IDLE", "NCQ_TX_XFER"} :
                 v = [w EXCEPT !.fis.tx = "none", !.ch.subState = sub]
    <3>1. PICK sub \in {"NCQ_IDLE", "NCQ_TX_XFER"} :
                 v = [w EXCEPT !.fis.tx = "none", !.ch.subState = sub]
      BY <2>2
    <3>2. /\ v.cmd = w.cmd /\ v.fis = f /\ v.ch = [w.ch EXCEPT !.subState = sub]
      BY <3>1 DEF WorldType
    <3>3. /\ f.dmasetup = w.fis.dmasetup /\ f.d2h = w.fis.d2h /\ f.rx = w.fis.rx
          /\ f.tx = "none" /\ f.sdb = w.fis.sdb /\ f.act = w.fis.act
      BY <1>3 DEF Fis
    <3> HIDE DEF f
    <3>4. ChannelInv(w.ch, v.fis, d)
      BY <3>2, <3>3, FrameTaken
    <3> QED BY <1>2, <1>3, <3>2, <3>3, <3>4, SubStateInv
  <2> QED BY <1>1, <2>1, <2>2
<1>5. r = v
  <2>1. v.fis.sdb # "err"
    BY <1>4 DEF ChannelInv, FrameInv
  <2> QED BY <2>1 DEF XferError, v
<1> QED BY <1>4, <1>5

LEMMA RxInv ==
  ASSUME NEW w \in WorldType, NEW d, ChannelInv(w.ch, w.fis, d), NcqPhase(w.ch),
         w.ch.subState = "NCQ_RX_XFER", NEW r, r = XferError(RxIdle(w))
  PROVE  Effect(w, r, d)
<1> DEFINE v == RxIdle(w)
           f == [w.fis EXCEPT !.rx = "none"]
<1>1. \E sub \in {"NCQ_IDLE", "NCQ_RX_XFER"} :
        v = [w EXCEPT !.fis.rx = "none", !.ch.subState = sub]
  BY DEF RxIdle
<1>2. v \in WorldType
  BY RxIdleType
<1>3. w.fis \in Fis /\ w.ch \in Channel /\ w.fis.tx = "none"
  BY WorldParts DEF ChannelInv, FrameInv
<1> HIDE DEF v
<1>4. Effect(w, v, d) /\ v.fis.sdb = w.fis.sdb
  <2>1. PICK sub \in {"NCQ_IDLE", "NCQ_RX_XFER"} :
               v = [w EXCEPT !.fis.rx = "none", !.ch.subState = sub]
    BY <1>1
  <2>2. /\ v.cmd = w.cmd /\ v.fis = f /\ v.ch = [w.ch EXCEPT !.subState = sub]
    BY <2>1 DEF WorldType
  <2>3. /\ f.dmasetup = w.fis.dmasetup /\ f.d2h = w.fis.d2h /\ f.tx = w.fis.tx
        /\ f.rx = "none" /\ f.sdb = w.fis.sdb /\ f.act = w.fis.act
    BY <1>3 DEF Fis
  <2> HIDE DEF f
  <2>4. ChannelInv(w.ch, v.fis, d)
    BY <2>2, <2>3, FrameTaken
  <2> QED BY <1>2, <1>3, <2>2, <2>3, <2>4, SubStateInv
<1>5. r = v
  <2>1. v.fis.sdb # "err"
    BY <1>4 DEF ChannelInv, FrameInv
  <2> QED BY <2>1 DEF XferError, v
<1> QED BY <1>4, <1>5

(***************************************************************************)
(* A command that is not queued has ended.                                 *)
(***************************************************************************)
LEMMA EndCommandInv ==
  ASSUME NEW w \in WorldType, NEW d, PoolInv(w.ch), PhaseInv(w.ch),
         w.ch.State = "ACTIVE", w.ch.cur \notin w.ch.EXQH, Quiet(w.fis, d),
         NEW st \in Terminal, NEW r, r = EndCommand(w, st)
  PROVE  Effect(w, r, d) /\ r.fis = w.fis
<1> DEFINE s == delete_curSCM(w.ch)
           n == [s EXCEPT !.State = "READY"]
           v == Finish(w, w.ch.ctxt[w.ch.cur], st)
<1>0. w.ch \in Channel /\ w.ch.cur \in Tags /\ w.ch.sBusy = {w.ch.cur} /\ w.ch.EXQH = {}
  BY WorldParts DEF PhaseInv, PoolInv, Single
<1>1. /\ v \in WorldType /\ v.ch = w.ch /\ v.fis = w.fis
      /\ \A e \in Cmds : v.cmd[e] # w.cmd[e] =>
            e = w.ch.ctxt[w.ch.cur] /\ w.cmd[e] = "sata" /\ v.cmd[e] \in Terminal
      /\ w.ch.ctxt[w.ch.cur] \in Cmds => v.cmd[w.ch.ctxt[w.ch.cur]] # "sata"
  BY FinishParts
<1>2. r = [v EXCEPT !.ch = exec_next_scm(n)]
  BY DEF EndCommand
<1> HIDE DEF v
<1>3. r.ch = exec_next_scm(n) /\ r.fis = w.fis /\ r.cmd = v.cmd
  BY <1>1, <1>2 DEF WorldType
<1>4. /\ s \in Channel /\ PoolInv(s) /\ s.sBusy = {} /\ s.cur = NoTag /\ s.EXQH = {}
      /\ \A t \in Tags : t # w.ch.cur => s.ctxt[t] = w.ch.ctxt[t]
  <2> HIDE DEF s
  <2>1. w.ch.cur \in w.ch.sBusy
    BY <1>0
  <2>2. /\ s \in Channel /\ PoolInv(s) /\ s.cur = NoTag
        /\ s.sBusy = w.ch.sBusy \ {w.ch.cur} /\ s.EXQH = w.ch.EXQH
        /\ s.ctxt = [t \in Tags |-> IF t = w.ch.cur THEN NoCmd ELSE w.ch.ctxt[t]]
    BY <1>0, <2>1, DeletePool DEF s
  <2> QED BY <1>0, <2>2
<1> HIDE DEF s
<1>5. /\ n \in Channel /\ n.State = "READY" /\ n.sBusy = {} /\ n.cur = NoTag
      /\ n.EXQH = {} /\ PoolInv(n) /\ n.ctxt = s.ctxt
  <2>1. /\ n \in Channel /\ n.State = "READY" /\ n.sBusy = s.sBusy /\ n.cur = s.cur
        /\ n.EXQH = s.EXQH
        /\ n.next = s.next /\ n.que = s.que /\ n.ncq_que = s.ncq_que
        /\ n.cFree = s.cFree /\ n.default_cFree = s.default_cFree
        /\ n.prot = s.prot /\ n.ctxt = s.ctxt
    BY <1>4 DEF Channel, States
  <2> HIDE DEF n
  <2> QED BY <1>4, <2>1, PoolSame
<1> HIDE DEF n
<1>6. ChannelInv(r.ch, w.fis, d) /\ Issues(n, r.ch) /\ ~ Starting(r.ch) /\ KeepsBound(r.ch, n)
  BY <1>3, <1>5, NextInv
<1>7. Issues(w.ch, r.ch)
  BY <1>0, <1>5, <1>6 DEF Issues
<1>8. Finishes(w, r, d)
  BY <1>0, <1>1, <1>3 DEF Finishes
<1>9. Keeps(w, r)
  BY <1>1, <1>3, <1>4, <1>5, <1>6, NullAssumption DEF Keeps, KeepsBound
<1> QED BY <1>3, <1>6, <1>7, <1>8, <1>9 DEF Effect

\* The one interrupt of a command alone on the drive, taken out of the
\* registers: nothing else is under way.
LEMMA LastFrame ==
  ASSUME NEW w \in WorldType, NEW d, ChannelInv(w.ch, w.fis, d), w.ch.State = "ACTIVE",
         w.fis.dmasetup = NoTag, w.fis.sdb = "none", w.fis.act = {},
         ~ Silent(w.fis),
         NEW v \in WorldType, v.ch = w.ch, v.cmd = w.cmd,
         v.fis.dmasetup = NoTag, v.fis.sdb = "none", v.fis.act = {}, Silent(v.fis),
         NEW st \in Terminal, NEW r, r = EndCommand(v, st)
  PROVE  Effect(w, r, d)
<1>1. w.ch.cur \notin w.ch.EXQH
  BY DEF ChannelInv, FrameInv, Single
<1>2. Quiet(v.fis, d)
  BY DEF ChannelInv, DriveInv, Quiet, NcqPhase
<1>3. PoolInv(v.ch) /\ PhaseInv(v.ch)
  BY DEF ChannelInv
<1>4. Effect(v, r, d)
  BY <1>1, <1>2, <1>3, EndCommandInv
<1> QED BY <1>4 DEF Effect, Finishes, Keeps

LEMMA NoEffect ==
  ASSUME NEW w, NEW d, ChannelInv(w.ch, w.fis, d)
  PROVE  Effect(w, w, d)
BY DEF Effect, Finishes, Issues, Keeps

LEMMA DataDoneInv ==
  ASSUME NEW w \in WorldType, NEW d, ChannelInv(w.ch, w.fis, d), w.ch.State = "ACTIVE",
         w.fis.dmasetup = NoTag, w.fis.sdb = "none", w.fis.act = {},
         NEW dir, \/ dir = "rx" /\ w.fis.rx # "none"
                  \/ dir = "tx" /\ w.fis.tx # "none",
         NEW o, NEW r, r = ProcessDMADATADONE(w, dir, o)
  PROVE  Effect(w, r, d)
<1> DEFINE quiet == [w EXCEPT !.fis.rx = IF dir = "rx" THEN "none" ELSE @,
                              !.fis.tx = IF dir = "tx" THEN "none" ELSE @]
           v == [quiet EXCEPT !.fis.d2h = "none",
                              !.fis.tx = IF dir = "rx" THEN "none" ELSE @]
<1>1. w.ch \in Channel /\ w.fis \in Fis
  BY WorldParts
<1>2. /\ w.ch.cur # NoTag /\ w.ch.ctxt[w.ch.cur] # NoCmd
      /\ w.fis.tx # "none" => w.fis.rx = "none"
  BY NullFacts DEF ChannelInv, PhaseInv, FrameInv, Single
<1>3. r = w \/ r = EndCommand(v, StatusOf(o))
  BY <1>2 DEF ProcessDMADATADONE
<1>4. /\ v \in WorldType /\ v.ch = w.ch /\ v.cmd = w.cmd
      /\ v.fis.dmasetup = NoTag /\ v.fis.sdb = "none" /\ v.fis.act = {}
      /\ v.fis.d2h = "none" /\ v.fis.rx = "none" /\ v.fis.tx = "none"
  <2>1. /\ quiet \in WorldType /\ quiet.ch = w.ch /\ quiet.cmd = w.cmd
        /\ quiet.fis.dmasetup = NoTag /\ quiet.fis.sdb = "none" /\ quiet.fis.act = {}
        /\ quiet.fis.rx = (IF dir = "rx" THEN "none" ELSE w.fis.rx)
        /\ quiet.fis.tx = (IF dir = "tx" THEN "none" ELSE w.fis.tx)
    BY DEF WorldType, Fis, Outcome
  <2> HIDE DEF quiet
  <2>2. /\ v \in WorldType /\ v.ch = quiet.ch /\ v.cmd = quiet.cmd
        /\ v.fis.dmasetup = NoTag /\ v.fis.sdb = "none" /\ v.fis.act = {}
        /\ v.fis.d2h = "none" /\ v.fis.rx = quiet.fis.rx
        /\ v.fis.tx = IF dir = "rx" THEN "none" ELSE quiet.fis.tx
    BY <2>1 DEF WorldType, Fis, Outcome
  <2> QED BY <1>2, <2>1, <2>2
<1> HIDE DEF v
<1>5. StatusOf(o) \in Terminal
  BY DEF StatusOf, Terminal
<1>6. ~ Silent(w.fis) /\ Silent(v.fis)
  BY <1>4 DEF Silent
<1> QED BY <1>3, <1>4, <1>5, <1>6, LastFrame, NoEffect

LEMMA StatusFisInv ==
  ASSUME NEW w \in WorldType, NEW d, ChannelInv(w.ch, w.fis, d), w.ch.State = "ACTIVE",
         w.fis.dmasetup = NoTag, w.fis.sdb = "none", w.fis.act = {},
         w.fis.d2h # "none",
         NEW o, NEW r, r = ProcessDMAStatusFis(w, o)
  PROVE  Effect(w, r, d)
<1> DEFINE v == [w EXCEPT !.fis.d2h = "none"]
<1>1. w.ch.cur # NoTag /\ w.fis.rx = "none" /\ w.fis.tx = "none"
  BY NullFacts DEF ChannelInv, PhaseInv, FrameInv, Single
<1>2. r = w \/ r = EndCommand(v, StatusOf(o)) \/ r = EndCommand(v, "good")
  BY <1>1 DEF ProcessDMAStatusFis
<1>3. /\ v \in WorldType /\ v.ch = w.ch /\ v.cmd = w.cmd
      /\ v.fis.dmasetup = NoTag /\ v.fis.sdb = "none" /\ v.fis.act = {}
      /\ v.fis.d2h = "none" /\ v.fis.rx = "none" /\ v.fis.tx = "none"
  BY <1>1 DEF WorldType, Fis, Outcome
<1> HIDE DEF v
<1>4. StatusOf(o) \in Terminal /\ "good" \in Terminal
  BY DEF StatusOf, Terminal
<1>5. ~ Silent(w.fis) /\ Silent(v.fis)
  BY <1>3 DEF Silent
<1> QED BY <1>2, <1>3, <1>4, <1>5, LastFrame, NoEffect

(***************************************************************************)
(* The steps of the interrupt service routine.                             *)
(***************************************************************************)
\* What Effect says, of a step of the specification.
Moves ==
  /\ ChannelInv(ch', fis', drive)
  /\ \A t \in Tags : ch.ctxt[t] \in Cmds =>
       ch'.ctxt[t] = ch.ctxt[t] \/ cmd'[ch.ctxt[t]] # "sata"
  /\ \A c \in Cmds : cmd'[c] # cmd[c] =>
       /\ cmd[c] = "sata" /\ cmd'[c] \in Terminal
       /\ \E t \in Tags : ch.ctxt[t] = c /\ (t \in drive.xferred \/ t \notin ch.EXQH)
  /\ Issues(ch, ch')
  /\ Starting(ch') => Starting(ch)

LEMMA EffectMoves ==
  ASSUME NEW r, Becomes(r), Effect(World, r, drive)
  PROVE  Moves
BY DEF Becomes, Effect, World, Moves, Finishes, Keeps

LEMMA WorldInv ==
  ASSUME Inv
  PROVE  /\ World \in WorldType /\ ch \in Channel /\ fis \in Fis
         /\ ChannelInv(World.ch, World.fis, drive) /\ ChannelInv(ch, fis, drive)
         /\ World.ch = ch /\ World.fis = fis /\ World.cmd = cmd
BY DEF Inv, TypeOK, World, WorldType

LEMMA IsrQueuedMoves ==
  ASSUME Inv,
         \/ IsrDmaSetup \/ IsrDmaSetupNoSeg \/ IsrSetDevBits \/ IsrNcqD2H
         \/ IsrNcqTxXfer \/ IsrNcqRxXfer \/ IsrNcqError \/ IsrCleanupDone
         \/ \E a \in Cmds \cup {NoCmd} : IsrCleanupFailed(a)
  PROVE  Moves /\ UNCHANGED isrRest
<1>1. CASE IsrDmaSetup
  <2>1. Effect(World, ProcessSataDMASetup(World), drive)
    BY <1>1, WorldInv, DmaSetupInv DEF IsrDmaSetup, InNcq
  <2> QED BY <1>1, <2>1, EffectMoves DEF IsrDmaSetup
<1>2. CASE IsrDmaSetupNoSeg
  <2>1. ch.cur \in ch.EXQH => ch.cur \in drive.xferred
    BY <1>2, WorldInv DEF IsrDmaSetupNoSeg, InNcq, ChannelInv, DriveInv
  <2>2. Effect(World, ReleaseCur(World), drive)
    BY <1>2, <2>1, WorldInv, ReleaseInv DEF IsrDmaSetupNoSeg, InNcq
  <2> QED BY <1>2, <2>2, EffectMoves DEF IsrDmaSetupNoSeg
<1>3. CASE IsrSetDevBits
  <2> DEFINE v == ProcessSataSetDevBit(World)
  <2>1. Effect(World, v, drive) /\ v.ch.subState # "NCQ_ERROR"
    BY <1>3, WorldInv, SetDevBitInv DEF IsrSetDevBits, InNcq
  <2>2. Becomes(IF v.ch.subState = "NCQ_ERROR" THEN sata_NCQ_error_handle(v) ELSE v)
        /\ UNCHANGED isrRest
    BY <1>3 DEF IsrSetDevBits
  <2> HIDE DEF v
  <2>3. Becomes(v)
    BY <2>1, <2>2
  <2> QED BY <2>1, <2>2, <2>3, EffectMoves
<1>4. CASE IsrNcqTxXfer
  <2>1. Effect(World, XferError(ProcessDataTXDONE(World, xfer_done)), drive)
    BY <1>4, WorldInv, TxInv DEF IsrNcqTxXfer, InNcq
  <2> QED BY <1>4, <2>1, EffectMoves DEF IsrNcqTxXfer
<1>5. CASE IsrNcqRxXfer
  <2>1. NcqPhase(ch) /\ ch.subState = "NCQ_RX_XFER"
    BY <1>5, WorldInv DEF IsrNcqRxXfer, RxXfer, InNcq, ChannelInv, PhaseInv
  <2>2. Effect(World, XferError(RxIdle(World)), drive)
    BY <2>1, WorldInv, RxInv
  <2> QED BY <1>5, <2>2, EffectMoves DEF IsrNcqRxXfer
<1>6. ~ IsrNcqD2H
  BY WorldInv DEF IsrNcqD2H, InNcq, ChannelInv, FrameInv
<1>7. ~ IsrNcqError /\ ~ IsrCleanupDone /\ \A a \in Cmds \cup {NoCmd} : ~ IsrCleanupFailed(a)
  BY WorldInv DEF IsrNcqError, IsrCleanupDone, IsrCleanupFailed, LogIsIn, InNcq,
                  ChannelInv, PhaseInv
<1> QED BY <1>1, <1>2, <1>3, <1>4, <1>5, <1>6, <1>7

LEMMA IsrActiveMoves ==
  ASSUME Inv, IsrActive
  PROVE  Moves /\ UNCHANGED isrRest
<1> DEFINE w == [World EXCEPT !.fis.dmasetup = NoTag, !.fis.sdb = "none", !.fis.act = {}]
           w1 == IF fis.rx = "none" THEN w ELSE ProcessDMADATADONE(w, "rx", fis.rx)
           w2 == IF fis.tx = "none" THEN w1 ELSE ProcessDMADATADONE(w1, "tx", fis.tx)
           r == IF fis.d2h = "none" THEN w2 ELSE ProcessDMAStatusFis(w2, fis.d2h)
<1>1. ch.State = "ACTIVE" /\ Becomes(r) /\ UNCHANGED isrRest
  BY DEF IsrActive
<1>2. /\ w \in WorldType /\ w.ch = ch /\ w.cmd = cmd
      /\ w.fis.dmasetup = NoTag /\ w.fis.sdb = "none" /\ w.fis.act = {}
      /\ w.fis.d2h = fis.d2h /\ w.fis.rx = fis.rx /\ w.fis.tx = fis.tx
  BY WorldInv DEF WorldType, Fis, Outcome, World
<1> HIDE DEF w
<1>3. ChannelInv(w.ch, w.fis, drive)
  BY <1>2, WorldInv, FrameTaken
<1>4. /\ fis.rx # "none" => fis.tx = "none" /\ fis.d2h = "none"
      /\ fis.tx # "none" => fis.d2h = "none"
  BY <1>1, WorldInv DEF ChannelInv, FrameInv, Single
<1>5. Effect(w, r, drive)
  <2>1. CASE fis.rx # "none"
    <3>1. r = ProcessDMADATADONE(w, "rx", fis.rx)
      BY <1>4, <2>1
    <3> HIDE DEF r
    <3> QED BY <1>1, <1>2, <1>3, <2>1, <3>1, DataDoneInv
  <2>2. CASE fis.rx = "none" /\ fis.tx # "none"
    <3>1. r = ProcessDMADATADONE(w, "tx", fis.tx)
      BY <1>4, <2>2
    <3> HIDE DEF r
    <3> QED BY <1>1, <1>2, <1>3, <2>2, <3>1, DataDoneInv
  <2>3. CASE fis.rx = "none" /\ fis.tx = "none" /\ fis.d2h # "none"
    <3>1. r = ProcessDMAStatusFis(w, fis.d2h)
      BY <2>3
    <3> HIDE DEF r
    <3> QED BY <1>1, <1>2, <1>3, <2>3, <3>1, StatusFisInv
  <2>4. CASE fis.rx = "none" /\ fis.tx = "none" /\ fis.d2h = "none"
    BY <1>3, <2>4, NoEffect
  <2> QED BY <2>1, <2>2, <2>3, <2>4
<1> HIDE DEF r
<1>6. Effect(World, r, drive)
  BY <1>2, <1>5, WorldInv DEF Effect, Finishes, Keeps
<1> QED BY <1>1, <1>6, EffectMoves

(***************************************************************************)
(* From the reset to SATA_READY.                                           *)
(***************************************************************************)
\* A command of the initialisation, on a channel with nothing else.
InitCommand(s, p, sub) == [exec_ctxt(s, Internal, p) EXCEPT !.subState = sub]

LEMMA InitCommandInv ==
  ASSUME NEW s \in Channel, PoolInv(s), s.sBusy = {}, Waiting(s) = {}, s.cFree # {},
         s.State = "PRE_READY", NEW f, NEW d, Quiet(f, d),
         NEW sub \in InitSubStates, NEW p \in {"ND", "PIOIN"},
         p = IF sub = "ATA_READ_ID" THEN "PIOIN" ELSE "ND",
         NEW r, r = InitCommand(s, p, sub)
  PROVE  /\ ChannelInv(r, f, d) /\ Starting(s)
         /\ r.sBusy = {r.cur} /\ r.EXQH = {r.cur} /\ r.prot[r.cur] = p /\ r.cur \in Tags
<1> DEFINE e == exec_ctxt(s, Internal, p)
<1>1. p \in Prots \ NcqProts /\ s.EXQH = {}
  BY DEF Prots, NcqProts, PoolInv
<1>2. /\ AddsBusy(e, s, e.cur) /\ Waiting(e) = {} /\ e.State = "PRE_READY"
      /\ e.ctxt[e.cur] = Internal /\ e.prot[e.cur] = p
  BY <1>1, StartLegacy
<1> HIDE DEF e
<1>3. e \in Channel /\ PoolInv(e) /\ e.EXQH \subseteq e.sBusy
  BY <1>2 DEF AddsBusy, PoolInv
<1>4. r = [e EXCEPT !.subState = sub]
  BY DEF e, InitCommand
<1>5. /\ r \in Channel /\ r.State = e.State /\ r.subState = sub /\ r.cur = e.cur
      /\ r.sBusy = e.sBusy /\ r.EXQH = e.EXQH /\ r.ctxt = e.ctxt /\ r.prot = e.prot
      /\ r.cFree = e.cFree /\ r.default_cFree = e.default_cFree
      /\ r.next = e.next /\ r.que = e.que /\ r.ncq_que = e.ncq_que
  BY <1>3, <1>4 DEF Channel
<1>6. PoolInv(r) /\ Waiting(r) = {}
  BY <1>2, <1>3, <1>5, PoolSame
<1>7. /\ AddsBusy(r, s, r.cur) /\ r.ctxt[r.cur] = Internal /\ r.ctxt[r.cur] # NoCmd
      /\ r.prot[r.cur] = p
  BY <1>2, <1>5, <1>6, NullAssumption DEF AddsBusy, KeepsBound
<1>8. ChannelInv(r, f, d)
  BY <1>1, <1>2, <1>5, <1>6, <1>7, StartInv
<1> QED BY <1>1, <1>7, <1>8 DEF AddsBusy, Starting

LEMMA StartingHolds ==
  ASSUME Inv, Starting(ch)
  PROVE  \A t \in Tags : ch.ctxt[t] \notin Cmds
BY WorldInv, NoneBound

LEMMA IsrPhyReadyMoves ==
  ASSUME Inv, IsrPhyReady
  PROVE  Moves /\ UNCHANGED initRest
<1>1. /\ ch.State = "RESETING" /\ ch' = [ch EXCEPT !.State = "PHY_RDY"]
      /\ fis' = fis /\ UNCHANGED initRest
  BY DEF IsrPhyReady
<1>2. Quiet(fis, drive) /\ ch.EXQH = {} /\ ch.sBusy = {} /\ ch.cur = NoTag
  BY <1>1, WorldInv, IdleQuiet DEF Idle
<1>3. /\ ch' \in Channel /\ ch'.State = "PHY_RDY" /\ ch'.cur = ch.cur
      /\ ch'.sBusy = ch.sBusy /\ ch'.EXQH = ch.EXQH /\ ch'.ctxt = ch.ctxt
      /\ ch'.prot = ch.prot /\ ch'.cFree = ch.cFree
      /\ ch'.default_cFree = ch.default_cFree
      /\ ch'.next = ch.next /\ ch'.que = ch.que /\ ch'.ncq_que = ch.ncq_que
  BY <1>1, WorldInv DEF Channel, States
<1>4. PoolInv(ch') /\ Waiting(ch') = Waiting(ch)
  BY <1>2, <1>3, WorldInv, PoolSame DEF ChannelInv
<1>5. Waiting(ch) = {} /\ ch.cFree = ch.default_cFree
  BY <1>1, WorldInv DEF ChannelInv, PhaseInv, Starting
<1>6. ChannelInv(ch', fis', drive)
  BY <1>1, <1>2, <1>3, <1>4, <1>5, QuietIdle DEF Idle
<1> QED BY <1>1, <1>3, <1>6, StartingHolds DEF Moves, Issues, initRest, Starting

LEMMA IsrSignatureMoves ==
  ASSUME Inv, IsrSignature
  PROVE  Moves /\ UNCHANGED initRest
<1> DEFINE s == [ch EXCEPT !.State = "PRE_READY", !.subState = "ATA_READ_ID"]
           e == exec_ctxt(s, Internal, "PIOIN")
<1>1. ch.State = "PHY_RDY" /\ ch' = e /\ fis' = fis /\ UNCHANGED initRest
  BY DEF IsrSignature
<1>2. /\ Quiet(fis, drive) /\ ch.EXQH = {} /\ ch.sBusy = {} /\ Waiting(ch) = {}
      /\ ch.cFree # {} /\ PoolInv(ch) /\ ch \in Channel
  BY <1>1, WorldInv, IdleQuiet DEF Idle, ChannelInv, PhaseInv, PoolInv, Starting
<1>3. /\ s \in Channel /\ s.State = "PRE_READY" /\ s.subState = "ATA_READ_ID"
      /\ s.sBusy = ch.sBusy /\ s.EXQH = ch.EXQH /\ s.ctxt = ch.ctxt
      /\ s.prot = ch.prot /\ s.cFree = ch.cFree
      /\ s.default_cFree = ch.default_cFree
      /\ s.next = ch.next /\ s.que = ch.que /\ s.ncq_que = ch.ncq_que
  BY <1>2 DEF Channel, States, InitSubStates
<1> HIDE DEF s
<1>4. PoolInv(s) /\ Waiting(s) = {}
  BY <1>2, <1>3, PoolSame
<1>5. e \in Channel /\ e.subState = "ATA_READ_ID"
  BY <1>2, <1>3, <1>4, StartLegacy DEF Prots, AddsBusy
<1> HIDE DEF e
<1>6. e = [e EXCEPT !.subState = "ATA_READ_ID"]
  BY <1>5 DEF Channel
<1>7. e = InitCommand(s, "PIOIN", "ATA_READ_ID")
  BY <1>6 DEF e, InitCommand
<1>8. /\ ChannelInv(e, fis, drive) /\ e.EXQH = {e.cur} /\ e.prot[e.cur] = "PIOIN"
      /\ e.cur \in Tags
  <2>1. s.sBusy = {} /\ s.cFree # {}
    BY <1>2, <1>3
  <2>2. "ATA_READ_ID" \in InitSubStates
    BY DEF InitSubStates
  <2> QED BY <1>2, <1>3, <1>4, <1>7, <2>1, <2>2, InitCommandInv
<1>9. Issues(ch, e)
  BY <1>2, <1>8 DEF Issues, NcqProts
<1> QED BY <1>1, <1>8, <1>9, StartingHolds DEF Moves, initRest, Starting

\* The command of an initialisation step has ended: the channel is empty.
LEMMA InitCommandEnds ==
  ASSUME Inv, ch.State = "PRE_READY", ~ Silent(fis), NEW s, s = delete_curSCM(ch)
  PROVE  /\ ch.cur \in Tags /\ ch.EXQH = {}
         /\ ch.prot[ch.cur] = IF ch.subState = "ATA_READ_ID" THEN "PIOIN" ELSE "ND"
         /\ ch.prot[ch.cur] = "PIOIN" => fis.d2h = "none" /\ fis.tx = "none"
         /\ ch.prot[ch.cur] = "ND" => fis.rx = "none" /\ fis.tx = "none"
         /\ fis.sdb = "none" /\ fis.act = {} /\ fis.dmasetup = NoTag
         /\ drive.mode = "ok" /\ drive.dxfer = NoTag /\ drive.xferred = {}
         /\ s \in Channel /\ PoolInv(s) /\ Waiting(s) = {} /\ s.sBusy = {} /\ s.EXQH = {}
         /\ s.cur = NoTag /\ s.State = "PRE_READY" /\ s.cFree # {}
         /\ \A t \in Tags : s.ctxt[t] = NoCmd
<1>1. /\ ch.cur \in Tags /\ ch.sBusy = {ch.cur} /\ Waiting(ch) = {} /\ ch \in Channel
      /\ ch.cur \notin ch.EXQH /\ ch.EXQH = {} /\ PoolInv(ch)
  BY WorldInv DEF ChannelInv, PhaseInv, PoolInv, FrameInv, Single, Starting
<1>2. /\ ch.prot[ch.cur] = IF ch.subState = "ATA_READ_ID" THEN "PIOIN" ELSE "ND"
      /\ ch.prot[ch.cur] = "PIOIN" => fis.d2h = "none" /\ fis.tx = "none"
      /\ ch.prot[ch.cur] = "ND" => fis.rx = "none" /\ fis.tx = "none"
  BY WorldInv DEF ChannelInv, PhaseInv, FrameInv, Single
<1>3. /\ fis.sdb = "none" /\ fis.act = {} /\ fis.dmasetup = NoTag
      /\ drive.mode = "ok" /\ drive.dxfer = NoTag /\ drive.xferred = {}
  BY WorldInv DEF ChannelInv, FrameInv, DriveInv, NcqPhase
<1>4. ch.cur \in ch.sBusy
  BY <1>1
<1>5. /\ s \in Channel /\ PoolInv(s) /\ Waiting(s) = Waiting(ch)
      /\ s.sBusy = ch.sBusy \ {ch.cur} /\ s.cFree = ch.cFree \cup {ch.cur}
      /\ s.State = ch.State /\ s.cur = NoTag /\ s.EXQH = ch.EXQH
  BY <1>1, <1>4, DeletePool
<1>6. s.sBusy = {} /\ s.cFree # {} /\ Waiting(s) = {}
  BY <1>1, <1>5
<1>7. \A t \in Tags : s.ctxt[t] = NoCmd
  BY <1>6 DEF Waiting
<1> QED BY <1>1, <1>2, <1>3, <1>5, <1>6, <1>7

\* ata_init on an empty channel.
LEMMA AtaInitPool ==
  ASSUME NEW s \in Channel, PoolInv(s), s.sBusy = {}, Waiting(s) = {},
         \A t \in Tags : s.ctxt[t] = NoCmd, NEW r, r = ata_init(s)
  PROVE  /\ r \in Channel /\ PoolInv(r) /\ Waiting(r) = {} /\ r.sBusy = {}
         /\ r.cFree # {} /\ r.State = s.State
<1>1. 0 .. (Depth - 1) \subseteq Tags /\ 0 .. (Depth - 1) # {}
  <2>1. 0 \in 0 .. (Depth - 1)
    BY SizeAssumption
  <2> QED BY <2>1, SizeAssumption DEF Tags
<1>2. /\ r \in Channel /\ r.State = s.State /\ r.cFree = 0 .. (Depth - 1)
      /\ r.default_cFree = 0 .. (Depth - 1) /\ r.sBusy = s.sBusy /\ r.EXQH = s.EXQH
      /\ r.ctxt = s.ctxt /\ r.next = s.next /\ r.prot = s.prot
      /\ r.que = s.que /\ r.ncq_que = s.ncq_que
  BY <1>1 DEF ata_init, Channel
<1>3. Waiting(r) = Waiting(s)
  BY <1>2 DEF Waiting
<1>4. LegacyWaiting(r) = LegacyWaiting(s) /\ NcqWaiting(r) = NcqWaiting(s)
  BY <1>2, <1>3 DEF LegacyWaiting, NcqWaiting
<1>5. PoolInv(r)
  BY <1>1, <1>2, <1>3, <1>4 DEF PoolInv
<1> QED BY <1>1, <1>2, <1>3, <1>5

LEMMA IsrReadIdMoves ==
  ASSUME Inv, IsrReadId
  PROVE  Moves /\ UNCHANGED initRest
<1> DEFINE s == delete_curSCM(ch)
<1>1. /\ ch.State = "PRE_READY" /\ ch.subState = "ATA_READ_ID" /\ fis.rx # "none"
      /\ fis' = [fis EXCEPT !.rx = "none"] /\ UNCHANGED initRest
  BY DEF IsrReadId
<1>2. ~ Silent(fis)
  BY <1>1 DEF Silent
<1>3. /\ ch.cur \in Tags /\ ch.EXQH = {} /\ ch.prot[ch.cur] = "PIOIN"
      /\ s \in Channel /\ PoolInv(s) /\ Waiting(s) = {} /\ s.sBusy = {} /\ s.EXQH = {}
      /\ s.cur = NoTag /\ s.State = "PRE_READY" /\ s.cFree # {}
      /\ \A t \in Tags : s.ctxt[t] = NoCmd
  BY <1>1, <1>2, InitCommandEnds
<1>4. Quiet(fis', drive)
  BY <1>1, <1>2, WorldInv, InitCommandEnds DEF Quiet, Silent, Fis
<1>5. \/ ch' = [s EXCEPT !.subState = "INITIALIZED_FAIL", !.State = "READY"]
      \/ ch' = InitCommand(ata_init(s), "ND", "SPIN_UP_HDD")
      \/ ch' = InitCommand(s, "ND", "SPIN_UP_HDD")
  BY <1>3, NullFacts DEF IsrReadId, SpinUp, InitCommand
<1> HIDE DEF s
<1>6. CASE ch' = [s EXCEPT !.subState = "INITIALIZED_FAIL", !.State = "READY"]
  <2>1. /\ ch' \in Channel /\ ch'.State = "READY" /\ ch'.cur = s.cur
        /\ ch'.sBusy = s.sBusy /\ ch'.EXQH = s.EXQH /\ ch'.ctxt = s.ctxt
        /\ ch'.prot = s.prot /\ ch'.cFree = s.cFree
        /\ ch'.default_cFree = s.default_cFree
        /\ ch'.next = s.next /\ ch'.que = s.que /\ ch'.ncq_que = s.ncq_que
    BY <1>3, <1>6 DEF Channel, States, InitSubStates
  <2>2. PoolInv(ch') /\ Waiting(ch') = {}
    BY <1>3, <2>1, PoolSame
  <2>3. ChannelInv(ch', fis', drive)
    BY <1>3, <1>4, <2>1, <2>2, QuietIdle DEF Idle
  <2> QED BY <1>1, <1>3, <2>1, <2>3, StartingHolds DEF Moves, Issues, Starting, initRest
<1>7. CASE ch' = InitCommand(ata_init(s), "ND", "SPIN_UP_HDD")
           \/ ch' = InitCommand(s, "ND", "SPIN_UP_HDD")
  <2>1. PICK v : /\ ch' = InitCommand(v, "ND", "SPIN_UP_HDD")
                 /\ v \in Channel /\ PoolInv(v) /\ Waiting(v) = {} /\ v.sBusy = {}
                 /\ v.cFree # {} /\ v.State = "PRE_READY"
    BY <1>3, <1>7, AtaInitPool
  <2>2. "SPIN_UP_HDD" \in InitSubStates
    BY DEF InitSubStates
  <2>3. /\ ChannelInv(ch', fis', drive) /\ ch'.EXQH = {ch'.cur}
        /\ ch'.prot[ch'.cur] = "ND" /\ ch'.cur \in Tags
    BY <1>4, <2>1, <2>2, InitCommandInv
  <2> QED BY <1>1, <1>3, <2>3, StartingHolds DEF Moves, Issues, Starting, initRest, NcqProts
<1> QED BY <1>5, <1>6, <1>7

LEMMA IsrInitStepMoves ==
  ASSUME Inv, IsrInitStep
  PROVE  Moves /\ UNCHANGED initRest
<1> DEFINE s == delete_curSCM(ch)
           n == [s EXCEPT !.State = "READY", !.subState = "INITIALIZED_COMPLETE"]
<1>1. /\ ch.State = "PRE_READY" /\ ch.subState # "ATA_READ_ID" /\ fis.d2h # "none"
      /\ fis' = [fis EXCEPT !.d2h = "none"] /\ UNCHANGED initRest
  BY DEF IsrInitStep, InitSteps
<1>2. ~ Silent(fis)
  BY <1>1 DEF Silent
<1>3. /\ ch.cur \in Tags /\ ch.EXQH = {} /\ ch.prot[ch.cur] = "ND"
      /\ s \in Channel /\ PoolInv(s) /\ Waiting(s) = {} /\ s.sBusy = {} /\ s.EXQH = {}
      /\ s.cur = NoTag /\ s.State = "PRE_READY" /\ s.cFree # {}
  BY <1>1, <1>2, InitCommandEnds
<1>4. Quiet(fis', drive)
  BY <1>1, <1>2, WorldInv, InitCommandEnds DEF Quiet, Silent, Fis
<1>5. \/ \E sub \in InitSubStates \ {"ATA_READ_ID"} : ch' = InitCommand(s, "ND", sub)
      \/ ch' = exec_next_scm(n)
  <2>1. \A j \in 1 .. 4 : InitSteps[j] \in InitSubStates \ {"ATA_READ_ID"}
    BY DEF InitSteps, InitSubStates
  <2> QED BY <2>1 DEF IsrInitStep, InitCommand
<1> HIDE DEF s
<1>6. CASE \E sub \in InitSubStates \ {"ATA_READ_ID"} : ch' = InitCommand(s, "ND", sub)
  <2>1. /\ ChannelInv(ch', fis', drive) /\ ch'.EXQH = {ch'.cur}
        /\ ch'.prot[ch'.cur] = "ND" /\ ch'.cur \in Tags
    BY <1>3, <1>4, <1>6, InitCommandInv
  <2> QED BY <1>1, <1>3, <2>1, StartingHolds DEF Moves, Issues, Starting, initRest, NcqProts
<1>7. CASE ch' = exec_next_scm(n)
  <2>1. /\ n \in Channel /\ n.State = "READY" /\ n.cur = s.cur
        /\ n.sBusy = s.sBusy /\ n.EXQH = s.EXQH /\ n.ctxt = s.ctxt
        /\ n.prot = s.prot /\ n.cFree = s.cFree
        /\ n.default_cFree = s.default_cFree
        /\ n.next = s.next /\ n.que = s.que /\ n.ncq_que = s.ncq_que
    BY <1>3 DEF Channel, States, InitSubStates
  <2> HIDE DEF n
  <2>2. PoolInv(n) /\ n.sBusy = {} /\ n.cur = NoTag /\ Waiting(n) = {}
    BY <1>3, <2>1, PoolSame
  <2>3. ChannelInv(ch', fis', drive) /\ Issues(n, ch') /\ ~ Starting(ch')
    BY <1>4, <1>7, <2>1, <2>2, NextInv
  <2>4. Issues(ch, ch')
    BY <1>3, <2>1, <2>3 DEF Issues
  <2> QED BY <1>1, <2>3, <2>4, StartingHolds DEF Moves, initRest, Starting
<1> QED BY <1>5, <1>6, <1>7

(***************************************************************************)
(* What every step keeps: the invariant, the order of the commands on the  *)
(* bus, and the rule for the status GOOD.                                  *)
(***************************************************************************)
\* The drive reports queued commands, or the one that is not queued.
Completes(s, r) ==
  /\ r.prot = s.prot
  /\ \E S \in SUBSET s.EXQH :
       /\ r.EXQH = s.EXQH \ S
       /\ \/ \A t \in S : s.prot[t] \in NcqProts
          \/ S = s.EXQH /\ \A t \in S : s.prot[t] \notin NcqProts

Traffic == Issues(ch, ch') \/ Completes(ch, ch') \/ ch'.EXQH = {}

GoodStep ==
  \A c \in Cmds : cmd[c] = "sata" /\ cmd'[c] = "good" =>
    \E t \in Tags : ch.ctxt[t] = c /\ (t \in drive.xferred \/ t \notin ch.EXQH)

Kept == ChannelInv(ch', fis', drive') /\ Held' /\ UasInv' /\ Traffic /\ GoodStep

\* The SCMs keep their commands, and no other command is handed over.
LEMMA HeldSame ==
  ASSUME Inv,
         \A t \in Tags : ch.ctxt[t] \in Cmds =>
           ch'.ctxt[t] = ch.ctxt[t] \/ cmd'[ch.ctxt[t]] # "sata",
         \A c \in Cmds : cmd'[c] = "sata" => cmd[c] = "sata"
  PROVE  Held'
<1> SUFFICES ASSUME NEW c \in Cmds, cmd'[c] = "sata"
             PROVE  \E t \in Tags : ch'.ctxt[t] = c
  BY DEF Held
<1>1. PICK t \in Tags : ch.ctxt[t] = c
  BY DEF Inv, Held
<1> QED BY <1>1

\* A channel that holds no command of the host has none to lose.
LEMMA HeldNone ==
  ASSUME Inv, Starting(ch) \/ Idle(ch)
  PROVE  \A c \in Cmds : cmd[c] # "sata"
BY WorldInv, NoneBound DEF Inv, Held

LEMMA UasSame ==
  ASSUME TypeOK, UasInv,
         UNCHANGED <<newCtxt, uas_cmd_state, new_dispatched_CIU, sobj_init>>,
         \A c \in Cmds : cmd[c] = "queued" => cmd'[c] = "queued",
         Starting(ch') => Starting(ch)
  PROVE  UasInv'
<1>1. \A i \in 1 .. Len(newCtxt) : newCtxt[i] \in Cmds
  BY DEF TypeOK
<1> QED BY <1>1 DEF UasInv, Dispatching

LEMMA IsrKept == ASSUME Inv, IsrStep \/ IsrDmaSetupNoSeg PROVE Kept
<1>1. Moves /\ UNCHANGED <<drive, newCtxt, uas_cmd_state, new_dispatched_CIU, sobj_init>>
  <2>1. CASE IsrActive \/ IsrDmaSetup \/ IsrDmaSetupNoSeg \/ IsrSetDevBits \/ IsrNcqD2H
             \/ IsrNcqTxXfer \/ IsrNcqRxXfer \/ IsrNcqError \/ IsrCleanupDone
             \/ \E a \in Cmds \cup {NoCmd} : IsrCleanupFailed(a)
    BY <2>1, IsrQueuedMoves, IsrActiveMoves DEF isrRest, uasVars
  <2>2. CASE IsrPhyReady \/ IsrSignature \/ IsrReadId \/ IsrInitStep
    BY <2>2, IsrPhyReadyMoves, IsrSignatureMoves, IsrReadIdMoves, IsrInitStepMoves
       DEF initRest, uasVars
  <2> QED BY <2>1, <2>2 DEF IsrStep
<1>2. UasInv'
  <2>1. \A c \in Cmds : cmd[c] = "queued" => cmd'[c] = "queued"
    BY <1>1 DEF Moves
  <2> QED BY <1>1, <2>1, UasSame DEF Inv, Moves
<1>3. GoodStep
  BY <1>1 DEF Moves, GoodStep
<1>4. Held'
  <2>1. \A c \in Cmds : cmd'[c] = "sata" => cmd[c] = "sata"
    BY <1>1 DEF Moves, Terminal
  <2> QED BY <1>1, <2>1, HeldSame DEF Moves
<1> QED BY <1>1, <1>2, <1>3, <1>4 DEF Kept, Moves, Traffic

(***************************************************************************)
(* The steps of the drive.                                                 *)
(***************************************************************************)
LEMMA DriveDmaSetupInv ==
  ASSUME Inv, NEW t \in Tags, DriveDmaSetup(t)
  PROVE  ChannelInv(ch', fis', drive')
<1>1. /\ drive.mode = "ok" /\ drive.dxfer = NoTag /\ t \in ch.EXQH \ drive.xferred
      /\ ch.prot[t] \in NcqProts /\ ch' = ch /\ fis \in Fis
      /\ fis' = [fis EXCEPT !.dmasetup = t] /\ drive' = [drive EXCEPT !.dxfer = t]
  BY WorldInv DEF DriveDmaSetup, Queued
<1>2. /\ fis'.dmasetup = t /\ fis'.sdb = fis.sdb /\ fis'.act = fis.act
      /\ fis'.d2h = fis.d2h /\ fis'.rx = fis.rx /\ fis'.tx = fis.tx
      /\ drive'.dxfer = t /\ drive'.mode = "ok" /\ drive'.xferred = drive.xferred
  BY <1>1 DEF Fis, Drive, Inv, TypeOK
<1>3. NcqPhase(ch)
  BY <1>1, WorldInv DEF ChannelInv, PoolInv, PhaseInv, Idle, Single, NcqPhase, Channel, States
<1>4. FrameInv(ch', fis')
  BY <1>1, <1>2, WorldInv DEF ChannelInv, FrameInv, Silent
<1>5. DriveInv(ch', fis', drive')
  <2>1. ch.cur # t
    BY <1>1, <1>3, WorldInv, NullFacts DEF ChannelInv, DriveInv
  <2>2. NoTag \notin ch.EXQH
    BY WorldInv, NullFacts DEF Channel
  <2> QED BY <1>1, <1>2, <1>3, <2>1, <2>2, WorldInv DEF ChannelInv, DriveInv
<1> QED BY <1>1, <1>4, <1>5, WorldInv DEF ChannelInv

LEMMA DriveDataInv ==
  ASSUME Inv, DriveData
  PROVE  ChannelInv(ch', fis', drive')
<1>1. /\ drive.dxfer # NoTag /\ ch.cur = drive.dxfer /\ ch.subState \in XferSubStates
      /\ ch' = ch /\ fis \in Fis
      /\ fis' = IF ch.subState = "NCQ_RX_XFER" THEN [fis EXCEPT !.rx = "ok"]
                ELSE [fis EXCEPT !.tx = "ok"]
      /\ drive' = [drive EXCEPT !.dxfer = NoTag,
                                !.xferred = drive.xferred \cup {drive.dxfer}]
  BY WorldInv DEF DriveData
<1>2. /\ fis'.dmasetup = fis.dmasetup /\ fis'.sdb = fis.sdb /\ fis'.act = fis.act
      /\ fis'.d2h = fis.d2h
      /\ fis'.rx = (IF ch.subState = "NCQ_RX_XFER" THEN "ok" ELSE fis.rx)
      /\ fis'.tx = (IF ch.subState = "NCQ_RX_XFER" THEN fis.tx ELSE "ok")
      /\ drive'.dxfer = NoTag /\ drive'.mode = drive.mode
      /\ drive'.xferred = drive.xferred \cup {drive.dxfer}
  BY <1>1 DEF Fis, Drive, Inv, TypeOK
<1>3. NcqPhase(ch) /\ drive.dxfer \in ch.EXQH /\ fis.dmasetup = NoTag /\ ~ Idle(ch)
      /\ ~ Single(ch)
  BY <1>1, WorldInv DEF ChannelInv, DriveInv, NcqPhase, Idle, Single
<1>4. FrameInv(ch', fis')
  BY <1>1, <1>2, <1>3, WorldInv DEF ChannelInv, FrameInv, XferSubStates
<1>5. DriveInv(ch', fis', drive')
  BY <1>1, <1>2, <1>3, WorldInv DEF ChannelInv, DriveInv
<1> QED BY <1>1, <1>4, <1>5, WorldInv DEF ChannelInv

\* The drive reports the tags in S: ch changes in EXQH only.
LEMMA ReportParts ==
  ASSUME Inv, NEW S, ch' = [ch EXCEPT !.EXQH = ch.EXQH \ S]
  PROVE  /\ PoolInv(ch') /\ PhaseInv(ch') /\ ch'.EXQH = ch.EXQH \ S
         /\ ch'.State = ch.State /\ ch'.subState = ch.subState /\ ch'.cur = ch.cur
         /\ ch'.sBusy = ch.sBusy /\ ch'.ctxt = ch.ctxt /\ ch'.prot = ch.prot
<1>1. /\ ch' \in Channel /\ ch'.EXQH = ch.EXQH \ S
      /\ ch'.State = ch.State /\ ch'.subState = ch.subState /\ ch'.cur = ch.cur
      /\ ch'.sBusy = ch.sBusy /\ ch'.ctxt = ch.ctxt
      /\ ch'.prot = ch.prot /\ ch'.cFree = ch.cFree
      /\ ch'.default_cFree = ch.default_cFree
      /\ ch'.next = ch.next /\ ch'.que = ch.que /\ ch'.ncq_que = ch.ncq_que
  BY WorldInv DEF Channel
<1>2. PoolInv(ch') /\ Waiting(ch') = Waiting(ch)
  <2>1. PoolInv(ch) /\ ch'.EXQH \subseteq ch'.sBusy
    BY <1>1, WorldInv DEF ChannelInv, PoolInv
  <2> QED BY <1>1, <2>1, WorldInv, PoolSame
<1>3. PhaseInv(ch')
  BY <1>1, <1>2, WorldInv DEF ChannelInv, PhaseInv, NcqPhase, Starting, Single, Idle
<1> QED BY <1>1, <1>2, <1>3

LEMMA DriveSetDevBitsInv ==
  ASSUME Inv, NEW S \in SUBSET Tags, DriveSetDevBits(S)
  PROVE  /\ ChannelInv(ch', fis', drive') /\ Completes(ch, ch')
         /\ ch'.State = ch.State /\ ch'.ctxt = ch.ctxt
<1>1. /\ drive.mode = "ok" /\ drive.dxfer = NoTag /\ S # {} /\ S \subseteq drive.xferred
      /\ S \subseteq ch.EXQH /\ \A t \in S : ch.prot[t] \in NcqProts
      /\ ch' = [ch EXCEPT !.EXQH = ch.EXQH \ S]
      /\ fis' = [fis EXCEPT !.sdb = "ok", !.act = S]
      /\ drive' = [drive EXCEPT !.xferred = drive.xferred \ S]
  BY DEF DriveSetDevBits, Queued
<1>2. /\ PoolInv(ch') /\ PhaseInv(ch') /\ ch'.EXQH = ch.EXQH \ S
      /\ ch'.State = ch.State /\ ch'.subState = ch.subState /\ ch'.cur = ch.cur
      /\ ch'.sBusy = ch.sBusy /\ ch'.ctxt = ch.ctxt /\ ch'.prot = ch.prot
  BY <1>1, ReportParts
<1>3. /\ fis'.dmasetup = fis.dmasetup /\ fis'.sdb = "ok" /\ fis'.act = S
      /\ fis'.d2h = fis.d2h /\ fis'.rx = fis.rx /\ fis'.tx = fis.tx
      /\ drive'.dxfer = NoTag /\ drive'.mode = "ok" /\ drive'.xferred = drive.xferred \ S
  BY <1>1, WorldInv DEF Fis, Drive, Inv, TypeOK
<1>4. NcqPhase(ch) /\ NcqPhase(ch') /\ S \subseteq ch.sBusy
  BY <1>1, <1>2, WorldInv DEF ChannelInv, DriveInv, PoolInv, NcqPhase
<1>5. FrameInv(ch', fis')
  BY <1>2, <1>3, <1>4, WorldInv DEF ChannelInv, FrameInv, NcqPhase, Idle, Single
<1>6. DriveInv(ch', fis', drive')
  BY <1>1, <1>2, <1>3, <1>4, WorldInv DEF ChannelInv, DriveInv
<1>7. Completes(ch, ch')
  BY <1>1, <1>2 DEF Completes
<1> QED BY <1>2, <1>5, <1>6, <1>7 DEF ChannelInv

LEMMA DriveLegacyInv ==
  ASSUME Inv, NEW t \in Tags, DriveLegacy(t)
  PROVE  /\ ChannelInv(ch', fis', drive') /\ Completes(ch, ch')
         /\ ch'.State = ch.State /\ ch'.ctxt = ch.ctxt
<1>1. /\ t \in ch.EXQH /\ ch.prot[t] \notin NcqProts
      /\ ch' = [ch EXCEPT !.EXQH = ch.EXQH \ {t}] /\ drive' = drive
      /\ drive.mode = "ok" => ch.EXQH = {t}
      /\ \E o \in {"ok", "err"} :
           \/ ch.prot[t] = "ND" /\ fis' = [fis EXCEPT !.d2h = o]
           \/ ch.prot[t] \in {"PIOIN", "DMAIN"} /\ fis' = [fis EXCEPT !.rx = o]
           \/ ch.prot[t] = "DMAOUT" /\ fis' = [fis EXCEPT !.tx = o]
  BY DEF DriveLegacy, Legacy, Queued
<1>2. /\ ch.EXQH = {t} /\ Single(ch) /\ ch.cur = t /\ ~ NcqPhase(ch) /\ ~ Idle(ch)
      /\ Silent(fis)
  BY <1>1, WorldInv
     DEF ChannelInv, DriveInv, PoolInv, PhaseInv, FrameInv, Idle, Single, NcqPhase,
         Channel, States
<1>3. /\ PoolInv(ch') /\ PhaseInv(ch') /\ ch'.EXQH = ch.EXQH \ {t}
      /\ ch'.State = ch.State /\ ch'.subState = ch.subState /\ ch'.cur = ch.cur
      /\ ch'.sBusy = ch.sBusy /\ ch'.ctxt = ch.ctxt /\ ch'.prot = ch.prot
  BY <1>1, ReportParts
<1>4. /\ fis'.dmasetup = fis.dmasetup /\ fis'.sdb = fis.sdb /\ fis'.act = fis.act
      /\ fis'.d2h # "none" => ch.prot[t] = "ND"
      /\ fis'.rx # "none" => ch.prot[t] \in {"PIOIN", "DMAIN"}
      /\ fis'.tx # "none" => ch.prot[t] = "DMAOUT"
  BY <1>1, <1>2, WorldInv DEF Fis, Silent
<1>5. FrameInv(ch', fis')
  BY <1>2, <1>3, <1>4, WorldInv DEF ChannelInv, FrameInv, NcqPhase, Idle, Single
<1>6. DriveInv(ch', fis', drive')
  BY <1>1, <1>2, <1>3, <1>4, WorldInv DEF ChannelInv, DriveInv, NcqPhase
<1>7. Completes(ch, ch')
  BY <1>1, <1>2, <1>3 DEF Completes
<1> QED BY <1>3, <1>5, <1>6, <1>7 DEF ChannelInv

LEMMA DriveKept == ASSUME Inv, NoDoubleFree, DriveStep \/ DriveFault PROVE Kept
<1>1. /\ ChannelInv(ch', fis', drive') /\ Traffic /\ ch'.State = ch.State
      /\ ch'.ctxt = ch.ctxt /\ UNCHANGED firmwareVars
  <2>1. drive.mode = "ok"
    BY WorldInv DEF ChannelInv, DriveInv
  <2>2. ~ DriveFault /\ ~ DriveFlush /\ ~ DriveLogData
    BY <2>1 DEF NoDoubleFree, DriveFault, DriveReject, DriveNcqError, DriveFlush,
                DriveLogData, ReadLog
  <2>3. CASE \E t \in Tags : DriveDmaSetup(t)
    BY <2>3, DriveDmaSetupInv DEF DriveDmaSetup, Traffic, Issues
  <2>4. CASE DriveData
    BY <2>4, DriveDataInv DEF DriveData, Traffic, Issues
  <2>5. CASE \E S \in SUBSET Tags : DriveSetDevBits(S)
    BY <2>5, DriveSetDevBitsInv DEF DriveSetDevBits, Traffic
  <2>6. CASE \E t \in Tags : DriveLegacy(t)
    BY <2>6, DriveLegacyInv DEF DriveLegacy, Traffic
  <2> QED BY <2>2, <2>3, <2>4, <2>5, <2>6 DEF DriveStep
<1>2. UasInv'
  BY <1>1, UasSame DEF Inv, Starting, firmwareVars, uasVars
<1>3. GoodStep
  BY <1>1 DEF GoodStep, firmwareVars
<1>4. Held'
  BY <1>1, HeldSame DEF firmwareVars
<1> QED BY <1>1, <1>2, <1>3, <1>4 DEF Kept

(***************************************************************************)
(* The host, the transport and the resets.                                 *)
(***************************************************************************)
\* The channel, the drive and the frames are left alone.
LEMMA SameChannel ==
  ASSUME Inv, UNCHANGED <<ch, fis, drive>>
  PROVE  ChannelInv(ch', fis', drive') /\ Traffic
BY WorldInv DEF Traffic, Issues

LEMMA QueueOfCommands ==
  ASSUME Inv
  PROVE  /\ newCtxt \in Seq(Cmds) /\ Len(newCtxt) \in Nat
         /\ \A i \in 1 .. Len(newCtxt) : newCtxt[i] \in Cmds /\ cmd[newCtxt[i]] = "queued"
         /\ cmd \in [Cmds -> CmdStates]
BY DEF Inv, TypeOK, UasInv

LEMMA HostSendKept == ASSUME Inv, NEW c \in Cmds, HostSend(c) PROVE Kept
<1> DEFINE q == newCtxt
<1>1. /\ cmd[c] = "none" /\ cmd' = [cmd EXCEPT ![c] = "queued"] /\ newCtxt' = Append(q, c)
      /\ UNCHANGED <<ch, fis, drive, uas_cmd_state, new_dispatched_CIU, sobj_init>>
  BY DEF HostSend
<1>2. /\ q \in Seq(Cmds) /\ Len(q) \in Nat /\ cmd \in [Cmds -> CmdStates]
      /\ \A i \in 1 .. Len(q) : q[i] \in Cmds /\ cmd[q[i]] = "queued" /\ q[i] # c
  BY <1>1, QueueOfCommands
<1>3. /\ Len(newCtxt') = Len(q) + 1 /\ newCtxt'[Len(q) + 1] = c
      /\ \A i \in 1 .. Len(q) : newCtxt'[i] = q[i]
  BY <1>1, <1>2
<1> HIDE DEF q
<1>4. \A i \in 1 .. Len(newCtxt') : i \in 1 .. Len(q) \/ i = Len(q) + 1
  BY <1>2, <1>3
<1>5. \A i, j \in 1 .. Len(newCtxt') : newCtxt'[i] = newCtxt'[j] => i = j
  BY <1>2, <1>3, <1>4 DEF Inv, UasInv, q
<1>6. \A i \in 1 .. Len(newCtxt') : cmd'[newCtxt'[i]] = "queued"
  BY <1>1, <1>2, <1>3, <1>4
<1>7. Dispatching => /\ new_dispatched_CIU \in Cmds
                     /\ cmd'[new_dispatched_CIU] = "queued"
                     /\ \A i \in 1 .. Len(newCtxt') : newCtxt'[i] # new_dispatched_CIU
  BY <1>1, <1>2, <1>3, <1>4 DEF Inv, UasInv, q
<1>8. UasInv'
  BY <1>1, <1>5, <1>6, <1>7 DEF Inv, UasInv, Dispatching
<1>9. GoodStep
  BY <1>1, <1>2 DEF GoodStep
<1>10. Held'
  BY <1>1, <1>2, HeldSame
<1> QED BY <1>1, <1>8, <1>9, <1>10, SameChannel DEF Kept

LEMMA UasIdleKept == ASSUME Inv, UasIdle PROVE Kept
<1> DEFINE q == newCtxt
<1>1. /\ q # <<>>
      /\ sobj_init \/ Ready(ch)
      /\ new_dispatched_CIU' = Head(q) /\ newCtxt' = Tail(q)
      /\ uas_cmd_state' = "CDB_CHECK"
      /\ UNCHANGED <<ch, fis, drive, cmd>>
  BY DEF UasIdle
<1>2. /\ q \in Seq(Cmds) /\ Len(q) \in Nat
      /\ \A i \in 1 .. Len(q) : q[i] \in Cmds /\ cmd[q[i]] = "queued"
  BY QueueOfCommands
<1>3. /\ Len(q) \in Nat \ {0} /\ Head(q) = q[1] /\ Len(newCtxt') = Len(q) - 1
      /\ \A i \in 1 .. (Len(q) - 1) : newCtxt'[i] = q[i + 1]
  <2>1. Len(q) \in Nat \ {0}
    BY <1>1, <1>2, EmptySeq
  <2>2. Head(q) = q[1]
    BY <2>1
  <2>3. Len(Tail(q)) = Len(q) - 1 /\ \A i \in 1 .. (Len(q) - 1) : Tail(q)[i] = q[i + 1]
    BY <1>2, <2>1
  <2> QED BY <1>1, <2>1, <2>2, <2>3
<1> HIDE DEF q
<1>4. \A i \in 1 .. Len(newCtxt') : i + 1 \in 1 .. Len(q) /\ i + 1 # 1
  BY <1>3
<1>5. \A i, j \in 1 .. Len(q) : q[i] = q[j] => i = j
  BY DEF Inv, UasInv, q
<1>6. \A i, j \in 1 .. Len(newCtxt') : newCtxt'[i] = newCtxt'[j] => i = j
  BY <1>3, <1>4, <1>5
<1>7. 1 \in 1 .. Len(q)
  BY <1>3
<1>8. \A i \in 1 .. Len(newCtxt') : newCtxt'[i] # new_dispatched_CIU'
  BY <1>1, <1>3, <1>4, <1>5, <1>7
<1>9. \A i \in 1 .. Len(newCtxt') : cmd'[newCtxt'[i]] = "queued"
  BY <1>1, <1>2, <1>3, <1>4
<1>10. new_dispatched_CIU' \in Cmds /\ cmd'[new_dispatched_CIU'] = "queued"
  BY <1>1, <1>2, <1>3, <1>7
<1>11. ~ Starting(ch')
  BY <1>1 DEF Inv, UasInv, Ready, Starting
<1>12. UasInv'
  BY <1>1, <1>6, <1>8, <1>9, <1>10, <1>11 DEF UasInv, Dispatching
<1>13. GoodStep
  BY <1>1 DEF GoodStep
<1>14. Held'
  BY <1>1, HeldSame
<1> QED BY <1>1, <1>12, <1>13, <1>14, SameChannel DEF Kept

LEMMA CdbCheckPendingKept == ASSUME Inv, NEW c \in Cmds, CdbCheckPending(c) PROVE Kept
<1> DEFINE q == newCtxt
<1>1. /\ uas_cmd_state = "CDB_CHECK" /\ new_dispatched_CIU = c
      /\ newCtxt' = <<c>> \o q /\ uas_cmd_state' = "CIU_PAUSED"
      /\ UNCHANGED <<ch, fis, drive, cmd, sobj_init>>
  BY DEF CdbCheckPending, InCdbCheck
<1>2. /\ q \in Seq(Cmds) /\ Len(q) \in Nat
      /\ \A i \in 1 .. Len(q) : q[i] \in Cmds /\ cmd[q[i]] = "queued"
  BY QueueOfCommands
<1>3. cmd[c] = "queued" /\ \A i \in 1 .. Len(q) : q[i] # c
  BY <1>1 DEF Inv, UasInv, Dispatching
<1>4. /\ Len(newCtxt') = Len(q) + 1 /\ newCtxt'[1] = c
      /\ \A i \in 2 .. (Len(q) + 1) : newCtxt'[i] = q[i - 1]
  BY <1>1, <1>2
<1> HIDE DEF q
<1>5. \A i \in 1 .. Len(newCtxt') : i = 1 \/ (i \in 2 .. (Len(q) + 1) /\ i - 1 \in 1 .. Len(q))
  BY <1>2, <1>4
<1>6. \A i, j \in 1 .. Len(q) : q[i] = q[j] => i = j
  BY DEF Inv, UasInv, q
<1>7. \A i, j \in 1 .. Len(newCtxt') : newCtxt'[i] = newCtxt'[j] => i = j
  BY <1>2, <1>3, <1>4, <1>5, <1>6
<1>8. \A i \in 1 .. Len(newCtxt') : cmd'[newCtxt'[i]] = "queued"
  BY <1>1, <1>2, <1>3, <1>4, <1>5
<1>9. UasInv'
  BY <1>1, <1>7, <1>8 DEF Inv, UasInv, Dispatching
<1>10. GoodStep
  BY <1>1 DEF GoodStep
<1>11. Held'
  BY <1>1, HeldSame
<1> QED BY <1>1, <1>9, <1>10, <1>11, SameChannel DEF Kept

\* The channel is handed the command c, or none.
LEMMA HeldNew ==
  ASSUME Inv, NEW c \in Cmds, KeepsBound(ch', ch),
         cmd' \in [Cmds -> CmdStates], \A e \in Cmds \ {c} : cmd'[e] = cmd[e],
         cmd'[c] = "sata" => \E t \in Tags : ch'.ctxt[t] = c
  PROVE  Held'
<1> SUFFICES ASSUME NEW e \in Cmds, cmd'[e] = "sata"
             PROVE  \E t \in Tags : ch'.ctxt[t] = e
  BY DEF Held
<1>1. CASE e = c
  BY <1>1
<1>2. CASE e # c
  <2>1. PICK t \in Tags : ch.ctxt[t] = e
    BY <1>2 DEF Inv, Held
  <2> QED BY <2>1, NullAssumption DEF KeepsBound
<1> QED BY <1>1, <1>2

\* A drive that is idle has a CCM free: none is lost.
LEMMA ReadyHasCCM ==
  ASSUME Inv, ch.State = "READY"
  PROVE  ch.cFree # {}
<1>1. ch.sBusy = {} /\ Waiting(ch) = {}
  BY WorldInv, IdleQuiet DEF Idle
<1> QED BY <1>1, WorldInv DEF ChannelInv, PoolInv

LEMMA StartAtaCmdKept == ASSUME Inv, NEW c \in Cmds, StartAtaCmd(c) PROVE Kept
<1>1. /\ uas_cmd_state = "CDB_CHECK" /\ new_dispatched_CIU = c
      /\ ch' = exec_ctxt(ch, c, ProtOf(c)) /\ ProtOf(c) \in Prots \ NcqProts
      /\ cmd' = [cmd EXCEPT ![c] = IF ch.cFree = {} /\ Kind[c] = "VERIFY" THEN "busy"
                                   ELSE "sata"]
      /\ uas_cmd_state' = "CIU_PAUSED"
      /\ UNCHANGED <<fis, drive, newCtxt, sobj_init>>
  BY DEF StartAtaCmd, InCdbCheck, Started, ProtOf, Prots, NcqProts, uasVars
<1>2. /\ cmd[c] = "queued" /\ \A i \in 1 .. Len(newCtxt) : newCtxt[i] # c
      /\ ~ Starting(ch)
  BY <1>1 DEF Inv, UasInv, Dispatching
<1>3. Ready(ch)
  BY <1>2, WorldInv DEF ChannelInv, PhaseInv, Starting, Ready, Channel, States
<1>4. /\ ChannelInv(ch', fis', drive') /\ Issues(ch, ch') /\ ~ Starting(ch')
      /\ KeepsBound(ch', ch) /\ (ch.cFree # {} => \E t \in Tags : ch'.ctxt[t] = c)
  BY <1>1, <1>3, WorldInv, LegacyInv
<1>5. UasInv'
  <2>1. \A i \in 1 .. Len(newCtxt) : cmd'[newCtxt[i]] = "queued"
    BY <1>1, <1>2, QueueOfCommands
  <2> QED BY <1>1, <1>4, <2>1 DEF Inv, UasInv, Dispatching
<1>6. GoodStep
  BY <1>1, <1>2, QueueOfCommands DEF GoodStep
<1>7. ch.cFree = {} => Kind[c] = "VERIFY"
  <2> SUFFICES ASSUME ch.cFree = {}, Kind[c] # "VERIFY" PROVE FALSE
    OBVIOUS
  <2>1. Kind[c] \in {"PASS_IN", "PASS_OUT"} /\ ~ MustWait(c)
    BY DEF StartAtaCmd
  <2>2. ch.State = "READY"
    BY <1>3, <2>1 DEF MustWait, Ready
  <2> QED BY <2>2, ReadyHasCCM
<1>8. /\ cmd' \in [Cmds -> CmdStates] /\ \A e \in Cmds \ {c} : cmd'[e] = cmd[e]
      /\ cmd'[c] = "sata" => ch.cFree # {}
  BY <1>1, <1>7, QueueOfCommands DEF CmdStates, Terminal
<1>9. Held'
  BY <1>4, <1>8, HeldNew
<1> QED BY <1>4, <1>5, <1>6, <1>9 DEF Kept, Traffic

LEMMA UasDispatchKept == ASSUME Inv, NEW c \in Cmds, UasDispatch(c) PROVE Kept
<1>1. /\ uas_cmd_state = "CIU_DISPATCH" /\ new_dispatched_CIU = c
      /\ ch' = exec_ncq_ctxt(ch, c, ProtOf(c))
      /\ \E st \in {"busy", "sata"} :
           cmd' = [cmd EXCEPT ![c] = st] /\ (st = "sata" => ch.cFree # {})
      /\ uas_cmd_state' = "IDLE"
      /\ UNCHANGED <<fis, drive, newCtxt, sobj_init>>
  BY DEF UasDispatch
<1>2. /\ cmd[c] = "queued" /\ \A i \in 1 .. Len(newCtxt) : newCtxt[i] # c
      /\ ~ Starting(ch) /\ Kind[c] \in {"READ", "WRITE"}
  BY <1>1 DEF Inv, UasInv, Dispatching
<1>3. Ready(ch) /\ ProtOf(c) \in NcqProts
  BY <1>2, WorldInv DEF ChannelInv, PhaseInv, Starting, Ready, Channel, States,
                        ProtOf, NcqProts
<1>4. /\ ChannelInv(ch', fis', drive') /\ Issues(ch, ch') /\ ~ Starting(ch')
      /\ KeepsBound(ch', ch) /\ (ch.cFree # {} => \E t \in Tags : ch'.ctxt[t] = c)
  BY <1>1, <1>3, WorldInv, NcqInv
<1>5. UasInv'
  <2>1. \A i \in 1 .. Len(newCtxt) : cmd'[newCtxt[i]] = "queued"
    BY <1>1, <1>2, QueueOfCommands
  <2> QED BY <1>1, <1>4, <2>1 DEF Inv, UasInv, Dispatching
<1>6. GoodStep
  BY <1>1, <1>2, QueueOfCommands DEF GoodStep
<1>7. /\ cmd' \in [Cmds -> CmdStates] /\ \A e \in Cmds \ {c} : cmd'[e] = cmd[e]
      /\ cmd'[c] = "sata" => ch.cFree # {}
  BY <1>1, QueueOfCommands DEF CmdStates, Terminal
<1>8. Held'
  BY <1>4, <1>7, HeldNew
<1> QED BY <1>4, <1>5, <1>6, <1>8 DEF Kept, Traffic

LEMMA HardRstInv ==
  ASSUME Inv, HardRst(ch)
  PROVE  ChannelInv(ch', fis', drive') /\ Traffic /\ sobj_init' = FALSE
<1>1. /\ ch' = InitSataObj(HardReset(ch)) /\ fis' = NoFis /\ drive' = IdleDrive
      /\ sobj_init' = FALSE
  BY DEF HardRst
<1>2. ch.default_cFree # {}
  BY WorldInv DEF ChannelInv, PoolInv
<1>3. ChannelInv(ch', fis', drive')
  BY <1>1, <1>2, WorldInv, ResetInv
<1>4. ch'.EXQH = {}
  BY <1>1, WorldInv DEF InitSataObj, HardReset, Channel
<1> QED BY <1>1, <1>3, <1>4 DEF Traffic

LEMMA PassHardResetKept == ASSUME Inv, NEW c \in Cmds, PassHardReset(c) PROVE Kept
<1>1. /\ uas_cmd_state = "CDB_CHECK" /\ new_dispatched_CIU = c
      /\ cmd' = [cmd EXCEPT ![c] = "good"]
      /\ uas_cmd_state' = "CIU_PAUSED" /\ newCtxt' = newCtxt /\ HardRst(ch)
  BY DEF PassHardReset, InCdbCheck, Started
<1>2. /\ cmd[c] = "queued" /\ \A i \in 1 .. Len(newCtxt) : newCtxt[i] # c
  BY <1>1 DEF Inv, UasInv, Dispatching
<1>3. ChannelInv(ch', fis', drive') /\ Traffic /\ sobj_init' = FALSE
  BY <1>1, HardRstInv
<1>4. UasInv'
  <2>1. \A i \in 1 .. Len(newCtxt) : cmd'[newCtxt[i]] = "queued"
    BY <1>1, <1>2, QueueOfCommands
  <2> QED BY <1>1, <1>3, <2>1 DEF Inv, UasInv, Dispatching
<1>5. GoodStep
  BY <1>1, <1>2, QueueOfCommands DEF GoodStep
<1>6. Held'
  <2>1. Starting(ch) \/ Idle(ch)
    BY WorldInv DEF PassHardReset, MustWait, Starting, Idle, Channel, States, ChannelInv, PhaseInv
  <2>2. \A e \in Cmds : cmd'[e] # "sata"
    BY <1>1, <2>1, HeldNone, QueueOfCommands
  <2> QED BY <2>2 DEF Held
<1> QED BY <1>3, <1>4, <1>5, <1>6 DEF Kept

LEMMA UasStepKept == ASSUME Inv, NoDoubleFree, UasStep PROVE Kept
<1>1. CASE UasIdlePaused \/ UasCiuPaused \/ \E c \in Cmds : CdbCheckReadWrite(c)
  <2>1. /\ UNCHANGED <<ch, fis, drive, cmd, newCtxt, new_dispatched_CIU, sobj_init>>
        /\ \/ uas_cmd_state' \in {"CIU_PAUSED", "IDLE"}
           \/ /\ uas_cmd_state = "CDB_CHECK" /\ uas_cmd_state' = "CIU_DISPATCH"
              /\ Kind[new_dispatched_CIU] \in {"READ", "WRITE"}
    BY <1>1 DEF UasIdlePaused, UasCiuPaused, CdbCheckReadWrite, InCdbCheck
  <2>2. UasInv'
    BY <2>1 DEF Inv, UasInv, Dispatching
  <2>3. GoodStep
    BY <2>1 DEF GoodStep
  <2>4. Held'
    BY <2>1, HeldSame
  <2> QED BY <2>1, <2>2, <2>3, <2>4, SameChannel DEF Kept
<1>2. \A c \in Cmds : ~ PassSoftReset(c)
  BY DEF NoDoubleFree, PassSoftReset
<1> QED BY <1>1, <1>2, UasIdleKept, CdbCheckPendingKept, StartAtaCmdKept,
           UasDispatchKept, PassHardResetKept DEF UasStep

LEMMA UsbKept == ASSUME Inv, NEW c \in Cmds, UsbDataDone(c) \/ UsbSiuDone(c) PROVE Kept
<1>1. /\ UNCHANGED <<ch, fis, drive, newCtxt, uas_cmd_state, new_dispatched_CIU, sobj_init>>
      /\ cmd' = cmd \/ (cmd[c] \in Terminal /\ cmd' = [cmd EXCEPT ![c] = "none"])
  BY DEF UsbDataDone, UsbSiuDone, uasVars
<1>2. \A e \in Cmds : cmd[e] = "queued" => cmd'[e] = "queued"
  BY <1>1, QueueOfCommands DEF Terminal
<1>3. UasInv'
  BY <1>1, <1>2, UasSame DEF Inv
<1>4. GoodStep
  BY <1>1, QueueOfCommands DEF GoodStep
<1>5. Held'
  <2>1. \A e \in Cmds : cmd'[e] = "sata" => cmd[e] = "sata"
    BY <1>1, QueueOfCommands
  <2> QED BY <1>1, <2>1, HeldSame
<1> QED BY <1>1, <1>3, <1>4, <1>5, SameChannel DEF Kept

LEMMA ResetKept ==
  ASSUME Inv, TmfReset \/ TmfDeleteOnly \/ UsbReset \/ Fis34Timeout
  PROVE  Kept
<1>1. CASE TmfReset \/ TmfDeleteOnly \/ UsbReset
  <2>1. /\ cmd' = [c \in Cmds |-> "none"] /\ newCtxt' = <<>>
        /\ UNCHANGED <<ch, fis, drive, sobj_init>> \/ HardRst(ch)
    BY <1>1 DEF TmfReset, TmfDeleteOnly, UsbReset, DeleteAllCtxts
  <2>2. uas_cmd_state' \notin {"CDB_CHECK", "CIU_DISPATCH"}
    <3>1. CASE UsbReset
      BY <3>1 DEF UsbReset
    <3>2. CASE DeleteAllCtxts
      <4>1. Dispatching => new_dispatched_CIU # NoCmd /\ cmd[new_dispatched_CIU] # "none"
        BY NullAssumption DEF Inv, UasInv
      <4> QED BY <3>2, <4>1 DEF DeleteAllCtxts, Dispatching
    <3> QED BY <1>1, <3>1, <3>2 DEF TmfReset, TmfDeleteOnly
  <2>3. ChannelInv(ch', fis', drive') /\ Traffic
    BY <2>1, SameChannel, HardRstInv
  <2>4. Starting(ch') => ~ sobj_init'
    BY <2>1, HardRstInv DEF Inv, UasInv
  <2>5. Len(newCtxt') = 0
    BY <2>1
  <2>6. UasInv'
    BY <2>2, <2>4, <2>5 DEF UasInv, Dispatching
  <2>7. GoodStep
    BY <2>1 DEF GoodStep
  <2>8. Held'
    BY <2>1 DEF Held
  <2> QED BY <2>3, <2>6, <2>7, <2>8 DEF Kept
<1>2. CASE Fis34Timeout
  <2>1. /\ UNCHANGED <<cmd, newCtxt, uas_cmd_state, new_dispatched_CIU>>
        /\ \/ UNCHANGED <<ch, fis, drive, sobj_init>>
           \/ ~ Ready(ch) /\ HardRst(ch)
    BY <1>2 DEF Fis34Timeout, uasVars
  <2>2. ChannelInv(ch', fis', drive') /\ Traffic
    BY <2>1, SameChannel, HardRstInv
  <2>3. UasInv'
    <3>1. CASE UNCHANGED <<ch, fis, drive, sobj_init>>
      BY <2>1, <3>1, UasSame DEF Inv
    <3>2. CASE ~ Ready(ch) /\ HardRst(ch)
      <4>1. Starting(ch)
        BY <3>2, WorldInv DEF ChannelInv, PhaseInv, Starting, Ready, Channel, States
      <4>2. ~ Dispatching /\ sobj_init' = FALSE
        BY <3>2, <4>1, HardRstInv DEF Inv, UasInv
      <4> QED BY <2>1, <4>2 DEF Inv, UasInv, Dispatching
    <3> QED BY <2>1, <3>1, <3>2
  <2>4. GoodStep
    BY <2>1 DEF GoodStep
  <2>5. Held'
    <3>1. CASE UNCHANGED <<ch, fis, drive, sobj_init>>
      BY <2>1, <3>1, HeldSame
    <3>2. CASE ~ Ready(ch) /\ HardRst(ch)
      <4>1. Starting(ch)
        BY <3>2, WorldInv DEF ChannelInv, PhaseInv, Starting, Ready, Channel, States
      <4>2. \A e \in Cmds : cmd'[e] # "sata"
        BY <2>1, <4>1, HeldNone
      <4> QED BY <4>2 DEF Held
    <3> QED BY <2>1, <3>1, <3>2
  <2> QED BY <2>2, <2>3, <2>4, <2>5 DEF Kept
<1> QED BY <1>1, <1>2

(***************************************************************************)
(* The invariant.                                                          *)
(***************************************************************************)
LEMMA InitInv == Init => Inv
<1> SUFFICES ASSUME Init PROVE Inv
  OBVIOUS
<1>1. TypeOK
  BY InitType
<1>2. /\ ch.State = "RESETING" /\ ch.cFree = {0} /\ ch.default_cFree = {0}
      /\ ch.sBusy = {} /\ ch.cur = NoTag /\ ch.EXQH = {}
      /\ ch.que = NoTag /\ ch.ncq_que = NoTag /\ \A t \in Tags : ch.ctxt[t] = NoCmd
      /\ Quiet(fis, drive) /\ newCtxt = <<>> /\ ~ Dispatching /\ ~ sobj_init
      /\ uas_cmd_state # "CIU_DISPATCH" /\ \A c \in Cmds : cmd[c] = "none"
  BY DEF Init, Quiet, Silent, NoFis, IdleDrive, Dispatching
<1>3. Waiting(ch) = {}
  BY <1>2 DEF Waiting
<1>4. PoolInv(ch)
  <2>1. LegacyWaiting(ch) = {} /\ NcqWaiting(ch) = {}
    BY <1>3 DEF LegacyWaiting, NcqWaiting
  <2> QED BY <1>2, <2>1, NullFacts DEF PoolInv, QueueOf
<1>5. ChannelInv(ch, fis, drive)
  BY <1>2, <1>3, <1>4, QuietIdle DEF Idle
<1>6. UasInv
  <2>1. Len(newCtxt) = 0
    BY <1>2
  <2> QED BY <1>2, <2>1 DEF UasInv
<1>7. Held
  BY <1>2 DEF Held
<1> QED BY <1>1, <1>5, <1>6, <1>7 DEF Inv

LEMMA NextKept == ASSUME Inv, NoDoubleFree, Next PROVE Kept
BY HostSendKept, UsbKept, UasStepKept, IsrKept, DriveKept, ResetKept DEF Next

LEMMA InvStep == ASSUME Inv, NoDoubleFree, [Next]_vars PROVE Inv'
<1>1. TypeOK'
  BY TypeStep DEF Inv
<1>2. CASE Next
  BY <1>1, <1>2, NextKept DEF Kept, Inv
<1>3. CASE UNCHANGED vars
  <2>1. UNCHANGED <<ch, fis, drive, cmd, newCtxt, uas_cmd_state, new_dispatched_CIU,
                    sobj_init>>
    BY <1>3 DEF vars, uasVars
  <2> QED BY <1>1, <2>1 DEF Inv, UasInv, Held, Dispatching
<1> QED BY <1>2, <1>3

\* Inv is an invariant of the channel whenever nothing frees a CCM twice.
THEOREM InvHolds == ASSUME NoDoubleFree PROVE Spec => []Inv
<1>1. Inv /\ [Next]_vars => Inv'
  BY InvStep
<1> QED BY <1>1, InitInv, PTL DEF Spec

\* OutstandingIsBusy: sata_isr never takes a drive that runs a command for
\* idle, whatever commands, resets and failures of non-queued commands come.
THEOREM OutstandingStaysBusy == ASSUME NoDoubleFree PROVE Spec => []OutstandingIsBusy
<1>1. Inv => OutstandingIsBusy
  BY DEF Inv, ChannelInv, PoolInv, OutstandingIsBusy
<1> QED BY <1>1, InvHolds, PTL

\* NoMixedCommands: queued commands and others are never at the drive together.
THEOREM NeverMixed == ASSUME NoDoubleFree PROVE Spec => []NoMixedCommands
<1>1. Inv => NoMixedCommands
  <2> SUFFICES ASSUME Inv PROVE NoMixedCommands
    OBVIOUS
  <2>1. CASE NcqPhase(ch)
    BY <2>1 DEF Inv, ChannelInv, PoolInv, PhaseInv, NoMixedCommands, Queued, Legacy
  <2>2. CASE Single(ch)
    BY <2>2 DEF Inv, ChannelInv, PoolInv, PhaseInv, NoMixedCommands, Queued, Legacy
  <2>3. CASE Idle(ch)
    BY <2>3 DEF Inv, ChannelInv, PoolInv, PhaseInv, NoMixedCommands, Queued, Legacy
  <2> QED BY <2>1, <2>2, <2>3, WorldInv
          DEF ChannelInv, PhaseInv, NcqPhase, Single, Idle, Channel, States
<1> QED BY <1>1, InvHolds, PTL

\* FreeCCMIsFree: no CCM in sobj_cFree is at the drive or in a queue, so that
\* sata_AllocateCCM never hands one out twice.
THEOREM FreeStaysFree == ASSUME NoDoubleFree PROVE Spec => []FreeCCMIsFree
<1>1. Inv => FreeCCMIsFree
  <2> SUFFICES ASSUME Inv PROVE FreeCCMIsFree
    OBVIOUS
  <2>1. /\ PoolInv(ch) /\ ch.next \in Links
        /\ LegacyWaiting(ch) \in SUBSET Tags /\ NcqWaiting(ch) \in SUBSET Tags
    BY WorldInv, WaitingTags DEF ChannelInv, Channel, Links
  <2>2. Parked \subseteq LegacyWaiting(ch) \cup NcqWaiting(ch)
    <3>1. Members(ch.next, ch.que) \subseteq LegacyWaiting(ch)
      BY <2>1, MembersWithin DEF PoolInv
    <3>2. Members(ch.next, ch.ncq_que) \subseteq NcqWaiting(ch)
      BY <2>1, MembersWithin DEF PoolInv
    <3> QED BY <3>1, <3>2 DEF Parked
  <2>3. \A t \in Parked : ch.ctxt[t] # NoCmd
    BY <2>2, WaitingTags DEF Waiting
  <2> QED BY <2>1, <2>3 DEF PoolInv, FreeCCMIsFree
<1> QED BY <1>1, InvHolds, PTL

\* QueuesEnd: the append loops of both queues return, so that the processor is
\* never caught in a cycle of scm_next.
THEOREM WalksReturn == ASSUME NoDoubleFree PROVE Spec => []QueuesEnd
<1>1. Inv => QueuesEnd
  <2> SUFFICES ASSUME Inv, NEW h \in {ch.que, ch.ncq_que} \ {NoTag}
               PROVE  Tails(ch.next, h) # {}
    BY DEF QueuesEnd
  <2>1. /\ PoolInv(ch) /\ ch.next \in Links
        /\ LegacyWaiting(ch) \in SUBSET Tags /\ NcqWaiting(ch) \in SUBSET Tags
    BY WorldInv, WaitingTags DEF ChannelInv, Channel, Links
  <2>2. PICK W \in SUBSET Tags : h \in W /\ QueueOf(ch.next, h, W)
    BY <2>1 DEF PoolInv, QueueOf
  <2> QED BY <2>1, <2>2, QueueEnds
<1> QED BY <1>1, InvHolds, PTL

\* NoLostCommand: a command the transport handed to the channel is at the
\* drive or in a queue that a later sata_exec_next_scm empties, until its
\* status is decided: no completion, reset or full pool drops it silently.
THEOREM NothingLost == ASSUME NoDoubleFree PROVE Spec => []NoLostCommand
<1>1. Inv => NoLostCommand
  <2> SUFFICES ASSUME Inv, NEW c \in Cmds, cmd[c] = "sata"
               PROVE  \E t \in ch.sBusy \cup Parked : ch.ctxt[t] = c
    BY DEF NoLostCommand
  <2>1. PICK t \in Tags : ch.ctxt[t] = c
    BY DEF Inv, Held
  <2>2. Waiting(ch) \subseteq Parked
    BY WorldInv, WaitingTags DEF ChannelInv, PoolInv, QueueOf, Parked
  <2>3. t \in ch.sBusy \cup Waiting(ch)
    BY <2>1, NullAssumption DEF Waiting
  <2> QED BY <2>1, <2>2, <2>3
<1> QED BY <1>1, InvHolds, PTL

\* DmaSetupHasContext: the pointer ProcessSataDMASetup follows without a test
\* is never NULL.
THEOREM DmaSetupSafe == ASSUME NoDoubleFree PROVE Spec => []DmaSetupHasContext
<1>1. Inv => DmaSetupHasContext
  BY WorldInv DEF ChannelInv, DriveInv, DmaSetupHasContext
<1> QED BY <1>1, InvHolds, PTL

\* GoodIsTransferred: the host hears GOOD for a READ or WRITE only once the
\* drive has moved its data.
THEOREM GoodOnlyAfterData == ASSUME NoDoubleFree PROVE Spec => GoodIsTransferred
<1> DEFINE A == \A c \in Cmds :
       Kind[c] \in {"READ", "WRITE"} /\ cmd[c] = "sata" /\ cmd'[c] = "good" =>
         \E t \in Tags : ch.ctxt[t] = c /\ (t \in drive.xferred \/ t \notin ch.EXQH)
<1>1. Inv /\ [Next]_vars => [A]_vars
  <2>1. ASSUME Inv, Next PROVE A
    BY <2>1, NextKept DEF Kept, GoodStep
  <2> QED BY <2>1
<1> HIDE DEF A
<1>2. Spec => [][A]_vars
  BY <1>1, InvHolds, PTL DEF Spec
<1> QED BY <1>2 DEF GoodIsTransferred, A

(***************************************************************************)
(* The channel implements the rules of the bus.                            *)
(***************************************************************************)
LEMMA BusStep ==
  ASSUME Inv, Inv', Traffic
  PROVE  [Bus!BusNext]_(Bus!busVars)
<1>1. (drive.mode = "halted") = FALSE /\ (drive.mode = "halted")' = FALSE
  BY DEF Inv, ChannelInv, DriveInv
<1>2. ch.EXQH \subseteq Tags /\ ch'.EXQH \subseteq Tags
  BY WorldInv DEF Inv, TypeOK, Channel
<1>3. CASE ch'.EXQH = ch.EXQH /\ \A u \in ch.EXQH : ch'.prot[u] = ch.prot[u]
  BY <1>1, <1>3 DEF Queued, Legacy, Bus!busVars
<1>4. CASE \E t \in Tags \ ch.EXQH :
              /\ ch'.EXQH = ch.EXQH \cup {t}
              /\ \A u \in ch.EXQH : ch'.prot[u] = ch.prot[u]
              /\ IF ch'.prot[t] \in NcqProts
                 THEN \A u \in ch.EXQH : ch.prot[u] \in NcqProts
                 ELSE ch.EXQH = {}
  <2>1. PICK t \in Tags \ ch.EXQH :
              /\ ch'.EXQH = ch.EXQH \cup {t}
              /\ \A u \in ch.EXQH : ch'.prot[u] = ch.prot[u]
              /\ IF ch'.prot[t] \in NcqProts
                 THEN \A u \in ch.EXQH : ch.prot[u] \in NcqProts
                 ELSE ch.EXQH = {}
    BY <1>4
  <2>2. CASE ch'.prot[t] \in NcqProts
    <3>1. /\ t \notin Queued /\ Legacy = {} /\ Queued' = Queued \cup {t} /\ Legacy' = {}
      BY <2>1, <2>2 DEF Queued, Legacy
    <3> QED BY <1>1, <3>1 DEF Bus!BusNext, Bus!IssueQueued
  <2>3. CASE ch'.prot[t] \notin NcqProts
    <3>1. /\ Queued = {} /\ Legacy = {} /\ Queued' = {} /\ Legacy' = {t}
      BY <2>1, <2>3 DEF Queued, Legacy
    <3> QED BY <1>1, <3>1 DEF Bus!BusNext, Bus!IssueLegacy
  <2> QED BY <2>2, <2>3
<1>5. CASE Completes(ch, ch')
  <2>1. PICK S \in SUBSET ch.EXQH :
              /\ ch'.EXQH = ch.EXQH \ S
              /\ \/ \A t \in S : ch.prot[t] \in NcqProts
                 \/ S = ch.EXQH /\ \A t \in S : ch.prot[t] \notin NcqProts
    BY <1>5 DEF Completes
  <2>2. ch'.prot = ch.prot
    BY <1>5 DEF Completes
  <2>3. CASE S = {}
    <3>1. Queued' = Queued /\ Legacy' = Legacy
      BY <2>1, <2>2, <2>3 DEF Queued, Legacy
    <3> QED BY <1>1, <3>1 DEF Bus!busVars
  <2>4. CASE S # {} /\ \A t \in S : ch.prot[t] \in NcqProts
    <3>1. S \subseteq Queued /\ Queued' = Queued \ S /\ Legacy' = Legacy /\ S \in SUBSET Tags
      BY <1>2, <2>1, <2>2, <2>4 DEF Queued, Legacy
    <3>2. Bus!CompleteQueued(S)
      BY <1>1, <2>4, <3>1 DEF Bus!CompleteQueued
    <3> QED BY <3>1, <3>2 DEF Bus!BusNext
  <2>5. CASE S # {} /\ S = ch.EXQH /\ \A t \in S : ch.prot[t] \notin NcqProts
    <3>1. Legacy # {} /\ Legacy' = {} /\ Queued' = Queued
      BY <2>1, <2>2, <2>5 DEF Queued, Legacy
    <3> QED BY <1>1, <3>1 DEF Bus!BusNext, Bus!CompleteLegacy
  <2> QED BY <2>1, <2>3, <2>4, <2>5
<1>6. CASE ch'.EXQH = {}
  <2>1. Queued' = {} /\ Legacy' = {}
    BY <1>6 DEF Queued, Legacy
  <2> QED BY <1>1, <2>1 DEF Bus!BusNext, Bus!Reset
<1> QED BY <1>3, <1>4, <1>5, <1>6 DEF Traffic, Issues

\* BusSpec: the channel issues and completes commands by the rules of the bus,
\* a non-queued command alone, queued ones together, no tag twice.
THEOREM ImplementsBus == ASSUME NoDoubleFree PROVE Spec => BusSpec
<1>1. Init => Bus!BusInit
  BY DEF Init, Bus!BusInit, Queued, Legacy, IdleDrive
<1>2. Inv /\ Inv' /\ [Next]_vars => [Bus!BusNext]_(Bus!busVars)
  <2>1. ASSUME Inv, Inv', Next PROVE [Bus!BusNext]_(Bus!busVars)
    BY <2>1, NextKept, BusStep DEF Kept
  <2>2. ASSUME UNCHANGED vars PROVE UNCHANGED Bus!busVars
    BY <2>2 DEF vars, Bus!busVars, Queued, Legacy
  <2> QED BY <2>1, <2>2
<1>3. Spec => Bus!BusSpec
  BY <1>1, <1>2, InvHolds, PTL DEF Spec, Bus!BusSpec
<1> QED BY <1>3 DEF BusSpec
=============================================================================
