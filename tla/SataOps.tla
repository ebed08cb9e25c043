------------------------------ MODULE SataOps ------------------------------
(***************************************************************************)
(* The operations of sata.c on one SATA object (SATA_OBJ): the pool of     *)
(* command contexts (CCM/SCM), the two software queues linked through      *)
(* scm_next, and the decision to hand a command to the drive or to park    *)
(* it.  They are functions from a channel record to a channel record, so   *)
(* that a module with one channel and a module with two use the same ones. *)
(*                                                                         *)
(* A channel record `s` keeps the fields of SATA_OBJ under their names:    *)
(*   State, subState      sobj_State, sobj_subState                        *)
(*   cFree, default_cFree the free-CCM bit masks, as sets of tags          *)
(*   sBusy                sobj_sBusy, as a set of tags                     *)
(*   ctxt, next, prot     sobj_Scm[t].scm_pCdbCtxt, .scm_next, .scm_prot   *)
(*   que, ncq_que         heads of sobj_que and sobj_ncq_que               *)
(*   cur                  sobj_curScm                                      *)
(*   EXQH                 the tags written to sata_EXQHINP that the drive  *)
(*                        has not reported on: what the drive is running   *)
(***************************************************************************)
EXTENDS Naturals

CONSTANTS
  NumTags,    \* number of CCMs (32 in the chip)
  Depth,      \* queue depth of the drive, from word 75 of IDENTIFY DEVICE
  Cmds,       \* command contexts (CDB_CTXT) of the transport
  NoTag,      \* NULL for a pointer to an SCM
  NoCmd,      \* NULL for a pointer to a CDB_CTXT
  Internal    \* the stack CDB_CTXT of a command the bridge issues itself (B2S)

Tags == 0 .. (NumTags - 1)

ASSUME SizeAssumption == /\ NumTags \in Nat \ {0}
                         /\ Depth \in 1 .. NumTags
ASSUME NullAssumption == /\ NoTag \notin Tags
                         /\ NoCmd \notin Cmds
                         /\ Internal \notin Cmds
                         /\ Internal # NoCmd

NcqProts == {"FPDMAIN", "FPDMAOUT"}
Prots == NcqProts \cup {"ND", "PIOIN", "DMAIN", "DMAOUT"}

\* sobj_State, in the order the code compares them in, and "HUNG": the
\* processor is caught in a loop that never ends.  SATA_STANDBY and
\* SATA_PWR_DWN, which no code of this component assigns, are left out.
States == {"RESETING", "PHY_RDY", "PRE_READY", "READY", "ACTIVE",
           "NCQ_FLUSH", "NCQ_ACTIVE", "HUNG"}

InitSubStates == {"ATA_READ_ID", "SPIN_UP_HDD", "ENABLE_WRITE_CACHE",
                  "ENABLE_AAM", "ENABLE_SMART_OPERATION",
                  "INITIALIZED_COMPLETE", "INITIALIZED_FAIL"}
NcqSubStates == {"NCQ_IDLE", "NCQ_RX_XFER", "NCQ_TX_XFER", "NCQ_ERROR",
                 "NCQ_CLEANUP"}

Channel ==
  [State : States, subState : InitSubStates \cup NcqSubStates,
   cFree : SUBSET Tags, default_cFree : SUBSET Tags, sBusy : SUBSET Tags,
   ctxt : [Tags -> Cmds \cup {Internal, NoCmd}],
   next : [Tags -> Tags \cup {NoTag}], prot : [Tags -> Prots],
   que : Tags \cup {NoTag}, ncq_que : Tags \cup {NoTag},
   cur : Tags \cup {NoTag}, EXQH : SUBSET Tags]

\* sobj_State >= SATA_NCQ_FLUSH
NcqPhase(s) == s.State \in {"NCQ_FLUSH", "NCQ_ACTIVE"}

(***************************************************************************)
(* The pool of CCMs.                                                       *)
(***************************************************************************)
\* The scan from bit 0 up; it is used where cFree is not empty.
AllocateCCM(s) == CHOOSE t \in s.cFree : \A u \in s.cFree : t <= u

\* Mutant: the whole pool becomes free, not the tags of the mask.
DetachCCM_Pool(s, T) ==
  [s EXCEPT !.next  = [t \in Tags |-> IF t \in T THEN NoTag ELSE s.next[t]],
            !.ctxt  = [t \in Tags |-> IF t \in T THEN NoCmd ELSE s.ctxt[t]],
            !.cFree = s.default_cFree]

DetachCCM(s, T) ==
  [s EXCEPT !.next  = [t \in Tags |-> IF t \in T THEN NoTag ELSE s.next[t]],
            !.ctxt  = [t \in Tags |-> IF t \in T THEN NoCmd ELSE s.ctxt[t]],
            !.cFree = s.cFree \cup T]

\* The commands are told separately (AbortedByCleanup): here all the masks
\* the clean-up changes, and neither sBusy nor the queue heads.
Cleanup_NCQCMD(s) ==
  [s EXCEPT !.next = [t \in Tags |-> NoTag], !.cFree = Tags]

delete_curSCM(s) ==
  IF s.cur = NoTag THEN s
  ELSE DetachCCM([s EXCEPT !.sBusy = s.sBusy \ {s.cur}, !.cur = NoTag],
                 {s.cur})

\* Mutant: the reset forgets the pool.
InitSataObj_KeepFree(s) ==
  [s EXCEPT !.next = [t \in Tags |-> NoTag], !.ctxt = [t \in Tags |-> NoCmd],
            !.sBusy = {}, !.que = NoTag, !.ncq_que = NoTag, !.cur = NoTag]

InitSataObj(s) ==
  [s EXCEPT !.next = [t \in Tags |-> NoTag], !.ctxt = [t \in Tags |-> NoCmd],
            !.cFree = s.default_cFree, !.sBusy = {},
            !.que = NoTag, !.ncq_que = NoTag, !.cur = NoTag]

\* sata_HardReset clears the port: nothing handed over before survives.
HardReset(s) == [s EXCEPT !.State = "RESETING", !.EXQH = {}]

(***************************************************************************)
(* The linked queues.  Members is the least set that holds the head and is *)
(* closed under scm_next; the code's walk to the tail ends exactly when a  *)
(* member has no successor.                                                *)
(***************************************************************************)
Members(next, head) ==
  {t \in Tags : head # NoTag /\ \A S \in SUBSET Tags :
     (head \in S /\ \A u \in S : next[u] # NoTag => next[u] \in S) => t \in S}

Tails(next, head) == {t \in Members(next, head) : next[t] = NoTag}

\* The append loops of sata_append_scm and sata_append_ncq_scm; q names the
\* head pointer.  A walk round a cycle never ends.
AppendQue(s, q, p) ==
  LET nxt  == [s.next EXCEPT ![p] = NoTag]
      head == IF q = "que" THEN s.que ELSE s.ncq_que
  IN  IF head = NoTag
      THEN IF q = "que" THEN [s EXCEPT !.next = nxt, !.que = p]
                        ELSE [s EXCEPT !.next = nxt, !.ncq_que = p]
      ELSE IF Tails(nxt, head) = {} THEN [s EXCEPT !.State = "HUNG"]
      ELSE [s EXCEPT !.next = [nxt EXCEPT ![CHOOSE t \in Tails(nxt, head) : TRUE] = p]]

(***************************************************************************)
(* Handing a command to the drive, or parking it.                          *)
(***************************************************************************)
exec_scm(s, p) ==
  IF s.ctxt[p] = NoCmd THEN s
  ELSE [s EXCEPT !.EXQH = s.EXQH \cup {p}, !.next = [s.next EXCEPT ![p] = NoTag],
                 !.cur = p, !.sBusy = s.sBusy \cup {p},
                 !.State = IF s.State = "PRE_READY" THEN "PRE_READY" ELSE "ACTIVE"]

\* Mutant: sobj_subState is not looked at.
append_scm_AnyPhase(s, p) ==
  IF s.State \in {"PRE_READY", "READY"} \/ NcqPhase(s)
  THEN exec_scm(s, p)
  ELSE AppendQue(s, "que", p)

append_scm(s, p) ==
  IF \/ s.State \in {"PRE_READY", "READY"}
     \/ NcqPhase(s) /\ s.subState = "NCQ_ERROR"
  THEN exec_scm(s, p)
  ELSE AppendQue([s EXCEPT !.State = IF s.State = "NCQ_ACTIVE" THEN "NCQ_FLUSH"
                                     ELSE s.State], "que", p)

\* Mutant: sobj_sBusy is assigned where the bit should be added.
exec_ncq_scm_Assign(s, p) ==
  [s EXCEPT !.EXQH = s.EXQH \cup {p}, !.next = [s.next EXCEPT ![p] = NoTag],
            !.sBusy = {p}, !.State = "NCQ_ACTIVE",
            !.subState = IF s.State = "READY" THEN "NCQ_IDLE" ELSE s.subState]

exec_ncq_scm(s, p) ==
  [s EXCEPT !.EXQH = s.EXQH \cup {p}, !.next = [s.next EXCEPT ![p] = NoTag],
            !.sBusy = s.sBusy \cup {p},
            !.subState = IF s.State = "READY" THEN "NCQ_IDLE" ELSE s.subState,
            !.State = "NCQ_ACTIVE"]

append_ncq_scm(s, p) ==
  IF s.State \in {"READY", "NCQ_ACTIVE"}
  THEN exec_ncq_scm(s, p)
  ELSE AppendQue(s, "ncq_que", p)

\* Mutant: the started SCM stays the head of its queue.
exec_next_scm_KeepHead(s) ==
  IF s.que # NoTag THEN exec_scm(s, s.que)
  ELSE IF s.ncq_que # NoTag THEN exec_ncq_scm(s, s.ncq_que)
  ELSE s

\* One parked command is started: a non-NCQ one if there is one.
exec_next_scm(s) ==
  IF s.que # NoTag
  THEN exec_scm([s EXCEPT !.que = s.next[s.que],
                          !.next = [s.next EXCEPT ![s.que] = NoTag]], s.que)
  ELSE IF s.ncq_que # NoTag
  THEN exec_ncq_scm([s EXCEPT !.ncq_que = s.next[s.ncq_que],
                              !.next = [s.next EXCEPT ![s.ncq_que] = NoTag]],
                    s.ncq_que)
  ELSE s

\* What sata_exec_ctxt and sata_exec_ncq_ctxt write into the SCM they got.
BindScm(s, t, c, p) ==
  [s EXCEPT !.cFree = s.cFree \ {t}, !.next = [s.next EXCEPT ![t] = NoTag],
            !.ctxt = [s.ctxt EXCEPT ![t] = c], !.prot = [s.prot EXCEPT ![t] = p]]

\* Both return CTXT_STATUS_ERROR and change nothing when no CCM is free.
exec_ctxt(s, c, p) ==
  IF s.cFree = {} THEN s
  ELSE append_scm(BindScm(s, AllocateCCM(s), c, p), AllocateCCM(s))

exec_ncq_ctxt(s, c, p) ==
  IF s.cFree = {} THEN s
  ELSE append_ncq_scm(BindScm(s, AllocateCCM(s), c, p), AllocateCCM(s))

(***************************************************************************)
(* The NCQ error path.                                                     *)
(***************************************************************************)
\* sata_recovery_NCQ_error: read log page 10h (a PIO-in command of the
\* bridge itself), whether or not a CCM was free for it.
recovery_NCQ_error(s) ==
  [exec_ctxt(s, Internal, "PIOIN") EXCEPT !.State = "NCQ_FLUSH"]

\* sata_abort_all on this object.  sata_DetachCCM clears scm_next before the
\* loop reads it, so each queue loses its first entry only; a busy channel
\* is then reset.
abort_all(s) ==
  LET s1 == IF s.que = NoTag THEN s
            ELSE [DetachCCM(s, {s.que}) EXCEPT !.que = NoTag]
      s2 == IF s1.ncq_que = NoTag THEN s1 ELSE DetachCCM(s1, {s1.ncq_que})
  IN  IF s2.sBusy = {} THEN s2 ELSE InitSataObj(HardReset(s2))
=============================================================================
