--------------------------- MODULE SataInvariant ---------------------------
(***************************************************************************)
(* The inductive invariant of a channel whose drive reports no error for a *)
(* queued command and whose host sends no ATA soft reset: in these two     *)
(* cases the code frees a CCM twice (sata_Cleanup_NCQCMD, ata_init), and   *)
(* the invariant is what it keeps in all the others, failing non-queued    *)
(* commands, a failing identification and every reset included.            *)
(***************************************************************************)
EXTENDS SataChannel

NoDoubleFree == /\ Faults \cap {"SDB", "D2H"} = {}
                /\ \A c \in Cmds : Kind[c] # "SRST"

Starting(s) == s.State \in {"RESETING", "PHY_RDY", "PRE_READY"}
Single(s)   == s.State \in {"PRE_READY", "ACTIVE"}
Idle(s)     == s.State \in {"RESETING", "PHY_RDY", "READY"}

(***************************************************************************)
(* The pool and the queues.                                                *)
(***************************************************************************)
\* The SCMs with a context that are not at the drive.
Waiting(s) == {t \in Tags \ s.sBusy : s.ctxt[t] # NoCmd}
LegacyWaiting(s) == {t \in Waiting(s) : s.prot[t] \notin NcqProts}
NcqWaiting(s)    == {t \in Waiting(s) : s.prot[t] \in NcqProts}

\* A list that starts in W, never leaves it and reaches all of it; no two
\* entries have the same successor, and none has the head as its successor.
QueueOf(next, head, W) ==
  /\ head \in W \cup {NoTag}
  /\ W \subseteq Members(next, head)
  /\ \A t \in W : next[t] \in W \cup {NoTag}
  /\ \A t \in W : next[t] = head => head = NoTag
  /\ \A t, u \in W : next[t] = next[u] => t = u \/ next[t] = NoTag

PoolInv(s) ==
  /\ s.sBusy \cap s.cFree = {}
  /\ s.EXQH \subseteq s.sBusy
  /\ s.default_cFree # {}
  /\ \A t \in s.cFree : s.ctxt[t] = NoCmd
  /\ s.default_cFree \subseteq s.cFree \cup s.sBusy \cup Waiting(s)
  /\ QueueOf(s.next, s.que, LegacyWaiting(s))
  /\ QueueOf(s.next, s.ncq_que, NcqWaiting(s))

\* What is busy in each phase of the channel.
PhaseInv(s) ==
  /\ s.State # "HUNG"
  /\ Starting(s) \/ Idle(s) => Waiting(s) = {}
  /\ s.State \in {"RESETING", "PHY_RDY"} => s.cFree = s.default_cFree
  /\ Idle(s) => s.sBusy = {} /\ s.cur = NoTag
  /\ Single(s) => /\ s.cur \in Tags /\ s.sBusy = {s.cur}
                  /\ s.prot[s.cur] \notin NcqProts /\ s.ctxt[s.cur] # NoCmd
  /\ s.State = "PRE_READY" =>
       /\ s.subState \in InitSubStates /\ s.ctxt[s.cur] = Internal
       /\ s.prot[s.cur] = IF s.subState = "ATA_READ_ID" THEN "PIOIN" ELSE "ND"
  /\ NcqPhase(s) =>
       /\ s.sBusy # {} /\ \A t \in s.sBusy : s.prot[t] \in NcqProts
       /\ s.cur \in s.sBusy \cup {NoTag}
       /\ s.cur # NoTag => s.ctxt[s.cur] # NoCmd
       /\ s.subState \in {"NCQ_IDLE", "NCQ_RX_XFER", "NCQ_TX_XFER"}

(***************************************************************************)
(* The frames that are unread, and what the drive is doing.                *)
(***************************************************************************)
\* No interrupt of a non-queued command or of a data phase is pending.
Silent(f) == f.d2h = "none" /\ f.rx = "none" /\ f.tx = "none"

FrameInv(s, f) ==
  /\ f.sdb # "none" => f.sdb = "ok" /\ NcqPhase(s)
  /\ f.sdb = "none" => f.act = {}
  /\ f.act \subseteq s.sBusy \ s.EXQH
  /\ Idle(s) => Silent(f)
  /\ Single(s) =>
       /\ s.cur \in s.EXQH => Silent(f)
       /\ f.d2h # "none" => s.prot[s.cur] = "ND"
       /\ f.rx # "none" => s.prot[s.cur] \in {"PIOIN", "DMAIN"}
       /\ f.tx # "none" => s.prot[s.cur] = "DMAOUT"
  /\ NcqPhase(s) =>
       /\ f.d2h = "none"
       /\ f.rx # "none" => s.subState = "NCQ_RX_XFER"
       /\ f.tx # "none" => s.subState = "NCQ_TX_XFER"

DriveInv(s, f, d) ==
  /\ d.mode = "ok"
  /\ f.dmasetup # NoTag => d.dxfer = f.dmasetup /\ s.cur # f.dmasetup
  /\ d.dxfer # NoTag => d.dxfer \in s.EXQH \ d.xferred /\ NcqPhase(s)
  /\ d.xferred \subseteq s.EXQH /\ (d.xferred # {} => NcqPhase(s))
  /\ NcqPhase(s) =>
       /\ s.cur \in s.EXQH => s.cur \in d.xferred \cup {d.dxfer}
       /\ \A t \in s.EXQH \ d.xferred : s.ctxt[t] # NoCmd
       /\ \A t \in s.sBusy \ s.EXQH : t = s.cur \/ s.ctxt[t] = NoCmd
       /\ \A t \in d.xferred : t = s.cur \/ s.ctxt[t] = NoCmd

\* A command the channel was given is bound to an SCM.
Held == \A c \in Cmds : cmd[c] = "sata" => \E t \in Tags : ch.ctxt[t] = c

(***************************************************************************)
(* The command being checked, and the gate that holds the host's commands  *)
(* back until the drive is ready.                                          *)
(***************************************************************************)
Dispatching == uas_cmd_state \in {"CDB_CHECK", "CIU_DISPATCH"}

UasInv ==
  /\ \A i \in 1 .. Len(newCtxt) : cmd[newCtxt[i]] = "queued"
  /\ \A i, j \in 1 .. Len(newCtxt) : newCtxt[i] = newCtxt[j] => i = j
  /\ Dispatching => /\ new_dispatched_CIU \in Cmds
                    /\ cmd[new_dispatched_CIU] = "queued"
                    /\ \A i \in 1 .. Len(newCtxt) : newCtxt[i] # new_dispatched_CIU
  /\ uas_cmd_state = "CIU_DISPATCH" => Kind[new_dispatched_CIU] \in {"READ", "WRITE"}
  /\ Starting(ch) => ~sobj_init /\ ~Dispatching

ChannelInv(s, f, d) ==
  PoolInv(s) /\ PhaseInv(s) /\ FrameInv(s, f) /\ DriveInv(s, f, d)

\* The invariant of the channel: a free CCM has no context, parked commands
\* wait in the queue of their class, the busy tags and the pending frames
\* belong to the phase sobj_State and sobj_subState say, and the transport
\* holds its commands back from a channel that is starting.
Inv == TypeOK /\ ChannelInv(ch, fis, drive) /\ Held /\ UasInv
=============================================================================
