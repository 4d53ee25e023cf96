---------------------------- MODULE VsReplicator ----------------------------
(***************************************************************************)
(* Normal-case replication (server/vsReplicator.cc): the primary logs an   *)
(* operation, sends it to the backups, waits for a quorum of PrepareOks,   *)
(* commits it, and announces the commit by RPC and by heartbeat.           *)
(*                                                                         *)
(* Each replica runs four threads that meet here: t1 serves one client at  *)
(* a time, hbt sends heartbeats, ppit logs the prepares queued by t2, and  *)
(* t2 runs every handler of the replication port, one RPC at a time.  An   *)
(* RPC is synchronous: the call is one joint step of the calling thread    *)
(* and the callee's t2, except that processCommit blocks t2, and with it   *)
(* the caller, until _repMutex is free.  An RPC may fail before the        *)
(* handler runs, and its reply may be lost, in which case the caller tries *)
(* a second time.  The view is read by every guard the code has, but only  *)
(* module ViewChangeHandler changes it.                                    *)
(***************************************************************************)
EXTENDS InMemOpLogHandler

CONSTANTS
  Nil,          \* "none": no request, no call, no message
  MaxTimeout,   \* bound: operations whose wait for a quorum times out
  MaxLost,      \* bound: calls that fail although the callee is up
  MaxResent,    \* bound: calls retried because their reply was lost
  MaxSpurious,  \* bound: spurious wakeups of the wait for a quorum
  MaxCrash,     \* bound: replicas that crash
  Beating       \* bound: replicas whose heartbeats a model explores

ASSUME FaultAssumption ==
  /\ {MaxTimeout, MaxLost, MaxResent, MaxSpurious, MaxCrash} \subseteq Nat
  /\ Beating \subseteq ReplicaId

VARIABLES
  \* _replicaState (server/vsReplicaState.cc)
  priId, status, viewNum, opNum, commitNum,
  \* the log, the key-value map, the keys of _replicas
  opLog, kvMap, peers,
  \* _repMutex: the thread that holds it, or "free"
  repMutex,
  \* _prepReqQ and the response counts of _waitMap
  prepReqQ, waitMap,
  \* t1: its program counter and operation; replies sent so far (history)
  cpc, creq, replies,
  \* hbt: the commitInfo it is sending
  hbInfo,
  \* ppit: its program counter and the prepare it processes
  ppc, ppInfo,
  \* RPCs: replicas each calling thread has yet to call, the call that holds
  \* _repClientMutex, the commit that blocks t2
  todo, repClient, repListener,
  \* the process, and the faults so far
  proc, lost, resent, spurious

replicaState == <<priId, status, viewNum, opNum, commitNum>>
storage == <<opLog, kvMap, peers>>
clientVars == <<cpc, creq, replies>>
prepVars == <<prepReqQ, waitMap, ppc, ppInfo>>
rpcVars == <<todo, repClient, repListener>>
faultVars == <<proc, lost, resent, spurious>>
vars == <<replicaState, storage, repMutex, prepVars, clientVars, hbInfo,
          rpcVars, faultVars>>

Caller == {"t1", "hbt", "ppit"}
PrepInfo == [viewNum : Nat, opNum : OpInt, op : ClientOp]
CommitInfo == [viewNum : Nat, commitNum : 0 .. MaxOp]
Call == [thread : Caller, to : ReplicaId, retry : BOOLEAN]
CommitMsg == [from : ReplicaId, thread : Caller, info : CommitInfo]
Error == {"NONE", "QUORUM_NOT_REACHED", "STATUS_NOT_NORMAL"}
\* A process runs, has crashed or was ended by an assertion; recovery adds the
\* phase in which it is started again, and the assertions of recover().
ProcState == {"up", "down", "aborted", "starting", "recoveryFailed"}
Reply == [viewNum : Nat, opNum : OpInt, op : ClientOp, err : Error]

Init ==
  /\ priId = [r \in ReplicaId |-> 0]
  /\ status = [r \in ReplicaId |-> "NORMAL"]
  /\ viewNum = [r \in ReplicaId |-> 0]
  /\ opNum = [r \in ReplicaId |-> 0]
  /\ commitNum = [r \in ReplicaId |-> 0]
  /\ opLog = [r \in ReplicaId |-> EmptyLog]
  /\ kvMap = [r \in ReplicaId |-> EmptyKv]
  /\ peers = [r \in ReplicaId |-> OtherReplicas(r)]
  /\ repMutex = [r \in ReplicaId |-> "free"]
  /\ prepReqQ = [r \in ReplicaId |-> <<>>]
  /\ waitMap = [r \in ReplicaId |-> [n \in OpInt |-> 0]]
  /\ cpc = [r \in ReplicaId |-> "idle"]
  /\ creq = [r \in ReplicaId |-> Nil]
  /\ replies = {}
  /\ hbInfo = [r \in ReplicaId |-> [viewNum |-> 0, commitNum |-> 0]]
  /\ ppc = [r \in ReplicaId |-> "idle"]
  /\ ppInfo = [r \in ReplicaId |-> Nil]
  /\ todo = [r \in ReplicaId |-> [t \in Caller |-> {}]]
  /\ repClient = [r \in ReplicaId |-> Nil]
  /\ repListener = [r \in ReplicaId |-> Nil]
  /\ proc = [r \in ReplicaId |-> "up"]
  /\ lost = 0
  /\ resent = 0
  /\ spurious = 0

isPrimary(r) == priId[r] = r
\* Mutant: the quorum is one response short.
ShortQuorum(r, cnt) == cnt + 1 >= getMajorityCnt(peers[r])
quorumReached(r, cnt) == cnt >= getMajorityCnt(peers[r])
Up(r) == proc[r] = "up"

-----------------------------------------------------------------------------
(***************************************************************************)
(* Remote calls.  invokePrepare, invokePrepareOk and invokeCommit hold     *)
(* _repClientMutex for the whole call and its retry, so the calls of one   *)
(* replica's threads are serialised.                                       *)
(***************************************************************************)

\* t2 of b is inside processCommit for a call of r.
Blocked(r, b) == repListener[b] # Nil /\ repListener[b].from = r

\* Thread t of r may (re)try its call to b.
MayCall(r, t, b) ==
  /\ Up(r)
  /\ b \in todo[r][t]
  /\ ~Blocked(r, b)
  /\ \/ repClient[r] = Nil
     \/ repClient[r] # Nil /\ repClient[r].thread = t /\ repClient[r].to = b

\* ... and t2 of b runs the handler.
Delivered(r, t, b) ==
  /\ MayCall(r, t, b)
  /\ b # r
  /\ Up(b)
  /\ repListener[b] = Nil

Retrying(r) == repClient[r] # Nil /\ repClient[r].retry

\* The handler has returned: the reply arrives (or the second one is lost),
\* or the first reply is lost and the call will be made again.
EndCall(r, t, b) ==
  \/ /\ todo' = [todo EXCEPT ![r][t] = @ \ {b}]
     /\ repClient' = [repClient EXCEPT ![r] = Nil]
     /\ UNCHANGED resent
  \/ /\ ~Retrying(r)
     /\ resent < MaxResent
     /\ resent' = resent + 1
     /\ repClient' = [repClient EXCEPT
                        ![r] = [thread |-> t, to |-> b, retry |-> TRUE]]
     /\ UNCHANGED todo

\* Both tries raise an exception before the handler runs: the callee is dead,
\* the end point is the empty one that _replicas[_id] creates, or the network
\* fails.
CallFails(r, t, b) ==
  /\ MayCall(r, t, b)
  /\ \/ (~Up(b) \/ b = r) /\ UNCHANGED lost
     \/ Up(b) /\ b # r /\ lost < MaxLost /\ lost' = lost + 1
  /\ todo' = [todo EXCEPT ![r][t] = @ \ {b}]
  /\ repClient' = [repClient EXCEPT ![r] = Nil]
  /\ UNCHANGED <<replicaState, storage, repMutex, prepVars, clientVars,
                 hbInfo, repListener, proc, resent, spurious>>

\* The process of r ends, and with it the call t2 was serving.  None of its
\* threads takes another step; the model keeps what it had in memory, to state
\* what was lost with it.
Dies(r, how) ==
  /\ proc' = [proc EXCEPT ![r] = how]
  /\ repListener' = [repListener EXCEPT ![r] = Nil]
  /\ UNCHANGED <<replicaState, storage, repMutex, prepVars, clientVars, hbInfo,
                 todo, repClient, lost, resent, spurious>>

\* A failed assert() calls abort().
Aborts(r) == Dies(r, "aborted")

Crash(r) ==
  /\ Up(r)
  /\ Cardinality({s \in ReplicaId : proc[s] = "down"}) < MaxCrash
  /\ Dies(r, "down")

-----------------------------------------------------------------------------
(***************************************************************************)
(* t1: a client's create, set or remove, through KvMemStore::set / remove, *)
(* replicateUpdate / replicateDelete and replicate.                        *)
(***************************************************************************)

\* isPrimary() is checked before any lock is taken.  It is asserted again under
\* the locks: module ViewChangeHandler has the step in which that fails.
ClientRequest(r, op) ==
  /\ Up(r)
  /\ cpc[r] = "idle"
  /\ isPrimary(r)
  /\ op.opType = "DELETE" => kvMap[r][op.key] # NoVal
  /\ opNum[r] < MaxOp
  /\ cpc' = [cpc EXCEPT ![r] = "enter"]
  /\ creq' = [creq EXCEPT ![r] = op]
  /\ UNCHANGED <<replicaState, storage, repMutex, prepVars, replies, hbInfo,
                 rpcVars, faultVars>>

\* Mutant: the number is read before it is incremented.
OldNumberPrep(r) == [viewNum |-> viewNum[r], opNum |-> opNum[r] - 1, op |-> creq[r]]

\* Mutant: operations are numbered from the commit number.
CommitNumberPrep(r) ==
  [viewNum |-> viewNum[r], opNum |-> commitNum[r] + 1, op |-> creq[r]]

\* The operation number and view of the operation t1 replicates.  They are
\* those of the replica state, which cannot change while t1 holds _repMutex.
prepInfo(r) == [viewNum |-> viewNum[r], opNum |-> opNum[r], op |-> creq[r]]

ReplyToClient(r, n, err) ==
  /\ replies' = replies \cup
       {[viewNum |-> viewNum[r], opNum |-> n, op |-> creq[r], err |-> err]}
  /\ cpc' = [cpc EXCEPT ![r] = "idle"]
  /\ creq' = [creq EXCEPT ![r] = Nil]

\* replicateUpdate / replicateDelete: the number is taken before replicate()
\* looks at the status.
Replicate(r) ==
  /\ Up(r)
  /\ cpc[r] = "enter"
  /\ isPrimary(r)
  /\ repMutex[r] = "free"
  /\ opNum[r] < MaxOp
  /\ opNum' = [opNum EXCEPT ![r] = @ + 1]
  /\ \/ /\ status[r] # "NORMAL"
        /\ ReplyToClient(r, opNum[r] + 1, "STATUS_NOT_NORMAL")
        /\ UNCHANGED <<opLog, repMutex, todo>>
     \/ /\ status[r] = "NORMAL"
        /\ opLog' = [opLog EXCEPT ![r] = append(@, creq[r], opNum[r] + 1)]
        /\ repMutex' = [repMutex EXCEPT ![r] = "t1"]
        /\ todo' = [todo EXCEPT ![r]["t1"] = peers[r] \ {r}]
        /\ cpc' = [cpc EXCEPT ![r] = "prepare"]
        /\ UNCHANGED <<creq, replies>>
  /\ UNCHANGED <<priId, status, viewNum, commitNum, kvMap, peers, prepVars,
                 hbInfo, repClient, repListener, faultVars>>

\* processPrepare at replica b: accepted only in the same view and NORMAL.
processPrepare(b, info) ==
  prepReqQ' = IF status[b] = "NORMAL" /\ info.viewNum = viewNum[b]
              THEN [prepReqQ EXCEPT ![b] = Append(@, info)]
              ELSE prepReqQ

invokePrepare(r, b) ==
  /\ cpc[r] = "prepare"
  /\ Delivered(r, "t1", b)
  /\ processPrepare(b, prepInfo(r))
  /\ EndCall(r, "t1", b)
  /\ UNCHANGED <<replicaState, storage, repMutex, waitMap, ppc, ppInfo,
                 clientVars, hbInfo, repListener, proc, lost, spurious>>

\* The primary counts itself and either has the quorum or starts to wait.
CountSelf(r) ==
  /\ Up(r)
  /\ cpc[r] = "prepare"
  /\ todo[r]["t1"] = {}
  /\ waitMap' = [waitMap EXCEPT ![r][opNum[r]] = @ + 1]
  /\ cpc' = [cpc EXCEPT ![r] = IF quorumReached(r, waitMap[r][opNum[r]] + 1)
                               THEN "reached" ELSE "wait"]
  /\ UNCHANGED <<replicaState, storage, repMutex, prepReqQ, ppc, ppInfo,
                 creq, replies, hbInfo, rpcVars, faultVars>>

\* wait_for() returns because processPrepareOk notified.
Notified(r) ==
  /\ Up(r)
  /\ cpc[r] = "wait"
  /\ quorumReached(r, waitMap[r][opNum[r]])
  /\ cpc' = [cpc EXCEPT ![r] = "reached"]
  /\ UNCHANGED <<replicaState, storage, repMutex, prepVars, creq, replies,
                 hbInfo, rpcVars, faultVars>>

\* wait_for() has no predicate: a spurious wakeup is taken for a quorum.
SpuriousWakeup(r) ==
  /\ Up(r)
  /\ cpc[r] = "wait"
  /\ spurious < MaxSpurious
  /\ spurious' = spurious + 1
  /\ cpc' = [cpc EXCEPT ![r] = "reached"]
  /\ UNCHANGED <<replicaState, storage, repMutex, prepVars, creq, replies,
                 hbInfo, rpcVars, proc, lost, resent>>

\* Mutant: the exception leaves _repMutex locked.
LockedTimedOut(r) ==
  /\ Up(r)
  /\ cpc[r] = "wait"
  /\ Cardinality({x \in replies : x.err = "QUORUM_NOT_REACHED"}) < MaxTimeout
  /\ ReplyToClient(r, opNum[r], "QUORUM_NOT_REACHED")
  /\ UNCHANGED <<replicaState, storage, repMutex, prepVars, hbInfo, rpcVars,
                 faultVars>>

\* wait_for() times out, and QuorumNotReached is thrown, whatever the count
\* is by then; the operation stays in the log and in the wait map.
TimedOut(r) ==
  /\ Up(r)
  /\ cpc[r] = "wait"
  /\ Cardinality({x \in replies : x.err = "QUORUM_NOT_REACHED"}) < MaxTimeout
  /\ ReplyToClient(r, opNum[r], "QUORUM_NOT_REACHED")
  /\ repMutex' = [repMutex EXCEPT ![r] = "free"]
  /\ UNCHANGED <<replicaState, storage, prepVars, hbInfo, rpcVars, faultVars>>

StartCommit(r) ==
  /\ Up(r)
  /\ cpc[r] = "reached"
  /\ opLog' = [opLog EXCEPT ![r] = commit(@, opNum[r])]
  /\ commitNum' = [commitNum EXCEPT ![r] = opNum[r]]
  /\ todo' = [todo EXCEPT ![r]["t1"] = peers[r] \ {r}]
  /\ cpc' = [cpc EXCEPT ![r] = "commit"]
  /\ UNCHANGED <<priId, status, viewNum, opNum, kvMap, peers, repMutex,
                 prepVars, creq, replies, hbInfo, repClient, repListener,
                 faultVars>>

\* replicate() returns; KvMemStore applies the operation and t1 replies.
Finish(r) ==
  /\ Up(r)
  /\ cpc[r] = "commit"
  /\ todo[r]["t1"] = {}
  /\ waitMap' = [waitMap EXCEPT ![r][opNum[r]] = 0]
  /\ kvMap' = [kvMap EXCEPT ![r] = applyOp(@, creq[r])]
  /\ ReplyToClient(r, opNum[r], "NONE")
  /\ repMutex' = [repMutex EXCEPT ![r] = "free"]
  /\ UNCHANGED <<replicaState, opLog, peers, prepReqQ, ppc, ppInfo, hbInfo,
                 rpcVars, faultVars>>

-----------------------------------------------------------------------------
(***************************************************************************)
(* Commits: announced by t1 after the quorum and by hbt periodically.      *)
(***************************************************************************)

\* hbt of a NORMAL primary reads the commit number, without _repMutex.
HeartBeat(r) ==
  /\ Up(r)
  /\ isPrimary(r)
  /\ status[r] = "NORMAL"
  /\ r \in Beating
  /\ repMutex[r] # "hbt"
  /\ todo[r]["hbt"] = {}
  /\ hbInfo' = [hbInfo EXCEPT
                  ![r] = [viewNum |-> viewNum[r], commitNum |-> commitNum[r]]]
  /\ todo' = [todo EXCEPT ![r]["hbt"] = peers[r] \ {r}]
  /\ UNCHANGED <<replicaState, storage, repMutex, prepVars, clientVars,
                 repClient, repListener, faultVars>>

\* Mutant: heartbeats announce what is logged, not what is committed.
OpNumCommitInfo(r, t) == [viewNum |-> viewNum[r], commitNum |-> opNum[r]]

\* Mutant: heartbeats carry no commit number.
BareHeartBeatInfo(r, t) ==
  [viewNum |-> viewNum[r], commitNum |-> IF t = "hbt" THEN 0 ELSE opNum[r]]

commitInfo(r, t) ==
  IF t = "hbt" THEN hbInfo[r]
  ELSE [viewNum |-> viewNum[r], commitNum |-> opNum[r]]

\* invokeCommit, and the first half of processCommit: the status is checked,
\* then t2 waits for _repMutex.
invokeCommit(r, t, b) ==
  /\ t = "hbt" \/ (t = "t1" /\ cpc[r] = "commit")
  /\ Delivered(r, t, b)
  /\ \/ /\ status[b] # "NORMAL"
        /\ EndCall(r, t, b)
        /\ UNCHANGED repListener
     \/ /\ status[b] = "NORMAL"
        /\ repListener' = [repListener EXCEPT ![b] =
             [from |-> r, thread |-> t, info |-> commitInfo(r, t)]]
        /\ repClient' = [repClient EXCEPT ![r] =
             [thread |-> t, to |-> b, retry |-> Retrying(r)]]
        /\ UNCHANGED <<todo, resent>>
  /\ UNCHANGED <<replicaState, storage, repMutex, prepVars, clientVars,
                 hbInfo, proc, lost, spurious>>

\* t2 returns from processCommit.
EndCommit(b, m) ==
  /\ repListener' = [repListener EXCEPT ![b] = Nil]
  /\ EndCall(m.from, m.thread, b)

\* Mutant: a backup jumps to the commit number it is told.
JumpCommit(b) == repListener[b].info.commitNum

\* The commit number a backup moves to: assert(commitNum = own + 1) assigns,
\* so a backup that is behind advances by exactly one.
NextCommit(b) == commitNum[b] + 1

\* The second half of processCommit, under _repMutex.
processCommit(b) ==
  /\ Up(b)
  /\ repListener[b] # Nil
  /\ repListener[b].thread \in {"t1", "hbt"}
  /\ repMutex[b] = "free"
  /\ LET m == repListener[b]
         n == m.info.commitNum
         c == NextCommit(b)
     IN  \/ /\ m.info.viewNum = viewNum[b]
            /\ n > 0 /\ n <= commitNum[b] /\ ~isCommitted(opLog[b], n)
            /\ Aborts(b)
         \/ /\ \/ m.info.viewNum # viewNum[b]
               \/ n = 0
               \/ n <= commitNum[b] /\ isCommitted(opLog[b], n)
               \/ n > commitNum[b] /\ ~hasEntry(opLog[b], c)
            /\ EndCommit(b, m)
            /\ UNCHANGED <<replicaState, storage, repMutex, prepVars,
                           clientVars, hbInfo, proc, lost, spurious>>
         \/ /\ m.info.viewNum = viewNum[b]
            /\ n > commitNum[b]
            /\ hasEntry(opLog[b], c)
            /\ commitNum' = [commitNum EXCEPT ![b] = c]
            /\ opLog' = [opLog EXCEPT ![b] = commit(@, c)]
            /\ kvMap' = [kvMap EXCEPT
                           ![b] = applyOp(@, opLog[b].entries[c].op)]
            /\ EndCommit(b, m)
            /\ UNCHANGED <<priId, status, viewNum, opNum, peers, repMutex,
                           prepVars, clientVars, hbInfo, proc, lost, spurious>>

-----------------------------------------------------------------------------
(***************************************************************************)
(* ppit: processPrepInfo.                                                  *)
(***************************************************************************)

\* The head of the queue is checked against role, status and view before
\* _repMutex is taken.
PopPrepInfo(r) ==
  /\ Up(r)
  /\ ppc[r] = "idle"
  /\ prepReqQ[r] # <<>>
  /\ prepReqQ' = [prepReqQ EXCEPT ![r] = Tail(@)]
  /\ IF ~isPrimary(r) /\ status[r] = "NORMAL"
          /\ Head(prepReqQ[r]).viewNum = viewNum[r]
     THEN /\ ppc' = [ppc EXCEPT ![r] = "checked"]
          /\ ppInfo' = [ppInfo EXCEPT ![r] = Head(prepReqQ[r])]
     ELSE UNCHANGED <<ppc, ppInfo>>
  /\ UNCHANGED <<replicaState, storage, repMutex, waitMap, clientVars, hbInfo,
                 rpcVars, faultVars>>

\* Under _repMutex the number must be the next one, or assert() aborts; the
\* view is not checked again.  _replicas[priId] creates the entry if absent.
LogPrepInfo(r) ==
  /\ Up(r)
  /\ ppc[r] = "checked"
  /\ repMutex[r] = "free"
  /\ \/ /\ ppInfo[r].opNum # opNum[r] + 1
        /\ Aborts(r)
     \/ /\ ppInfo[r].opNum = opNum[r] + 1
        /\ opNum' = [opNum EXCEPT ![r] = ppInfo[r].opNum]
        /\ opLog' = [opLog EXCEPT ![r] =
                       append(@, ppInfo[r].op, ppInfo[r].opNum)]
        /\ peers' = [peers EXCEPT ![r] = @ \cup {priId[r]}]
        /\ repMutex' = [repMutex EXCEPT ![r] = "ppit"]
        /\ todo' = [todo EXCEPT ![r]["ppit"] = {priId[r]}]
        /\ ppc' = [ppc EXCEPT ![r] = "logged"]
        /\ UNCHANGED <<priId, status, viewNum, commitNum, kvMap, prepReqQ,
                       waitMap, clientVars, ppInfo, hbInfo, repClient,
                       repListener, faultVars>>

\* processPrepareOk at replica b: one more response for n, unless the quorum
\* is already there.  Who responds is not recorded.
CountResponse(b, n) ==
  IF quorumReached(b, waitMap[b][n]) THEN waitMap
  ELSE [waitMap EXCEPT ![b][n] = @ + 1]

processPrepareOk(b, view, n) ==
  waitMap' = IF status[b] = "NORMAL" /\ view = viewNum[b]
             THEN CountResponse(b, n) ELSE waitMap

invokePrepareOk(r, b) ==
  /\ Delivered(r, "ppit", b)
  /\ processPrepareOk(b, viewNum[r], ppInfo[r].opNum)
  /\ EndCall(r, "ppit", b)
  /\ UNCHANGED <<replicaState, storage, repMutex, prepReqQ, ppc, ppInfo,
                 clientVars, hbInfo, repListener, proc, lost, spurious>>

\* The loop iteration ends and _repMutex is released.
EndPrepInfo(r) ==
  /\ Up(r)
  /\ ppc[r] = "logged"
  /\ todo[r]["ppit"] = {}
  /\ ppc' = [ppc EXCEPT ![r] = "idle"]
  /\ ppInfo' = [ppInfo EXCEPT ![r] = Nil]
  /\ repMutex' = [repMutex EXCEPT ![r] = "free"]
  /\ UNCHANGED <<replicaState, storage, prepReqQ, waitMap, clientVars, hbInfo,
                 rpcVars, faultVars>>

-----------------------------------------------------------------------------
Next ==
  \E r \in ReplicaId :
    \/ \E op \in ClientOp : ClientRequest(r, op)
    \/ Replicate(r)
    \/ \E b \in ReplicaId : invokePrepare(r, b)
    \/ CountSelf(r)
    \/ Notified(r)
    \/ SpuriousWakeup(r)
    \/ TimedOut(r)
    \/ StartCommit(r)
    \/ Finish(r)
    \/ HeartBeat(r)
    \/ \E t \in {"t1", "hbt"}, b \in ReplicaId : invokeCommit(r, t, b)
    \/ processCommit(r)
    \/ PopPrepInfo(r)
    \/ LogPrepInfo(r)
    \/ \E b \in ReplicaId : invokePrepareOk(r, b)
    \/ EndPrepInfo(r)
    \/ \E t \in Caller, b \in ReplicaId : CallFails(r, t, b)
    \/ Crash(r)

Spec == Init /\ [][Next]_vars

-----------------------------------------------------------------------------
(***************************************************************************)
(* Fairness: a thread that can take a step again and again takes one, and  *)
(* an armed wait_for() returns.  Strong fairness stands for the locks and  *)
(* the listener: hbt sleeps between broadcasts and t2 serves its           *)
(* connections in turn, so neither _repClientMutex nor t2 starves anyone.  *)
(***************************************************************************)
T1(r) ==
  \/ Replicate(r) \/ CountSelf(r) \/ Notified(r) \/ TimedOut(r)
  \/ StartCommit(r) \/ Finish(r)
  \/ \E b \in ReplicaId :
       invokePrepare(r, b) \/ invokeCommit(r, "t1", b) \/ CallFails(r, "t1", b)
Hbt(r) ==
  \/ HeartBeat(r)
  \/ \E b \in ReplicaId : invokeCommit(r, "hbt", b) \/ CallFails(r, "hbt", b)
Ppit(r) ==
  \/ PopPrepInfo(r) \/ LogPrepInfo(r) \/ EndPrepInfo(r)
  \/ \E b \in ReplicaId : invokePrepareOk(r, b) \/ CallFails(r, "ppit", b)

Fairness ==
  \A r \in ReplicaId :
    SF_vars(T1(r)) /\ SF_vars(Hbt(r)) /\ SF_vars(Ppit(r))
      /\ WF_vars(processCommit(r))

FairSpec == Spec /\ Fairness

-----------------------------------------------------------------------------
(***************************************************************************)
(* Properties.                                                             *)
(***************************************************************************)

\* Every variable stays in its type: among others, every operation number is
\* within the bound and every entry of the log map is a log entry.
TypeOK ==
  /\ priId \in [ReplicaId -> ReplicaId]
  /\ status \in [ReplicaId -> Status]
  /\ viewNum \in [ReplicaId -> Nat]
  /\ opNum \in [ReplicaId -> 0 .. MaxOp]
  /\ commitNum \in [ReplicaId -> 0 .. MaxOp]
  /\ opLog \in [ReplicaId -> OpLog]
  /\ kvMap \in [ReplicaId -> KvMap]
  /\ peers \in [ReplicaId -> SUBSET ReplicaId]
  /\ repMutex \in [ReplicaId -> {"free", "t1", "hbt", "ppit"}]
  /\ prepReqQ \in [ReplicaId -> Seq(PrepInfo)]
  /\ waitMap \in [ReplicaId -> [OpInt -> Nat]]
  /\ cpc \in [ReplicaId -> {"idle", "enter", "prepare", "wait", "reached",
                            "commit"}]
  /\ creq \in [ReplicaId -> ClientOp \cup {Nil}]
  /\ replies \in SUBSET Reply
  /\ hbInfo \in [ReplicaId -> CommitInfo]
  /\ ppc \in [ReplicaId -> {"idle", "checked", "logged"}]
  /\ ppInfo \in [ReplicaId -> PrepInfo \cup {Nil}]
  /\ todo \in [ReplicaId -> [Caller -> SUBSET ReplicaId]]
  /\ repClient \in [ReplicaId -> Call \cup {Nil}]
  /\ repListener \in [ReplicaId -> CommitMsg \cup {Nil}]
  /\ proc \in [ReplicaId -> ProcState]
  /\ lost \in Nat /\ resent \in Nat /\ spurious \in Nat

Logs(r, n, op) == hasEntry(opLog[r], n) /\ opLog[r].entries[n].op = op

\* No two replicas ever log different operations under the same number: the
\* prepares of one primary reach every log in the order it numbered them.
LogMatching ==
  \A r, s \in ReplicaId : \A n \in OpInt :
    hasEntry(opLog[r], n) /\ hasEntry(opLog[s], n)
      => opLog[r].entries[n].op = opLog[s].entries[n].op

\* No call was repeated, no wait woken for nothing: the responses counted are
\* those of different replicas, and t1 goes on only when there are enough.
CountsHold == resent = 0 /\ spurious = 0

\* Every operation up to a commit number, a timed-out one included, was logged
\* by a quorum before replicate() raised the commit number over it.
QuorumLogged ==
  CountsHold => \A r \in ReplicaId : \A n \in 1 .. commitNum[r] :
    Cardinality({s \in ReplicaId : hasEntry(opLog[s], n)}) >= N \div 2 + 1

\* An operation the client was told is done is still in the log of a live
\* replica while at most f of 2f + 1 processes have crashed or aborted.
AckedSurvives ==
  CountsHold /\ Cardinality({s \in ReplicaId : ~Up(s)}) <= (N - 1) \div 2
    => \A x \in replies : x.err = "NONE" =>
         \E s \in ReplicaId : Up(s) /\ Logs(s, x.opNum, x.op)

\* A backup's commit number never passes that of the primary it follows:
\* neither a heartbeat that was read early nor a late commit overtakes it.
BackupBehindPrimary ==
  \A r \in ReplicaId : commitNum[r] <= commitNum[priId[r]]

\* How many operations r has applied: t1 raises commitNum before the commits
\* go out, and applies the operation to the map after.
Applied(r) == IF cpc[r] = "commit" THEN commitNum[r] - 1 ELSE commitNum[r]

\* Two replicas that have applied the same number of operations hold the same
\* keys and values.
KvAgreement ==
  \A r, s \in ReplicaId : Up(r) /\ Up(s) /\ Applied(r) = Applied(s)
    => kvMap[r] = kvMap[s]

\* The committed operations, as the primary numbered them.
History == [n \in 1 .. commitNum[0] |-> opLog[0].entries[n].op]

Abstract == INSTANCE ReplicatedStore WITH
  history <- History,
  applied <- [r \in ReplicaId |-> Applied(r)],
  store <- kvMap

\* Replication implements the abstract store as long as no wait for a quorum
\* times out: replicate() commits one operation after the other, and each
\* replica applies them in that order, without a gap or a repetition.
ImplementsReplicatedStore == Abstract!StoreSpec

\* As long as no call was lost or repeated, no assert() fails: prepares are
\* logged without a gap, and a commit number at or below a backup's own names
\* a committed entry.
NoAbort ==
  lost = 0 /\ resent = 0 => \A r \in ReplicaId : proc[r] # "aborted"

\* A step never lowers a commit number and never changes an entry that was
\* committed.
CommitsAreFinal ==
  [][\A r \in ReplicaId :
       /\ commitNum'[r] >= commitNum[r]
       /\ \A n \in DOMAIN opLog[r].entries : opLog[r].entries[n].committed
            => /\ hasEntry(opLog'[r], n)
               /\ opLog'[r].entries[n] = opLog[r].entries[n]]_vars

\* Every commit reaches every backup, one heartbeat per missing operation if it
\* has to, unless a call is lost (there is no state transfer) or one of the two
\* processes dies.
CommitPropagates ==
  \A n \in OpInt : \A b \in ReplicaId :
    commitNum[0] >= n
      ~> commitNum[b] >= n \/ lost > 0 \/ ~Up(0) \/ ~Up(b)

\* Every request that enters replicate() is answered, whatever calls fail,
\* unless the process dies.
RequestAnswered ==
  \A r \in ReplicaId : cpc[r] = "enter" ~> cpc[r] = "idle" \/ ~Up(r)
=============================================================================
