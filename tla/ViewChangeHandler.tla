------------------------- MODULE ViewChangeHandler -------------------------
(***************************************************************************)
(* View change (server/viewChangeHandler.cc), composed with replication.   *)
(*                                                                         *)
(* changeView runs in the heartbeat thread hbt and holds _repMutex from    *)
(* its first to its last statement, through three broadcasts and up to two *)
(* waits.  The handlers of its three RPCs run in t2 and do not take        *)
(* _repMutex; two of them take _viewChangeMutex, which updateNewView holds *)
(* while it broadcasts StartView.                                          *)
(***************************************************************************)
EXTENDS VsReplicator

CONSTANTS
  MaxView,       \* bound: the largest view number a model explores
  MaxVcTimeout,  \* bound: waits of changeView that time out
  Committed      \* operations that every replica has already applied at Init

View == 1 .. MaxView

ASSUME ViewAssumption ==
  /\ {MaxView, MaxVcTimeout} \subseteq Nat
  /\ Committed \in Seq(ClientOp) /\ Len(Committed) <= MaxOp

VARIABLES
  \* response counts of the three wait maps, by view
  viewStartReqMap, doViewChangeMap, startViewMap,
  \* the ViewChangeInfos and the ViewStartInfo received, by view
  viewChangeInfoMap, viewStartInfoMap,
  \* hbt inside changeView: program counter, replicas yet to call, the one
  \* whose reply was lost; newPriId and cnt of the DoViewChange loop
  vpc, vcTodo, vcRetry, newPriId, tried,
  \* waits that timed out so far
  vcTimeouts

mapVars == <<viewStartReqMap, doViewChangeMap, startViewMap,
             viewChangeInfoMap, viewStartInfoMap>>
loopVars == <<vpc, vcTodo, vcRetry, newPriId, tried>>
vcVars == <<mapVars, loopVars, vcTimeouts>>
allVars == <<vars, vcVars>>

\* The state after every replica has applied the operations of Committed.
InitLog ==
  [opNums |-> [n \in 1 .. Len(Committed) |-> n],
   entries |-> [n \in 1 .. Len(Committed) |->
                  [op |-> Committed[n], opNum |-> n, committed |-> TRUE]]]

InitKv ==
  LET kv[n \in 0 .. Len(Committed)] ==
        IF n = 0 THEN EmptyKv ELSE applyOp(kv[n - 1], Committed[n])
  IN  kv[Len(Committed)]

InitCommitted ==
  /\ priId = [r \in ReplicaId |-> 0]
  /\ status = [r \in ReplicaId |-> "NORMAL"]
  /\ viewNum = [r \in ReplicaId |-> 0]
  /\ opNum = [r \in ReplicaId |-> Len(Committed)]
  /\ commitNum = [r \in ReplicaId |-> Len(Committed)]
  /\ opLog = [r \in ReplicaId |-> InitLog]
  /\ kvMap = [r \in ReplicaId |-> InitKv]
  /\ peers = [r \in ReplicaId |-> OtherReplicas(r)]
  /\ repMutex = [r \in ReplicaId |-> "free"]
  /\ prepReqQ = [r \in ReplicaId |-> <<>>]
  /\ waitMap = [r \in ReplicaId |-> [n \in OpInt |-> 0]]
  /\ cpc = [r \in ReplicaId |-> "idle"]
  /\ creq = [r \in ReplicaId |-> Nil]
  /\ replies = {[viewNum |-> 0, opNum |-> n, op |-> Committed[n],
                 err |-> "NONE"] : n \in 1 .. Len(Committed)}
  /\ hbInfo = [r \in ReplicaId |->
                 [viewNum |-> 0, commitNum |-> Len(Committed)]]
  /\ ppc = [r \in ReplicaId |-> "idle"]
  /\ ppInfo = [r \in ReplicaId |-> Nil]
  /\ todo = [r \in ReplicaId |-> [t \in Caller |-> {}]]
  /\ repClient = [r \in ReplicaId |-> Nil]
  /\ repListener = [r \in ReplicaId |-> Nil]
  /\ proc = [r \in ReplicaId |-> "up"]
  /\ lost = 0
  /\ resent = 0
  /\ spurious = 0

VcInit ==
  /\ InitCommitted
  /\ viewStartReqMap = [r \in ReplicaId |-> [v \in View |-> 0]]
  /\ doViewChangeMap = [r \in ReplicaId |-> [v \in View |-> 0]]
  /\ startViewMap = [r \in ReplicaId |-> [v \in View |-> 0]]
  /\ viewChangeInfoMap = [r \in ReplicaId |-> [v \in View |-> <<>>]]
  /\ viewStartInfoMap = [r \in ReplicaId |-> [v \in View |-> Nil]]
  /\ vpc = [r \in ReplicaId |-> "none"]
  /\ vcTodo = [r \in ReplicaId |-> {}]
  /\ vcRetry = [r \in ReplicaId |-> Nil]
  /\ newPriId = [r \in ReplicaId |-> 0]
  /\ tried = [r \in ReplicaId |-> 0]
  /\ vcTimeouts = 0

\* What no step of changeView or of its handlers touches.
OtherThreads == <<prepVars, clientVars, hbInfo, todo, repClient>>

-----------------------------------------------------------------------------
(***************************************************************************)
(* Remote calls of hbt, under _vcClientMutex, which only hbt and the       *)
(* threads of its broadcasts take: one call and its retry at a time.       *)
(***************************************************************************)
vcMayCall(r, b) ==
  /\ Up(r)
  /\ b \in vcTodo[r]
  /\ vcRetry[r] \in {Nil, b}
  /\ \A s \in ReplicaId : ~Blocked(r, s)

vcDelivered(r, b) == vcMayCall(r, b) /\ Up(b) /\ repListener[b] = Nil

\* The handler has returned and, for all the caller knows, so has the call.
vcReturned(r, b) ==
  /\ vcTodo' = [vcTodo EXCEPT ![r] = @ \ {b}]
  /\ vcRetry' = [vcRetry EXCEPT ![r] = Nil]
  /\ UNCHANGED resent

\* The first reply is lost, the call will be made a second time.
vcReplyLost(r, b) ==
  /\ vcRetry[r] = Nil
  /\ resent < MaxResent
  /\ resent' = resent + 1
  /\ vcRetry' = [vcRetry EXCEPT ![r] = b]
  /\ UNCHANGED vcTodo

\* The call fails before the handler runs.
vcUnreachable(b) ==
  \/ ~Up(b) /\ UNCHANGED lost
  \/ Up(b) /\ lost < MaxLost /\ lost' = lost + 1

\* A broadcast goes on when a call fails.
vcCallFails(r, b) ==
  /\ vpc[r] \in {"startViewChange", "startView"}
  /\ vcMayCall(r, b)
  /\ vcUnreachable(b)
  /\ vcTodo' = [vcTodo EXCEPT ![r] = @ \ {b}]
  /\ vcRetry' = [vcRetry EXCEPT ![r] = Nil]
  /\ UNCHANGED <<replicaState, storage, repMutex, OtherThreads, repListener,
                 proc, resent, spurious, mapVars, vpc, newPriId, tried,
                 vcTimeouts>>

-----------------------------------------------------------------------------
(***************************************************************************)
(* updateNewView.                                                          *)
(***************************************************************************)

\* The ViewChangeInfo the new primary adopts: among those with the highest
\* old view, the first one with the highest operation number.  The scan
\* compares with the number of the last candidate of an equal old view.
ScanInfos(infos) ==
  LET scan[i \in 1 .. Len(infos)] ==
        IF i = 1
        THEN [idx |-> 1, view |-> infos[1].oldViewNum, op |-> infos[1].opNum]
        ELSE LET p == scan[i - 1]
                 x == infos[i]
             IN  IF x.oldViewNum = p.view
                 THEN IF x.opNum > p.op
                      THEN [idx |-> i, view |-> p.view, op |-> x.opNum]
                      ELSE p
                 ELSE IF x.oldViewNum > p.view
                      THEN [idx |-> i, view |-> x.oldViewNum, op |-> p.op]
                      ELSE p
  IN  infos[scan[Len(infos)].idx]

\* The entries applied to the key-value map: the committed ones from the old
\* commit number on, below the size of the log.
CatchUp(kv, log, from) ==
  LET last == logSize(log) - 1
      f[n \in from .. (IF last < from THEN from ELSE last)] ==
        IF n = from THEN kv
        ELSE IF isCommitted(log, n) THEN applyOp(f[n - 1], log.entries[n].op)
                                    ELSE f[n - 1]
  IN  f[IF last < from THEN from ELSE last]

\* Mutant: no assertion.
AnyLogFits(log, from) == TRUE

\* The assertions on the adopted log: the entry at the old commit number is
\* committed, and every entry the loop visits exists.
LogFits(log, from) ==
  /\ isCommitted(log, from)
  /\ \A n \in from + 1 .. logSize(log) - 1 : hasEntry(log, n)

\* Adopt view, log and numbers of info, and become NORMAL.
AdoptState(r, info) ==
  /\ viewNum' = [viewNum EXCEPT ![r] = info.viewNum]
  /\ opNum' = [opNum EXCEPT ![r] = info.opNum]
  /\ commitNum' = [commitNum EXCEPT ![r] = info.commitNum]
  /\ opLog' = [opLog EXCEPT ![r] = setLog(info.opLog)]
  /\ kvMap' = [kvMap EXCEPT
                 ![r] = CatchUp(@, setLog(info.opLog), commitNum[r])]
  /\ status' = [status EXCEPT ![r] = "NORMAL"]

\* Mutant: the new primary's id is not recorded.
AdoptSamePrimary(r, p, info) == UNCHANGED priId /\ AdoptState(r, info)

\* Mutant: the own id is recorded as the primary's.
AdoptOwnId(r, p, info) ==
  priId' = [priId EXCEPT ![r] = r] /\ AdoptState(r, info)

\* ... with p as primary.
Adopt(r, p, info) ==
  priId' = [priId EXCEPT ![r] = p] /\ AdoptState(r, info)

\* cleanUp.
ClearMaps(r) ==
  /\ viewStartReqMap' = [viewStartReqMap EXCEPT ![r] = [v \in View |-> 0]]
  /\ doViewChangeMap' = [doViewChangeMap EXCEPT ![r] = [v \in View |-> 0]]
  /\ startViewMap' = [startViewMap EXCEPT ![r] = [v \in View |-> 0]]
  /\ viewChangeInfoMap' = [viewChangeInfoMap EXCEPT
                             ![r] = [v \in View |-> <<>>]]
  /\ viewStartInfoMap' = [viewStartInfoMap EXCEPT ![r] = [v \in View |-> Nil]]

\* As the new primary: adopt the best log, then broadcast StartView.
BecomePrimary(r) ==
  LET info == ScanInfos(viewChangeInfoMap[r][viewNum[r]])
  IN  IF ~LogFits(setLog(info.opLog), commitNum[r])
      THEN Aborts(r) /\ UNCHANGED vcVars
      ELSE /\ Adopt(r, r, info)
           /\ vpc' = [vpc EXCEPT ![r] = "startView"]
           /\ vcTodo' = [vcTodo EXCEPT ![r] = peers[r] \ {r}]
           /\ UNCHANGED <<peers, repMutex, OtherThreads, repListener,
                          faultVars, mapVars, vcRetry, newPriId, tried,
                          vcTimeouts>>

\* As a backup: adopt what the StartView of view v carried.
BecomeBackup(r, v) ==
  LET info == viewStartInfoMap[r][v]
  IN  IF ~LogFits(setLog(info.opLog), commitNum[r])
      THEN Aborts(r) /\ UNCHANGED vcVars
      ELSE /\ Adopt(r, info.replicaId, info)
           /\ ClearMaps(r)
           /\ repMutex' = [repMutex EXCEPT ![r] = "free"]
           /\ vpc' = [vpc EXCEPT ![r] = "none"]
           /\ UNCHANGED <<peers, OtherThreads, repListener, faultVars, vcTodo,
                          vcRetry, newPriId, tried, vcTimeouts>>

-----------------------------------------------------------------------------
(***************************************************************************)
(* changeView, step by step.                                               *)
(***************************************************************************)

\* hbt calls changeView when the status is VIEW_CHANGE, or when a backup has
\* not heard from the primary for HEART_BEAT_TIMEOUT, which may be any time.
MustChangeView(r) ==
  /\ vpc[r] = "none" /\ todo[r]["hbt"] = {}
  /\ status[r] = "VIEW_CHANGE" \/ (status[r] = "NORMAL" /\ ~isPrimary(r))

\* changeView up to the broadcast of StartViewChange.  A StartView for the
\* next view that has already arrived is adopted at once.
changeView(r) ==
  /\ Up(r)
  /\ MustChangeView(r)
  /\ repMutex[r] = "free"
  /\ viewNum[r] < MaxView
  /\ IF viewStartInfoMap[r][viewNum[r] + 1] # Nil
     THEN BecomeBackup(r, viewNum[r] + 1)
     ELSE /\ status' = [status EXCEPT ![r] = "VIEW_CHANGE"]
          /\ viewNum' = [viewNum EXCEPT ![r] = @ + 1]
          /\ repMutex' = [repMutex EXCEPT ![r] = "hbt"]
          /\ vpc' = [vpc EXCEPT ![r] = "startViewChange"]
          /\ vcTodo' = [vcTodo EXCEPT ![r] = peers[r] \ {r}]
          /\ UNCHANGED <<priId, opNum, commitNum, storage, OtherThreads,
                         repListener, faultVars, mapVars, vcRetry, newPriId,
                         tried, vcTimeouts>>

\* Mutant: a replica that is in view v already does not count the request.
EagerStartViewChange(b, v) ==
  viewStartReqMap' =
    IF \/ viewNum[b] >= v
       \/ status[b] = "RECOVERING"
       \/ quorumReached(b, viewStartReqMap[b][v])
    THEN viewStartReqMap
    ELSE [viewStartReqMap EXCEPT ![b][v] = @ + 1]

\* processStartViewChange at replica b: one more request for view v, unless
\* the quorum is already there.  The request alone starts no view change.
processStartViewChange(b, v) ==
  viewStartReqMap' =
    IF \/ viewNum[b] > v
       \/ status[b] = "RECOVERING"
       \/ quorumReached(b, viewStartReqMap[b][v])
    THEN viewStartReqMap
    ELSE [viewStartReqMap EXCEPT ![b][v] = @ + 1]

invokeStartViewChange(r, b) ==
  /\ vpc[r] = "startViewChange"
  /\ vcDelivered(r, b)
  /\ processStartViewChange(b, viewNum[r])
  /\ vcReturned(r, b) \/ vcReplyLost(r, b)
  /\ UNCHANGED <<replicaState, storage, repMutex, OtherThreads, repListener,
                 proc, lost, spurious, doViewChangeMap, startViewMap,
                 viewChangeInfoMap, viewStartInfoMap, vpc, newPriId, tried,
                 vcTimeouts>>

\* getNextPrimaryCandidate: back to 0 behind the last of size() + 1 replicas.
\* A prepare logged by a replica that has become the candidate since it checked
\* the view inserts it into its own _replicas (LogPrepInfo); the next change
\* of the view may then get to N, which no replica is.
NextCandidate(r, c) == IF c + 1 > Cardinality(peers[r]) THEN 0 ELSE c + 1

\* Mutant: the two view numbers are swapped.
SwappedViewInfo(r) ==
  [viewNum |-> viewNum[r] - 1, oldViewNum |-> viewNum[r],
   opNum |-> commitNum[r], commitNum |-> commitNum[r],
   opLog |-> getLog(opLog[r]), replicaId |-> r]

viewChangeInfo(r) ==
  [viewNum |-> viewNum[r], oldViewNum |-> viewNum[r] - 1,
   opNum |-> commitNum[r], commitNum |-> commitNum[r],
   opLog |-> getLog(opLog[r]), replicaId |-> r]

\* With a quorum for the view: record the own ViewChangeInfo, then offer it
\* to the replica after the last primary.
ReachedStartQuorum(r) ==
  LET v == viewNum[r]
      c == NextCandidate(r, priId[r])
  IN  /\ viewChangeInfoMap' = [viewChangeInfoMap EXCEPT
                                 ![r][v] = Append(@, viewChangeInfo(r))]
      /\ doViewChangeMap' = [doViewChangeMap EXCEPT ![r][v] = @ + 1]
      /\ newPriId' = [newPriId EXCEPT ![r] = c]
      /\ tried' = [tried EXCEPT ![r] = 0]
      /\ vcTodo' = [vcTodo EXCEPT ![r] = {c} \ {r}]
      /\ vpc' = [vpc EXCEPT ![r] = "doViewChange"]
      /\ UNCHANGED <<replicaState, storage, repMutex, OtherThreads,
                     repListener, proc, lost, resent, startViewMap,
                     viewStartInfoMap, vcRetry, vcTimeouts>>

\* The requests are out and the replica counts itself.
CountOwnRequest(r) ==
  /\ Up(r)
  /\ vpc[r] = "startViewChange"
  /\ vcTodo[r] = {}
  /\ LET cnt == viewStartReqMap[r][viewNum[r]] + 1
     IN  /\ viewStartReqMap' = [viewStartReqMap EXCEPT ![r][viewNum[r]] = cnt]
         /\ IF quorumReached(r, cnt)
            THEN ReachedStartQuorum(r) /\ UNCHANGED spurious
            ELSE /\ vpc' = [vpc EXCEPT ![r] = "waitRequests"]
                 /\ UNCHANGED <<replicaState, storage, repMutex, OtherThreads,
                                repListener, faultVars, doViewChangeMap,
                                startViewMap, viewChangeInfoMap,
                                viewStartInfoMap, vcTodo, vcRetry, newPriId,
                                tried, vcTimeouts>>

\* The wait for requests ends with a quorum, or spuriously without one.
RequestsArrived(r) ==
  /\ Up(r)
  /\ vpc[r] = "waitRequests"
  /\ \/ /\ quorumReached(r, viewStartReqMap[r][viewNum[r]])
        /\ UNCHANGED spurious
     \/ spurious < MaxSpurious /\ spurious' = spurious + 1
  /\ ReachedStartQuorum(r)
  /\ UNCHANGED viewStartReqMap

\* processDoViewChange and processStartView at replica b, up to the point
\* where t2 waits for _viewChangeMutex: an older view is ignored, and the
\* StartView of a view puts a NORMAL replica in VIEW_CHANGE, even one that is
\* in that view already.
Arrive(r, b, msg) ==
  /\ repListener' = [repListener EXCEPT
                       ![b] = [from |-> r, thread |-> "vc", info |-> msg]]
  /\ status' = IF msg.kind = "startView"
               THEN [status EXCEPT ![b] = "VIEW_CHANGE"] ELSE status
  /\ UNCHANGED <<vcTodo, vcRetry, resent>>

Ignores(b, msg) ==
  viewNum[b] > msg.info.viewNum \/ status[b] = "RECOVERING"

\* Where changeView goes with primary p: it waits, for ViewChangeInfos or for
\* the StartView, unless what it needs is already there.
AwaitView(r, p) ==
  IF p = r
  THEN IF quorumReached(r, doViewChangeMap[r][viewNum[r]])
       THEN "haveInfos" ELSE "waitInfos"
  ELSE IF startViewMap[r][viewNum[r]] = 1 THEN "haveView" ELSE "waitView"

\* The DoViewChange loop ends with the current candidate, which is the
\* replica itself or has accepted, or after |_replicas| - 1 failures.
Settle(r, p) ==
  /\ priId' = [priId EXCEPT ![r] = p]
  /\ vpc' = [vpc EXCEPT ![r] = AwaitView(r, p)]

doViewChangeMsg(r) == [kind |-> "doViewChange", info |-> viewChangeInfo(r)]

invokeDoViewChange(r, b) ==
  /\ vpc[r] = "doViewChange"
  /\ vcDelivered(r, b)
  /\ \/ /\ Ignores(b, doViewChangeMsg(r))
        /\ \/ vcReturned(r, b) /\ Settle(r, b)
           \/ vcReplyLost(r, b) /\ UNCHANGED <<priId, vpc>>
        /\ UNCHANGED <<status, repListener>>
     \/ /\ ~Ignores(b, doViewChangeMsg(r))
        /\ Arrive(r, b, doViewChangeMsg(r))
        /\ UNCHANGED <<priId, vpc>>
  /\ UNCHANGED <<viewNum, opNum, commitNum, storage, repMutex, OtherThreads,
                 proc, lost, spurious, mapVars, newPriId, tried, vcTimeouts>>

\* The candidate cannot be reached, perhaps at the second try after it has
\* handled the first: the next one is tried, at most |_replicas| - 1 of them.
DoViewChangeFails(r, b) ==
  LET c == NextCandidate(r, b)
  IN  /\ vpc[r] = "doViewChange"
      /\ vcMayCall(r, b)
      /\ vcUnreachable(b)
      /\ vcRetry' = [vcRetry EXCEPT ![r] = Nil]
      /\ tried' = [tried EXCEPT ![r] = @ + 1]
      /\ IF tried[r] + 1 = Cardinality(peers[r]) - 1
         THEN /\ Settle(r, b)
              /\ vcTodo' = [vcTodo EXCEPT ![r] = {}]
              /\ UNCHANGED newPriId
         ELSE /\ newPriId' = [newPriId EXCEPT ![r] = c]
              /\ vcTodo' = [vcTodo EXCEPT ![r] = {c} \ {r}]
              /\ UNCHANGED <<priId, vpc>>
      /\ UNCHANGED <<status, viewNum, opNum, commitNum, storage, repMutex,
                     OtherThreads, repListener, proc, resent, spurious,
                     mapVars, vcTimeouts>>

\* The replica's own turn has come: it will be the primary.
CandidateIsSelf(r) ==
  /\ Up(r)
  /\ vpc[r] = "doViewChange"
  /\ newPriId[r] = r
  /\ Settle(r, r)
  /\ UNCHANGED <<status, viewNum, opNum, commitNum, storage, repMutex,
                 OtherThreads, repListener, faultVars, mapVars, vcTodo,
                 vcRetry, newPriId, tried, vcTimeouts>>

\* The new primary has, or is notified of, a quorum of ViewChangeInfos.  A
\* spurious wakeup without one fails assert(quorumReached(viewChangeResp)).
InfosArrived(r) ==
  /\ Up(r)
  /\ vpc[r] \in {"haveInfos", "waitInfos"}
  /\ quorumReached(r, doViewChangeMap[r][viewNum[r]])
  /\ BecomePrimary(r)

\* The backup has, or is notified of, the StartView.
ViewArrived(r) ==
  /\ Up(r)
  /\ vpc[r] \in {"haveView", "waitView"}
  /\ startViewMap[r][viewNum[r]] = 1
  /\ BecomeBackup(r, viewNum[r])

SpuriousVcWakeup(r) ==
  /\ Up(r)
  /\ \/ /\ vpc[r] = "waitInfos"
        /\ ~quorumReached(r, doViewChangeMap[r][viewNum[r]])
     \/ vpc[r] = "waitView" /\ startViewMap[r][viewNum[r]] # 1
  /\ spurious < MaxSpurious
  /\ spurious' = spurious + 1
  /\ proc' = [proc EXCEPT ![r] = "aborted"]
  /\ repListener' = [repListener EXCEPT ![r] = Nil]
  /\ UNCHANGED <<replicaState, storage, repMutex, OtherThreads, lost, resent,
                 vcVars>>

\* A wait times out and changeView returns, in status VIEW_CHANGE.
VcTimedOut(r) ==
  /\ Up(r)
  /\ vpc[r] \in {"waitRequests", "waitInfos", "waitView"}
  /\ vcTimeouts < MaxVcTimeout
  /\ vcTimeouts' = vcTimeouts + 1
  /\ vpc' = [vpc EXCEPT ![r] = "none"]
  /\ repMutex' = [repMutex EXCEPT ![r] = "free"]
  /\ UNCHANGED <<replicaState, storage, OtherThreads, repListener, faultVars,
                 mapVars, vcTodo, vcRetry, newPriId, tried>>

viewStartInfo(r) ==
  [viewNum |-> viewNum[r], opNum |-> opNum[r], commitNum |-> commitNum[r],
   opLog |-> getLog(opLog[r]), replicaId |-> r]

startViewMsg(r) == [kind |-> "startView", info |-> viewStartInfo(r)]

\* The broadcast at the end of updateNewView, under _viewChangeMutex.
invokeStartView(r, b) ==
  /\ vpc[r] = "startView"
  /\ vcDelivered(r, b)
  /\ \/ /\ Ignores(b, startViewMsg(r))
        /\ vcReturned(r, b) \/ vcReplyLost(r, b)
        /\ UNCHANGED <<status, repListener>>
     \/ /\ ~Ignores(b, startViewMsg(r))
        /\ Arrive(r, b, startViewMsg(r))
  /\ UNCHANGED <<priId, viewNum, opNum, commitNum, storage, repMutex,
                 OtherThreads, proc, lost, spurious, mapVars, vpc, newPriId,
                 tried, vcTimeouts>>

\* The end of updateNewView at the primary: cleanUp does nothing if a
\* StartView has meanwhile changed the status.
EndStartView(r) ==
  /\ Up(r)
  /\ vpc[r] = "startView"
  /\ vcTodo[r] = {}
  /\ IF status[r] = "NORMAL" THEN ClearMaps(r) ELSE UNCHANGED mapVars
  /\ vpc' = [vpc EXCEPT ![r] = "none"]
  /\ repMutex' = [repMutex EXCEPT ![r] = "free"]
  /\ UNCHANGED <<replicaState, storage, OtherThreads, repListener, faultVars,
                 vcTodo, vcRetry, newPriId, tried, vcTimeouts>>

-----------------------------------------------------------------------------
(***************************************************************************)
(* t2, once it has _viewChangeMutex.                                       *)
(***************************************************************************)
ViewChangeMutexFree(r) == vpc[r] # "startView"

\* The handler returns to caller r; a DoViewChange call that succeeded ends
\* the loop of the caller.
vcEndCall(r, b) ==
  \/ /\ vcReturned(r, b)
     /\ IF vpc[r] = "doViewChange" THEN Settle(r, b)
                                   ELSE UNCHANGED <<priId, vpc>>
  \/ vcReplyLost(r, b) /\ UNCHANGED <<priId, vpc>>

processDoViewChange(b) ==
  /\ Up(b)
  /\ repListener[b] # Nil /\ repListener[b].thread = "vc"
  /\ repListener[b].info.kind = "doViewChange"
  /\ ViewChangeMutexFree(b)
  /\ LET r == repListener[b].from
         info == repListener[b].info.info
         v == info.viewNum
     IN  /\ viewChangeInfoMap' = [viewChangeInfoMap EXCEPT
                                    ![b][v] = Append(@, info)]
         /\ doViewChangeMap' = [doViewChangeMap EXCEPT ![b][v] = @ + 1]
         /\ vcEndCall(r, b)
  /\ repListener' = [repListener EXCEPT ![b] = Nil]
  /\ UNCHANGED <<status, viewNum, opNum, commitNum, storage, repMutex,
                 OtherThreads, proc, lost, spurious, viewStartReqMap,
                 startViewMap, viewStartInfoMap, newPriId, tried, vcTimeouts>>

\* A second StartView for a view fails an assertion.
processStartView(b) ==
  /\ Up(b)
  /\ repListener[b] # Nil /\ repListener[b].thread = "vc"
  /\ repListener[b].info.kind = "startView"
  /\ ViewChangeMutexFree(b)
  /\ LET r == repListener[b].from
         info == repListener[b].info.info
         v == info.viewNum
     IN  \/ /\ viewStartInfoMap[b][v] # Nil \/ startViewMap[b][v] # 0
            /\ Aborts(b)
            /\ UNCHANGED vcVars
         \/ /\ viewStartInfoMap[b][v] = Nil /\ startViewMap[b][v] = 0
            /\ viewStartInfoMap' = [viewStartInfoMap EXCEPT ![b][v] = info]
            /\ startViewMap' = [startViewMap EXCEPT ![b][v] = 1]
            /\ vcEndCall(r, b)
            /\ repListener' = [repListener EXCEPT ![b] = Nil]
            /\ UNCHANGED <<status, viewNum, opNum, commitNum, storage,
                           repMutex, OtherThreads, proc, lost, spurious,
                           viewStartReqMap, doViewChangeMap,
                           viewChangeInfoMap, newPriId, tried, vcTimeouts>>

\* t1: assert(isPrimary()), in KvMemStore and again under _repMutex, fails when
\* the view changed since the request was admitted.
AssertPrimaryFails(r) ==
  /\ Up(r)
  /\ cpc[r] = "enter"
  /\ ~isPrimary(r)
  /\ Aborts(r)
  /\ UNCHANGED vcVars

-----------------------------------------------------------------------------
VcStep(r) ==
  \/ changeView(r)
  \/ \E b \in ReplicaId : invokeStartViewChange(r, b)
  \/ CountOwnRequest(r)
  \/ RequestsArrived(r)
  \/ \E b \in ReplicaId : invokeDoViewChange(r, b)
  \/ \E b \in ReplicaId : DoViewChangeFails(r, b)
  \/ CandidateIsSelf(r)
  \/ InfosArrived(r)
  \/ ViewArrived(r)
  \/ \E b \in ReplicaId : invokeStartView(r, b)
  \/ \E b \in ReplicaId : vcCallFails(r, b)
  \/ EndStartView(r)
  \/ processDoViewChange(r)
  \/ processStartView(r)
  \/ AssertPrimaryFails(r)

VcNext ==
  \/ Next /\ UNCHANGED vcVars
  \/ \E r \in ReplicaId : VcStep(r) \/ SpuriousVcWakeup(r) \/ VcTimedOut(r)

VcSpec == VcInit /\ [][VcNext]_allVars

-----------------------------------------------------------------------------
(***************************************************************************)
(* Properties.                                                             *)
(***************************************************************************)

\* The variables of changeView stay in their types: among others, no count of
\* a wait map exceeds the number of requests a view can draw.
VcTypeOK ==
  /\ viewStartReqMap \in [ReplicaId -> [View -> 0 .. N + 1]]
  /\ doViewChangeMap \in [ReplicaId -> [View -> 0 .. N + 1]]
  /\ startViewMap \in [ReplicaId -> [View -> 0 .. 1]]
  /\ \A r \in ReplicaId : \A v \in View :
       \A i \in DOMAIN viewChangeInfoMap[r][v] :
         viewChangeInfoMap[r][v][i].viewNum = v
  /\ vpc \in [ReplicaId -> {"none", "startViewChange", "waitRequests",
                            "doViewChange", "haveInfos", "waitInfos",
                            "haveView", "waitView", "startView"}]
  /\ vcTodo \in [ReplicaId -> SUBSET ReplicaId]
  /\ newPriId \in [ReplicaId -> ReplicaId]
  /\ tried \in [ReplicaId -> 0 .. N]
  /\ vcTimeouts \in Nat
  /\ viewNum \in [ReplicaId -> 0 .. MaxView]
  /\ \A r \in ReplicaId : vpc[r] # "none" => repMutex[r] = "hbt"

ActingPrimary(r) == Up(r) /\ status[r] = "NORMAL" /\ isPrimary(r)

\* Two replicas never act as primary of the same view.
OnePrimaryPerView ==
  \A r, s \in ReplicaId :
    ActingPrimary(r) /\ ActingPrimary(s) /\ viewNum[r] = viewNum[s] => r = s

\* A replica is NORMAL in a view only after a quorum of replicas has left all
\* earlier views: StartViewChange and DoViewChange each collect one.
QuorumInView ==
  \A r \in ReplicaId : Up(r) /\ status[r] = "NORMAL" =>
    Cardinality({s \in ReplicaId : viewNum[s] >= viewNum[r]}) >= N \div 2 + 1

\* Replicas that are NORMAL in the same view follow the same primary, and the
\* backup has committed nothing that the primary has not.
ViewAgreement ==
  \A r, s \in ReplicaId :
    /\ Up(r) /\ Up(s) /\ status[r] = "NORMAL" /\ status[s] = "NORMAL"
    /\ viewNum[r] = viewNum[s]
    => /\ priId[r] = priId[s]
       /\ priId[r] = r => commitNum[s] <= commitNum[r]

\* The primary of the latest view has every operation that any client was told
\* is done.
AckedInNewView ==
  \A r \in ReplicaId : ActingPrimary(r) =>
    \A x \in replies : x.err = "NONE" /\ x.viewNum < viewNum[r] =>
      Logs(r, x.opNum, x.op) /\ x.opNum <= commitNum[r]

\* A step never lowers the commit number of a replica, not even one that adopts
\* the log of another: updateNewView aborts the process where that log does not
\* have the last committed entry committed.
CommitNumsGrow ==
  [][\A r \in ReplicaId : commitNum'[r] >= commitNum[r]]_allVars

\* NORMAL replicas of a view that have committed an entry under one number have
\* committed the same operation.  They have not: ppit checks role, status and
\* view before it takes _repMutex, and logs a prepare of the old view over the
\* entry of the new one (README, section 5).
CommittedAgree ==
  \A r, s \in ReplicaId :
    /\ Up(r) /\ Up(s) /\ status[r] = "NORMAL" /\ status[s] = "NORMAL"
    /\ viewNum[r] = viewNum[s]
    => \A n \in OpInt : isCommitted(opLog[r], n) /\ isCommitted(opLog[s], n)
         => opLog[r].entries[n].op = opLog[s].entries[n].op

\* The key-value map that results from the first n operations of a log.
Replay(log, n) ==
  LET f[i \in 0 .. n] ==
        IF i = 0 THEN EmptyKv ELSE applyOp(f[i - 1], log.entries[i].op)
  IN  f[n]

\* The map of a NORMAL replica is what its log says has been committed.
KvMatchesLog ==
  \A r \in ReplicaId : Up(r) /\ status[r] = "NORMAL" =>
    kvMap[r] = Replay(opLog[r], Applied(r))

-----------------------------------------------------------------------------
VcThreadStep(r) ==
  \/ VcStep(r)
  \/ (T1(r) \/ Ppit(r) \/ processCommit(r)) /\ UNCHANGED vcVars

\* The threads and t2 run once the primary has crashed: as long as one of them
\* can take a step, one does.  Requests, heartbeats, further crashes, timeouts,
\* spurious wakeups and calls that are lost or made twice need not happen.
VcFairness ==
  WF_allVars(/\ proc[0] = "down"
             /\ UNCHANGED <<lost, resent, spurious>>
             /\ \E r \in ReplicaId : VcThreadStep(r))

VcFairSpec == VcSpec /\ VcFairness

\* The primary has crashed and the backups are at rest in its view.
Orphaned ==
  /\ proc[0] = "down"
  /\ \A r \in OtherReplicas(0) :
       /\ Up(r) /\ viewNum[r] = 0 /\ vpc[r] = "none"
       /\ repListener[r] = Nil

\* README: when the primary fails, one of the backups changes role to primary.
\* It does so without a single wait timing out, if every backup is at rest
\* when it happens and has committed at least one operation.
BackupTakesOver == Orphaned ~> \E r \in ReplicaId : ActingPrimary(r)
=============================================================================
