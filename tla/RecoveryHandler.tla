-------------------------- MODULE RecoveryHandler --------------------------
(***************************************************************************)
(* Restart and recovery (server/recoveryHandler.cc), composed with         *)
(* replication and view change.                                            *)
(*                                                                         *)
(* Nothing is on disk: a process that is started again has an empty        *)
(* memory.  If its configuration says so it starts in status RECOVERING,   *)
(* and hbt runs recover(), which holds _repMutex from its first to its     *)
(* last statement: it asks every other replica for its state, waits for    *)
(* the responses and adopts the one of the primary.  A request is queued   *)
(* by t2 and answered by the thread prrt; the response is an RPC back to   *)
(* t2 of the recovering replica, which main() starts only after hbt.       *)
(***************************************************************************)
EXTENDS ViewChangeHandler

CONSTANTS
  CfgFile,      \* the configuration file each replica is started with
  Restarting,   \* bound: replicas that crash to be started again
  MaxRestart,   \* bound: restarts of each replica
  MaxRcFault,   \* bound: faults of recoveries: calls, replies, wakeups
  Nonce,        \* bound: the seconds the system clock may show
  UninitFlag    \* the values an uninitialised _receivedRespFromPri may have

Cfg == INSTANCE Configurator
Input(r) == Cfg!parse(CfgFile[r])

ASSUME RestartAssumption ==
  /\ Restarting \subseteq ReplicaId
  /\ {MaxRestart, MaxRcFault} \subseteq Nat
  /\ UninitFlag \subseteq BOOLEAN
ASSUME ClusterAssumption ==
  \A r \in ReplicaId :
    /\ Cfg!boots(Input(r))
    /\ Cfg!replicaId(Input(r)) = r
    /\ Cfg!replicas(Input(r)) = OtherReplicas(r)

VARIABLES
  \* hbt inside recover(): program counter, replicas yet to ask, the one
  \* whose reply was lost
  rcpc, rcTodo, rcRetry,
  \* the nonces of the recoveries a replica has begun, the last one its own
  nonces,
  \* _recoveryReqQ; prrt: its program counter, the request or response in
  \* hand, whether the response is sent a second time
  recoveryReqQ, prrt, inHand, prRetry,
  \* _recoveryRespMap, all nonces in the order of arrival: _respViewCnt and
  \* the count of _waitMap follow from it; what _receivedRespFromPri held
  \* before the first response
  recoveryResps, initFlag,
  \* starts of each replica so far
  started,
  \* faults of recoveries so far: "lost" if a call failed, "resent" if a lost
  \* reply made a caller try again, "spurious" if a wait woke up spuriously
  rcFaults,
  \* history: a request or a response of the recovery was not delivered, or
  \* was ignored by its handler
  missed

recoverVars == <<rcpc, rcTodo, rcRetry, nonces>>
prrtVars == <<recoveryReqQ, prrt, inHand, prRetry>>
respVars == <<recoveryResps, initFlag>>
startVars == <<started, rcFaults, missed>>
rcVars == <<recoverVars, prrtVars, respVars, startVars>>
everyVar == <<allVars, rcVars>>

RcInit ==
  /\ VcInit
  /\ rcpc = [r \in ReplicaId |-> "none"]
  /\ rcTodo = [r \in ReplicaId |-> {}]
  /\ rcRetry = [r \in ReplicaId |-> Nil]
  /\ nonces = [r \in ReplicaId |-> <<>>]
  /\ recoveryReqQ = [r \in ReplicaId |-> <<>>]
  /\ prrt = [r \in ReplicaId |-> "idle"]
  /\ inHand = [r \in ReplicaId |-> Nil]
  /\ prRetry = [r \in ReplicaId |-> FALSE]
  /\ recoveryResps = [r \in ReplicaId |-> <<>>]
  /\ initFlag = [r \in ReplicaId |-> FALSE]
  /\ started = [r \in ReplicaId |-> 0]
  /\ rcFaults = <<>>
  /\ missed = [r \in ReplicaId |-> FALSE]

\* What recovery never touches in a replica that is running.
Elsewhere == <<peers, prepVars, clientVars, hbInfo, todo, repClient, vcVars>>

-----------------------------------------------------------------------------
(***************************************************************************)
(* The process.  Between Start and Listen hbt and prrt run, but a          *)
(* connection to the replica is refused.                                   *)
(***************************************************************************)
Running(r) == proc[r] \in {"up", "starting"}

\* A replica that will be started again crashes, one at a time.
CrashToRestart(r) ==
  /\ Up(r)
  /\ r \in Restarting
  /\ \A s \in ReplicaId : proc[s] # "down"
  /\ started[r] < MaxRestart
  /\ Dies(r, "down")
  /\ UNCHANGED <<vcVars, rcVars>>

\* bootStrap and start(), once the calls of the process that crashed are over.
Start(r) ==
  /\ proc[r] = "down" /\ r \in Restarting
  /\ started[r] < MaxRestart
  /\ \A b \in ReplicaId : ~Blocked(r, b)
  /\ \E rec \in Input(r).recovering, flag \in UninitFlag :
       /\ status' = [status EXCEPT
                       ![r] = IF rec THEN "RECOVERING" ELSE "NORMAL"]
       /\ initFlag' = [initFlag EXCEPT ![r] = flag]
  /\ proc' = [proc EXCEPT ![r] = "starting"]
  /\ started' = [started EXCEPT ![r] = @ + 1]
  /\ priId' = [priId EXCEPT ![r] = 0]
  /\ viewNum' = [viewNum EXCEPT ![r] = 0]
  /\ opNum' = [opNum EXCEPT ![r] = 0]
  /\ commitNum' = [commitNum EXCEPT ![r] = 0]
  /\ opLog' = [opLog EXCEPT ![r] = EmptyLog]
  /\ kvMap' = [kvMap EXCEPT ![r] = EmptyKv]
  /\ peers' = [peers EXCEPT ![r] = Cfg!replicas(Input(r))]
  /\ repMutex' = [repMutex EXCEPT ![r] = "free"]
  /\ prepReqQ' = [prepReqQ EXCEPT ![r] = <<>>]
  /\ waitMap' = [waitMap EXCEPT ![r] = [n \in OpInt |-> 0]]
  /\ cpc' = [cpc EXCEPT ![r] = "idle"]
  /\ creq' = [creq EXCEPT ![r] = Nil]
  /\ hbInfo' = [hbInfo EXCEPT ![r] = [viewNum |-> 0, commitNum |-> 0]]
  /\ ppc' = [ppc EXCEPT ![r] = "idle"]
  /\ ppInfo' = [ppInfo EXCEPT ![r] = Nil]
  /\ todo' = [todo EXCEPT ![r] = [t \in Caller |-> {}]]
  /\ repClient' = [repClient EXCEPT ![r] = Nil]
  /\ ClearMaps(r)
  /\ vpc' = [vpc EXCEPT ![r] = "none"]
  /\ vcTodo' = [vcTodo EXCEPT ![r] = {}]
  /\ vcRetry' = [vcRetry EXCEPT ![r] = Nil]
  /\ newPriId' = [newPriId EXCEPT ![r] = 0]
  /\ tried' = [tried EXCEPT ![r] = 0]
  /\ rcpc' = [rcpc EXCEPT ![r] = "none"]
  /\ rcTodo' = [rcTodo EXCEPT ![r] = {}]
  /\ rcRetry' = [rcRetry EXCEPT ![r] = Nil]
  /\ recoveryReqQ' = [recoveryReqQ EXCEPT ![r] = <<>>]
  /\ prrt' = [prrt EXCEPT ![r] = "idle"]
  /\ inHand' = [inHand EXCEPT ![r] = Nil]
  /\ prRetry' = [prRetry EXCEPT ![r] = FALSE]
  /\ recoveryResps' = [recoveryResps EXCEPT ![r] = <<>>]
  /\ missed' = [missed EXCEPT ![r] = FALSE]
  /\ UNCHANGED <<replies, repListener, lost, resent, spurious, vcTimeouts,
                 nonces, rcFaults>>

\* main() opens the listeners and starts t1 and t2.
Listen(r) ==
  /\ proc[r] = "starting"
  /\ proc' = [proc EXCEPT ![r] = "up"]
  /\ UNCHANGED <<replicaState, storage, repMutex, prepVars, clientVars, hbInfo,
                 rpcVars, lost, resent, spurious, vcVars, rcVars>>

\* A failed assertion of recover() ends the process.
RecoveryFails(r) ==
  /\ proc' = [proc EXCEPT ![r] = "recoveryFailed"]
  /\ repListener' = [repListener EXCEPT ![r] = Nil]
  /\ UNCHANGED <<replicaState, opLog, kvMap, repMutex, lost, resent, spurious,
                 Elsewhere, recoverVars, prrtVars, respVars, started, missed>>

-----------------------------------------------------------------------------
(***************************************************************************)
(* recover().                                                              *)
(***************************************************************************)

\* recoveryReq.nonce, of the recovery under way.
nonce(r) == nonces[r][Len(nonces[r])]

recoveryRequest(r) == [replicaId |-> r, nonce |-> nonce(r)]

\* t2 of b takes the next call, whoever makes it.
Serves(b) == Up(b) /\ repListener[b] = Nil

\* recover up to the broadcast.  The nonce is the system clock in whole seconds:
\* two starts within one of them, or with the clock set back in between, may
\* get the same.
recover(r) ==
  /\ Running(r)
  /\ status[r] = "RECOVERING"
  /\ rcpc[r] = "none"
  /\ repMutex[r] = "free"
  /\ repMutex' = [repMutex EXCEPT ![r] = "hbt"]
  /\ \E seconds \in Nonce : nonces' = [nonces EXCEPT ![r] = Append(@, seconds)]
  /\ rcpc' = [rcpc EXCEPT ![r] = "request"]
  /\ rcTodo' = [rcTodo EXCEPT ![r] = peers[r] \ {r}]
  /\ UNCHANGED <<replicaState, opLog, kvMap, repListener, faultVars, Elsewhere,
                 rcRetry, prrtVars, respVars, startVars>>

\* processRecoveryRequest at replica b.
processRecoveryRequest(b, req) ==
  recoveryReqQ' = IF status[b] = "NORMAL"
                  THEN [recoveryReqQ EXCEPT ![b] = Append(@, req)]
                  ELSE recoveryReqQ

Asking(r, b) ==
  rcpc[r] = "request" /\ b \in rcTodo[r] /\ rcRetry[r] \in {Nil, b}

\* The call and the handler at b; its first reply may be lost.
invokeRecoveryRequest(r, b) ==
  /\ Running(r)
  /\ Asking(r, b)
  /\ Serves(b)
  /\ processRecoveryRequest(b, recoveryRequest(r))
  /\ missed' = [missed EXCEPT ![r] = @ \/ status[b] # "NORMAL"]
  /\ \/ /\ rcTodo' = [rcTodo EXCEPT ![r] = @ \ {b}]
        /\ rcRetry' = [rcRetry EXCEPT ![r] = Nil]
        /\ UNCHANGED rcFaults
     \/ /\ rcRetry[r] = Nil
        /\ Len(rcFaults) < MaxRcFault
        /\ rcFaults' = Append(rcFaults, "resent")
        /\ rcRetry' = [rcRetry EXCEPT ![r] = b]
        /\ UNCHANGED rcTodo
  /\ UNCHANGED <<replicaState, opLog, kvMap, repMutex, repListener, faultVars,
                 Elsewhere, rcpc, nonces, prrt, inHand, prRetry, respVars,
                 started>>

\* The call fails before the handler runs.
rcUnreachable(b) ==
  \/ ~Up(b) /\ UNCHANGED rcFaults
  \/ /\ Up(b) /\ Len(rcFaults) < MaxRcFault
     /\ rcFaults' = Append(rcFaults, "lost")

RecoveryRequestFails(r, b) ==
  /\ Running(r)
  /\ Asking(r, b)
  /\ rcUnreachable(b)
  /\ rcTodo' = [rcTodo EXCEPT ![r] = @ \ {b}]
  /\ rcRetry' = [rcRetry EXCEPT ![r] = Nil]
  /\ missed' = [missed EXCEPT ![r] = TRUE]
  /\ UNCHANGED <<replicaState, opLog, kvMap, repMutex, repListener, faultVars,
                 Elsewhere, rcpc, nonces, prrtVars, respVars, started>>

\* _recoveryRespMap[nonce], by position, and the views with a majority in
\* _respViewCnt.
responses(r) ==
  {i \in DOMAIN recoveryResps[r] : recoveryResps[r][i].nonce = nonce(r)}

MajorityViews(r) ==
  {v \in {recoveryResps[r][i].viewNum : i \in DOMAIN recoveryResps[r]} :
     quorumReached(r, Cardinality({i \in DOMAIN recoveryResps[r] :
                                     recoveryResps[r][i].viewNum = v}))}

receivedRespFromPri(r) ==
  initFlag[r] \/ \E i \in DOMAIN recoveryResps[r] : recoveryResps[r][i].isPrimary

responseDone(r) ==
  /\ receivedRespFromPri(r)
  /\ quorumReached(r, Cardinality(responses(r)))
  /\ MajorityViews(r) # {}

\* The requests are out and the responses are not in: hbt waits.
AwaitResponses(r) ==
  /\ Running(r)
  /\ rcpc[r] = "request"
  /\ rcTodo[r] = {}
  /\ ~responseDone(r)
  /\ rcpc' = [rcpc EXCEPT ![r] = "wait"]
  /\ UNCHANGED <<replicaState, opLog, kvMap, repMutex, repListener, faultVars,
                 Elsewhere, rcTodo, rcRetry, nonces, prrtVars, respVars,
                 startVars>>

\* recoverStateFromLog: the committed entries are applied in their order.
recoverStateFromLog(kv, log) ==
  LET f[i \in 0 .. Len(log)] ==
        IF i = 0 THEN kv
        ELSE IF log[i].committed THEN applyOp(f[i - 1], log[i].op) ELSE f[i - 1]
  IN  f[Len(log)]

\* The response of the primary that recover adopts for view v: the first one
\* of that view, and none before it may be of a later view.
Adoptable(r, v) ==
  LET resp == recoveryResps[r]
  IN  {i \in responses(r) :
         /\ resp[i].viewNum = v /\ resp[i].isPrimary
         /\ \A j \in responses(r) : j < i =>
              /\ resp[j].viewNum <= v
              /\ ~(resp[j].viewNum = v /\ resp[j].isPrimary)}

AdoptResponse(r, x) ==
  /\ kvMap' = [kvMap EXCEPT ![r] = recoverStateFromLog(@, x.opLog)]
  /\ priId' = [priId EXCEPT ![r] = x.replicaId]
  /\ viewNum' = [viewNum EXCEPT ![r] = x.viewNum]
  /\ opNum' = [opNum EXCEPT ![r] = x.opNum]
  /\ commitNum' = [commitNum EXCEPT ![r] = x.commitNum]
  /\ opLog' = [opLog EXCEPT ![r] = setLog(x.opLog)]
  /\ status' = [status EXCEPT ![r] = "NORMAL"]

\* The rest of recover(): a view with a majority, in the order of a hash map,
\* or view 0 if there is none; then the adoption and cleanup, or an assertion.
FinishRecovery(r) ==
  \E v \in IF MajorityViews(r) = {} THEN {0} ELSE MajorityViews(r) :
    IF Adoptable(r, v) = {}
    THEN RecoveryFails(r)
    ELSE /\ AdoptResponse(r, recoveryResps[r][CHOOSE i \in Adoptable(r, v) : TRUE])
         /\ repMutex' = [repMutex EXCEPT ![r] = "free"]
         /\ rcpc' = [rcpc EXCEPT ![r] = "none"]
         /\ recoveryResps' = [recoveryResps EXCEPT ![r] = <<>>]
         /\ initFlag' = [initFlag EXCEPT ![r] = FALSE]
         /\ UNCHANGED <<repListener, faultVars, Elsewhere, rcTodo, rcRetry,
                        nonces, prrtVars, started, missed>>

\* responseDone before the wait, or a notification.  A response to an earlier
\* start notifies nobody; here hbt may go on with it nevertheless.
Recovered(r) ==
  /\ Running(r)
  /\ rcpc[r] = "wait" \/ (rcpc[r] = "request" /\ rcTodo[r] = {})
  /\ responseDone(r)
  /\ FinishRecovery(r)
  /\ UNCHANGED rcFaults

\* A spurious wakeup of wait_for() is taken for a notification.
SpuriousRecovery(r) ==
  /\ Running(r)
  /\ rcpc[r] = "wait"
  /\ ~responseDone(r)
  /\ Len(rcFaults) < MaxRcFault
  /\ rcFaults' = Append(rcFaults, "spurious")
  /\ FinishRecovery(r)

\* wait_for() times out and the exception ends the process.
RecoveryTimedOut(r) ==
  /\ Running(r)
  /\ rcpc[r] = "wait"
  /\ MaxVcTimeout > 0
  /\ Aborts(r)
  /\ UNCHANGED <<vcVars, rcVars>>

-----------------------------------------------------------------------------
(***************************************************************************)
(* prrt: processRecoveryReqInt.                                            *)
(***************************************************************************)

\* The head of the queue is dropped if the status is not NORMAL, and with it
\* the thread ends: the loop returns where it would have to continue.
PopRecoveryReq(r) ==
  /\ Running(r)
  /\ prrt[r] = "idle"
  /\ recoveryReqQ[r] # <<>>
  /\ recoveryReqQ' = [recoveryReqQ EXCEPT ![r] = Tail(@)]
  /\ IF status[r] = "NORMAL"
     THEN /\ prrt' = [prrt EXCEPT ![r] = "popped"]
          /\ inHand' = [inHand EXCEPT ![r] = Head(recoveryReqQ[r])]
          /\ UNCHANGED missed
     ELSE /\ prrt' = [prrt EXCEPT ![r] = "ended"]
          /\ missed' = [missed EXCEPT ![Head(recoveryReqQ[r]).replicaId] = TRUE]
          /\ UNCHANGED inHand
  /\ UNCHANGED <<replicaState, opLog, kvMap, repMutex, repListener, faultVars,
                 Elsewhere, prRetry, recoverVars, respVars, started, rcFaults>>

\* Mutant: every replica sends what it has as if it were the primary.
EveryonesResponse(r, req) ==
  [to |-> req.replicaId, replicaId |-> r, nonce |-> req.nonce,
   viewNum |-> viewNum[r], isPrimary |-> TRUE,
   opLog |-> getLog(opLog[r]), opNum |-> opNum[r], commitNum |-> commitNum[r]]

\* Only the primary sends its log and its numbers.
recoveryResponse(r, req) ==
  [to |-> req.replicaId, replicaId |-> r, nonce |-> req.nonce,
   viewNum |-> viewNum[r], isPrimary |-> isPrimary(r),
   opLog |-> IF isPrimary(r) THEN getLog(opLog[r]) ELSE <<>>,
   opNum |-> IF isPrimary(r) THEN opNum[r] ELSE 0,
   commitNum |-> IF isPrimary(r) THEN commitNum[r] ELSE 0]

\* The response is made under _repMutex; the status is not checked again.
MakeResponse(r) ==
  /\ Running(r)
  /\ prrt[r] = "popped"
  /\ repMutex[r] = "free"
  /\ prrt' = [prrt EXCEPT ![r] = "respond"]
  /\ inHand' = [inHand EXCEPT ![r] = recoveryResponse(r, @)]
  /\ UNCHANGED <<replicaState, opLog, kvMap, repMutex, repListener, faultVars,
                 Elsewhere, recoveryReqQ, prRetry, recoverVars, respVars,
                 startVars>>

\* Mutant: the status is checked as in the handler of the request.
NormalTakesResponse(b, x) ==
  recoveryResps' = IF status[b] = "NORMAL"
                   THEN [recoveryResps EXCEPT ![b] = Append(@, x)]
                   ELSE recoveryResps

\* processRecoveryResponse at replica b.
processRecoveryResponse(b, x) ==
  recoveryResps' = IF status[b] = "RECOVERING"
                   THEN [recoveryResps EXCEPT ![b] = Append(@, x)]
                   ELSE recoveryResps

\* prrt goes back to the queue.
Responded(r) ==
  /\ prrt' = [prrt EXCEPT ![r] = "idle"]
  /\ inHand' = [inHand EXCEPT ![r] = Nil]
  /\ prRetry' = [prRetry EXCEPT ![r] = FALSE]

\* The call and the handler at b; its first reply may be lost.
invokeRecoveryResponse(r, b) ==
  /\ Running(r)
  /\ prrt[r] = "respond" /\ inHand[r].to = b
  /\ Serves(b)
  /\ processRecoveryResponse(b, inHand[r])
  /\ \/ Responded(r) /\ UNCHANGED rcFaults
     \/ /\ ~prRetry[r]
        /\ Len(rcFaults) < MaxRcFault
        /\ rcFaults' = Append(rcFaults, "resent")
        /\ prRetry' = [prRetry EXCEPT ![r] = TRUE]
        /\ UNCHANGED <<prrt, inHand>>
  /\ UNCHANGED <<replicaState, opLog, kvMap, repMutex, repListener, faultVars,
                 Elsewhere, recoveryReqQ, recoverVars, initFlag, started,
                 missed>>

RecoveryResponseFails(r, b) ==
  /\ Running(r)
  /\ prrt[r] = "respond" /\ inHand[r].to = b
  /\ rcUnreachable(b)
  /\ Responded(r)
  /\ missed' = [missed EXCEPT ![b] = TRUE]
  /\ UNCHANGED <<replicaState, opLog, kvMap, repMutex, repListener, faultVars,
                 Elsewhere, recoveryReqQ, recoverVars, respVars, started>>

-----------------------------------------------------------------------------
RcStep(r) ==
  \/ Listen(r)
  \/ recover(r)
  \/ \E b \in ReplicaId : invokeRecoveryRequest(r, b)
  \/ \E b \in ReplicaId : RecoveryRequestFails(r, b)
  \/ AwaitResponses(r)
  \/ Recovered(r)
  \/ PopRecoveryReq(r)
  \/ MakeResponse(r)
  \/ \E b \in ReplicaId : invokeRecoveryResponse(r, b)
  \/ \E b \in ReplicaId : RecoveryResponseFails(r, b)

RcNext ==
  \/ VcNext /\ UNCHANGED rcVars
  \/ \E r \in ReplicaId :
       \/ CrashToRestart(r) \/ Start(r) \/ RcStep(r)
       \/ SpuriousRecovery(r) \/ RecoveryTimedOut(r)

RcSpec == RcInit /\ [][RcNext]_everyVar

\* While some replica recovers, main(), t1, t2, ppit, prrt and hbt in recover()
\* run: as long as one of them can take a step, one does.  Crashes, restarts,
\* timeouts, spurious wakeups, calls that are lost or made twice and changes of
\* the view need not happen.
ThreadStep(r) ==
  \/ RcStep(r)
  \/ (T1(r) \/ Ppit(r) \/ processCommit(r)) /\ UNCHANGED <<vcVars, rcVars>>

RcFairness ==
  WF_everyVar(/\ \E s \in ReplicaId : status[s] = "RECOVERING"
              /\ UNCHANGED rcFaults
              /\ \E r \in ReplicaId : ThreadStep(r))

RcFairSpec == RcSpec /\ RcFairness

-----------------------------------------------------------------------------
(***************************************************************************)
(* Properties.                                                             *)
(***************************************************************************)

\* No replica has begun two recoveries with one nonce.
DistinctNonces ==
  \A r \in ReplicaId : \A i, j \in DOMAIN nonces[r] :
    nonces[r][i] = nonces[r][j] => i = j

\* As long as no view change has begun, no call of replication was repeated, no
\* wait for PrepareOks woke up spuriously and no nonce was used twice: whenever
\* every replica is running and none is recovering, every operation a client
\* was told is done is in the logs of a quorum, although a replica that logged
\* it has lost its memory in between.
AckedInQuorum ==
  /\ CountsHold /\ DistinctNonces
  /\ \A r \in ReplicaId :
       viewNum[r] = 0 /\ Running(r) /\ status[r] = "NORMAL"
  => \A x \in replies : x.err = "NONE" =>
       Cardinality({r \in ReplicaId : Logs(r, x.opNum, x.op)}) >= N \div 2 + 1

\* Two replicas that are NORMAL in the same view, recovered ones included,
\* follow the same primary and agree on what is committed.
RejoinedAgrees ==
  \A r, s \in ReplicaId :
    /\ Running(r) /\ Running(s) /\ status[r] = "NORMAL" /\ status[s] = "NORMAL"
    /\ viewNum[r] = viewNum[s]
    => /\ priId[r] = priId[s]
       /\ \A n \in OpInt : isCommitted(opLog[r], n) /\ isCommitted(opLog[s], n)
            => opLog[r].entries[n] = opLog[s].entries[n]

\* A recovery whose requests all reach NORMAL replicas, and whose responses all
\* arrive, completes, unless a process dies meanwhile, the view changes, or the
\* others take the recovering replica itself for the primary.
RecoveryCompletes ==
  \A r \in Restarting :
    status[r] = "RECOVERING" /\ (\A s \in OtherReplicas(r) : priId[s] # r)
      ~> \/ status[r] = "NORMAL" \/ missed[r]
         \/ \E s \in ReplicaId : ~Running(s) \/ viewNum[s] > 0
=============================================================================
