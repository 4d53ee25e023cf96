-------------------------- MODULE ViewChangeProofs --------------------------
(***************************************************************************)
(* Proofs about view changes composed with replication: as long as no      *)
(* reply is lost, every view has one primary, elected by a majority, and   *)
(* what is announced in a view its primary has committed, and no commit    *)
(* number falls.  For every number of replicas, views, operations and      *)
(* other faults.                                                           *)
(*                                                                         *)
(* The argument: a replica that has offered a view to a candidate, or has  *)
(* settled on being led, cannot vote for the view again (Voted), so each   *)
(* info a candidate counts stands for another replica, and two candidates  *)
(* cannot both find a majority.  Whatever acts for a primary (Claims) can  *)
(* be traced to the one election (Led), from the message on its way to     *)
(* the StartView that waits in a map.                                      *)
(***************************************************************************)
EXTENDS ViewChangeHandler, FiniteSetTheorems, SequenceTheorems,
        WellFoundedInduction, TLAPS

-----------------------------------------------------------------------------
(***************************************************************************)
(* The invariant.                                                          *)
(***************************************************************************)
\* t1 is inside replicate().
Busy(r) == cpc[r] \in {"prepare", "wait", "reached", "commit"}

\* The types that the argument needs, replica by replica.
VcDomains ==
  /\ DOMAIN priId = ReplicaId /\ DOMAIN status = ReplicaId
  /\ DOMAIN viewNum = ReplicaId /\ DOMAIN opNum = ReplicaId
  /\ DOMAIN commitNum = ReplicaId /\ DOMAIN peers = ReplicaId
  /\ DOMAIN repMutex = ReplicaId /\ DOMAIN cpc = ReplicaId
  /\ DOMAIN ppc = ReplicaId /\ DOMAIN hbInfo = ReplicaId
  /\ DOMAIN todo = ReplicaId /\ DOMAIN vpc = ReplicaId
  /\ DOMAIN newPriId = ReplicaId /\ DOMAIN vcTodo = ReplicaId
  /\ DOMAIN doViewChangeMap = ReplicaId /\ DOMAIN viewChangeInfoMap = ReplicaId
  /\ DOMAIN viewStartInfoMap = ReplicaId /\ DOMAIN startViewMap = ReplicaId
  /\ DOMAIN repListener = ReplicaId

VcTypesAt(r) ==
  /\ priId[r] \in ReplicaId
  /\ viewNum[r] \in 0 .. MaxView
  /\ opNum[r] \in Nat /\ commitNum[r] \in Nat
  /\ peers[r] \in SUBSET ReplicaId /\ OtherReplicas(r) \subseteq peers[r]
  /\ hbInfo[r].viewNum \in 0 .. MaxView /\ hbInfo[r].commitNum \in Nat
  /\ DOMAIN todo[r] = Caller
  /\ DOMAIN doViewChangeMap[r] = View
  /\ DOMAIN viewChangeInfoMap[r] = View
  /\ DOMAIN viewStartInfoMap[r] = View
  /\ DOMAIN startViewMap[r] = View

VcTypes == VcDomains /\ resent \in Nat /\ \A r \in ReplicaId : VcTypesAt(r)

\* _repMutex keeps the threads of a replica apart, and a replica that changes
\* the view is not NORMAL.
MutexInv ==
  \A r \in ReplicaId :
    /\ Busy(r) => repMutex[r] = "t1"
    /\ ppc[r] = "logged" => repMutex[r] = "ppit"
    /\ vpc[r] # "none" => repMutex[r] = "hbt" /\ viewNum[r] \in View
    /\ r \notin vcTodo[r]
    /\ vpc[r] = "doViewChange" => vcTodo[r] \subseteq {newPriId[r]}
    /\ vpc[r] \notin {"none", "startView"} => status[r] # "NORMAL"
    /\ cpc[r] = "commit" => opNum[r] = commitNum[r]

\* A ViewChangeInfo and a ViewStartInfo for view v from replica w.
IsChangeInfo(x, v, w) ==
  x.viewNum = v /\ x.replicaId = w /\ x.commitNum \in Nat /\ x.opNum = x.commitNum

IsStartInfo(x, v, w) ==
  x.viewNum = v /\ x.replicaId = w /\ x.commitNum \in Nat /\ x.opNum \in Nat

\* The message that t2 of b works on, while its caller waits.
IsCommit(b) == repListener[b] # Nil /\ repListener[b].thread # "vc"
IsOffer(b) ==
  /\ repListener[b] # Nil /\ repListener[b].thread = "vc"
  /\ repListener[b].info.kind = "doViewChange"
IsStart(b) ==
  /\ repListener[b] # Nil /\ repListener[b].thread = "vc"
  /\ repListener[b].info.kind = "startView"

From(b) == repListener[b].from
MsgInv ==
  \A b \in ReplicaId :
    /\ repListener[b] # Nil =>
         /\ From(b) \in ReplicaId \ {b}
         /\ IsCommit(b) \/ IsOffer(b) \/ IsStart(b)
    /\ IsCommit(b) => /\ repListener[b].info.viewNum \in 0 .. MaxView
                      /\ repListener[b].info.commitNum \in Nat
    /\ IsOffer(b) =>
         /\ vpc[From(b)] = "doViewChange" /\ newPriId[From(b)] = b
         /\ IsChangeInfo(repListener[b].info.info, viewNum[From(b)], From(b))
    /\ IsStart(b) =>
         /\ vpc[From(b)] = "startView" /\ b \in vcTodo[From(b)]
         /\ IsStartInfo(repListener[b].info.info, viewNum[From(b)], From(b))

IsSeq(q) == q \in Seq({q[i] : i \in DOMAIN q})

\* A StartView for view v has arrived at b.
HasStart(b, v) == viewStartInfoMap[b][v] # Nil \/ startViewMap[b][v] = 1

\* The infos collected for a view are of that view, and are as many as the
\* responses counted.
InfoInv ==
  \A b \in ReplicaId : \A v \in View :
    /\ LET q == viewChangeInfoMap[b][v]
       IN  /\ IsSeq(q)
           /\ doViewChangeMap[b][v] = Len(q)
           /\ \A i \in 1 .. Len(q) :
                \E w \in ReplicaId : IsChangeInfo(q[i], v, w)
    /\ HasStart(b, v) =>
         \E w \in ReplicaId \ {b} : IsStartInfo(viewStartInfoMap[b][v], v, w)

\* Who has offered view v to b, or is b and wants it.
Voter(b, v, w) ==
  \E i \in 1 .. Len(viewChangeInfoMap[b][v]) :
    viewChangeInfoMap[b][v][i].replicaId = w

\* w cannot offer view v any more, and will not lead it.
Voted(w, v) ==
  \/ viewNum[w] > v
  \/ viewNum[w] = v /\ vpc[w] \in {"none", "haveView", "waitView"} /\ priId[w] # w

\* Without lost replies, an info is counted once, and a replica offers a view
\* to one candidate.
VoteInv ==
  \A b \in ReplicaId : \A v \in View :
    /\ \A i, j \in 1 .. Len(viewChangeInfoMap[b][v]) :
         viewChangeInfoMap[b][v][i].replicaId = viewChangeInfoMap[b][v][j].replicaId
           => i = j
    /\ \A w \in ReplicaId : Voter(b, v, w) =>
         /\ w # b => Voted(w, v)
         /\ w = b => \/ viewNum[b] > v
                     \/ /\ viewNum[b] = v
                        /\ vpc[b] \notin {"startViewChange", "waitRequests"}
         /\ \A c \in ReplicaId : Voter(c, v, w) /\ w # b /\ w # c => b = c

\* The part of w in the election of p for view v is over and cannot be undone.
SpentFor(w, v, p) ==
  /\ w # p => Voted(w, v)
  /\ w = p => \/ viewNum[p] > v
              \/ viewNum[p] = v /\ vpc[p] \in {"none", "startView"}
  /\ \A b \in ReplicaId : b # w /\ b # p => ~Voter(b, v, w)

\* p was elected for view v.
Led(p, v) ==
  /\ SpentFor(p, v, p)
  /\ \E Q \in SUBSET ReplicaId :
       /\ Cardinality(Q) >= N \div 2 + 1
       /\ \A w \in Q : SpentFor(w, v, p)

\* Somebody acts on p being the primary of view v.
Claims(p, v) ==
  \/ \E s \in ReplicaId : status[s] = "NORMAL" /\ viewNum[s] = v /\ priId[s] = p
  \/ viewNum[p] = v /\ (Busy(p) \/ vpc[p] = "startView")
  \/ todo[p]["hbt"] # {} /\ hbInfo[p].viewNum = v
  \/ \E b \in ReplicaId : /\ IsCommit(b) /\ From(b) = p
                          /\ repListener[b].info.viewNum = v
  \/ \E b \in ReplicaId : /\ IsStart(b) /\ From(b) = p
                          /\ repListener[b].info.info.viewNum = v
  \/ \E b \in ReplicaId : /\ v \in View /\ HasStart(b, v)
                          /\ viewStartInfoMap[b][v].replicaId = p

ClaimInv ==
  \A p \in ReplicaId : \A v \in 0 .. MaxView : Claims(p, v) =>
    /\ v = 0 => p = 0
    /\ v # 0 => Led(p, v)
    /\ \A q \in ReplicaId : Claims(q, v) => p = q

\* r is NORMAL and takes itself for the primary of its view.
Rules(r) == status[r] = "NORMAL" /\ isPrimary(r)

\* What is announced in a view the primary of that view has committed.
BoundInv ==
  \A r \in ReplicaId : Rules(r) =>
    /\ commitNum[r] <= opNum[r]
    /\ \A s \in ReplicaId : status[s] = "NORMAL" /\ viewNum[s] = viewNum[r]
         => commitNum[s] <= commitNum[r]
    /\ hbInfo[r].viewNum = viewNum[r] /\ todo[r]["hbt"] # {}
         => hbInfo[r].commitNum <= commitNum[r]
    /\ \A b \in ReplicaId : 
         /\ IsCommit(b) /\ repListener[b].info.viewNum = viewNum[r]
              => repListener[b].info.commitNum <= commitNum[r]
         /\ IsStart(b) /\ repListener[b].info.info.viewNum = viewNum[r]
              => repListener[b].info.info.commitNum <= commitNum[r]
         /\ \A v \in View : v = viewNum[r] /\ HasStart(b, v)
              => viewStartInfoMap[b][v].commitNum <= commitNum[r]

StructInv == VcTypes /\ MutexInv /\ MsgInv /\ InfoInv
ViewInv == resent = 0 => VoteInv /\ ClaimInv /\ BoundInv

-----------------------------------------------------------------------------
(***************************************************************************)
(* What the steps of replication do to the variables of the invariant.     *)
(***************************************************************************)

\* Replication leaves primary, status and view alone.
LEMMA NextView == ASSUME Next PROVE UNCHANGED <<priId, status, viewNum>>
BY DEF Next, ClientRequest, Replicate, invokePrepare, CountSelf, Notified,
       SpuriousWakeup, TimedOut, StartCommit, Finish, HeartBeat, invokeCommit,
       processCommit, PopPrepInfo, LogPrepInfo, invokePrepareOk, EndPrepInfo,
       CallFails, Crash, Dies, Aborts, replicaState

\* The functions of the state stay functions of the replicas, in replication
LEMMA NextDomains ==
  ASSUME Next, UNCHANGED vcVars, VcDomains
  PROVE  VcDomains'
BY DEF Next, ClientRequest, Replicate, invokePrepare, CountSelf, Notified,
       SpuriousWakeup, TimedOut, StartCommit, Finish, HeartBeat, invokeCommit,
       processCommit, PopPrepInfo, LogPrepInfo, invokePrepareOk, EndPrepInfo,
       CallFails, Crash, Dies, Aborts, EndCommit, EndCall, ReplyToClient,
       replicaState, storage, clientVars, prepVars, rpcVars, faultVars,
       vcVars, mapVars, loopVars, VcDomains

\* The end of a call takes replicas out of broadcasts and adds none.
LEMMA EndCallHbt ==
  ASSUME VcTypes, NEW r, NEW t, NEW b, EndCall(r, t, b), NEW s \in ReplicaId
  PROVE  /\ DOMAIN todo'[s] = Caller
         /\ todo'[s]["hbt"] # {} => todo[s]["hbt"] # {}
         /\ resent' \in Nat /\ resent' >= resent
BY DEF EndCall, Caller, VcTypes, VcDomains, VcTypesAt

\* hbt announces what a NORMAL primary had committed when the broadcast began.
LEMMA NextHeartBeat ==
  ASSUME Next, VcTypes, NEW s \in ReplicaId
  PROVE  /\ DOMAIN todo'[s] = Caller
         /\ \/ /\ hbInfo'[s] = hbInfo[s]
               /\ todo'[s]["hbt"] # {} => todo[s]["hbt"] # {}
            \/ /\ Rules(s)
               /\ hbInfo'[s] = [viewNum |-> viewNum[s], commitNum |-> commitNum[s]]
         /\ resent' \in Nat /\ resent' >= resent
<1> DEFINE Goal ==
      /\ DOMAIN todo'[s] = Caller
      /\ \/ /\ hbInfo'[s] = hbInfo[s]
            /\ todo'[s]["hbt"] # {} => todo[s]["hbt"] # {}
         \/ /\ Rules(s)
            /\ hbInfo'[s] = [viewNum |-> viewNum[s], commitNum |-> commitNum[s]]
      /\ resent' \in Nat /\ resent' >= resent
<1>0. /\ DOMAIN todo = ReplicaId /\ DOMAIN hbInfo = ReplicaId
      /\ DOMAIN todo[s] = Caller /\ resent \in Nat
  BY DEF VcTypes, VcDomains, VcTypesAt
<1>1. ASSUME NEW r, NEW t, NEW b, EndCall(r, t, b), UNCHANGED hbInfo PROVE Goal
  BY <1>1, EndCallHbt
<1>2. ASSUME UNCHANGED <<todo, resent, hbInfo>> PROVE Goal
  BY <1>0, <1>2
<1>3. ASSUME NEW r \in ReplicaId, Replicate(r) PROVE Goal
  BY <1>0, <1>3 DEF Replicate, Caller, faultVars
<1>4. ASSUME NEW r \in ReplicaId, NEW t \in Caller, NEW b \in ReplicaId,
             CallFails(r, t, b)
      PROVE  Goal
  BY <1>0, <1>4 DEF CallFails, Caller
<1>5. ASSUME NEW r \in ReplicaId, HeartBeat(r) PROVE Goal
  BY <1>0, <1>5 DEF HeartBeat, Rules, Caller, faultVars
<1>6. ASSUME NEW r \in ReplicaId, processCommit(r) PROVE Goal
  BY <1>1, <1>2, <1>6 DEF processCommit, EndCommit, Aborts, Dies
<1>7. ASSUME NEW r \in ReplicaId, NEW t \in {"t1", "hbt"}, NEW b \in ReplicaId,
             invokeCommit(r, t, b)
      PROVE  Goal
  BY <1>1, <1>2, <1>7 DEF invokeCommit
<1>8. ASSUME NEW r \in ReplicaId, NEW b \in ReplicaId,
             invokePrepare(r, b) \/ invokePrepareOk(r, b)
      PROVE  Goal
  BY <1>1, <1>8 DEF invokePrepare, invokePrepareOk
<1>9. ASSUME NEW r \in ReplicaId, StartCommit(r) \/ LogPrepInfo(r) PROVE Goal
  BY <1>0, <1>9 DEF StartCommit, LogPrepInfo, Aborts, Dies, Caller, faultVars
<1>10. ASSUME NEW r \in ReplicaId,
              \/ \E op \in ClientOp : ClientRequest(r, op)
              \/ CountSelf(r) \/ Notified(r) \/ SpuriousWakeup(r) \/ TimedOut(r)
              \/ Finish(r) \/ PopPrepInfo(r) \/ EndPrepInfo(r) \/ Crash(r)
       PROVE  Goal
  BY <1>2, <1>10
  DEF ClientRequest, CountSelf, Notified, SpuriousWakeup, TimedOut, Finish,
      PopPrepInfo, EndPrepInfo, Crash, Dies, rpcVars, faultVars
<1> QED
  BY <1>3, <1>4, <1>5, <1>6, <1>7, <1>8, <1>9, <1>10 DEF Next

\* Numbers grow by one, are taken from t1's own operation, or follow a commit
\* of the replica's own view.
LEMMA NextNumbers ==
  ASSUME Next, VcTypes, MutexInv, NEW r \in ReplicaId
  PROVE  /\ opNum'[r] \in {opNum[r], opNum[r] + 1}
         /\ \/ commitNum'[r] = commitNum[r]
            \/ Busy(r) /\ commitNum'[r] = opNum[r]
            \/ /\ IsCommit(r)
               /\ repListener[r].info.viewNum = viewNum[r]
               /\ repListener[r].info.commitNum > commitNum[r]
               /\ commitNum'[r] = commitNum[r] + 1
BY DEF Next, ClientRequest, Replicate, invokePrepare, CountSelf, Notified,
       SpuriousWakeup, TimedOut, StartCommit, Finish, HeartBeat, invokeCommit,
       processCommit, PopPrepInfo, LogPrepInfo, invokePrepareOk, EndPrepInfo,
       CallFails, Crash, Dies, Aborts, EndCommit, replicaState, NextCommit,
       Busy, IsCommit, VcTypes, VcDomains, VcTypesAt

\* _repMutex, and what t1 may rely on while it holds it.
LEMMA NextMutex ==
  ASSUME Next, VcTypes, MutexInv, NEW r \in ReplicaId
  PROVE  /\ Busy(r)' => repMutex'[r] = "t1"
         /\ ppc'[r] = "logged" => repMutex'[r] = "ppit"
         /\ vpc[r] # "none" => repMutex'[r] = "hbt"
         /\ cpc'[r] = "commit" => opNum'[r] = commitNum'[r]
         /\ Busy(r)' => Busy(r) \/ Rules(r)
BY DEF Next, ClientRequest, Replicate, invokePrepare, CountSelf, Notified,
       SpuriousWakeup, TimedOut, StartCommit, Finish, HeartBeat, invokeCommit,
       processCommit, PopPrepInfo, LogPrepInfo, invokePrepareOk, EndPrepInfo,
       CallFails, Crash, Dies, Aborts, EndCommit, ReplyToClient, NextCommit,
       replicaState, clientVars, prepVars, Busy, Rules, VcTypes, VcDomains,
       MutexInv

\* A message that replication gives to t2 is a commit, by t1 or by hbt.
LEMMA NextListener ==
  ASSUME Next, VcTypes, NEW b \in ReplicaId
  PROVE  \/ repListener'[b] = repListener[b]
         \/ repListener'[b] = Nil
         \/ \E p \in ReplicaId \ {b}, t \in {"t1", "hbt"} :
              /\ repListener'[b] = [from |-> p, thread |-> t, info |-> commitInfo(p, t)]
              /\ t = "t1" => cpc[p] = "commit"
              /\ t = "hbt" => todo[p]["hbt"] # {}
BY DEF Next, ClientRequest, Replicate, invokePrepare, CountSelf, Notified,
       SpuriousWakeup, TimedOut, StartCommit, Finish, HeartBeat, invokeCommit,
       processCommit, PopPrepInfo, LogPrepInfo, invokePrepareOk, EndPrepInfo,
       CallFails, Crash, Dies, Aborts, EndCommit, Delivered, MayCall, rpcVars,
       VcTypes, VcDomains

\* Replication keeps the types.
LEMMA NextTypes ==
  ASSUME Next, UNCHANGED vcVars, VcTypes, MutexInv
  PROVE  VcTypes'
<1>1. VcDomains' /\ resent' \in Nat
  <2>1. 0 \in ReplicaId
    BY SizeAssumption DEF ReplicaId
  <2> QED
    BY <2>1, NextDomains, NextHeartBeat DEF VcTypes
<1>2. ASSUME NEW r \in ReplicaId PROVE VcTypesAt(r)'
  <2>0. VcTypesAt(r)
    BY DEF VcTypes
  <2>1. peers'[r] = peers[r] \/ peers'[r] = peers[r] \cup {priId[r]}
    BY DEF Next, ClientRequest, Replicate, invokePrepare, CountSelf, Notified,
           SpuriousWakeup, TimedOut, StartCommit, Finish, HeartBeat,
           invokeCommit, processCommit, PopPrepInfo, LogPrepInfo,
           invokePrepareOk, EndPrepInfo, CallFails, Crash, Dies, Aborts,
           storage, VcTypes, VcDomains
  <2>2. peers'[r] \in SUBSET ReplicaId /\ OtherReplicas(r) \subseteq peers'[r]
    BY <2>0, <2>1 DEF VcTypesAt
  <2>3. opNum'[r] \in Nat /\ commitNum'[r] \in Nat
    BY <2>0, NextNumbers DEF VcTypesAt
  <2>4. DOMAIN todo'[r] = Caller
    BY NextHeartBeat
  <2>5. hbInfo'[r].viewNum \in 0 .. MaxView /\ hbInfo'[r].commitNum \in Nat
    <3>1. \/ hbInfo'[r] = hbInfo[r]
          \/ hbInfo'[r] = [viewNum |-> viewNum[r], commitNum |-> commitNum[r]]
      BY NextHeartBeat
    <3> QED
      BY <2>0, <3>1 DEF VcTypesAt
  <2> QED
    BY <2>0, <2>2, <2>3, <2>4, <2>5, NextView
    DEF VcTypesAt, OtherReplicas, vcVars, mapVars
<1> QED
  BY <1>1, <1>2 DEF VcTypes

-----------------------------------------------------------------------------
(***************************************************************************)
(* What the steps of a view change do.  A replica's phase:                 *)
(***************************************************************************)
VcMove == \E r \in ReplicaId : VcStep(r) \/ SpuriousVcWakeup(r) \/ VcTimedOut(r)

SameNumbers(s) == opNum'[s] = opNum[s] /\ commitNum'[s] = commitNum[s]
SameView(s) == viewNum'[s] = viewNum[s] /\ SameNumbers(s)
SameRole(s) == SameView(s) /\ priId'[s] = priId[s]

\* Nothing, or the arrival of a StartView.
Stays(s) ==
  /\ SameRole(s) /\ vpc'[s] = vpc[s] /\ repMutex'[s] = repMutex[s]
  /\ status'[s] \in {status[s], "VIEW_CHANGE"}

\* changeView begins.
Begins(s) ==
  /\ vpc[s] = "none" /\ repMutex[s] = "free" /\ viewNum[s] < MaxView
  /\ vpc'[s] = "startViewChange" /\ repMutex'[s] = "hbt"
  /\ status'[s] = "VIEW_CHANGE" /\ viewNum'[s] = viewNum[s] + 1
  /\ priId'[s] = priId[s] /\ SameNumbers(s)

\* hbt goes on inside changeView.
Asks(s) ==
  /\ SameRole(s) /\ repMutex'[s] = repMutex[s] /\ status'[s] = status[s]
  /\ vpc[s] \in {"startViewChange", "waitRequests"}
  /\ vpc'[s] \in {"waitRequests", "doViewChange"}

Settles(s) ==
  /\ SameView(s) /\ repMutex'[s] = repMutex[s] /\ status'[s] = status[s]
  /\ vpc[s] = "doViewChange"
  /\ \/ priId'[s] = s /\ vpc'[s] \in {"haveInfos", "waitInfos"}
     \/ /\ priId'[s] \in ReplicaId \ {s}
        /\ vpc'[s] \in {"haveView", "waitView"}

\* changeView returns without a new view, or after its broadcast.
Leaves(s) ==
  /\ SameRole(s) /\ status'[s] = status[s]
  /\ vpc[s] \in {"waitRequests", "waitInfos", "waitView", "startView"}
  /\ vpc'[s] = "none" /\ repMutex'[s] = "free"

\* s becomes the primary of its view.
ElectedWith(s, info) ==
  /\ vpc[s] \in {"haveInfos", "waitInfos"} /\ vpc'[s] = "startView"
  /\ quorumReached(s, doViewChangeMap[s][viewNum[s]])
  /\ info = ScanInfos(viewChangeInfoMap[s][viewNum[s]])
  /\ repMutex'[s] = repMutex[s] /\ status'[s] = "NORMAL" /\ priId'[s] = s
  /\ viewNum'[s] = info.viewNum
  /\ opNum'[s] = info.opNum /\ commitNum'[s] = info.commitNum
Elected(s) == \E info : ElectedWith(s, info)

\* s becomes a backup in view v.
FollowsIn(s, v) ==
  /\ \/ vpc[s] \in {"haveView", "waitView"} /\ v = viewNum[s]
     \/ /\ vpc[s] = "none" /\ repMutex[s] = "free"
        /\ viewNum[s] < MaxView /\ v = viewNum[s] + 1
  /\ HasStart(s, v)
  /\ vpc'[s] = "none" /\ repMutex'[s] = "free" /\ status'[s] = "NORMAL"
  /\ priId'[s] = viewStartInfoMap[s][v].replicaId
  /\ viewNum'[s] = viewStartInfoMap[s][v].viewNum
  /\ opNum'[s] = viewStartInfoMap[s][v].opNum
  /\ commitNum'[s] = viewStartInfoMap[s][v].commitNum
Follows(s) == \E v : FollowsIn(s, v)

Phase(s) ==
  \/ Stays(s) \/ Begins(s) \/ Asks(s) \/ Settles(s) \/ Leaves(s)
  \/ Elected(s) \/ Follows(s)

\* A view change does not touch what the other threads work with.
LEMMA VcKeeps ==
  ASSUME VcMove
  PROVE  UNCHANGED <<cpc, ppc, hbInfo, todo, peers>>
<1>1. ASSUME NEW r \in ReplicaId,
             \/ changeView(r) \/ InfosArrived(r) \/ ViewArrived(r)
             \/ AssertPrimaryFails(r) \/ SpuriousVcWakeup(r) \/ VcTimedOut(r)
             \/ EndStartView(r) \/ CountOwnRequest(r) \/ RequestsArrived(r)
             \/ CandidateIsSelf(r)
      PROVE  UNCHANGED <<cpc, ppc, hbInfo, todo, peers>>
  BY <1>1
  DEF changeView, InfosArrived, BecomePrimary, ViewArrived, BecomeBackup,
      AssertPrimaryFails, SpuriousVcWakeup, VcTimedOut, EndStartView,
      CountOwnRequest, RequestsArrived, ReachedStartQuorum, CandidateIsSelf,
      Aborts, Dies, OtherThreads, storage, prepVars, clientVars
<1>2. ASSUME NEW r \in ReplicaId, NEW b \in ReplicaId,
             \/ invokeStartViewChange(r, b) \/ invokeDoViewChange(r, b)
             \/ DoViewChangeFails(r, b) \/ invokeStartView(r, b)
             \/ vcCallFails(r, b)
      PROVE  UNCHANGED <<cpc, ppc, hbInfo, todo, peers>>
  BY <1>2
  DEF invokeStartViewChange, invokeDoViewChange, DoViewChangeFails,
      invokeStartView, vcCallFails, OtherThreads, storage, prepVars, clientVars
<1>3. ASSUME NEW b \in ReplicaId, processDoViewChange(b) \/ processStartView(b)
      PROVE  UNCHANGED <<cpc, ppc, hbInfo, todo, peers>>
  BY <1>3
  DEF processDoViewChange, processStartView, Aborts, Dies, OtherThreads,
      storage, prepVars, clientVars
<1> QED
  BY <1>1, <1>2, <1>3 DEF VcMove, VcStep

\* ... and in a view change.
LEMMA VcKeepsDomains ==
  ASSUME VcMove, VcDomains
  PROVE  VcDomains'
<1> DEFINE
      A == /\ DOMAIN priId' = ReplicaId /\ DOMAIN status' = ReplicaId
           /\ DOMAIN viewNum' = ReplicaId /\ DOMAIN opNum' = ReplicaId
           /\ DOMAIN commitNum' = ReplicaId /\ DOMAIN repMutex' = ReplicaId
           /\ DOMAIN repListener' = ReplicaId
      B == /\ DOMAIN vpc' = ReplicaId /\ DOMAIN newPriId' = ReplicaId
           /\ DOMAIN vcTodo' = ReplicaId
           /\ DOMAIN doViewChangeMap' = ReplicaId
           /\ DOMAIN viewChangeInfoMap' = ReplicaId
           /\ DOMAIN viewStartInfoMap' = ReplicaId
           /\ DOMAIN startViewMap' = ReplicaId
<1>1. ASSUME NEW r \in ReplicaId,
             \/ changeView(r) \/ InfosArrived(r) \/ ViewArrived(r)
             \/ AssertPrimaryFails(r) \/ SpuriousVcWakeup(r) \/ VcTimedOut(r)
             \/ EndStartView(r) \/ CountOwnRequest(r) \/ RequestsArrived(r)
             \/ CandidateIsSelf(r)
      PROVE  A /\ B
  <2>1. A
    BY <1>1
    DEF changeView, InfosArrived, BecomePrimary, ViewArrived, BecomeBackup,
        AssertPrimaryFails, SpuriousVcWakeup, VcTimedOut, EndStartView,
        CountOwnRequest, RequestsArrived, ReachedStartQuorum, CandidateIsSelf,
        Aborts, Dies, replicaState, Adopt, AdoptState, Settle, VcDomains
  <2>2. B
    BY <1>1
    DEF changeView, InfosArrived, BecomePrimary, ViewArrived, BecomeBackup,
        AssertPrimaryFails, SpuriousVcWakeup, VcTimedOut, EndStartView,
        CountOwnRequest, RequestsArrived, ReachedStartQuorum, CandidateIsSelf,
        Settle, ClearMaps, vcVars, mapVars, loopVars, VcDomains
  <2> QED
    BY <2>1, <2>2
<1>2. ASSUME NEW r \in ReplicaId, NEW b \in ReplicaId,
             \/ invokeStartViewChange(r, b) \/ invokeDoViewChange(r, b)
             \/ DoViewChangeFails(r, b) \/ invokeStartView(r, b)
             \/ vcCallFails(r, b)
      PROVE  A /\ B
  BY <1>2
  DEF invokeStartViewChange, invokeDoViewChange, DoViewChangeFails,
      invokeStartView, vcCallFails, replicaState, Settle, Arrive, vcReturned,
      vcReplyLost, mapVars, VcDomains
<1>3. ASSUME NEW b \in ReplicaId, processDoViewChange(b) \/ processStartView(b)
      PROVE  A /\ B
  BY <1>3
  DEF processDoViewChange, processStartView, Aborts, Dies, replicaState,
      vcEndCall, Settle, vcReturned, vcReplyLost, vcVars, mapVars, loopVars,
      VcDomains
<1>4. A /\ B
  BY <1>1, <1>2, <1>3 DEF VcMove, VcStep
<1> QED
  BY <1>4, VcKeeps DEF VcDomains

\* Every step of a view change is one of these for every replica.
LEMMA VcPhases ==
  ASSUME VcMove, VcTypes, MutexInv, MsgInv, NEW s \in ReplicaId
  PROVE  Phase(s)
<1>0. /\ VcDomains
      /\ priId[s] \in ReplicaId
  BY DEF VcTypes, VcTypesAt
<1>1. ASSUME NEW r \in ReplicaId, changeView(r) PROVE Phase(s)
  <2>1. CASE BecomeBackup(r, viewNum[r] + 1)
            /\ viewStartInfoMap[r][viewNum[r] + 1] # Nil
    <3>1. Stays(s) \/ FollowsIn(s, viewNum[s] + 1)
      BY <1>0, <1>1, <2>1
      DEF changeView, MustChangeView, BecomeBackup, Adopt, AdoptState, Aborts,
          Dies, replicaState, vcVars, loopVars, VcDomains, Stays, SameRole,
          SameView, SameNumbers, FollowsIn, HasStart
    <3> QED
      BY <3>1 DEF Phase, Follows
  <2>2. CASE ~ (viewStartInfoMap[r][viewNum[r] + 1] # Nil)
    BY <1>0, <1>1, <2>2
    DEF changeView, MustChangeView, VcDomains, Phase, Stays, Begins, SameRole,
        SameView, SameNumbers
  <2> QED
    BY <1>1, <2>1, <2>2 DEF changeView
<1>2. ASSUME NEW r \in ReplicaId, InfosArrived(r) PROVE Phase(s)
  <2>1. Stays(s)
          \/ ElectedWith(s, ScanInfos(viewChangeInfoMap[s][viewNum[s]]))
    BY <1>0, <1>2
    DEF InfosArrived, BecomePrimary, Adopt, AdoptState, Aborts, Dies,
        replicaState, vcVars, loopVars, VcDomains, Stays, SameRole, SameView,
        SameNumbers, ElectedWith
  <2> QED
    BY <2>1 DEF Phase, Elected
<1>3. ASSUME NEW r \in ReplicaId, ViewArrived(r) PROVE Phase(s)
  <2>1. Stays(s) \/ FollowsIn(s, viewNum[s])
    BY <1>0, <1>3
    DEF ViewArrived, BecomeBackup, Adopt, AdoptState, Aborts, Dies,
        replicaState, vcVars, loopVars, VcDomains, Stays, SameRole, SameView,
        SameNumbers, FollowsIn, HasStart
  <2> QED
    BY <2>1 DEF Phase, Follows
<1>4. ASSUME NEW r \in ReplicaId,
             CountOwnRequest(r) \/ RequestsArrived(r)
      PROVE  Phase(s)
  BY <1>0, <1>4
  DEF CountOwnRequest, RequestsArrived, ReachedStartQuorum, replicaState,
      VcDomains, Phase, Stays, Asks, SameRole, SameView, SameNumbers
<1>5. ASSUME NEW r \in ReplicaId, NEW b \in ReplicaId,
             invokeDoViewChange(r, b) \/ DoViewChangeFails(r, b)
      PROVE  Phase(s)
  <2>1. b # r
    BY <1>5
    DEF invokeDoViewChange, DoViewChangeFails, vcDelivered, vcMayCall, MutexInv
  <2> QED
    BY <1>0, <1>5, <2>1
    DEF invokeDoViewChange, DoViewChangeFails, Arrive, Settle, AwaitView,
        doViewChangeMsg,
        VcDomains, Phase, Stays, Settles, SameRole, SameView, SameNumbers
<1>6. ASSUME NEW r \in ReplicaId, CandidateIsSelf(r) PROVE Phase(s)
  BY <1>0, <1>6
  DEF CandidateIsSelf, Settle, AwaitView, VcDomains, Phase, Stays, Settles,
      SameRole, SameView, SameNumbers
<1>7. ASSUME NEW b \in ReplicaId, processDoViewChange(b) \/ processStartView(b)
      PROVE  Phase(s)
  <2>1. repListener[b] # Nil /\ From(b) \in ReplicaId \ {b}
    BY <1>7 DEF processDoViewChange, processStartView, MsgInv
  <2>2. ASSUME vcEndCall(From(b), b),
               UNCHANGED <<status, viewNum, opNum, commitNum, repMutex>>
        PROVE  Phase(s)
    BY <1>0, <2>1, <2>2
    DEF vcEndCall, Settle, AwaitView, VcDomains, Phase, Stays, Settles,
        SameRole, SameView, SameNumbers
  <2>3. ASSUME Aborts(b), UNCHANGED vcVars PROVE Phase(s)
    BY <1>0, <2>3
    DEF Aborts, Dies, replicaState, vcVars, loopVars, Phase, Stays, SameRole,
        SameView, SameNumbers
  <2> QED
    BY <1>7, <2>2, <2>3 DEF processDoViewChange, processStartView, From
<1>8. ASSUME NEW r \in ReplicaId, NEW b \in ReplicaId,
             \/ invokeStartViewChange(r, b) \/ invokeStartView(r, b)
             \/ vcCallFails(r, b)
      PROVE  Phase(s)
  BY <1>0, <1>8
  DEF invokeStartViewChange, invokeStartView, vcCallFails, Arrive,
      startViewMsg, replicaState, VcDomains, Phase, Stays, SameRole, SameView,
      SameNumbers
<1>9. ASSUME NEW r \in ReplicaId,
             \/ EndStartView(r) \/ AssertPrimaryFails(r)
             \/ SpuriousVcWakeup(r) \/ VcTimedOut(r)
      PROVE  Phase(s)
  BY <1>0, <1>9
  DEF EndStartView, AssertPrimaryFails, SpuriousVcWakeup, VcTimedOut, Aborts,
      Dies, replicaState, vcVars, loopVars, VcDomains, Phase, Stays, Leaves,
      SameRole, SameView, SameNumbers
<1> QED
  BY <1>1, <1>2, <1>3, <1>4, <1>5, <1>6, <1>7, <1>8, <1>9 DEF VcMove, VcStep

-----------------------------------------------------------------------------
(***************************************************************************)
(* Sequences.                                                              *)
(***************************************************************************)
\* Append adds one element, at the end.
LEMMA AppendFacts ==
  ASSUME NEW q, IsSeq(q), NEW e
  PROVE  LET a == Append(q, e)
         IN  /\ IsSeq(a) /\ Len(q) \in Nat /\ Len(a) = Len(q) + 1
             /\ \A i \in 1 .. Len(q) : a[i] = q[i]
             /\ a[Len(a)] = e
<1> DEFINE S == {q[i] : i \in DOMAIN q} \cup {e}
           a == Append(q, e)
<1>1. q \in Seq(S)
  <2>1. q \in [1 .. Len(q) -> {q[i] : i \in DOMAIN q}] /\ Len(q) \in Nat
    BY LenProperties DEF IsSeq
  <2>2. q \in [1 .. Len(q) -> S]
    BY <2>1
  <2> QED
    BY <2>1, <2>2, IsASeq
<1>2. /\ a \in Seq(S) /\ Len(a) = Len(q) + 1
      /\ \A i \in 1 .. Len(q) : a[i] = q[i]
      /\ a[Len(q) + 1] = e
  BY <1>1, AppendProperties
<1>3. a \in [1 .. Len(a) -> S] /\ Len(a) \in Nat /\ Len(q) \in Nat
  BY <1>1, <1>2, LenProperties
<1> HIDE DEF a
<1>4. a \in [1 .. Len(a) -> {a[i] : i \in DOMAIN a}]
  BY <1>3
<1>5. a \in Seq({a[i] : i \in DOMAIN a})
  BY <1>3, <1>4, IsASeq
<1> QED
  BY <1>2, <1>3, <1>5 DEF IsSeq, a

\* The empty sequence.
LEMMA EmptyFacts == IsSeq(<<>>) /\ Len(<<>>) = 0
BY EmptySeq DEF IsSeq

\* A nonempty set of natural numbers has a least element.
LEMMA LeastElement ==
  ASSUME NEW T \in SUBSET Nat, T # {}
  PROVE  \E m \in T : \A n \in T : m <= n
<1>1. IsWellFoundedOn(OpToRel(<, Nat), Nat)
  BY NatLessThanWellFounded
<1>2. \E m \in T : \A n \in T : ~ (<<n, m>> \in OpToRel(<, Nat))
  BY <1>1, WFMin
<1>3. \E m \in T : \A n \in T : ~ (n < m)
  BY <1>2 DEF OpToRel
<1>4. ASSUME NEW m \in T, \A n \in T : ~ (n < m) PROVE \A n \in T : m <= n
  BY <1>4
<1> QED
  BY <1>3, <1>4

\* The scan of updateNewView ends on one of the infos it was given.
LEMMA ScanPicks ==
  ASSUME NEW q, Len(q) \in Nat \ {0}
  PROVE  \E i \in 1 .. Len(q) : ScanInfos(q) = q[i]
<1> DEFINE
      G(p, x, i) ==
        IF x.oldViewNum = p.view
        THEN IF x.opNum > p.op
             THEN [idx |-> i, view |-> p.view, op |-> x.opNum]
             ELSE p
        ELSE IF x.oldViewNum > p.view
             THEN [idx |-> i, view |-> x.oldViewNum, op |-> p.op]
             ELSE p
      c == [idx |-> 1, view |-> q[1].oldViewNum, op |-> q[1].opNum]
      Scans(f, n) ==
        f = [i \in 1 .. n |-> IF i = 1 THEN c ELSE G(f[i - 1], q[i], i)]
      scan == CHOOSE f : Scans(f, Len(q))
<1> HIDE DEF G, c, Scans
<1>1. \A n \in Nat \ {0} : \E f : Scans(f, n)
  <2> DEFINE T == {n \in Nat \ {0} : ~ \E f : Scans(f, n)}
  <2>1. SUFFICES ASSUME T # {} PROVE FALSE
    OBVIOUS
  <2>2. PICK m \in T : \A n \in T : m <= n
    BY <2>1, LeastElement
  <2>3. CASE m = 1
    <3>1. Scans([i \in 1 .. 1 |-> c], 1)
      BY DEF Scans
    <3> QED
      BY <2>2, <2>3, <3>1
  <2>4. CASE m # 1
    <3>1. m - 1 \in Nat \ {0} /\ m - 1 \notin T
      BY <2>2, <2>4
    <3>2. PICK f : Scans(f, m - 1)
      BY <3>1
    <3> DEFINE g == [i \in 1 .. m |-> IF i = m THEN G(f[m - 1], q[m], m) ELSE f[i]]
    <3>3. f = [i \in 1 .. m - 1 |-> IF i = 1 THEN c ELSE G(f[i - 1], q[i], i)]
      BY <3>2 DEF Scans
    <3>4. \A i \in 1 .. m :
            g[i] = IF i = 1 THEN c ELSE G(g[i - 1], q[i], i)
      <4>1. TAKE i \in 1 .. m
      <4>2. CASE i = m
        <5>1. g[i - 1] = f[m - 1]
          BY <3>1, <4>2
        <5> QED
          BY <2>4, <4>2, <5>1
      <4>3. CASE i # m
        <5>1. i \in 1 .. m - 1 /\ g[i] = f[i]
          BY <3>1, <4>3
        <5>2. i # 1 => g[i - 1] = f[i - 1]
          BY <3>1, <5>1
        <5>3. f[i] = IF i = 1 THEN c ELSE G(f[i - 1], q[i], i)
          BY <3>3, <5>1
        <5> QED
          BY <5>1, <5>2, <5>3
      <4> QED
        BY <4>2, <4>3
    <3>5. Scans(g, m)
      BY <3>4 DEF Scans
    <3> QED
      BY <2>2, <3>5
  <2> QED
    BY <2>3, <2>4
<1>2. Scans(scan, Len(q))
  BY <1>1
<1>3. scan = [i \in 1 .. Len(q) |-> IF i = 1 THEN c ELSE G(scan[i - 1], q[i], i)]
  BY <1>2 DEF Scans
<1>4. ScanInfos(q) = q[scan[Len(q)].idx]
  BY DEF ScanInfos, Scans, G, c
<1> HIDE DEF scan
<1>5. \A i \in 1 .. Len(q) : scan[i].idx \in 1 .. i
  <2> DEFINE T == {i \in 1 .. Len(q) : scan[i].idx \notin 1 .. i}
  <2>1. SUFFICES ASSUME T # {} PROVE FALSE
    OBVIOUS
  <2>a. T \in SUBSET Nat
    OBVIOUS
  <2>2. PICK m \in T : \A n \in T : m <= n
    BY <2>1, <2>a, LeastElement
  <2>3. CASE m = 1
    BY <1>3, <2>2, <2>3 DEF c
  <2>4. CASE m # 1
    <3>1. m - 1 \in 1 .. Len(q) /\ m - 1 \notin T
      BY <2>2, <2>4
    <3>2. scan[m] = G(scan[m - 1], q[m], m)
      BY <1>3, <2>2, <2>4
    <3>3. scan[m].idx \in {scan[m - 1].idx, m}
      BY <3>2 DEF G
    <3> QED
      BY <2>2, <3>1, <3>3
  <2> QED
    BY <2>3, <2>4
<1> QED
  BY <1>4, <1>5

-----------------------------------------------------------------------------
(***************************************************************************)
(* What they do to the maps of a replica, and to the message t2 works on.  *)
(***************************************************************************)
InfosKept(b) ==
  /\ viewChangeInfoMap'[b] = viewChangeInfoMap[b]
  /\ doViewChangeMap'[b] = doViewChangeMap[b]

InfosCleared(b) ==
  /\ viewChangeInfoMap'[b] = [v \in View |-> <<>>]
  /\ doViewChangeMap'[b] = [v \in View |-> 0]

InfoCounted(b, v, info) ==
  /\ viewChangeInfoMap'[b] = [viewChangeInfoMap[b] EXCEPT ![v] = Append(@, info)]
  /\ doViewChangeMap'[b] = [doViewChangeMap[b] EXCEPT ![v] = @ + 1]

\* b records its own info ...
CountsOwn(b) ==
  /\ InfoCounted(b, viewNum[b], viewChangeInfo(b))
  /\ vpc[b] \in {"startViewChange", "waitRequests"}
  /\ vpc'[b] = "doViewChange" /\ viewNum'[b] = viewNum[b]

\* ... or the one that it is offered, which settles the caller unless the
\* reply is lost.
CountsOffer(b) ==
  /\ IsOffer(b)
  /\ InfoCounted(b, repListener[b].info.info.viewNum, repListener[b].info.info)
  /\ \/ resent' = resent + 1
     \/ /\ vpc'[From(b)] \in {"haveView", "waitView"} /\ priId'[From(b)] = b
        /\ viewNum'[From(b)] = viewNum[From(b)]

InfoStep(b) == InfosKept(b) \/ InfosCleared(b) \/ CountsOwn(b) \/ CountsOffer(b)

StartKept(b) ==
  /\ viewStartInfoMap'[b] = viewStartInfoMap[b]
  /\ startViewMap'[b] = startViewMap[b]

StartCleared(b) ==
  /\ viewStartInfoMap'[b] = [v \in View |-> Nil]
  /\ startViewMap'[b] = [v \in View |-> 0]

StartRecorded(b) ==
  LET info == repListener[b].info.info
  IN  /\ IsStart(b)
      /\ viewStartInfoMap'[b] =
           [viewStartInfoMap[b] EXCEPT ![info.viewNum] = info]
      /\ startViewMap'[b] = [startViewMap[b] EXCEPT ![info.viewNum] = 1]

StartStep(b) == StartKept(b) \/ StartCleared(b) \/ StartRecorded(b)

\* A step keeps, clears or extends by one the infos of a replica.
LEMMA VcInfos ==
  ASSUME VcMove, VcTypes, MutexInv, MsgInv, NEW s \in ReplicaId
  PROVE  InfoStep(s)
<1>0. VcDomains
  BY DEF VcTypes
<1>1. ASSUME NEW r \in ReplicaId,
             CountOwnRequest(r) \/ RequestsArrived(r)
      PROVE  InfoStep(s)
  <2>1. ASSUME ReachedStartQuorum(r),
               vpc[r] \in {"startViewChange", "waitRequests"}
        PROVE  InfosKept(s) \/ CountsOwn(s)
    BY <1>0, <2>1
    DEF ReachedStartQuorum, replicaState, VcDomains, InfosKept, CountsOwn,
        InfoCounted
  <2>2. ReachedStartQuorum(r) \/ UNCHANGED <<viewChangeInfoMap, doViewChangeMap>>
    BY <1>1 DEF CountOwnRequest, RequestsArrived
  <2>3. vpc[r] \in {"startViewChange", "waitRequests"}
    BY <1>1 DEF CountOwnRequest, RequestsArrived
  <2> QED
    BY <2>1, <2>2, <2>3 DEF InfoStep, InfosKept
<1>2. ASSUME NEW b \in ReplicaId, processDoViewChange(b)
      PROVE  InfoStep(s)
  <2>1. repListener[b] # Nil /\ From(b) \in ReplicaId \ {b} /\ IsOffer(b)
        /\ vpc[From(b)] = "doViewChange"
    BY <1>2 DEF processDoViewChange, MsgInv, IsOffer
  <2>2. \/ resent' = resent + 1
        \/ /\ vpc'[From(b)] \in {"haveView", "waitView"} /\ priId'[From(b)] = b
           /\ viewNum'[From(b)] = viewNum[From(b)]
    BY <1>0, <1>2, <2>1
    DEF processDoViewChange, vcEndCall, vcReturned, vcReplyLost, Settle,
        AwaitView, From, VcDomains
  <2>3. IF s = b THEN InfoCounted(b, repListener[b].info.info.viewNum,
                                     repListener[b].info.info)
                 ELSE InfosKept(s)
    BY <1>0, <1>2 DEF processDoViewChange, VcDomains, InfoCounted, InfosKept
  <2> QED
    BY <2>1, <2>2, <2>3 DEF InfoStep, CountsOffer
<1>3. ASSUME NEW r \in ReplicaId, changeView(r) \/ ViewArrived(r) \/ EndStartView(r)
      PROVE  InfoStep(s)
  BY <1>0, <1>3
  DEF changeView, ViewArrived, BecomeBackup, EndStartView, ClearMaps, mapVars,
      vcVars, VcDomains, InfoStep, InfosKept, InfosCleared
<1>4. ASSUME NEW r \in ReplicaId, NEW b \in ReplicaId,
             \/ invokeStartViewChange(r, b) \/ invokeDoViewChange(r, b)
             \/ DoViewChangeFails(r, b) \/ invokeStartView(r, b)
             \/ vcCallFails(r, b) \/ processStartView(r) \/ InfosArrived(r)
             \/ AssertPrimaryFails(r) \/ SpuriousVcWakeup(r) \/ VcTimedOut(r)
             \/ CandidateIsSelf(r)
      PROVE  InfoStep(s)
  BY <1>4
  DEF invokeStartViewChange, invokeDoViewChange, DoViewChangeFails,
      invokeStartView, vcCallFails, processStartView, InfosArrived,
      BecomePrimary, AssertPrimaryFails, SpuriousVcWakeup, VcTimedOut,
      CandidateIsSelf, mapVars, vcVars, InfoStep, InfosKept
<1> QED
  BY <1>1, <1>2, <1>3, <1>4 DEF VcMove, VcStep

\* A step keeps, clears or records the StartView of a replica.
LEMMA VcStarts ==
  ASSUME VcMove, VcTypes, NEW s \in ReplicaId
  PROVE  StartStep(s)
<1>0. VcDomains
  BY DEF VcTypes
<1>1. ASSUME NEW b \in ReplicaId, processStartView(b)
      PROVE  StartStep(s)
  BY <1>0, <1>1
  DEF processStartView, vcVars, mapVars, VcDomains, StartStep, StartKept,
      StartRecorded, IsStart
<1>2. ASSUME NEW r \in ReplicaId, changeView(r) \/ ViewArrived(r) \/ EndStartView(r)
      PROVE  StartStep(s)
  BY <1>0, <1>2
  DEF changeView, ViewArrived, BecomeBackup, EndStartView, ClearMaps, mapVars,
      vcVars, VcDomains, StartStep, StartKept, StartCleared
<1>3. ASSUME NEW r \in ReplicaId, NEW b \in ReplicaId,
             \/ invokeStartViewChange(r, b) \/ invokeDoViewChange(r, b)
             \/ DoViewChangeFails(r, b) \/ invokeStartView(r, b)
             \/ vcCallFails(r, b) \/ processDoViewChange(r) \/ InfosArrived(r)
             \/ AssertPrimaryFails(r) \/ SpuriousVcWakeup(r) \/ VcTimedOut(r)
             \/ CandidateIsSelf(r) \/ CountOwnRequest(r) \/ RequestsArrived(r)
      PROVE  StartStep(s)
  BY <1>3
  DEF invokeStartViewChange, invokeDoViewChange, DoViewChangeFails,
      invokeStartView, vcCallFails, processDoViewChange, InfosArrived,
      BecomePrimary, AssertPrimaryFails, SpuriousVcWakeup, VcTimedOut,
      CandidateIsSelf, CountOwnRequest, RequestsArrived, ReachedStartQuorum,
      mapVars, vcVars, StartStep, StartKept
<1> QED
  BY <1>1, <1>2, <1>3 DEF VcMove, VcStep

\* The caller r of a handler stays where it was.
OfferStands(r, b) ==
  /\ vpc'[r] = "doViewChange" /\ newPriId'[r] = b /\ viewNum'[r] = viewNum[r]
StartStands(r, b) ==
  /\ vpc'[r] = "startView" /\ b \in vcTodo'[r] /\ viewNum'[r] = viewNum[r]

NewMsg(b, r, msg) ==
  repListener'[b] = [from |-> r, thread |-> "vc", info |-> msg]

MsgStep(b) ==
  \/ repListener'[b] = repListener[b]
  \/ repListener'[b] = Nil
  \/ \E r \in ReplicaId \ {b} :
       \/ /\ NewMsg(b, r, doViewChangeMsg(r))
          /\ vpc[r] = "doViewChange" /\ OfferStands(r, b)
       \/ /\ NewMsg(b, r, startViewMsg(r))
          /\ vpc[r] = "startView" /\ StartStands(r, b)

\* t2 keeps its message, finishes it, or gets one from a caller that then waits.
LEMMA VcMessages ==
  ASSUME VcMove, VcTypes, MutexInv, NEW s \in ReplicaId
  PROVE  MsgStep(s)
<1>0. VcDomains
  BY DEF VcTypes
<1>1. ASSUME NEW r \in ReplicaId, NEW b \in ReplicaId, invokeDoViewChange(r, b)
      PROVE  MsgStep(s)
  <2>1. b # r /\ b = newPriId[r]
    BY <1>1 DEF invokeDoViewChange, vcDelivered, vcMayCall, MutexInv
  <2> QED
    BY <1>0, <1>1, <2>1
    DEF invokeDoViewChange, Arrive, VcDomains, MsgStep, NewMsg, OfferStands,
        doViewChangeMsg
<1>2. ASSUME NEW r \in ReplicaId, NEW b \in ReplicaId, invokeStartView(r, b)
      PROVE  MsgStep(s)
  <2>1. b # r /\ b \in vcTodo[r]
    BY <1>2 DEF invokeStartView, vcDelivered, vcMayCall, MutexInv
  <2> QED
    BY <1>0, <1>2, <2>1
    DEF invokeStartView, Arrive, VcDomains, MsgStep, NewMsg, StartStands,
        startViewMsg
<1>3. ASSUME NEW r \in ReplicaId, NEW b \in ReplicaId,
             \/ invokeStartViewChange(r, b) \/ DoViewChangeFails(r, b)
             \/ vcCallFails(r, b) \/ processDoViewChange(r) \/ processStartView(r)
             \/ changeView(r) \/ InfosArrived(r) \/ ViewArrived(r)
             \/ AssertPrimaryFails(r) \/ SpuriousVcWakeup(r) \/ VcTimedOut(r)
             \/ CandidateIsSelf(r) \/ CountOwnRequest(r) \/ RequestsArrived(r)
             \/ EndStartView(r)
      PROVE  repListener'[s] \in {repListener[s], Nil}
  BY <1>0, <1>3
  DEF invokeStartViewChange, DoViewChangeFails, vcCallFails, EndStartView,
      processDoViewChange, processStartView, changeView, InfosArrived,
      BecomePrimary, ViewArrived, BecomeBackup, AssertPrimaryFails,
      SpuriousVcWakeup, VcTimedOut, CandidateIsSelf, CountOwnRequest,
      RequestsArrived, ReachedStartQuorum, Aborts, Dies, VcDomains
<1> QED
  BY <1>1, <1>2, <1>3 DEF VcMove, VcStep, MsgStep

\* While t2 of b works on its message, the caller r waits.
LEMMA CallersWait ==
  ASSUME VcMove, VcTypes, MutexInv, MsgInv, NEW b \in ReplicaId,
         repListener'[b] = repListener[b]
  PROVE  /\ IsOffer(b) => OfferStands(From(b), b)
         /\ IsStart(b) => StartStands(From(b), b)
<1> DEFINE w == From(b)
           Goal == /\ IsOffer(b) => OfferStands(w, b)
                   /\ IsStart(b) => StartStands(w, b)
<1>0. VcDomains
  BY DEF VcTypes
<1>1. SUFFICES ASSUME IsOffer(b) \/ IsStart(b) PROVE Goal
  OBVIOUS
<1>2. /\ repListener[b] # Nil /\ w \in ReplicaId \ {b} /\ repListener[b].from = w
      /\ IsOffer(b) => vpc[w] = "doViewChange" /\ newPriId[w] = b
      /\ IsStart(b) => vpc[w] = "startView" /\ b \in vcTodo[w]
      /\ ~ (IsOffer(b) /\ IsStart(b))
  BY <1>1 DEF MsgInv, IsOffer, IsStart, From
<1> HIDE DEF w
<1>3. ASSUME NEW r \in ReplicaId, NEW c \in ReplicaId,
             \/ invokeStartViewChange(r, c) \/ invokeDoViewChange(r, c)
             \/ DoViewChangeFails(r, c) \/ invokeStartView(r, c)
             \/ vcCallFails(r, c)
      PROVE  Goal
  <2>1. r # w
    BY <1>2, <1>3
    DEF invokeStartViewChange, invokeDoViewChange, DoViewChangeFails,
        invokeStartView, vcCallFails, vcDelivered, vcMayCall, Blocked
  <2> QED
    BY <1>0, <1>2, <1>3, <2>1
    DEF invokeStartViewChange, invokeDoViewChange, DoViewChangeFails,
        invokeStartView, vcCallFails, vcReturned, vcReplyLost, Arrive, Settle,
        replicaState, VcDomains, OfferStands, StartStands
<1>4. ASSUME NEW c \in ReplicaId, processDoViewChange(c) \/ processStartView(c)
      PROVE  Goal
  <2>1. CASE Aborts(c) /\ UNCHANGED vcVars
    BY <1>2, <2>1
    DEF Aborts, Dies, replicaState, vcVars, loopVars, OfferStands, StartStands
  <2>2. CASE /\ vcEndCall(From(c), c) /\ repListener[c] # Nil
             /\ repListener'[c] = Nil /\ UNCHANGED <<viewNum, newPriId>>
    <3>1. c # b
      BY <1>2, <2>2
    <3>2. From(c) = w => vpc[w] = "startView"
      <4>1. IsOffer(c) \/ IsStart(c)
        BY <1>4 DEF processDoViewChange, processStartView, IsOffer, IsStart
      <4> QED
        BY <1>1, <1>2, <3>1, <4>1 DEF MsgInv
    <3>3. CASE From(c) = w
      BY <1>0, <1>2, <2>2, <3>1, <3>2, <3>3
      DEF vcEndCall, vcReturned, vcReplyLost, OfferStands, StartStands,
          VcDomains
    <3>4. CASE From(c) # w
      BY <1>0, <1>2, <2>2, <3>4
      DEF vcEndCall, vcReturned, vcReplyLost, Settle, OfferStands, StartStands,
          VcDomains
    <3> QED
      BY <3>3, <3>4
  <2> QED
    BY <1>0, <1>4, <2>1, <2>2
    DEF processDoViewChange, processStartView, From, VcDomains
<1>5. ASSUME NEW r \in ReplicaId,
             \/ changeView(r) \/ InfosArrived(r) \/ ViewArrived(r)
             \/ AssertPrimaryFails(r) \/ SpuriousVcWakeup(r) \/ VcTimedOut(r)
             \/ CandidateIsSelf(r) \/ CountOwnRequest(r) \/ RequestsArrived(r)
             \/ EndStartView(r)
      PROVE  Goal
  BY <1>0, <1>2, <1>5
  DEF changeView, MustChangeView, InfosArrived, BecomePrimary, ViewArrived,
      BecomeBackup, AssertPrimaryFails, SpuriousVcWakeup, VcTimedOut,
      CandidateIsSelf, CountOwnRequest, RequestsArrived, ReachedStartQuorum,
      EndStartView, Adopt, AdoptState, Settle, Aborts, Dies, replicaState,
      vcVars, loopVars, VcDomains, OfferStands, StartStands
<1>6. Goal
  BY <1>3, <1>4, <1>5 DEF VcMove, VcStep
<1> QED
  BY <1>6

-----------------------------------------------------------------------------
(***************************************************************************)
(* The structural part of the invariant.                                   *)
(***************************************************************************)

\* The replicas other than r are in its map: a quorum is a majority.
LEMMA QuorumIsMajority ==
  ASSUME VcTypes, NEW r \in ReplicaId, NEW cnt \in Nat, quorumReached(r, cnt)
  PROVE  cnt >= N \div 2 + 1
<1>1. IsFiniteSet(ReplicaId) /\ Cardinality(ReplicaId) = N
  BY SizeAssumption, FS_Interval DEF ReplicaId
<1>2. IsFiniteSet(OtherReplicas(r)) /\ Cardinality(OtherReplicas(r)) = N - 1
  BY <1>1, FS_RemoveElement DEF OtherReplicas
<1>3. peers[r] \in SUBSET ReplicaId /\ OtherReplicas(r) \in SUBSET peers[r]
  BY DEF VcTypes, VcTypesAt
<1>4. IsFiniteSet(peers[r]) /\ Cardinality(peers[r]) \in Nat
  BY <1>1, <1>3, FS_Subset, FS_CardinalityType
<1>5. Cardinality(peers[r]) >= N - 1
  BY <1>2, <1>3, <1>4, FS_Subset
<1> QED
  BY <1>4, <1>5, SizeAssumption DEF quorumReached, getMajorityCnt

\* What a new primary adopts.
LEMMA ElectedInfo ==
  ASSUME StructInv, NEW s \in ReplicaId, Elected(s)
  PROVE  /\ viewNum[s] \in View /\ viewNum'[s] = viewNum[s]
         /\ commitNum'[s] \in Nat /\ opNum'[s] = commitNum'[s]
         /\ Len(viewChangeInfoMap[s][viewNum[s]]) >= N \div 2 + 1
<1> DEFINE v == viewNum[s]
           q == viewChangeInfoMap[s][v]
<1>1. PICK info : ElectedWith(s, info)
  BY DEF Elected
<1>2. v \in View
  BY <1>1 DEF ElectedWith, StructInv, MutexInv
<1>3. /\ IsSeq(q) /\ doViewChangeMap[s][v] = Len(q)
      /\ \A i \in 1 .. Len(q) : \E w \in ReplicaId : IsChangeInfo(q[i], v, w)
  BY <1>2 DEF StructInv, InfoInv
<1>4. Len(q) \in Nat
  BY <1>3, LenProperties DEF IsSeq
<1>5. Len(q) >= N \div 2 + 1
  BY <1>1, <1>3, <1>4, QuorumIsMajority DEF ElectedWith, StructInv
<1>6. Len(q) \in Nat \ {0}
  BY <1>4, <1>5, SizeAssumption
<1>7. PICK i \in 1 .. Len(q) : info = q[i]
  BY <1>1, <1>6, ScanPicks DEF ElectedWith
<1>8. PICK w \in ReplicaId : IsChangeInfo(info, v, w)
  BY <1>3, <1>7
<1> QED
  BY <1>1, <1>2, <1>5, <1>8 DEF ElectedWith, IsChangeInfo

\* What a backup adopts.
LEMMA FollowsInfo ==
  ASSUME StructInv, NEW s \in ReplicaId, NEW v, FollowsIn(s, v)
  PROVE  /\ v \in View /\ viewNum'[s] = v
         /\ commitNum'[s] \in Nat /\ opNum'[s] \in Nat
         /\ priId'[s] \in ReplicaId \ {s}
<1>0. /\ viewNum[s] \in 0 .. MaxView /\ MaxView \in Nat
      /\ vpc[s] # "none" => viewNum[s] \in View
  BY ViewAssumption DEF StructInv, MutexInv, VcTypes, VcTypesAt
<1>1. v \in View
  BY <1>0 DEF FollowsIn, View
<1>2. PICK w \in ReplicaId \ {s} : IsStartInfo(viewStartInfoMap[s][v], v, w)
  BY <1>1 DEF FollowsIn, StructInv, InfoInv
<1> QED
  BY <1>1, <1>2 DEF FollowsIn, IsStartInfo

\* The view of a replica never falls, and what it is in a view at rest.
LEMMA PhaseViews ==
  ASSUME StructInv, NEW s \in ReplicaId, Phase(s)
  PROVE  /\ viewNum'[s] \in 0 .. MaxView /\ viewNum'[s] >= viewNum[s]
         /\ priId'[s] \in ReplicaId
         /\ opNum'[s] \in Nat /\ commitNum'[s] \in Nat
<1>0. /\ viewNum[s] \in 0 .. MaxView /\ priId[s] \in ReplicaId
      /\ opNum[s] \in Nat /\ commitNum[s] \in Nat /\ MaxView \in Nat
  BY ViewAssumption DEF StructInv, VcTypes, VcTypesAt
<1>1. CASE Stays(s) \/ Begins(s) \/ Asks(s) \/ Settles(s) \/ Leaves(s)
  BY <1>0, <1>1
  DEF Stays, Begins, Asks, Settles, Leaves, SameRole, SameView, SameNumbers
<1>2. CASE Elected(s)
  <2>1. priId'[s] = s
    BY <1>2 DEF Elected, ElectedWith
  <2> QED
    BY <1>0, <1>2, <2>1, ElectedInfo
<1>3. CASE Follows(s)
  <2>1. PICK v : FollowsIn(s, v)
    BY <1>3 DEF Follows
  <2>2. v >= viewNum[s] /\ v \in View
    BY <1>0, <2>1, FollowsInfo DEF FollowsIn
  <2> QED
    BY <1>0, <2>1, <2>2, FollowsInfo DEF View
<1> QED
  BY <1>1, <1>2, <1>3 DEF Phase

\* A view change counts the replies it loses.
LEMMA VcResent ==
  ASSUME VcMove, resent \in Nat
  PROVE  resent' \in Nat /\ resent' >= resent
<1>1. ASSUME NEW r \in ReplicaId,
             \/ changeView(r) \/ InfosArrived(r) \/ ViewArrived(r)
             \/ AssertPrimaryFails(r) \/ SpuriousVcWakeup(r) \/ VcTimedOut(r)
             \/ EndStartView(r) \/ CountOwnRequest(r) \/ RequestsArrived(r)
             \/ CandidateIsSelf(r)
      PROVE  resent' = resent
  BY <1>1
  DEF changeView, InfosArrived, BecomePrimary, ViewArrived, BecomeBackup,
      AssertPrimaryFails, SpuriousVcWakeup, VcTimedOut, EndStartView,
      CountOwnRequest, RequestsArrived, ReachedStartQuorum, CandidateIsSelf,
      Aborts, Dies, faultVars
<1>2. ASSUME NEW r \in ReplicaId, NEW b \in ReplicaId,
             \/ invokeStartViewChange(r, b) \/ invokeDoViewChange(r, b)
             \/ DoViewChangeFails(r, b) \/ invokeStartView(r, b)
             \/ vcCallFails(r, b)
      PROVE  resent' \in {resent, resent + 1}
  BY <1>2
  DEF invokeStartViewChange, invokeDoViewChange, DoViewChangeFails,
      invokeStartView, vcCallFails, vcReturned, vcReplyLost, Arrive
<1>3. ASSUME NEW b \in ReplicaId, processDoViewChange(b) \/ processStartView(b)
      PROVE  resent' \in {resent, resent + 1}
  BY <1>3
  DEF processDoViewChange, processStartView, Aborts, Dies, vcEndCall,
      vcReturned, vcReplyLost
<1>4. resent' \in {resent, resent + 1}
  BY <1>1, <1>2, <1>3 DEF VcMove, VcStep
<1> QED
  BY <1>4

\* A view change keeps the types,
LEMMA VcTypesKept ==
  ASSUME VcMove, StructInv
  PROVE  VcTypes'
<1>0. VcTypes /\ MutexInv /\ MsgInv
  BY DEF StructInv
<1>1. VcDomains' /\ resent' \in Nat
  BY <1>0, VcKeepsDomains, VcResent DEF VcTypes
<1>2. ASSUME NEW r \in ReplicaId PROVE VcTypesAt(r)'
  <2>1. VcTypesAt(r)
    BY <1>0 DEF VcTypes
  <2>2. /\ priId'[r] \in ReplicaId /\ viewNum'[r] \in 0 .. MaxView
        /\ opNum'[r] \in Nat /\ commitNum'[r] \in Nat
    BY <1>0, VcPhases, PhaseViews
  <2>3. DOMAIN doViewChangeMap'[r] = View /\ DOMAIN viewChangeInfoMap'[r] = View
    <3>1. InfoStep(r)
      BY <1>0, VcInfos
    <3> QED
      BY <2>1, <3>1
      DEF InfoStep, InfosKept, InfosCleared, CountsOwn, CountsOffer,
          InfoCounted, VcTypesAt
  <2>4. DOMAIN viewStartInfoMap'[r] = View /\ DOMAIN startViewMap'[r] = View
    <3>1. StartStep(r)
      BY <1>0, VcStarts
    <3> QED
      BY <2>1, <3>1
      DEF StartStep, StartKept, StartCleared, StartRecorded, VcTypesAt
  <2> QED
    BY <2>1, <2>2, <2>3, <2>4, VcKeeps DEF VcTypesAt, OtherReplicas
<1> QED
  BY <1>1, <1>2 DEF VcTypes

\* hbt calls one candidate at a time, and never its own replica.
LEMMA VcTargets ==
  ASSUME VcMove, VcTypes, MutexInv, MsgInv, NEW s \in ReplicaId
  PROVE  /\ s \notin vcTodo'[s]
         /\ vpc'[s] = "doViewChange" => vcTodo'[s] \subseteq {newPriId'[s]}
<1> DEFINE Goal ==
      /\ s \notin vcTodo'[s]
      /\ vpc'[s] = "doViewChange" => vcTodo'[s] \subseteq {newPriId'[s]}
<1>0. /\ VcDomains
      /\ s \notin vcTodo[s]
      /\ vpc[s] = "doViewChange" => vcTodo[s] \subseteq {newPriId[s]}
  BY DEF VcTypes, MutexInv
<1>1. ASSUME NEW r \in ReplicaId, NEW b \in ReplicaId,
             \/ invokeStartViewChange(r, b) \/ invokeDoViewChange(r, b)
             \/ DoViewChangeFails(r, b) \/ invokeStartView(r, b)
             \/ vcCallFails(r, b)
      PROVE  Goal
  BY <1>0, <1>1
  DEF invokeStartViewChange, invokeDoViewChange, DoViewChangeFails,
      invokeStartView, vcCallFails, vcReturned, vcReplyLost, Arrive, Settle,
      AwaitView, VcDomains
<1>2. ASSUME NEW r, NEW b, vcEndCall(r, b), UNCHANGED newPriId PROVE Goal
  BY <1>0, <1>2 DEF vcEndCall, vcReturned, vcReplyLost, Settle, AwaitView, VcDomains
<1>3. ASSUME UNCHANGED vcVars PROVE Goal
  BY <1>0, <1>3 DEF vcVars, loopVars
<1>4. ASSUME NEW b \in ReplicaId, processDoViewChange(b) \/ processStartView(b)
      PROVE  Goal
  BY <1>2, <1>3, <1>4 DEF processDoViewChange, processStartView
<1>5. ASSUME NEW r \in ReplicaId, ReachedStartQuorum(r) PROVE Goal
  BY <1>0, <1>5 DEF ReachedStartQuorum, VcDomains
<1>6. ASSUME NEW r \in ReplicaId,
             \/ changeView(r) \/ InfosArrived(r) \/ ViewArrived(r)
             \/ AssertPrimaryFails(r) \/ SpuriousVcWakeup(r) \/ VcTimedOut(r)
             \/ EndStartView(r) \/ CandidateIsSelf(r)
      PROVE  Goal
  BY <1>0, <1>3, <1>6
  DEF changeView, InfosArrived, BecomePrimary, ViewArrived, BecomeBackup,
      AssertPrimaryFails, SpuriousVcWakeup, VcTimedOut, EndStartView,
      CandidateIsSelf, Settle, AwaitView, VcDomains
<1>7. ASSUME NEW r \in ReplicaId, CountOwnRequest(r) \/ RequestsArrived(r)
      PROVE  Goal
  BY <1>0, <1>5, <1>7 DEF CountOwnRequest, RequestsArrived, VcDomains
<1> QED
  BY <1>1, <1>4, <1>6, <1>7 DEF VcMove, VcStep

\* ... leaves the threads of a replica apart,
LEMMA VcMutexKept ==
  ASSUME VcMove, StructInv
  PROVE  MutexInv'
<1>0. VcTypes /\ MutexInv /\ MsgInv
  BY DEF StructInv
<1>1. UNCHANGED <<cpc, ppc>>
  BY VcKeeps
<1> SUFFICES ASSUME NEW r \in ReplicaId
             PROVE  /\ Busy(r)' => repMutex'[r] = "t1"
                    /\ ppc'[r] = "logged" => repMutex'[r] = "ppit"
                    /\ vpc'[r] # "none" => repMutex'[r] = "hbt" /\ viewNum'[r] \in View
                    /\ r \notin vcTodo'[r]
                    /\ vpc'[r] = "doViewChange" => vcTodo'[r] \subseteq {newPriId'[r]}
                    /\ vpc'[r] \notin {"none", "startView"} => status'[r] # "NORMAL"
                    /\ cpc'[r] = "commit" => opNum'[r] = commitNum'[r]
  BY DEF MutexInv, Busy
<1>2. /\ viewNum[r] \in 0 .. MaxView /\ MaxView \in Nat
      /\ Busy(r) => repMutex[r] = "t1"
      /\ ppc[r] = "logged" => repMutex[r] = "ppit"
      /\ vpc[r] # "none" => repMutex[r] = "hbt" /\ viewNum[r] \in View
      /\ vpc[r] \notin {"none", "startView"} => status[r] # "NORMAL"
      /\ cpc[r] = "commit" => opNum[r] = commitNum[r]
  BY <1>0, ViewAssumption DEF VcTypes, VcTypesAt, MutexInv
<1>3. Phase(r)
  BY <1>0, VcPhases
<1>4. /\ Busy(r)' => repMutex'[r] = "t1"
      /\ ppc'[r] = "logged" => repMutex'[r] = "ppit"
  BY <1>1, <1>2, <1>3
  DEF Phase, Stays, Begins, Asks, Settles, Leaves, Elected, ElectedWith,
      Follows, FollowsIn, SameRole, SameView, SameNumbers, Busy
<1>5. vpc'[r] # "none" => repMutex'[r] = "hbt" /\ viewNum'[r] \in View
  <2>1. CASE Elected(r)
    BY <1>2, <2>1, ElectedInfo DEF Elected, ElectedWith
  <2>2. CASE ~ Elected(r)
    BY <1>2, <1>3, <2>2
    DEF Phase, Stays, Begins, Asks, Settles, Leaves, Follows, FollowsIn,
        SameRole, SameView, SameNumbers, View
  <2> QED
    BY <2>1, <2>2
<1>6. vpc'[r] \notin {"none", "startView"} => status'[r] # "NORMAL"
  BY <1>2, <1>3
  DEF Phase, Stays, Begins, Asks, Settles, Leaves, Elected, ElectedWith,
      Follows, FollowsIn, SameRole, SameView, SameNumbers
<1>7. cpc'[r] = "commit" => opNum'[r] = commitNum'[r]
  BY <1>1, <1>2, <1>3
  DEF Phase, Stays, Begins, Asks, Settles, Leaves, Elected, ElectedWith,
      Follows, FollowsIn, SameRole, SameView, SameNumbers, Busy
<1> QED
  BY <1>0, <1>4, <1>5, <1>6, <1>7, VcTargets

\* ... keeps the caller of a handler waiting for it,
LEMMA VcMsgKept ==
  ASSUME VcMove, StructInv
  PROVE  MsgInv'
<1>0. VcTypes /\ MutexInv /\ MsgInv
  BY DEF StructInv
<1> SUFFICES ASSUME NEW b \in ReplicaId, repListener'[b] # Nil
             PROVE  /\ From(b)' \in ReplicaId \ {b}
                    /\ \/ /\ IsCommit(b)'
                          /\ repListener'[b].info.viewNum \in 0 .. MaxView
                          /\ repListener'[b].info.commitNum \in Nat
                          /\ ~ IsOffer(b)' /\ ~ IsStart(b)'
                       \/ /\ IsOffer(b)' /\ ~ IsCommit(b)' /\ ~ IsStart(b)'
                          /\ vpc'[From(b)'] = "doViewChange"
                          /\ newPriId'[From(b)'] = b
                          /\ IsChangeInfo(repListener'[b].info.info,
                                          viewNum'[From(b)'], From(b)')
                       \/ /\ IsStart(b)' /\ ~ IsCommit(b)' /\ ~ IsOffer(b)'
                          /\ vpc'[From(b)'] = "startView"
                          /\ b \in vcTodo'[From(b)']
                          /\ IsStartInfo(repListener'[b].info.info,
                                         viewNum'[From(b)'], From(b)')
  BY Zenon DEF MsgInv, IsCommit, IsOffer, IsStart, From, IsChangeInfo, IsStartInfo
<1>1. CASE repListener'[b] = repListener[b]
  <2>1. /\ IsOffer(b) => OfferStands(From(b), b)
        /\ IsStart(b) => StartStands(From(b), b)
    BY <1>0, <1>1, CallersWait
  <2> QED
    BY <1>0, <1>1, <2>1
    DEF MsgInv, IsCommit, IsOffer, IsStart, From, OfferStands, StartStands,
        IsChangeInfo, IsStartInfo
<1>2. ASSUME NEW r \in ReplicaId \ {b}, NewMsg(b, r, doViewChangeMsg(r)),
             OfferStands(r, b)
      PROVE  /\ From(b)' = r
             /\ IsOffer(b)' /\ ~ IsCommit(b)' /\ ~ IsStart(b)'
             /\ IsChangeInfo(repListener'[b].info.info, viewNum'[r], r)
  <2>1. commitNum[r] \in Nat
    BY <1>0 DEF VcTypes, VcTypesAt
  <2> QED
    BY <1>2, <2>1
    DEF NewMsg, doViewChangeMsg, viewChangeInfo, OfferStands, IsCommit, IsOffer,
        IsStart, From, IsChangeInfo
<1>3. ASSUME NEW r \in ReplicaId \ {b}, NewMsg(b, r, startViewMsg(r)),
             StartStands(r, b)
      PROVE  /\ From(b)' = r
             /\ IsStart(b)' /\ ~ IsCommit(b)' /\ ~ IsOffer(b)'
             /\ IsStartInfo(repListener'[b].info.info, viewNum'[r], r)
  <2>1. commitNum[r] \in Nat /\ opNum[r] \in Nat
    BY <1>0 DEF VcTypes, VcTypesAt
  <2> QED
    BY <1>3, <2>1
    DEF NewMsg, startViewMsg, viewStartInfo, StartStands, IsCommit, IsOffer,
        IsStart, From, IsStartInfo
<1>4. MsgStep(b)
  BY <1>0, VcMessages
<1>5. ASSUME NEW r \in ReplicaId \ {b}, NewMsg(b, r, doViewChangeMsg(r)),
             OfferStands(r, b)
      PROVE  /\ vpc'[From(b)'] = "doViewChange"
             /\ newPriId'[From(b)'] = b
  BY <1>2, <1>5 DEF OfferStands
<1>6. ASSUME NEW r \in ReplicaId \ {b}, NewMsg(b, r, startViewMsg(r)),
             StartStands(r, b)
      PROVE  /\ vpc'[From(b)'] = "startView"
             /\ b \in vcTodo'[From(b)']
  BY <1>3, <1>6 DEF StartStands
<1> QED
  BY <1>1, <1>2, <1>3, <1>4, <1>5, <1>6 DEF MsgStep

\* ... and counts an info exactly when it records it.
LEMMA VcInfoKept ==
  ASSUME VcMove, StructInv
  PROVE  InfoInv'
<1>0. VcTypes /\ MutexInv /\ MsgInv /\ InfoInv
  BY DEF StructInv
<1>1. ASSUME NEW b \in ReplicaId, NEW v \in View
      PROVE  LET q == viewChangeInfoMap'[b][v]
             IN  /\ IsSeq(q)
                 /\ doViewChangeMap'[b][v] = Len(q)
                 /\ \A i \in 1 .. Len(q) :
                      \E w \in ReplicaId : IsChangeInfo(q[i], v, w)
  <2> DEFINE p == viewChangeInfoMap[b][v]
             q == viewChangeInfoMap'[b][v]
             Goal == /\ IsSeq(q)
                     /\ doViewChangeMap'[b][v] = Len(q)
                     /\ \A i \in 1 .. Len(q) :
                          \E w \in ReplicaId : IsChangeInfo(q[i], v, w)
  <2>0. /\ IsSeq(p) /\ doViewChangeMap[b][v] = Len(p)
        /\ \A i \in 1 .. Len(p) : \E w \in ReplicaId : IsChangeInfo(p[i], v, w)
        /\ DOMAIN viewChangeInfoMap[b] = View /\ DOMAIN doViewChangeMap[b] = View
    BY <1>0 DEF InfoInv, VcTypes, VcTypesAt
  <2>1. ASSUME q = p, doViewChangeMap'[b][v] = doViewChangeMap[b][v] PROVE Goal
    BY <2>0, <2>1
  <2>2. ASSUME NEW w \in ReplicaId, NEW u, NEW info, IsChangeInfo(info, u, w),
               InfoCounted(b, u, info)
        PROVE  Goal
    <3>1. CASE u = v
      <4>1. q = Append(p, info) /\ doViewChangeMap'[b][v] = Len(p) + 1
        BY <2>0, <2>2, <3>1 DEF InfoCounted
      <4> HIDE DEF p, q
      <4>2. /\ IsSeq(q) /\ Len(p) \in Nat /\ Len(q) = Len(p) + 1
            /\ \A i \in 1 .. Len(p) : q[i] = p[i]
            /\ q[Len(q)] = info
        BY <2>0, <4>1, AppendFacts
      <4>3. \A i \in 1 .. Len(q) : i \in 1 .. Len(p) \/ i = Len(q)
        BY <4>2
      <4>4. \A i \in 1 .. Len(q) : \E x \in ReplicaId : IsChangeInfo(q[i], v, x)
        BY <2>0, <2>2, <3>1, <4>2, <4>3
      <4> QED
        BY <4>1, <4>2, <4>4
    <3>2. CASE u # v
      <4>1. q = p /\ doViewChangeMap'[b][v] = doViewChangeMap[b][v]
        BY <2>0, <2>2, <3>2 DEF InfoCounted
      <4> QED
        BY <2>1, <4>1
    <3> QED
      BY <3>1, <3>2
  <2>3. CASE InfosKept(b)
    BY <2>1, <2>3 DEF InfosKept
  <2>4. CASE InfosCleared(b)
    <3>1. q = <<>> /\ doViewChangeMap'[b][v] = 0
      BY <2>4 DEF InfosCleared
    <3> QED
      BY <3>1, EmptyFacts
  <2>5. CASE CountsOwn(b)
    <3>1. IsChangeInfo(viewChangeInfo(b), viewNum[b], b)
      BY <1>0 DEF IsChangeInfo, viewChangeInfo, VcTypes, VcTypesAt
    <3> QED
      BY <2>2, <2>5, <3>1 DEF CountsOwn
  <2>6. CASE CountsOffer(b)
    <3> DEFINE info == repListener[b].info.info
    <3>1. From(b) \in ReplicaId /\ IsChangeInfo(info, viewNum[From(b)], From(b))
      BY <1>0, <2>6 DEF CountsOffer, MsgInv, IsOffer
    <3>2. IsChangeInfo(info, info.viewNum, From(b))
      BY <3>1 DEF IsChangeInfo
    <3> QED
      BY <2>2, <2>6, <3>1, <3>2 DEF CountsOffer
  <2>7. InfoStep(b)
    BY <1>0, VcInfos
  <2> QED
    BY <2>3, <2>4, <2>5, <2>6, <2>7 DEF InfoStep
<1>2. ASSUME NEW b \in ReplicaId, NEW v \in View, HasStart(b, v)'
      PROVE  \E w \in ReplicaId \ {b} : IsStartInfo(viewStartInfoMap'[b][v], v, w)
  <2>0. DOMAIN viewStartInfoMap[b] = View /\ DOMAIN startViewMap[b] = View
    BY <1>0 DEF VcTypes, VcTypesAt
  <2>1. CASE StartKept(b)
    <3>1. HasStart(b, v) /\ viewStartInfoMap'[b][v] = viewStartInfoMap[b][v]
      BY <1>2, <2>1 DEF StartKept, HasStart
    <3> QED
      BY <1>0, <3>1 DEF InfoInv
  <2>2. CASE StartCleared(b)
    BY <1>2, <2>2 DEF StartCleared, HasStart
  <2>3. CASE StartRecorded(b)
    <3> DEFINE info == repListener[b].info.info
    <3>1. /\ From(b) \in ReplicaId \ {b}
          /\ IsStartInfo(info, viewNum[From(b)], From(b))
      BY <1>0, <2>3 DEF StartRecorded, MsgInv, IsStart
    <3>2. CASE v = info.viewNum
      <4>1. viewStartInfoMap'[b][v] = info
        BY <2>0, <2>3, <3>2 DEF StartRecorded
      <4>2. IsStartInfo(info, v, From(b))
        BY <3>1, <3>2 DEF IsStartInfo
      <4> QED
        BY <3>1, <4>1, <4>2
    <3>3. CASE v # info.viewNum
      <4>1. HasStart(b, v) /\ viewStartInfoMap'[b][v] = viewStartInfoMap[b][v]
        BY <1>2, <2>0, <2>3, <3>3 DEF StartRecorded, HasStart
      <4> QED
        BY <1>0, <4>1 DEF InfoInv
    <3> QED
      BY <3>2, <3>3
  <2>4. StartStep(b)
    BY <1>0, VcStarts
  <2> QED
    BY <2>1, <2>2, <2>3, <2>4 DEF StartStep
<1> QED
  BY <1>1, <1>2 DEF InfoInv

\* Replication keeps the structural part, too.
LEMMA NextStruct ==
  ASSUME Next, UNCHANGED vcVars, StructInv
  PROVE  StructInv'
<1>0. VcTypes /\ MutexInv /\ MsgInv /\ InfoInv
  BY DEF StructInv
<1>1. UNCHANGED <<priId, status, viewNum>> /\ UNCHANGED vcVars
  BY NextView
<1>2. VcTypes'
  BY <1>0, NextTypes
<1>3. MutexInv'
  <2> SUFFICES ASSUME NEW r \in ReplicaId
               PROVE  /\ Busy(r)' => repMutex'[r] = "t1"
                      /\ ppc'[r] = "logged" => repMutex'[r] = "ppit"
                      /\ vpc[r] # "none" => repMutex'[r] = "hbt" /\ viewNum[r] \in View
                      /\ r \notin vcTodo[r]
                      /\ vpc[r] = "doViewChange" => vcTodo[r] \subseteq {newPriId[r]}
                      /\ vpc[r] \notin {"none", "startView"} => status[r] # "NORMAL"
                      /\ cpc'[r] = "commit" => opNum'[r] = commitNum'[r]
    BY <1>1, Zenon DEF MutexInv, Busy, vcVars, loopVars
  <2> QED
    BY <1>0, NextMutex DEF MutexInv
<1>4. MsgInv'
  <2> SUFFICES ASSUME NEW b \in ReplicaId
               PROVE  /\ repListener'[b] # Nil =>
                           /\ From(b)' \in ReplicaId \ {b}
                           /\ IsCommit(b)' \/ IsOffer(b)' \/ IsStart(b)'
                      /\ IsCommit(b)' =>
                           /\ repListener'[b].info.viewNum \in 0 .. MaxView
                           /\ repListener'[b].info.commitNum \in Nat
                      /\ IsOffer(b)' \/ IsStart(b)'
                           => repListener'[b] = repListener[b]
    <3>1. ASSUME NEW b \in ReplicaId, repListener'[b] = repListener[b]
          PROVE  /\ IsOffer(b)' =>
                     /\ vpc'[From(b)'] = "doViewChange" /\ newPriId'[From(b)'] = b
                     /\ IsChangeInfo(repListener'[b].info.info,
                                     viewNum'[From(b)'], From(b)')
                 /\ IsStart(b)' =>
                     /\ vpc'[From(b)'] = "startView" /\ b \in vcTodo'[From(b)']
                     /\ IsStartInfo(repListener'[b].info.info,
                                    viewNum'[From(b)'], From(b)')
      BY <1>0, <1>1, <3>1
      DEF MsgInv, IsOffer, IsStart, From, vcVars, loopVars, IsChangeInfo,
          IsStartInfo
    <3> QED
      BY <3>1, Zenon DEF MsgInv, IsChangeInfo, IsStartInfo, From
  <2>1. CASE repListener'[b] = repListener[b]
    BY <1>0, <2>1 DEF MsgInv, IsCommit, IsOffer, IsStart, From
  <2>2. CASE repListener'[b] = Nil
    BY <2>2 DEF IsCommit, IsOffer, IsStart
  <2>3. ASSUME NEW p \in ReplicaId \ {b}, NEW t \in {"t1", "hbt"},
               repListener'[b] = [from |-> p, thread |-> t, info |-> commitInfo(p, t)]
        PROVE  /\ From(b)' \in ReplicaId \ {b}
               /\ ~ IsOffer(b)' /\ ~ IsStart(b)'
               /\ repListener'[b] # Nil => IsCommit(b)'
               /\ repListener'[b].info.viewNum \in 0 .. MaxView
               /\ repListener'[b].info.commitNum \in Nat
    BY <1>0, <2>3
    DEF IsCommit, IsOffer, IsStart, From, commitInfo, VcTypes, VcTypesAt
  <2> QED
    BY <1>0, <2>1, <2>2, <2>3, NextListener
<1>5. InfoInv'
  BY <1>0, <1>1 DEF InfoInv, HasStart, vcVars, mapVars
<1> QED
  BY <1>2, <1>3, <1>4, <1>5 DEF StructInv

\* The structural part of the invariant is inductive.
LEMMA StepStruct ==
  ASSUME StructInv, [VcNext]_allVars
  PROVE  StructInv'
<1>1. CASE Next /\ UNCHANGED vcVars
  BY <1>1, NextStruct
<1>2. CASE VcMove
  BY <1>2, VcTypesKept, VcMutexKept, VcMsgKept, VcInfoKept DEF StructInv
<1>3. CASE UNCHANGED allVars
  BY <1>3
  DEF allVars, vars, replicaState, storage, clientVars, prepVars, rpcVars,
      faultVars, vcVars, mapVars, loopVars, StructInv, VcTypes, VcDomains,
      VcTypesAt, OtherReplicas, MutexInv, Busy, MsgInv, IsCommit, IsOffer,
      IsStart, From, InfoInv, HasStart
<1> QED
  BY <1>1, <1>2, <1>3 DEF VcNext, VcMove

-----------------------------------------------------------------------------
(***************************************************************************)
(* Votes.                                                                  *)
(***************************************************************************)

\* A replica at rest in a view stays at rest until it leaves the view.
LEMMA PhaseRests ==
  ASSUME StructInv, NEW s \in ReplicaId, Phase(s)
  PROVE  viewNum'[s] = viewNum[s] =>
           /\ vpc[s] \in {"none", "startView"} => vpc'[s] \in {"none", "startView"}
           /\ vpc[s] \notin {"startViewChange", "waitRequests"}
                => vpc'[s] \notin {"startViewChange", "waitRequests"}
           /\ vpc[s] \in {"none", "haveView", "waitView"} /\ priId[s] # s
                => /\ vpc'[s] \in {"none", "haveView", "waitView"}
                   /\ priId'[s] # s
<1>0. viewNum[s] \in 0 .. MaxView
  BY DEF StructInv, VcTypes, VcTypesAt
<1>1. CASE Stays(s) \/ Begins(s) \/ Asks(s) \/ Settles(s) \/ Leaves(s) \/ Elected(s)
  BY <1>0, <1>1
  DEF Stays, Begins, Asks, Settles, Leaves, Elected, ElectedWith, SameRole,
      SameView, SameNumbers
<1>2. CASE Follows(s)
  <2>1. PICK v : FollowsIn(s, v)
    BY <1>2 DEF Follows
  <2>2. viewNum'[s] = v /\ priId'[s] # s
    BY <2>1, FollowsInfo
  <2> QED
    BY <1>0, <2>1, <2>2 DEF FollowsIn
<1> QED
  BY <1>1, <1>2 DEF Phase

\* A replica that can no longer offer a view never can again.
LEMMA VotedStays ==
  ASSUME StructInv, StructInv', VcMove,
         NEW w \in ReplicaId, NEW v \in View, Voted(w, v)
  PROVE  Voted(w, v)'
<1>1. Phase(w)
  BY VcPhases DEF StructInv
<1>2. /\ viewNum[w] \in Nat /\ viewNum'[w] \in Nat /\ v \in Nat
      /\ viewNum'[w] >= viewNum[w]
  BY <1>1, PhaseViews, ViewAssumption DEF StructInv, VcTypes, VcTypesAt, View
<1> QED
  BY <1>1, <1>2, PhaseRests DEF Voted

\* Where the infos of a replica come from.
LEMMA NewVoter ==
  ASSUME StructInv, VcMove, resent = 0, resent' = 0,
         NEW b \in ReplicaId, NEW v \in View
  PROVE  LET p == viewChangeInfoMap[b][v]
             q == viewChangeInfoMap'[b][v]
         IN  /\ Len(p) \in Nat
             /\ \/ q = p
                \/ Len(q) = 0
                \/ /\ Len(q) = Len(p) + 1
                   /\ \A i \in 1 .. Len(p) : q[i] = p[i]
                   /\ \/ /\ q[Len(q)].replicaId = b
                         /\ vpc[b] \in {"startViewChange", "waitRequests"}
                         /\ viewNum[b] = v
                         /\ vpc'[b] = "doViewChange" /\ viewNum'[b] = v
                      \/ \E w \in ReplicaId \ {b} :
                           /\ q[Len(q)].replicaId = w
                           /\ vpc[w] = "doViewChange" /\ newPriId[w] = b
                           /\ viewNum[w] = v /\ viewNum'[w] = v
                           /\ vpc'[w] \in {"haveView", "waitView"}
                           /\ priId'[w] = b
<1> DEFINE p == viewChangeInfoMap[b][v]
           q == viewChangeInfoMap'[b][v]
<1>0. /\ IsSeq(p) /\ DOMAIN viewChangeInfoMap[b] = View
  BY DEF StructInv, InfoInv, VcTypes, VcTypesAt
<1>1. Len(p) \in Nat
  BY <1>0, LenProperties DEF IsSeq
<1>2. ASSUME NEW u, NEW info, InfoCounted(b, u, info)
      PROVE  IF u = v THEN q = Append(p, info) ELSE q = p
  BY <1>0, <1>2 DEF InfoCounted
<1>3. ASSUME NEW info, q = Append(p, info)
      PROVE  /\ Len(q) = Len(p) + 1 /\ q[Len(q)] = info
             /\ \A i \in 1 .. Len(p) : q[i] = p[i]
  <2> HIDE DEF p, q
  <2> QED
    BY <1>0, <1>3, AppendFacts
<1>4. CASE InfosKept(b)
  BY <1>1, <1>4 DEF InfosKept
<1>5. CASE InfosCleared(b)
  <2>1. q = <<>>
    BY <1>5 DEF InfosCleared
  <2> QED
    BY <1>1, <2>1, EmptyFacts
<1>6. CASE CountsOwn(b)
  <2>1. viewChangeInfo(b).replicaId = b
    BY DEF viewChangeInfo
  <2>2. IF viewNum[b] = v THEN q = Append(p, viewChangeInfo(b)) ELSE q = p
    BY <1>2, <1>6 DEF CountsOwn
  <2>3. CASE viewNum[b] = v
    <3>1. /\ Len(q) = Len(p) + 1 /\ q[Len(q)] = viewChangeInfo(b)
          /\ \A i \in 1 .. Len(p) : q[i] = p[i]
      BY <1>3, <2>2, <2>3
    <3> HIDE DEF p, q
    <3> QED
      BY <1>1, <1>6, <2>1, <2>3, <3>1 DEF CountsOwn, p, q
  <2> QED
    BY <1>1, <2>2, <2>3
<1>7. CASE CountsOffer(b)
  <2> DEFINE info == repListener[b].info.info
             w == From(b)
  <2>1. /\ w \in ReplicaId \ {b} /\ vpc[w] = "doViewChange" /\ newPriId[w] = b
        /\ info.viewNum = viewNum[w] /\ info.replicaId = w
    BY <1>7 DEF CountsOffer, StructInv, MsgInv, IsOffer, IsChangeInfo
  <2>2. IF info.viewNum = v THEN q = Append(p, info) ELSE q = p
    BY <1>2, <1>7 DEF CountsOffer
  <2>3. /\ vpc'[w] \in {"haveView", "waitView"} /\ priId'[w] = b
        /\ viewNum'[w] = viewNum[w]
    BY <1>7 DEF CountsOffer
  <2>4. CASE info.viewNum = v
    <3>1. /\ Len(q) = Len(p) + 1 /\ q[Len(q)] = info
          /\ \A i \in 1 .. Len(p) : q[i] = p[i]
      BY <1>3, <2>2, <2>4
    <3>2. q[Len(q)].replicaId = w /\ viewNum[w] = v
      BY <2>1, <2>4, <3>1
    <3> HIDE DEF p, q, w, info
    <3> QED
      BY <1>1, <2>1, <2>3, <3>1, <3>2 DEF p, q
  <2> QED
    BY <1>1, <2>2, <2>4
<1> QED
  BY <1>4, <1>5, <1>6, <1>7, VcInfos DEF StructInv, InfoStep

\* Who is a voter after a step and was not before.
LEMMA VoterStep ==
  ASSUME StructInv, VcMove, resent = 0, resent' = 0,
         NEW b \in ReplicaId, NEW v \in View, NEW w \in ReplicaId, Voter(b, v, w)'
  PROVE  \/ Voter(b, v, w)
         \/ /\ w = b /\ vpc[b] \in {"startViewChange", "waitRequests"}
            /\ viewNum[b] = v /\ vpc'[b] = "doViewChange" /\ viewNum'[b] = v
         \/ /\ w # b /\ vpc[w] = "doViewChange" /\ newPriId[w] = b
            /\ viewNum[w] = v /\ viewNum'[w] = v
            /\ vpc'[w] \in {"haveView", "waitView"} /\ priId'[w] = b
<1> DEFINE p == viewChangeInfoMap[b][v]
           q == viewChangeInfoMap'[b][v]
<1>1. PICK i \in 1 .. Len(q) : q[i].replicaId = w
  BY DEF Voter
<1>2. \A j \in 1 .. Len(p) : p[j].replicaId = w => Voter(b, v, w)
  BY DEF Voter
<1>3. CASE i \in 1 .. Len(p) /\ q[i] = p[i]
  BY <1>1, <1>2, <1>3
<1> HIDE DEF p, q
<1>4. CASE ~ (i \in 1 .. Len(p) /\ q[i] = p[i])
  <2>1. /\ Len(q) = Len(p) + 1 /\ i = Len(q)
        /\ \/ /\ q[Len(q)].replicaId = b
              /\ vpc[b] \in {"startViewChange", "waitRequests"}
              /\ viewNum[b] = v
              /\ vpc'[b] = "doViewChange" /\ viewNum'[b] = v
           \/ \E x \in ReplicaId \ {b} :
                /\ q[Len(q)].replicaId = x
                /\ vpc[x] = "doViewChange" /\ newPriId[x] = b
                /\ viewNum[x] = v /\ viewNum'[x] = v
                /\ vpc'[x] \in {"haveView", "waitView"}
                /\ priId'[x] = b
    BY <1>1, <1>4, NewVoter DEF p, q
  <2> QED
    BY <1>1, <2>1
<1> QED
  BY <1>3, <1>4

\* A view change keeps the votes: a replica offers a view to one candidate, and
\* is counted once.
LEMMA VcVotes ==
  ASSUME StructInv, StructInv', VcMove, resent = 0, resent' = 0, VoteInv
  PROVE  VoteInv'
<1> SUFFICES ASSUME NEW b \in ReplicaId, NEW v \in View
             PROVE  /\ \A i, j \in 1 .. Len(viewChangeInfoMap'[b][v]) :
                         viewChangeInfoMap'[b][v][i].replicaId
                           = viewChangeInfoMap'[b][v][j].replicaId => i = j
                    /\ \A w \in ReplicaId : Voter(b, v, w)' =>
                         /\ w # b => Voted(w, v)'
                         /\ w = b => \/ viewNum'[b] > v
                                     \/ /\ viewNum'[b] = v
                                        /\ vpc'[b] \notin {"startViewChange", "waitRequests"}
                         /\ \A c \in ReplicaId :
                              Voter(c, v, w)' /\ w # b /\ w # c => b = c
  BY Zenon DEF VoteInv
<1>0. /\ v \in Nat
      /\ \A s \in ReplicaId : /\ viewNum[s] \in Nat /\ viewNum'[s] \in Nat
                              /\ viewNum'[s] >= viewNum[s]
  BY VcPhases, PhaseViews, ViewAssumption DEF StructInv, VcTypes, VcTypesAt, View
<1>1. \A i, j \in 1 .. Len(viewChangeInfoMap'[b][v]) :
         viewChangeInfoMap'[b][v][i].replicaId
           = viewChangeInfoMap'[b][v][j].replicaId => i = j
  <2> DEFINE p == viewChangeInfoMap[b][v]
             q == viewChangeInfoMap'[b][v]
  <2>1. \A i, j \in 1 .. Len(p) : p[i].replicaId = p[j].replicaId => i = j
    BY DEF VoteInv
  <2>2. CASE q = p
    BY <2>1, <2>2
  <2>3. CASE Len(q) = 0
    BY <2>3
  <2>4. CASE /\ Len(p) \in Nat /\ Len(q) = Len(p) + 1
             /\ \A i \in 1 .. Len(p) : q[i] = p[i]
             /\ \A i \in 1 .. Len(p) : p[i].replicaId # q[Len(q)].replicaId
    <3> HIDE DEF p, q
    <3>1. \A i \in 1 .. Len(q) : i \in 1 .. Len(p) \/ i = Len(q)
      BY <2>4
    <3>2. \A i, j \in 1 .. Len(q) : q[i].replicaId = q[j].replicaId => i = j
      BY <2>1, <2>4, <3>1
    <3> QED
      BY <3>2 DEF q
  <2>5. ASSUME NEW w \in ReplicaId, Voter(b, v, w)
        PROVE  /\ w = b => ~ (viewNum[b] = v
                              /\ vpc[b] \in {"startViewChange", "waitRequests"})
               /\ w # b => ~ (viewNum[w] = v /\ vpc[w] = "doViewChange")
    BY <1>0, <2>5 DEF VoteInv, Voted
  <2>6. ASSUME NEW i \in 1 .. Len(p), NEW w \in ReplicaId, p[i].replicaId = w
        PROVE  Voter(b, v, w)
    BY <2>6 DEF Voter
  <2> HIDE DEF p, q
  <2>7. \/ q = p
        \/ Len(q) = 0
        \/ /\ Len(p) \in Nat /\ Len(q) = Len(p) + 1
           /\ \A i \in 1 .. Len(p) : q[i] = p[i]
           /\ \E w \in ReplicaId :
                /\ q[Len(q)].replicaId = w
                /\ \/ /\ w = b /\ viewNum[b] = v
                      /\ vpc[b] \in {"startViewChange", "waitRequests"}
                   \/ w # b /\ viewNum[w] = v /\ vpc[w] = "doViewChange"
    BY NewVoter DEF p, q
  <2>8. ASSUME NEW w \in ReplicaId, q[Len(q)].replicaId = w,
               \/ /\ w = b /\ viewNum[b] = v
                  /\ vpc[b] \in {"startViewChange", "waitRequests"}
               \/ w # b /\ viewNum[w] = v /\ vpc[w] = "doViewChange"
        PROVE  \A i \in 1 .. Len(p) : p[i].replicaId # q[Len(q)].replicaId
    BY <2>5, <2>6, <2>8
  <2> QED
    BY <2>2, <2>3, <2>4, <2>7, <2>8 DEF q
<1>2. ASSUME NEW w \in ReplicaId, Voter(b, v, w)', w # b
      PROVE  Voted(w, v)'
  <2>1. CASE Voter(b, v, w)
    BY <1>2, <2>1, VotedStays DEF VoteInv
  <2>2. CASE ~ Voter(b, v, w)
    <3>1. /\ viewNum'[w] = v /\ vpc'[w] \in {"haveView", "waitView"}
          /\ priId'[w] = b
      BY <1>2, <2>2, VoterStep
    <3> QED
      BY <1>2, <3>1 DEF Voted
  <2> QED
    BY <2>1, <2>2
<1>3. ASSUME Voter(b, v, b)'
      PROVE  \/ viewNum'[b] > v
             \/ /\ viewNum'[b] = v
                /\ vpc'[b] \notin {"startViewChange", "waitRequests"}
  <2>1. CASE Voter(b, v, b)
    <3>1. Phase(b)
      BY VcPhases DEF StructInv
    <3> QED
      BY <1>0, <2>1, <3>1, PhaseRests DEF VoteInv
  <2>2. CASE ~ Voter(b, v, b)
    BY <1>3, <2>2, VoterStep
  <2> QED
    BY <2>1, <2>2
<1>4. ASSUME NEW w \in ReplicaId, NEW c \in ReplicaId,
             Voter(b, v, w)', Voter(c, v, w)', w # b, w # c
      PROVE  b = c
  <2>1. ASSUME NEW d \in ReplicaId, Voter(d, v, w), w # d
        PROVE  ~ (viewNum[w] = v /\ vpc[w] = "doViewChange")
    BY <1>0, <2>1 DEF VoteInv, Voted
  <2>2. ASSUME NEW d \in ReplicaId, Voter(d, v, w)', w # d
        PROVE  \/ Voter(d, v, w)
               \/ viewNum[w] = v /\ vpc[w] = "doViewChange" /\ newPriId[w] = d
    BY <2>2, VoterStep
  <2> QED
    BY <1>4, <2>1, <2>2 DEF VoteInv
<1> QED
  BY <1>1, <1>2, <1>3, <1>4

\* Replication has no part in an election.
LEMMA NextVotes ==
  ASSUME Next, UNCHANGED vcVars, VoteInv
  PROVE  VoteInv'
<1>1. UNCHANGED <<priId, status, viewNum>>
  BY NextView
<1> QED
  BY <1>1 DEF vcVars, mapVars, loopVars, VoteInv, Voter, Voted

-----------------------------------------------------------------------------
(***************************************************************************)
(* Elections.                                                              *)
(***************************************************************************)

\* The infos of a view that a replica has recorded are of as many replicas.
LEMMA InfosDistinct ==
  ASSUME StructInv, VoteInv, NEW b \in ReplicaId, NEW v \in View
  PROVE  \E Q \in SUBSET ReplicaId :
           /\ Cardinality(Q) = Len(viewChangeInfoMap[b][v])
           /\ \A w \in Q : Voter(b, v, w)
<1> DEFINE q == viewChangeInfoMap[b][v]
           f == [i \in 1 .. Len(q) |-> q[i].replicaId]
           Q == {f[i] : i \in 1 .. Len(q)}
<1>1. /\ Len(q) \in Nat
      /\ \A i \in 1 .. Len(q) : q[i].replicaId \in ReplicaId
  <2>1. /\ IsSeq(q)
        /\ \A i \in 1 .. Len(q) : \E w \in ReplicaId : IsChangeInfo(q[i], v, w)
    BY DEF StructInv, InfoInv
  <2>2. \A i \in 1 .. Len(q) : q[i].replicaId \in ReplicaId
    BY <2>1 DEF IsChangeInfo
  <2> QED
    BY <2>1, <2>2, LenProperties DEF IsSeq
<1>2. \A i, j \in 1 .. Len(q) : q[i].replicaId = q[j].replicaId => i = j
  BY DEF VoteInv
<1>3. \A w \in Q : Voter(b, v, w)
  BY DEF Voter
<1>4. Q \in SUBSET ReplicaId
  BY <1>1
<1>5. Cardinality(Q) = Len(q)
  <2> HIDE DEF q
  <2>1. f \in Bijection(1 .. Len(q), Q)
    BY <1>2 DEF Bijection, Injection, Surjection, IsInjective
  <2> QED
    BY <1>1, <2>1, FS_CountingElements DEF ExistsBijection
<1> QED
  BY <1>3, <1>4, <1>5

\* The replicas whose infos a new primary has counted are a majority.
LEMMA ElectedQuorum ==
  ASSUME StructInv, VoteInv, NEW p \in ReplicaId, Elected(p)
  PROVE  \E Q \in SUBSET ReplicaId :
           /\ Cardinality(Q) >= N \div 2 + 1
           /\ \A w \in Q : Voter(p, viewNum[p], w)
<1>1. /\ viewNum[p] \in View
      /\ Len(viewChangeInfoMap[p][viewNum[p]]) >= N \div 2 + 1
  BY ElectedInfo
<1>2. PICK Q \in SUBSET ReplicaId :
        /\ Cardinality(Q) = Len(viewChangeInfoMap[p][viewNum[p]])
        /\ \A w \in Q : Voter(p, viewNum[p], w)
  BY <1>1, InfosDistinct
<1> QED
  BY <1>1, <1>2

\* Two majorities share a replica.
LEMMA MajoritiesMeet ==
  ASSUME NEW P \in SUBSET ReplicaId, NEW Q \in SUBSET ReplicaId,
         Cardinality(P) >= N \div 2 + 1, Cardinality(Q) >= N \div 2 + 1
  PROVE  \E w \in P : w \in Q
<1>1. IsFiniteSet(ReplicaId) /\ Cardinality(ReplicaId) = N
  BY SizeAssumption, FS_Interval DEF ReplicaId
<1>2. Cardinality(P) \in Nat /\ Cardinality(Q) \in Nat
  BY <1>1, FS_Subset, FS_CardinalityType
<1>3. Cardinality(P) + Cardinality(Q) > Cardinality(ReplicaId)
  BY <1>1, <1>2, SizeAssumption
<1>4. P \cap Q # {}
  BY <1>1, <1>3, FS_MajoritiesIntersect
<1> QED
  BY <1>4

\* Nobody is elected for a view that somebody leads.
LEMMA ElectedIsFirst ==
  ASSUME StructInv, VoteInv, ClaimInv, NEW p \in ReplicaId, Elected(p),
         NEW q \in ReplicaId, Claims(q, viewNum[p])
  PROVE  FALSE
<1> DEFINE v == viewNum[p]
<1>1. v \in View /\ v \in 0 .. MaxView /\ v # 0
  BY ElectedInfo, ViewAssumption DEF View
<1>2. vpc[p] \in {"haveInfos", "waitInfos"} /\ ~ (viewNum[p] > v)
  BY <1>1 DEF Elected, ElectedWith, View
<1>3. Led(q, v)
  BY <1>1 DEF ClaimInv
<1>4. PICK Q \in SUBSET ReplicaId :
        /\ Cardinality(Q) >= N \div 2 + 1
        /\ \A w \in Q : SpentFor(w, v, q)
  BY <1>3 DEF Led
<1>5. PICK P \in SUBSET ReplicaId :
        /\ Cardinality(P) >= N \div 2 + 1
        /\ \A w \in P : Voter(p, v, w)
  BY ElectedQuorum
<1>6. PICK w \in ReplicaId : Voter(p, v, w) /\ SpentFor(w, v, q)
  BY <1>4, <1>5, MajoritiesMeet
<1>7. p # q
  BY <1>2, <1>3 DEF Led, SpentFor
<1>8. w = p
  BY <1>6, <1>7 DEF SpentFor
<1> QED
  BY <1>2, <1>6, <1>7, <1>8 DEF SpentFor, Voted

\* No two replicas can be elected for a view.
LEMMA ElectedIsOnly ==
  ASSUME StructInv, VoteInv, NEW p \in ReplicaId, Elected(p),
         NEW q \in ReplicaId, Elected(q), viewNum[q] = viewNum[p]
  PROVE  p = q
<1> DEFINE v == viewNum[p]
<1>1. v \in View
  BY ElectedInfo
<1>2. /\ vpc[p] \in {"haveInfos", "waitInfos"} /\ ~ (viewNum[p] > v)
      /\ vpc[q] \in {"haveInfos", "waitInfos"} /\ ~ (viewNum[q] > v)
  BY <1>1 DEF Elected, ElectedWith, View
<1>3. PICK P \in SUBSET ReplicaId :
        /\ Cardinality(P) >= N \div 2 + 1
        /\ \A w \in P : Voter(p, v, w)
  BY ElectedQuorum
<1>4. PICK Q \in SUBSET ReplicaId :
        /\ Cardinality(Q) >= N \div 2 + 1
        /\ \A w \in Q : Voter(q, v, w)
  BY ElectedQuorum
<1>5. PICK w \in ReplicaId : Voter(p, v, w) /\ Voter(q, v, w)
  BY <1>3, <1>4, MajoritiesMeet
<1>6. ASSUME p # q PROVE FALSE
  BY <1>1, <1>2, <1>5, <1>6 DEF VoteInv, Voted
<1> QED
  BY <1>6

\* A replica's part in an election stays over.
LEMMA SpentStays ==
  ASSUME StructInv, StructInv', VcMove, resent = 0, resent' = 0,
         NEW w \in ReplicaId, NEW v \in View, NEW p \in ReplicaId,
         SpentFor(w, v, p)
  PROVE  SpentFor(w, v, p)'
<1>0. /\ viewNum[w] \in Nat /\ viewNum'[w] \in Nat /\ v \in Nat
      /\ viewNum'[w] >= viewNum[w]
  BY VcPhases, PhaseViews, ViewAssumption DEF StructInv, VcTypes, VcTypesAt, View
<1>1. w # p => Voted(w, v)'
  BY VotedStays DEF SpentFor
<1>2. w = p => \/ viewNum'[p] > v
               \/ viewNum'[p] = v /\ vpc'[p] \in {"none", "startView"}
  <2>1. Phase(w)
    BY VcPhases DEF StructInv
  <2> QED
    BY <1>0, <2>1, PhaseRests DEF SpentFor
<1>3. ASSUME NEW b \in ReplicaId, b # w, b # p, Voter(b, v, w)' PROVE FALSE
  <2>1. vpc[w] = "doViewChange" /\ viewNum[w] = v
    BY <1>3, VoterStep DEF SpentFor
  <2> QED
    BY <1>0, <2>1 DEF SpentFor, Voted
<1> QED
  BY <1>1, <1>2, <1>3, Zenon DEF SpentFor

\* Who was elected for a view stays the one who was.
LEMMA LedStays ==
  ASSUME StructInv, StructInv', VcMove, resent = 0, resent' = 0,
         NEW v \in View, NEW p \in ReplicaId, Led(p, v)
  PROVE  Led(p, v)'
<1>1. PICK Q \in SUBSET ReplicaId :
        /\ Cardinality(Q) >= N \div 2 + 1
        /\ \A w \in Q : SpentFor(w, v, p)
  BY DEF Led
<1>2. \A w \in Q : SpentFor(w, v, p)'
  BY <1>1, SpentStays
<1>3. SpentFor(p, v, p)'
  BY SpentStays DEF Led
<1> QED
  BY <1>1, <1>2, <1>3, Zenon DEF Led

\* Electing a primary uses up the replicas that voted for it.
LEMMA NewLeader ==
  ASSUME StructInv, StructInv', VcMove, resent = 0, resent' = 0, VoteInv,
         NEW p \in ReplicaId, Elected(p)
  PROVE  Led(p, viewNum[p])'
<1> DEFINE v == viewNum[p]
<1>1. v \in View /\ viewNum'[p] = v /\ vpc'[p] = "startView"
  BY ElectedInfo DEF Elected, ElectedWith
<1>2. vpc[p] \in {"haveInfos", "waitInfos"} /\ ~ (viewNum[p] > v)
  BY <1>1 DEF Elected, ElectedWith, View
<1>3. PICK P \in SUBSET ReplicaId :
        /\ Cardinality(P) >= N \div 2 + 1
        /\ \A w \in P : Voter(p, v, w)
  BY ElectedQuorum
<1>4. ASSUME NEW w \in ReplicaId, w = p \/ Voter(p, v, w)
      PROVE  SpentFor(w, v, p)'
    <2>0. v \in Nat /\ viewNum[w] \in Nat
      BY <1>1 DEF View, StructInv, VcTypes, VcTypesAt
    <2>1. w # p => Voted(w, v)
      BY <1>1, <1>4 DEF VoteInv
    <2>2. w # p => Voted(w, v)'
      BY <1>1, <2>1, VotedStays
    <2>3. ASSUME NEW b \in ReplicaId, b # w, b # p, Voter(b, v, w)' PROVE FALSE
      <3>1. CASE Voter(b, v, w)
        BY <1>1, <1>2, <1>4, <2>3, <3>1 DEF VoteInv, Voted
      <3>2. CASE ~ Voter(b, v, w)
        <4>1. vpc[w] = "doViewChange" /\ viewNum[w] = v
          BY <1>1, <2>3, <3>2, VoterStep
        <4> QED
          BY <1>2, <2>0, <2>1, <4>1 DEF Voted
      <3> QED
        BY <3>1, <3>2
    <2> QED
      BY <1>1, <2>2, <2>3 DEF SpentFor
<1>5. SpentFor(p, v, p)' /\ \A w \in P : SpentFor(w, v, p)'
  BY <1>3, <1>4
<1>6. \E Q \in SUBSET ReplicaId : /\ Cardinality(Q) >= N \div 2 + 1
                                  /\ \A w \in Q : SpentFor(w, v, p)'
  BY <1>3, <1>5
<1> HIDE DEF v
<1>7. Led(p, v)'
  BY <1>5, <1>6, Zenon DEF Led
<1>8. v' = v
  BY <1>1 DEF v
<1> QED
  BY <1>7, <1>8 DEF v

-----------------------------------------------------------------------------
(***************************************************************************)
(* Claims.                                                                 *)
(***************************************************************************)

\* How a replica came to be NORMAL in a view.
LEMMA NormalStep ==
  ASSUME StructInv, VcMove, NEW s \in ReplicaId, status'[s] = "NORMAL"
  PROVE  \/ status[s] = "NORMAL" /\ SameRole(s)
         \/ Elected(s)
         \/ FollowsIn(s, viewNum'[s])
<1>1. Phase(s)
  BY VcPhases DEF StructInv
<1>2. CASE Stays(s) \/ Begins(s) \/ Asks(s) \/ Settles(s) \/ Leaves(s)
  <2>1. vpc[s] \notin {"none", "startView"} => status[s] # "NORMAL"
    BY DEF StructInv, MutexInv
  <2> QED
    BY <1>2, <2>1
    DEF Stays, Begins, Asks, Settles, Leaves, SameRole, SameView
<1>3. ASSUME NEW v, FollowsIn(s, v) PROVE FollowsIn(s, viewNum'[s])
  BY <1>3, FollowsInfo
<1> QED
  BY <1>1, <1>2, <1>3 DEF Phase, Follows

\* Where a message or a recorded StartView comes from.
LEMMA VcOrigins ==
  ASSUME StructInv, VcMove, NEW b \in ReplicaId
  PROVE  /\ IsCommit(b)' => repListener'[b] = repListener[b]
         /\ IsStart(b)' =>
              \/ repListener'[b] = repListener[b]
              \/ \E p \in ReplicaId \ {b} :
                   /\ vpc[p] = "startView" /\ From(b)' = p
                   /\ repListener'[b].info.info = viewStartInfo(p)
         /\ \A v \in View : HasStart(b, v)' =>
              \/ /\ HasStart(b, v)
                 /\ viewStartInfoMap'[b][v] = viewStartInfoMap[b][v]
              \/ /\ IsStart(b) /\ repListener[b].info.info.viewNum = v
                 /\ viewStartInfoMap'[b][v] = repListener[b].info.info
<1>0. VcTypes /\ MutexInv
  BY DEF StructInv
<1>1. MsgStep(b)
  BY <1>0, VcMessages
<1>2. ASSUME IsCommit(b)' PROVE repListener'[b] = repListener[b]
  <2>1. ASSUME NEW r, NEW m, NewMsg(b, r, m) PROVE FALSE
    BY <1>2, <2>1 DEF NewMsg, IsCommit
  <2> QED
    BY <1>1, <1>2, <2>1 DEF MsgStep, IsCommit
<1>3. ASSUME IsStart(b)'
      PROVE  \/ repListener'[b] = repListener[b]
             \/ \E p \in ReplicaId \ {b} :
                  /\ vpc[p] = "startView" /\ From(b)' = p
                  /\ repListener'[b].info.info = viewStartInfo(p)
  <2>1. ASSUME NEW p \in ReplicaId \ {b}, NewMsg(b, p, startViewMsg(p))
        PROVE  From(b)' = p /\ repListener'[b].info.info = viewStartInfo(p)
    BY <2>1 DEF NewMsg, startViewMsg, From
  <2>2. ASSUME NEW p \in ReplicaId \ {b}, NewMsg(b, p, doViewChangeMsg(p))
        PROVE  FALSE
    BY <1>3, <2>2 DEF NewMsg, doViewChangeMsg, IsStart
  <2> QED
    BY <1>1, <1>3, <2>1, <2>2 DEF MsgStep, IsStart
<1>4. ASSUME NEW v \in View, HasStart(b, v)'
      PROVE  \/ /\ HasStart(b, v)
                /\ viewStartInfoMap'[b][v] = viewStartInfoMap[b][v]
             \/ /\ IsStart(b) /\ repListener[b].info.info.viewNum = v
                /\ viewStartInfoMap'[b][v] = repListener[b].info.info
  <2>0. DOMAIN viewStartInfoMap[b] = View /\ DOMAIN startViewMap[b] = View
    BY <1>0 DEF VcTypes, VcTypesAt
  <2>1. CASE StartKept(b)
    BY <1>4, <2>1 DEF StartKept, HasStart
  <2>2. CASE StartCleared(b)
    BY <1>4, <2>2 DEF StartCleared, HasStart
  <2>3. CASE StartRecorded(b)
    BY <1>4, <2>0, <2>3 DEF StartRecorded, HasStart
  <2> QED
    BY <1>0, <2>1, <2>2, <2>3, VcStarts DEF StartStep
<1> QED
  BY <1>2, <1>3, <1>4

\* A step makes nobody the primary of a view but the one it elects.
LEMMA VcClaims ==
  ASSUME StructInv, VcMove, NEW p \in ReplicaId, NEW v \in 0 .. MaxView,
         Claims(p, v)'
  PROVE  Claims(p, v) \/ (Elected(p) /\ viewNum[p] = v)
<1>0. /\ VcTypes /\ MutexInv /\ MsgInv /\ Phase(p)
      /\ UNCHANGED <<cpc, hbInfo, todo>>
  BY VcPhases, VcKeeps DEF StructInv
<1>1. ASSUME NEW s \in ReplicaId,
             status'[s] = "NORMAL", viewNum'[s] = v, priId'[s] = p
      PROVE  Claims(p, v) \/ (Elected(p) /\ viewNum[p] = v)
  <2>1. CASE status[s] = "NORMAL" /\ SameRole(s)
    BY <1>1, <2>1 DEF Claims, SameRole, SameView
  <2>2. CASE Elected(s)
    BY <1>1, <2>2, ElectedInfo DEF Elected, ElectedWith
  <2>3. CASE FollowsIn(s, v)
    BY <1>1, <2>3, FollowsInfo DEF Claims, FollowsIn
  <2> QED
    BY <1>1, <2>1, <2>2, <2>3, NormalStep
<1>2. ASSUME viewNum'[p] = v, Busy(p)' \/ vpc'[p] = "startView"
      PROVE  Claims(p, v) \/ (Elected(p) /\ viewNum[p] = v)
  <2>1. CASE Elected(p)
    BY <1>2, <2>1, ElectedInfo
  <2>2. CASE ~ Elected(p)
    <3>1. Busy(p) \/ vpc'[p] = "startView"
      BY <1>0, <1>2 DEF Busy
    <3>2. Busy(p) => vpc[p] = "none" /\ repMutex[p] = "t1"
      BY <1>0 DEF MutexInv
    <3>3. viewNum[p] = v /\ (Busy(p) \/ vpc[p] = "startView")
      BY <1>0, <1>2, <2>2, <3>1, <3>2
      DEF Phase, Stays, Begins, Asks, Settles, Leaves, Follows, FollowsIn,
          SameRole, SameView
    <3> QED
      BY <3>3 DEF Claims
  <2> QED
    BY <2>1, <2>2
<1>3. ASSUME todo'[p]["hbt"] # {}, hbInfo'[p].viewNum = v PROVE Claims(p, v)
  BY <1>0, <1>3 DEF Claims
<1>4. ASSUME NEW b \in ReplicaId, IsCommit(b)', From(b)' = p,
             repListener'[b].info.viewNum = v
      PROVE  Claims(p, v)
  <2>1. repListener'[b] = repListener[b]
    BY <1>4, VcOrigins
  <2> QED
    BY <1>4, <2>1 DEF Claims, IsCommit, From
<1>5. ASSUME NEW b \in ReplicaId, IsStart(b)', From(b)' = p,
             repListener'[b].info.info.viewNum = v
      PROVE  Claims(p, v)
  <2>1. CASE repListener'[b] = repListener[b]
    BY <1>5, <2>1 DEF Claims, IsStart, From
  <2>2. CASE /\ vpc[p] = "startView"
             /\ repListener'[b].info.info = viewStartInfo(p)
    BY <1>5, <2>2 DEF viewStartInfo, Claims
  <2> QED
    BY <1>5, <2>1, <2>2, VcOrigins
<1>6. ASSUME NEW b \in ReplicaId, v \in View, HasStart(b, v)',
             viewStartInfoMap'[b][v].replicaId = p
      PROVE  Claims(p, v)
  <2>1. CASE /\ HasStart(b, v)
             /\ viewStartInfoMap'[b][v] = viewStartInfoMap[b][v]
    BY <1>6, <2>1 DEF Claims
  <2>2. CASE /\ IsStart(b) /\ repListener[b].info.info.viewNum = v
             /\ viewStartInfoMap'[b][v] = repListener[b].info.info
    <3>1. From(b) = p
      BY <1>0, <1>6, <2>2 DEF MsgInv, IsStartInfo
    <3> QED
      BY <1>6, <2>2, <3>1 DEF Claims
  <2> QED
    BY <1>6, <2>1, <2>2, VcOrigins
<1>7. \/ \E s \in ReplicaId : status'[s] = "NORMAL" /\ viewNum'[s] = v /\ priId'[s] = p
      \/ viewNum'[p] = v /\ (Busy(p)' \/ vpc'[p] = "startView")
      \/ todo'[p]["hbt"] # {} /\ hbInfo'[p].viewNum = v
      \/ \E b \in ReplicaId : /\ IsCommit(b)' /\ From(b)' = p
                              /\ repListener'[b].info.viewNum = v
      \/ \E b \in ReplicaId : /\ IsStart(b)' /\ From(b)' = p
                              /\ repListener'[b].info.info.viewNum = v
      \/ \E b \in ReplicaId : /\ v \in View /\ HasStart(b, v)'
                              /\ viewStartInfoMap'[b][v].replicaId = p
  BY Zenon DEF Claims
<1> QED
  BY <1>1, <1>2, <1>3, <1>4, <1>5, <1>6, <1>7

\* Replication acts for a primary only as long as there is one.
LEMMA NextClaims ==
  ASSUME StructInv, Next, UNCHANGED vcVars, NEW p \in ReplicaId,
         NEW v \in 0 .. MaxView, Claims(p, v)'
  PROVE  Claims(p, v)
<1>0. /\ VcTypes /\ MutexInv
      /\ UNCHANGED <<priId, status, viewNum>>
      /\ UNCHANGED <<vpc, viewStartInfoMap, startViewMap>>
  BY NextView DEF StructInv, vcVars, loopVars, mapVars
<1>1. ASSUME viewNum'[p] = v, Busy(p)' \/ vpc'[p] = "startView"
      PROVE  Claims(p, v)
  <2>1. Busy(p)' => Busy(p) \/ Rules(p)
    BY <1>0, NextMutex
  <2>2. Busy(p) \/ Rules(p) \/ vpc[p] = "startView"
    BY <1>0, <1>1, <2>1
  <2> QED
    BY <1>0, <1>1, <2>2 DEF Claims, Rules, isPrimary
<1>2. ASSUME todo'[p]["hbt"] # {}, hbInfo'[p].viewNum = v PROVE Claims(p, v)
  <2>1. \/ hbInfo[p].viewNum = v /\ todo[p]["hbt"] # {}
        \/ Rules(p) /\ viewNum[p] = v
    <3>1. \/ /\ hbInfo'[p] = hbInfo[p]
             /\ todo'[p]["hbt"] # {} => todo[p]["hbt"] # {}
          \/ /\ Rules(p)
             /\ hbInfo'[p] = [viewNum |-> viewNum[p], commitNum |-> commitNum[p]]
      BY <1>0, NextHeartBeat
    <3>2. ASSUME hbInfo'[p] = [viewNum |-> viewNum[p], commitNum |-> commitNum[p]]
          PROVE  hbInfo'[p].viewNum = viewNum[p]
      BY <3>2
    <3> QED
      BY <1>2, <3>1, <3>2
  <2> QED
    BY <2>1 DEF Claims, Rules, isPrimary
<1>3. ASSUME NEW b \in ReplicaId, IsCommit(b)', From(b)' = p,
             repListener'[b].info.viewNum = v
      PROVE  Claims(p, v)
  <2>1. CASE repListener'[b] = repListener[b]
    BY <1>3, <2>1 DEF Claims, IsCommit, From
  <2>2. ASSUME NEW r \in ReplicaId \ {b}, NEW t \in {"t1", "hbt"},
               repListener'[b] = [from |-> r, thread |-> t, info |-> commitInfo(r, t)],
               t = "t1" => cpc[r] = "commit",
               t = "hbt" => todo[r]["hbt"] # {}
        PROVE  Claims(p, v)
    <3>1. r = p /\ commitInfo(p, t).viewNum = v
      BY <1>3, <2>2 DEF From
    <3> QED
      BY <2>2, <3>1 DEF Claims, commitInfo, Busy
  <2> QED
    <3>1. repListener'[b] # Nil
      BY <1>3 DEF IsCommit
    <3>2. \/ repListener'[b] = repListener[b]
          \/ \E r \in ReplicaId \ {b}, t \in {"t1", "hbt"} :
               /\ repListener'[b] = [from |-> r, thread |-> t,
                                     info |-> commitInfo(r, t)]
               /\ t = "t1" => cpc[r] = "commit"
               /\ t = "hbt" => todo[r]["hbt"] # {}
      BY <1>0, <3>1, NextListener
    <3> QED
      BY <2>1, <2>2, <3>2
<1>4. ASSUME NEW b \in ReplicaId, IsStart(b)', From(b)' = p,
             repListener'[b].info.info.viewNum = v
      PROVE  Claims(p, v)
  <2>1. repListener'[b] = repListener[b]
    <3>1. repListener'[b] # Nil /\ repListener'[b].thread = "vc"
      BY <1>4 DEF IsStart
    <3>2. ASSUME NEW r, NEW t \in {"t1", "hbt"}, NEW m,
                 repListener'[b] = [from |-> r, thread |-> t, info |-> m]
          PROVE  FALSE
      BY <3>1, <3>2
    <3>3. \/ repListener'[b] = repListener[b]
          \/ \E r \in ReplicaId \ {b}, t \in {"t1", "hbt"} :
               /\ repListener'[b] = [from |-> r, thread |-> t,
                                     info |-> commitInfo(r, t)]
               /\ t = "t1" => cpc[r] = "commit"
               /\ t = "hbt" => todo[r]["hbt"] # {}
      BY <1>0, <3>1, NextListener
    <3> QED
      BY <3>2, <3>3
  <2> QED
    BY <1>4, <2>1 DEF Claims, IsStart, From
<1>5. \/ \E s \in ReplicaId : status[s] = "NORMAL" /\ viewNum[s] = v /\ priId[s] = p
      \/ viewNum'[p] = v /\ (Busy(p)' \/ vpc'[p] = "startView")
      \/ todo'[p]["hbt"] # {} /\ hbInfo'[p].viewNum = v
      \/ \E b \in ReplicaId : /\ IsCommit(b)' /\ From(b)' = p
                              /\ repListener'[b].info.viewNum = v
      \/ \E b \in ReplicaId : /\ IsStart(b)' /\ From(b)' = p
                              /\ repListener'[b].info.info.viewNum = v
      \/ \E b \in ReplicaId : /\ v \in View /\ HasStart(b, v)
                              /\ viewStartInfoMap[b][v].replicaId = p
  BY <1>0 DEF Claims, HasStart
<1>6. ASSUME \/ \E s \in ReplicaId : status[s] = "NORMAL" /\ viewNum[s] = v /\ priId[s] = p
             \/ \E b \in ReplicaId : /\ v \in View /\ HasStart(b, v)
                                     /\ viewStartInfoMap[b][v].replicaId = p
      PROVE  Claims(p, v)
  BY <1>6 DEF Claims
<1> QED
  BY <1>1, <1>2, <1>3, <1>4, <1>5, <1>6

\* A step keeps the claims: who acts for a primary acts for the elected one.
LEMMA StepClaimInv ==
  ASSUME StructInv, StructInv', VoteInv, ClaimInv, resent = 0, resent' = 0,
         VcMove \/ (Next /\ UNCHANGED vcVars)
  PROVE  ClaimInv'
<1> SUFFICES ASSUME NEW p \in ReplicaId, NEW v \in 0 .. MaxView, Claims(p, v)'
             PROVE  /\ v = 0 => p = 0
                    /\ v # 0 => Led(p, v)'
                    /\ \A q \in ReplicaId : Claims(q, v)' => p = q
  BY Zenon DEF ClaimInv
<1>1. CASE VcMove
  <2>1. CASE Claims(p, v)
    <3>1. /\ v = 0 => p = 0
          /\ v # 0 => Led(p, v)'
      <4>1. v # 0 => v \in View
        BY DEF View
      <4> QED
        BY <1>1, <2>1, <4>1, LedStays DEF ClaimInv
    <3>2. ASSUME NEW q \in ReplicaId, Claims(q, v)' PROVE p = q
      <4>1. CASE Claims(q, v)
        BY <2>1, <4>1 DEF ClaimInv
      <4>2. CASE Elected(q) /\ viewNum[q] = v
        BY <2>1, <4>2, ElectedIsFirst
      <4> QED
        BY <1>1, <3>2, <4>1, <4>2, VcClaims
    <3> QED
      BY <3>1, <3>2
  <2>2. CASE Elected(p) /\ viewNum[p] = v
    <3>1. v \in View /\ viewNum'[p] = v
      BY <2>2, ElectedInfo
    <3>2. v # 0
      BY <3>1 DEF View
    <3>3. Led(p, v)'
      <4>1. Led(p, viewNum[p])'
        BY <1>1, <2>2, NewLeader
      <4> QED
        BY <3>1, <4>1
    <3>4. ASSUME NEW q \in ReplicaId, Claims(q, v)' PROVE p = q
      <4>1. CASE Claims(q, v)
        BY <2>2, <4>1, ElectedIsFirst
      <4>2. CASE Elected(q) /\ viewNum[q] = v
        BY <2>2, <4>2, ElectedIsOnly
      <4> QED
        BY <1>1, <3>4, <4>1, <4>2, VcClaims
    <3> QED
      BY <3>2, <3>3, <3>4
  <2> QED
    BY <1>1, <2>1, <2>2, VcClaims
<1>2. CASE Next /\ UNCHANGED vcVars
  <2>1. \A q \in ReplicaId : Claims(q, v)' => Claims(q, v)
    BY <1>2, NextClaims
  <2>2. Led(p, v) => Led(p, v)'
    <3>1. /\ UNCHANGED <<priId, status, viewNum>>
          /\ UNCHANGED <<vpc, viewChangeInfoMap>>
      BY <1>2, NextView DEF vcVars, loopVars, mapVars
    <3> QED
      BY <3>1 DEF Led, SpentFor, Voted, Voter
  <2> QED
    BY <2>1, <2>2 DEF ClaimInv
<1> QED
  BY <1>1, <1>2

-----------------------------------------------------------------------------
(***************************************************************************)
(* What is announced in a view.                                            *)
(***************************************************************************)

\* What somebody claims is bounded by n.
Bounded(v, n) ==
  /\ \A s \in ReplicaId : status[s] = "NORMAL" /\ viewNum[s] = v
       => commitNum[s] <= n
  /\ \A b \in ReplicaId :
       /\ IsCommit(b) /\ repListener[b].info.viewNum = v
            => repListener[b].info.commitNum <= n
       /\ IsStart(b) /\ repListener[b].info.info.viewNum = v
            => repListener[b].info.info.commitNum <= n
       /\ v \in View /\ HasStart(b, v) => viewStartInfoMap[b][v].commitNum <= n

\* The bounds, apart from what the primary knows of itself.
LEMMA BoundSplit ==
  BoundInv <=> \A r \in ReplicaId : Rules(r) =>
                 /\ commitNum[r] <= opNum[r]
                 /\ hbInfo[r].viewNum = viewNum[r] /\ todo[r]["hbt"] # {}
                      => hbInfo[r].commitNum <= commitNum[r]
                 /\ Bounded(viewNum[r], commitNum[r])
BY DEF BoundInv, Bounded

\* In a view change a primary stays as it is, or is elected.
LEMMA VcRules ==
  ASSUME StructInv, VcMove, NEW r \in ReplicaId, Rules(r)'
  PROVE  (Rules(r) /\ SameRole(r)) \/ Elected(r)
<1>1. status'[r] = "NORMAL" /\ priId'[r] = r
  BY DEF Rules, isPrimary
<1>2. ~ FollowsIn(r, viewNum'[r])
  BY <1>1, FollowsInfo
<1> QED
  BY <1>1, <1>2, NormalStep DEF Rules, isPrimary, SameRole

\* A view change announces nothing that its primary has not committed.
LEMMA VcBounds ==
  ASSUME StructInv, StructInv', VcMove, resent = 0, VoteInv, ClaimInv, BoundInv
  PROVE  BoundInv'
<1> SUFFICES ASSUME NEW r \in ReplicaId, Rules(r)'
             PROVE  /\ commitNum'[r] <= opNum'[r]
                    /\ hbInfo'[r].viewNum = viewNum'[r] /\ todo'[r]["hbt"] # {}
                         => hbInfo'[r].commitNum <= commitNum'[r]
                    /\ Bounded(viewNum[r], commitNum[r])'
  BY Zenon DEF BoundInv, Bounded
<1>0. /\ VcTypes /\ MutexInv /\ MsgInv
      /\ UNCHANGED <<cpc, hbInfo, todo>>
  BY VcKeeps DEF StructInv
<1> DEFINE v == viewNum[r]
           n == commitNum'[r]
<1>1. v \in 0 .. MaxView /\ viewNum'[r] = v
  BY <1>0, VcRules, ElectedInfo DEF SameRole, SameView, VcTypes, VcTypesAt
<1>2. CASE Rules(r) /\ SameRole(r)
  <2>1. /\ n = commitNum[r] /\ opNum'[r] = opNum[r]
        /\ commitNum[r] <= opNum[r]
        /\ hbInfo[r].viewNum = v /\ todo[r]["hbt"] # {}
             => hbInfo[r].commitNum <= commitNum[r]
        /\ Bounded(v, n)
    BY <1>2, BoundSplit DEF SameRole, SameView, SameNumbers
  <2>2. Claims(r, v)
    BY <1>2 DEF Claims, Rules, isPrimary
  <2>3. ASSUME NEW q \in ReplicaId, Claims(q, v) PROVE q = r
    BY <1>1, <2>2, <2>3 DEF ClaimInv
  <2>4. ASSUME NEW s \in ReplicaId, status'[s] = "NORMAL", viewNum'[s] = v
        PROVE  commitNum'[s] <= n
    <3>1. CASE status[s] = "NORMAL" /\ SameRole(s)
      BY <2>1, <2>4, <3>1 DEF Bounded, SameRole, SameView, SameNumbers
    <3>2. CASE Elected(s)
      BY <2>2, <2>4, <3>2, ElectedInfo, ElectedIsFirst
    <3>3. CASE FollowsIn(s, v)
      BY <2>1, <3>3, FollowsInfo DEF Bounded, FollowsIn
    <3> QED
      BY <2>4, <3>1, <3>2, <3>3, NormalStep
  <2>5. ASSUME NEW b \in ReplicaId, IsCommit(b)',
               repListener'[b].info.viewNum = v
        PROVE  repListener'[b].info.commitNum <= n
    <3>1. repListener'[b] = repListener[b]
      BY <2>5, VcOrigins
    <3> QED
      BY <2>1, <2>5, <3>1 DEF Bounded, IsCommit
  <2>6. ASSUME NEW b \in ReplicaId, IsStart(b)',
               repListener'[b].info.info.viewNum = v
        PROVE  repListener'[b].info.info.commitNum <= n
    <3>1. CASE repListener'[b] = repListener[b]
      BY <2>1, <2>6, <3>1 DEF Bounded, IsStart
    <3>2. ASSUME NEW p \in ReplicaId, vpc[p] = "startView",
                 repListener'[b].info.info = viewStartInfo(p)
          PROVE  repListener'[b].info.info.commitNum <= n
      <4>1. /\ viewNum[p] = v
            /\ repListener'[b].info.info.commitNum = commitNum[p]
        BY <2>6, <3>2 DEF viewStartInfo
      <4>2. p = r
        BY <2>3, <3>2, <4>1 DEF Claims
      <4>3. commitNum[r] \in Nat
        BY <1>0 DEF VcTypes, VcTypesAt
      <4> QED
        BY <2>1, <4>1, <4>2, <4>3
    <3> QED
      BY <2>6, <3>1, <3>2, VcOrigins
  <2>7. ASSUME NEW b \in ReplicaId, NEW u \in View, u = v, HasStart(b, u)'
        PROVE  viewStartInfoMap'[b][u].commitNum <= n
    <3>1. CASE /\ HasStart(b, u)
               /\ viewStartInfoMap'[b][u] = viewStartInfoMap[b][u]
      BY <2>1, <2>7, <3>1 DEF Bounded
    <3>2. CASE /\ IsStart(b) /\ repListener[b].info.info.viewNum = v
               /\ viewStartInfoMap'[b][u] = repListener[b].info.info
      BY <2>1, <3>2 DEF Bounded
    <3> QED
      BY <2>7, <3>1, <3>2, VcOrigins
  <2>8. \A b \in ReplicaId :
          /\ IsCommit(b)' /\ repListener'[b].info.viewNum = v
               => repListener'[b].info.commitNum <= n
          /\ IsStart(b)' /\ repListener'[b].info.info.viewNum = v
               => repListener'[b].info.info.commitNum <= n
          /\ viewNum'[r] \in View /\ HasStart(b, viewNum[r])'
               => viewStartInfoMap'[b][viewNum'[r]].commitNum <= n
    BY <1>1, <2>5, <2>6, <2>7
  <2>9. Bounded(viewNum[r], commitNum[r])'
    BY <1>1, <2>4, <2>8, Zenon DEF Bounded
  <2> QED
    BY <1>0, <1>1, <2>1, <2>9
<1>3. CASE Elected(r)
  <2>1. ASSUME NEW q \in ReplicaId, Claims(q, v) PROVE FALSE
    BY <1>3, <2>1, ElectedIsFirst
  <2>2. commitNum'[r] <= opNum'[r] /\ n \in Nat
    BY <1>3, ElectedInfo
  <2>3. ~ (hbInfo'[r].viewNum = viewNum'[r] /\ todo'[r]["hbt"] # {})
    BY <1>0, <1>1, <2>1 DEF Claims
  <2>4. ASSUME NEW s \in ReplicaId, status'[s] = "NORMAL", viewNum'[s] = v
        PROVE  commitNum'[s] <= n
    <3>1. CASE status[s] = "NORMAL" /\ SameRole(s)
      <4>1. priId[s] \in ReplicaId /\ Claims(priId[s], v)
        BY <1>0, <2>4, <3>1 DEF Claims, SameRole, SameView, VcTypes, VcTypesAt
      <4> QED
        BY <2>1, <4>1
    <3>2. CASE Elected(s)
      <4>1. s = r
        BY <1>3, <2>4, <3>2, ElectedInfo, ElectedIsOnly
      <4> QED
        BY <2>2, <4>1
    <3>3. CASE FollowsIn(s, v)
      <4>1. v \in View /\ HasStart(s, v) /\ viewStartInfoMap[s][v].replicaId \in ReplicaId
        BY <3>3, FollowsInfo DEF FollowsIn
      <4> QED
        BY <2>1, <4>1 DEF Claims
    <3> QED
      BY <2>4, <3>1, <3>2, <3>3, NormalStep
  <2>5. ASSUME NEW b \in ReplicaId, IsCommit(b)',
               repListener'[b].info.viewNum = v
        PROVE  FALSE
    <3>1. repListener'[b] = repListener[b]
      BY <2>5, VcOrigins
    <3>2. IsCommit(b) /\ repListener[b].info.viewNum = v /\ From(b) \in ReplicaId
      BY <1>0, <2>5, <3>1 DEF IsCommit, MsgInv
    <3> QED
      BY <2>1, <3>2 DEF Claims
  <2>6. ASSUME NEW b \in ReplicaId, IsStart(b)',
               repListener'[b].info.info.viewNum = v
        PROVE  FALSE
    <3>1. CASE repListener'[b] = repListener[b]
      <4>1. IsStart(b) /\ repListener[b].info.info.viewNum = v /\ From(b) \in ReplicaId
        BY <1>0, <2>6, <3>1 DEF IsStart, MsgInv
      <4> QED
        BY <2>1, <4>1 DEF Claims
    <3>2. ASSUME NEW p \in ReplicaId, vpc[p] = "startView",
                 repListener'[b].info.info = viewStartInfo(p)
          PROVE  FALSE
      <4>1. viewNum[p] = v
        BY <2>6, <3>2 DEF viewStartInfo
      <4> QED
        BY <2>1, <3>2, <4>1 DEF Claims
    <3> QED
      BY <2>6, <3>1, <3>2, VcOrigins
  <2>7. ASSUME NEW b \in ReplicaId, NEW u \in View, u = v, HasStart(b, u)'
        PROVE  FALSE
    <3>1. CASE HasStart(b, u)
      <4>1. viewStartInfoMap[b][v].replicaId \in ReplicaId
        BY <2>7, <3>1 DEF StructInv, InfoInv, IsStartInfo
      <4> QED
        BY <2>1, <2>7, <3>1, <4>1 DEF Claims
    <3>2. CASE IsStart(b) /\ repListener[b].info.info.viewNum = v
      <4>1. From(b) \in ReplicaId
        BY <1>0, <3>2 DEF MsgInv, IsStart
      <4> QED
        BY <2>1, <3>2, <4>1 DEF Claims
    <3> QED
      BY <2>7, <3>1, <3>2, VcOrigins
  <2>8. \A b \in ReplicaId :
          /\ IsCommit(b)' /\ repListener'[b].info.viewNum = v
               => repListener'[b].info.commitNum <= n
          /\ IsStart(b)' /\ repListener'[b].info.info.viewNum = v
               => repListener'[b].info.info.commitNum <= n
          /\ viewNum'[r] \in View /\ HasStart(b, viewNum[r])'
               => viewStartInfoMap'[b][viewNum'[r]].commitNum <= n
    BY <1>1, <2>5, <2>6, <2>7
  <2>9. Bounded(viewNum[r], commitNum[r])'
    BY <1>1, <2>4, <2>8, Zenon DEF Bounded
  <2> QED
    BY <2>2, <2>3, <2>9
<1> QED
  BY <1>2, <1>3, VcRules

\* So does a step of replication: what is announced was committed before.
LEMMA NextBounds ==
  ASSUME StructInv, Next, UNCHANGED vcVars, ClaimInv, BoundInv
  PROVE  BoundInv'
<1> SUFFICES ASSUME NEW r \in ReplicaId, Rules(r)'
             PROVE  /\ commitNum'[r] <= opNum'[r]
                    /\ hbInfo'[r].viewNum = viewNum'[r] /\ todo'[r]["hbt"] # {}
                         => hbInfo'[r].commitNum <= commitNum'[r]
                    /\ Bounded(viewNum[r], commitNum[r])'
  BY Zenon DEF BoundInv, Bounded
<1>0. /\ VcTypes /\ MutexInv /\ MsgInv
      /\ UNCHANGED <<priId, status, viewNum>>
      /\ UNCHANGED <<viewStartInfoMap, startViewMap>>
  BY NextView DEF StructInv, vcVars, mapVars
<1>1. PICK v \in 0 .. MaxView : viewNum[r] = v
  BY <1>0 DEF VcTypes, VcTypesAt
<1>2. PICK n : commitNum[r] = n
  OBVIOUS
<1>3. PICK m : commitNum'[r] = m
  OBVIOUS
<1>4. /\ Rules(r) /\ n <= opNum[r] /\ Bounded(v, n)
      /\ hbInfo[r].viewNum = v /\ todo[r]["hbt"] # {} => hbInfo[r].commitNum <= n
  BY <1>0, <1>1, <1>2, BoundSplit DEF Rules, isPrimary
<1>5. ASSUME NEW q \in ReplicaId, Claims(q, v) PROVE q = r
  <2>1. Claims(r, v)
    BY <1>1, <1>4 DEF Claims, Rules, isPrimary
  <2> QED
    BY <1>5, <2>1 DEF ClaimInv
<1>6. /\ n \in Nat /\ opNum[r] \in Nat
      /\ \A q \in ReplicaId : commitNum[q] \in Nat
  BY <1>0, <1>2 DEF VcTypes, VcTypesAt
<1>7. /\ opNum'[r] \in {opNum[r], opNum[r] + 1}
      /\ m \in {n, opNum[r]}
  <2>1. IsCommit(r) /\ repListener[r].info.viewNum = v
          => /\ repListener[r].info.commitNum \in Nat
             /\ repListener[r].info.commitNum <= n
    BY <1>0, <1>4 DEF Bounded, MsgInv
  <2>2. /\ opNum'[r] \in {opNum[r], opNum[r] + 1}
        /\ \/ commitNum'[r] = commitNum[r]
           \/ commitNum'[r] = opNum[r]
           \/ /\ IsCommit(r)
              /\ repListener[r].info.viewNum = viewNum[r]
              /\ repListener[r].info.commitNum > commitNum[r]
    BY <1>0, NextNumbers
  <2> QED
    BY <1>1, <1>2, <1>3, <1>6, <2>1, <2>2
<1>8. n <= m /\ m <= opNum'[r] /\ m \in Nat
  BY <1>4, <1>6, <1>7
<1>9. hbInfo'[r].viewNum = v /\ todo'[r]["hbt"] # {}
        => hbInfo'[r].commitNum <= m
  <2>1. CASE hbInfo'[r] = [viewNum |-> viewNum[r], commitNum |-> commitNum[r]]
    BY <1>2, <1>8, <2>1
  <2>2. CASE /\ hbInfo'[r] = hbInfo[r]
             /\ todo'[r]["hbt"] # {} => todo[r]["hbt"] # {}
    <3>1. hbInfo[r].commitNum \in Nat
      BY <1>0 DEF VcTypes, VcTypesAt
    <3> QED
      BY <1>4, <1>6, <1>8, <2>2, <3>1
  <2> QED
    BY <1>0, <2>1, <2>2, NextHeartBeat
<1>10. ASSUME NEW s \in ReplicaId, status[s] = "NORMAL", viewNum[s] = v
       PROVE  commitNum'[s] <= m
  <2>1. commitNum[s] <= n /\ commitNum[s] \in Nat
    BY <1>4, <1>6, <1>10 DEF Bounded
  <2>2. CASE commitNum'[s] = commitNum[s]
    BY <1>6, <1>8, <2>1, <2>2
  <2>3. CASE Busy(s)
    <3>1. s = r
      BY <1>5, <1>10, <2>3 DEF Claims
    <3> QED
      BY <1>3, <1>8, <3>1
  <2>4. CASE /\ IsCommit(s)
             /\ repListener[s].info.viewNum = viewNum[s]
             /\ repListener[s].info.commitNum > commitNum[s]
             /\ commitNum'[s] = commitNum[s] + 1
    <3>1. /\ repListener[s].info.commitNum \in Nat
          /\ repListener[s].info.commitNum <= n
      BY <1>0, <1>4, <1>10, <2>4 DEF Bounded, MsgInv
    <3> QED
      BY <1>6, <1>8, <2>1, <2>4, <3>1
  <2> QED
    BY <1>0, <2>2, <2>3, <2>4, NextNumbers
<1>11. ASSUME NEW b \in ReplicaId, repListener'[b] = repListener[b]
       PROVE  /\ IsCommit(b)' /\ repListener'[b].info.viewNum = v
                   => repListener'[b].info.commitNum <= m
              /\ IsStart(b)' /\ repListener'[b].info.info.viewNum = v
                   => repListener'[b].info.info.commitNum <= m
  <2>1. /\ IsCommit(b) => repListener[b].info.commitNum \in Nat
        /\ IsStart(b) => repListener[b].info.info.commitNum \in Nat
    BY <1>0 DEF MsgInv, IsStartInfo
  <2>2. /\ IsCommit(b) /\ repListener[b].info.viewNum = v
             => repListener[b].info.commitNum <= n
        /\ IsStart(b) /\ repListener[b].info.info.viewNum = v
             => repListener[b].info.info.commitNum <= n
    BY <1>4 DEF Bounded
  <2>3. (IsCommit(b)' <=> IsCommit(b)) /\ (IsStart(b)' <=> IsStart(b))
    BY <1>11 DEF IsCommit, IsStart
  <2> QED
    BY <1>6, <1>8, <1>11, <2>1, <2>2, <2>3
<1>12. ASSUME NEW b \in ReplicaId, NEW p \in ReplicaId, NEW t \in {"t1", "hbt"},
              repListener'[b] = [from |-> p, thread |-> t, info |-> commitInfo(p, t)],
              t = "t1" => cpc[p] = "commit",
              t = "hbt" => todo[p]["hbt"] # {},
              repListener'[b].info.viewNum = v
       PROVE  repListener'[b].info.commitNum <= m
  <2>1. repListener'[b].info = commitInfo(p, t) /\ commitInfo(p, t).viewNum = v
    BY <1>12
  <2>2. CASE t = "t1"
    <3>1. viewNum[p] = v /\ cpc[p] = "commit" /\ commitInfo(p, t).commitNum = opNum[p]
      BY <1>12, <2>1, <2>2 DEF commitInfo
    <3>2. p = r
      BY <1>5, <3>1 DEF Claims, Busy
    <3>3. opNum[r] = n
      BY <1>0, <1>2, <3>1, <3>2 DEF MutexInv
    <3> QED
      BY <1>8, <2>1, <3>1, <3>2, <3>3
  <2>3. CASE t = "hbt"
    <3>1. /\ hbInfo[p].viewNum = v /\ todo[p]["hbt"] # {}
          /\ commitInfo(p, t).commitNum = hbInfo[p].commitNum
      BY <1>12, <2>1, <2>3 DEF commitInfo
    <3>2. p = r
      BY <1>5, <3>1 DEF Claims
    <3>3. hbInfo[r].commitNum \in Nat
      BY <1>0 DEF VcTypes, VcTypesAt
    <3> QED
      BY <1>4, <1>6, <1>8, <2>1, <3>1, <3>2, <3>3
  <2> QED
    BY <2>2, <2>3
<1>13. ASSUME NEW b \in ReplicaId
       PROVE  /\ IsCommit(b)' /\ repListener'[b].info.viewNum = v
                   => repListener'[b].info.commitNum <= m
              /\ IsStart(b)' /\ repListener'[b].info.info.viewNum = v
                   => repListener'[b].info.info.commitNum <= m
  <2>1. CASE repListener'[b] = repListener[b]
    BY <1>11, <2>1
  <2>2. CASE repListener'[b] = Nil
    BY <2>2 DEF IsCommit, IsStart
  <2>3. ASSUME NEW p \in ReplicaId, NEW t \in {"t1", "hbt"},
               repListener'[b] = [from |-> p, thread |-> t, info |-> commitInfo(p, t)],
               t = "t1" => cpc[p] = "commit",
               t = "hbt" => todo[p]["hbt"] # {}
        PROVE  /\ repListener'[b].info.viewNum = v
                    => repListener'[b].info.commitNum <= m
               /\ ~ IsStart(b)'
    <3>1. repListener'[b].thread # "vc"
      BY <2>3
    <3> QED
      BY <1>12, <2>3, <3>1 DEF IsStart
  <2> QED
    BY <1>0, <2>1, <2>2, <2>3, NextListener
<1>14. ASSUME NEW b \in ReplicaId, v \in View, HasStart(b, v)'
       PROVE  viewStartInfoMap'[b][v].commitNum <= m
  <2>1. HasStart(b, v) /\ viewStartInfoMap'[b][v] = viewStartInfoMap[b][v]
    BY <1>0, <1>14 DEF HasStart
  <2>2. viewStartInfoMap[b][v].commitNum \in Nat
    BY <1>14, <2>1 DEF StructInv, InfoInv, IsStartInfo
  <2> QED
    BY <1>4, <1>6, <1>8, <1>14, <2>1, <2>2 DEF Bounded
<1>15. Bounded(v, m)'
  <2>1. \A s \in ReplicaId : status'[s] = "NORMAL" /\ viewNum'[s] = v
          => commitNum'[s] <= m
    BY <1>0, <1>10
  <2> QED
    BY <2>1, <1>13, <1>14 DEF Bounded
<1>16. Bounded(viewNum[r], commitNum[r])'
  BY <1>0, <1>1, <1>3, <1>15
<1> QED
  BY <1>0, <1>1, <1>3, <1>8, <1>9, <1>16

-----------------------------------------------------------------------------
(***************************************************************************)
(* The invariant holds.                                                    *)
(***************************************************************************)

\* At Init every replica is NORMAL in view 0, whose primary is replica 0.
LEMMA VcInitInv ==
  ASSUME VcInit
  PROVE  StructInv /\ ViewInv
<1>0. /\ 0 \in ReplicaId /\ 0 \in 0 .. MaxView
      /\ Len(Committed) \in Nat
  BY SizeAssumption, ViewAssumption DEF ReplicaId
<1>1. VcTypes
  BY <1>0
  DEF VcInit, InitCommitted, VcTypes, VcDomains, VcTypesAt, OtherReplicas
<1>2. MutexInv
  BY DEF VcInit, InitCommitted, MutexInv, Busy
<1>3. MsgInv
  BY DEF VcInit, InitCommitted, MsgInv, IsCommit, IsOffer, IsStart
<1>4. \A b \in ReplicaId : \A v \in View :
        /\ viewChangeInfoMap[b][v] = <<>> /\ doViewChangeMap[b][v] = 0
        /\ ~ HasStart(b, v)
  BY DEF VcInit, HasStart
<1>5. InfoInv
  BY <1>4, EmptyFacts DEF InfoInv
<1>6. VoteInv
  <2>1. \A b \in ReplicaId : \A v \in View : Len(viewChangeInfoMap[b][v]) = 0
    BY <1>4, EmptyFacts
  <2> QED
    BY <2>1 DEF VoteInv, Voter
<1>7. /\ \A r \in ReplicaId : /\ priId[r] = 0 /\ viewNum[r] = 0
                              /\ opNum[r] = Len(Committed)
                              /\ commitNum[r] = Len(Committed)
                              /\ ~ Busy(r) /\ vpc[r] = "none"
                              /\ todo[r]["hbt"] = {}
                              /\ ~ IsCommit(r) /\ ~ IsStart(r)
  BY DEF VcInit, InitCommitted, Busy, IsCommit, IsStart, Caller
<1>8. ClaimInv
  <2>1. ASSUME NEW p \in ReplicaId, NEW v \in 0 .. MaxView, Claims(p, v)
        PROVE  p = 0 /\ v = 0
    BY <1>4, <1>7, <2>1 DEF Claims
  <2> QED
    BY <2>1 DEF ClaimInv
<1>9. BoundInv
  BY <1>0, <1>4, <1>7 DEF BoundInv
<1> QED
  BY <1>1, <1>2, <1>3, <1>5, <1>6, <1>8, <1>9 DEF StructInv, ViewInv

\* Lost replies are counted, never forgotten.
LEMMA StepResent ==
  ASSUME StructInv, [VcNext]_allVars, resent' = 0
  PROVE  resent = 0
<1>1. CASE Next /\ UNCHANGED vcVars
  <2>1. 0 \in ReplicaId
    BY SizeAssumption DEF ReplicaId
  <2>2. resent \in Nat /\ resent' >= resent
    BY <1>1, <2>1, NextHeartBeat DEF StructInv, VcTypes
  <2> QED
    BY <2>2
<1>2. CASE VcMove
  <2>1. resent \in Nat /\ resent' >= resent
    BY <1>2, VcResent DEF StructInv, VcTypes
  <2> QED
    BY <2>1
<1>3. CASE UNCHANGED allVars
  BY <1>3 DEF allVars, vars, faultVars
<1> QED
  BY <1>1, <1>2, <1>3 DEF VcNext, VcMove

\* As long as no reply is lost, a step keeps votes, claims and bounds.
LEMMA StepView ==
  ASSUME StructInv, StructInv', ViewInv, [VcNext]_allVars
  PROVE  ViewInv'
<1> SUFFICES ASSUME resent' = 0
             PROVE  VoteInv' /\ ClaimInv' /\ BoundInv'
  BY Zenon DEF ViewInv
<1>0. resent = 0 /\ VoteInv /\ ClaimInv /\ BoundInv
  BY StepResent DEF ViewInv
<1>1. CASE VcMove
  BY <1>0, <1>1, VcVotes, StepClaimInv, VcBounds
<1>2. CASE Next /\ UNCHANGED vcVars
  BY <1>0, <1>2, NextVotes, StepClaimInv, NextBounds
<1>3. CASE UNCHANGED allVars
  <2>1. UNCHANGED <<priId, status, viewNum, opNum, commitNum, cpc, todo, hbInfo,
                    repListener, vpc, viewChangeInfoMap, viewStartInfoMap,
                    startViewMap>>
    BY <1>3
    DEF allVars, vars, replicaState, clientVars, rpcVars, vcVars, mapVars,
        loopVars
  <2>2. VoteInv'
    BY <1>0, <2>1 DEF VoteInv, Voter, Voted
  <2>3. ClaimInv'
    <3>1. \A p \in ReplicaId : \A v \in 0 .. MaxView : Claims(p, v)' => Claims(p, v)
      BY <2>1 DEF Claims, Busy, IsCommit, IsStart, From, HasStart
    <3>2. \A p \in ReplicaId : \A v \in 0 .. MaxView : Led(p, v) => Led(p, v)'
      BY <2>1 DEF Led, SpentFor, Voted, Voter
    <3> QED
      BY <1>0, <3>1, <3>2 DEF ClaimInv
  <2>4. BoundInv'
    BY <1>0, <2>1
    DEF BoundInv, Rules, isPrimary, IsCommit, IsStart, HasStart
  <2> QED
    BY <2>2, <2>3, <2>4
<1> QED
  BY <1>1, <1>2, <1>3 DEF VcNext, VcMove

\* The invariant of view changes composed with replication.
THEOREM ViewChangeInvariant == VcSpec => [](StructInv /\ ViewInv)
<1>1. VcInit => StructInv /\ ViewInv
  BY VcInitInv
<1>2. StructInv /\ ViewInv /\ [VcNext]_allVars => (StructInv /\ ViewInv)'
  BY StepStruct, StepView
<1> QED
  BY <1>1, <1>2, PTL DEF VcSpec

-----------------------------------------------------------------------------
(***************************************************************************)
(* What it is good for.                                                    *)
(***************************************************************************)

\* A replica that takes itself for the primary of its view claims the view.
LEMMA NormalClaims ==
  ASSUME StructInv, NEW s \in ReplicaId, status[s] = "NORMAL"
  PROVE  /\ priId[s] \in ReplicaId /\ viewNum[s] \in 0 .. MaxView
         /\ Claims(priId[s], viewNum[s])
BY DEF StructInv, VcTypes, VcTypesAt, Claims

\* As long as no reply is lost, two replicas never act as primary of the same
\* view.
THEOREM OnePrimary == VcSpec => [](resent = 0 => OnePrimaryPerView)
<1>1. ASSUME StructInv, ViewInv, resent = 0 PROVE OnePrimaryPerView
  BY <1>1, NormalClaims
  DEF ViewInv, ClaimInv, OnePrimaryPerView, ActingPrimary, isPrimary
<1> QED
  BY <1>1, ViewChangeInvariant, PTL

\* As long as no reply is lost, a replica is NORMAL in a view only after a
\* majority has left all earlier views.
THEOREM MajorityInView == VcSpec => [](resent = 0 => QuorumInView)
<1>1. ASSUME StructInv, ViewInv, resent = 0 PROVE QuorumInView
  <2> SUFFICES ASSUME NEW r \in ReplicaId, status[r] = "NORMAL"
               PROVE  Cardinality({s \in ReplicaId : viewNum[s] >= viewNum[r]})
                        >= N \div 2 + 1
    BY DEF QuorumInView
  <2> DEFINE v == viewNum[r]
             S == {s \in ReplicaId : viewNum[s] >= v}
  <2>1. /\ \A s \in ReplicaId : viewNum[s] \in Nat
        /\ v \in 0 .. MaxView
    BY <1>1 DEF StructInv, VcTypes, VcTypesAt
  <2>2. IsFiniteSet(ReplicaId) /\ Cardinality(ReplicaId) = N
    BY SizeAssumption, FS_Interval DEF ReplicaId
  <2>3. CASE v = 0
    <3>1. S = ReplicaId
      BY <2>1, <2>3
    <3> QED
      BY <2>2, <3>1, SizeAssumption
  <2>4. CASE v # 0
    <3>1. PICK p \in ReplicaId : Led(p, v)
      BY <1>1, <2>4, NormalClaims DEF ViewInv, ClaimInv
    <3>2. PICK Q \in SUBSET ReplicaId :
            /\ Cardinality(Q) >= N \div 2 + 1
            /\ \A w \in Q : SpentFor(w, v, p)
      BY <3>1 DEF Led
    <3>3. Q \subseteq S
      BY <2>1, <3>2 DEF SpentFor, Voted
    <3>4. IsFiniteSet(S) /\ Cardinality(S) \in Nat
      BY <2>2, FS_Subset, FS_CardinalityType
    <3>5. Cardinality(Q) <= Cardinality(S) /\ Cardinality(Q) \in Nat
      BY <3>3, <3>4, FS_Subset, FS_CardinalityType
    <3> QED
      BY <3>2, <3>4, <3>5, SizeAssumption
  <2> QED
    BY <2>3, <2>4
<1> QED
  BY <1>1, ViewChangeInvariant, PTL

\* As long as no reply is lost, the NORMAL replicas of a view follow the same
\* primary, which has committed whatever any of them has.
THEOREM ViewsAgree == VcSpec => [](resent = 0 => ViewAgreement)
<1>1. ASSUME StructInv, ViewInv, resent = 0 PROVE ViewAgreement
  BY <1>1, NormalClaims
  DEF ViewInv, ClaimInv, BoundInv, Rules, isPrimary, ViewAgreement
<1> QED
  BY <1>1, ViewChangeInvariant, PTL

-----------------------------------------------------------------------------
(***************************************************************************)
(* Commit numbers.  A replica that adopts a log asserts that the log has   *)
(* the entry at its own commit number committed.  This bounds the number   *)
(* it adopts from below only because no log has a mark above the commit    *)
(* number that goes with it, on its way through messages and maps.         *)
(***************************************************************************)
\* No entry above c is marked as committed, in a log and in what getLog()
\* makes of it.
EntryMarked(e, c) == e.opNum \in Nat /\ (e.committed => e.opNum <= c)

LogMarked(log, c) ==
  /\ IsSeq(log.opNums)
  /\ \A i \in 1 .. Len(log.opNums) : log.opNums[i] \in DOMAIN log.entries
  /\ \A n \in DOMAIN log.entries :
       log.entries[n].opNum = n /\ EntryMarked(log.entries[n], c)

VecMarked(vec, c) ==
  /\ IsSeq(vec)
  /\ \A i \in 1 .. Len(vec) : EntryMarked(vec[i], c)

InfoMarked(x) == VecMarked(x.opLog, x.commitNum)

\* ... so in every log, in every message and in everything received.
MarkInv ==
  /\ DOMAIN opLog = ReplicaId
  /\ \A r \in ReplicaId : LogMarked(opLog[r], commitNum[r])
  /\ \A b \in ReplicaId :
       IsOffer(b) \/ IsStart(b) => InfoMarked(repListener[b].info.info)
  /\ \A b \in ReplicaId : \A v \in View :
       /\ \A i \in 1 .. Len(viewChangeInfoMap[b][v]) :
            InfoMarked(viewChangeInfoMap[b][v][i])
       /\ HasStart(b, v) => InfoMarked(viewStartInfoMap[b][v])

\* t1 is about to commit an operation that is not below the commit number.
BusyInv == \A r \in ReplicaId : Busy(r) => commitNum[r] <= opNum[r]

LogsInv == resent = 0 => BusyInv /\ MarkInv

-----------------------------------------------------------------------------
\* What append() makes of a log, what commit() does,
LEMMA AppendMarked ==
  ASSUME NEW log, NEW c, LogMarked(log, c), NEW op, NEW n \in Nat
  PROVE  LogMarked(append(log, op, n), c)
<1> DEFINE q == log.opNums
           a == Append(q, n)
           D == DOMAIN log.entries
           f == [m \in D \cup {n} |->
                   IF m = n THEN [op |-> op, opNum |-> n, committed |-> FALSE]
                            ELSE log.entries[m]]
<1>1. append(log, op, n).opNums = a /\ append(log, op, n).entries = f
  BY DEF append
<1>2. /\ IsSeq(q) /\ \A i \in 1 .. Len(q) : q[i] \in D
      /\ \A m \in D : log.entries[m].opNum = m /\ EntryMarked(log.entries[m], c)
  BY DEF LogMarked
<1>3. \A m \in DOMAIN f : f[m].opNum = m /\ EntryMarked(f[m], c)
  <2>1. f[n].opNum = n /\ EntryMarked(f[n], c)
    BY DEF EntryMarked
  <2> QED
    BY <1>2, <2>1
<1>4. DOMAIN f = D \cup {n}
  OBVIOUS
<1> HIDE DEF q, a, D, f
<1>5. /\ IsSeq(a) /\ Len(q) \in Nat /\ Len(a) = Len(q) + 1
      /\ \A i \in 1 .. Len(q) : a[i] = q[i]
      /\ a[Len(a)] = n
  BY <1>2, AppendFacts DEF a
<1>6. \A i \in 1 .. Len(a) : a[i] \in DOMAIN f
  BY <1>2, <1>4, <1>5
<1> QED
  BY <1>1, <1>3, <1>5, <1>6 DEF LogMarked

LEMMA CommitMarked ==
  ASSUME NEW log, NEW c \in Nat, LogMarked(log, c), NEW n \in Nat, c <= n
  PROVE  LogMarked(commit(log, n), n)
<1> DEFINE f == commit(log, n).entries
<1>1. /\ commit(log, n).opNums = log.opNums
      /\ DOMAIN f = DOMAIN log.entries
      /\ \A m \in DOMAIN f : f[m].opNum = log.entries[m].opNum
      /\ \A m \in DOMAIN f : m # n => f[m] = log.entries[m]
  BY DEF commit
<1> HIDE DEF f
<1>2. ASSUME NEW m \in DOMAIN f PROVE f[m].opNum = m /\ EntryMarked(f[m], n)
  <2>1. log.entries[m].opNum = m /\ EntryMarked(log.entries[m], c)
    BY <1>1, <1>2 DEF LogMarked
  <2>2. CASE m = n
    <3>1. f[m].opNum = n
      BY <1>1, <1>2, <2>1, <2>2
    <3> QED
      BY <2>2, <3>1 DEF EntryMarked
  <2>3. CASE m # n
    <3>1. f[m] = log.entries[m]
      BY <1>1, <1>2, <2>3
    <3>2. EntryMarked(f[m], c) /\ f[m].opNum = m
      BY <2>1, <3>1
    <3> QED
      BY <3>2 DEF EntryMarked
  <2> QED
    BY <2>2, <2>3
<1> QED
  BY <1>1, <1>2 DEF LogMarked, f

\* ... what getLog() returns,
LEMMA GetLogMarked ==
  ASSUME NEW log, NEW c, LogMarked(log, c)
  PROVE  VecMarked(getLog(log), c)
<1> DEFINE q == log.opNums
           m == Len(q)
           vec == [i \in 1 .. m |-> log.entries[q[i]]]
<1>1. getLog(log) = vec
  BY DEF getLog
<1>2. m \in Nat
  BY LenProperties DEF LogMarked, IsSeq
<1>3. \A i \in 1 .. m : EntryMarked(vec[i], c)
  BY DEF LogMarked
<1>4. DOMAIN vec = 1 .. m /\ vec \in [1 .. m -> {vec[i] : i \in DOMAIN vec}]
  OBVIOUS
<1> HIDE DEF vec, m
<1>5. vec \in Seq({vec[i] : i \in DOMAIN vec}) /\ Len(vec) = m
  BY <1>2, <1>4, IsASeq, LenProperties
<1> QED
  BY <1>1, <1>3, <1>5 DEF VecMarked, IsSeq

\* ... and the log that setLog() builds: for each number the last entry.
LEMMA SetLogMarked ==
  ASSUME NEW vec, NEW c, VecMarked(vec, c)
  PROVE  LogMarked(setLog(vec), c)
<1> DEFINE m == Len(vec)
           q == [i \in 1 .. m |-> vec[i].opNum]
           D == {q[i] : i \in 1 .. m}
           Last(n, i) == q[i] = n /\ \A j \in i + 1 .. m : q[j] # n
           At(n) == CHOOSE i \in 1 .. m : Last(n, i)
           f == [n \in D |-> vec[At(n)]]
<1>1. setLog(vec).opNums = q /\ setLog(vec).entries = f
  BY DEF setLog
<1>2. m \in Nat
  BY LenProperties DEF VecMarked, IsSeq
<1>3. \A i \in 1 .. m : q[i] = vec[i].opNum /\ EntryMarked(vec[i], c)
  BY DEF VecMarked
<1>4. DOMAIN q = 1 .. m /\ q \in [1 .. m -> {q[i] : i \in DOMAIN q}]
  OBVIOUS
<1> HIDE DEF m, q
<1>5. IsSeq(q) /\ Len(q) = m
  <2>1. q \in Seq({q[i] : i \in DOMAIN q}) /\ Len(q) = m
    BY <1>2, <1>4, IsASeq, LenProperties
  <2> QED
    BY <2>1 DEF IsSeq
<1>6. ASSUME NEW n \in D PROVE At(n) \in 1 .. m /\ q[At(n)] = n
  <2> DEFINE T == {k \in 0 .. m - 1 : q[m - k] = n}
  <2>1. T # {} /\ T \in SUBSET Nat
    <3>1. PICK i \in 1 .. m : q[i] = n
      OBVIOUS
    <3>2. m - i \in 0 .. m - 1 /\ m - (m - i) = i
      BY <1>2
    <3> QED
      BY <1>2, <3>1, <3>2
  <2> HIDE DEF T
  <2>2. PICK k \in T : \A l \in T : k <= l
    BY <2>1, LeastElement
  <2>3. m - k \in 1 .. m /\ q[m - k] = n /\ k \in Nat
    BY <1>2, <2>1 DEF T
  <2>4. ASSUME NEW j \in (m - k) + 1 .. m PROVE q[j] # n
    <3>1. m - j \in 0 .. m - 1 /\ m - (m - j) = j /\ ~ (k <= m - j)
      BY <1>2, <2>3, <2>4
    <3> QED
      BY <2>2, <3>1 DEF T
  <2>5. m - k \in 1 .. m /\ Last(n, m - k)
    BY <2>3, <2>4
  <2> HIDE DEF Last
  <2>6. At(n) \in 1 .. m /\ Last(n, At(n))
    BY <2>5
  <2> QED
    BY <2>6 DEF Last
<1>7. \A i \in 1 .. m : q[i] \in D
  OBVIOUS
<1> HIDE DEF At
<1>8. \A n \in D : f[n] = vec[At(n)]
  OBVIOUS
<1>9. \A n \in D : f[n].opNum = n /\ EntryMarked(f[n], c)
  BY <1>3, <1>6, <1>8
<1>10. DOMAIN f = D
  OBVIOUS
<1> QED
  BY <1>1, <1>5, <1>7, <1>9, <1>10 DEF LogMarked

\* A log whose entry n is committed is not behind n.
LEMMA FitsBound ==
  ASSUME NEW log, NEW c, LogMarked(log, c), NEW n, LogFits(log, n)
  PROVE  n <= c
BY DEF LogFits, isCommitted, hasEntry, LogMarked, EntryMarked

-----------------------------------------------------------------------------
\* Replication appends one entry or marks one, the commit number with it.
LEMMA NextLogs ==
  ASSUME Next, VcTypes, MutexInv, DOMAIN opLog = ReplicaId, NEW r \in ReplicaId
  PROVE  /\ DOMAIN opLog' = ReplicaId
         /\ \/ opLog'[r] = opLog[r] /\ commitNum'[r] = commitNum[r]
            \/ /\ commitNum'[r] = commitNum[r]
               /\ \E op : opLog'[r] = append(opLog[r], op, opNum[r] + 1)
            \/ /\ opLog'[r] = commit(opLog[r], commitNum'[r])
               /\ \/ Busy(r) /\ commitNum'[r] = opNum[r]
                  \/ commitNum'[r] = commitNum[r] + 1
BY DEF Next, ClientRequest, Replicate, invokePrepare, CountSelf, Notified,
       SpuriousWakeup, TimedOut, StartCommit, Finish, HeartBeat, invokeCommit,
       processCommit, PopPrepInfo, LogPrepInfo, invokePrepareOk, EndPrepInfo,
       CallFails, Crash, Dies, Aborts, EndCommit, replicaState, storage,
       NextCommit, Busy, VcTypes, VcDomains, VcTypesAt, MutexInv

\* While t1 is inside replicate(), nobody else commits.
LEMMA NextCommits ==
  ASSUME Next, VcTypes, MutexInv, NEW r \in ReplicaId, Busy(r)
  PROVE  commitNum'[r] \in {commitNum[r], opNum[r]}
BY DEF Next, ClientRequest, Replicate, invokePrepare, CountSelf, Notified,
       SpuriousWakeup, TimedOut, StartCommit, Finish, HeartBeat, invokeCommit,
       processCommit, PopPrepInfo, LogPrepInfo, invokePrepareOk, EndPrepInfo,
       CallFails, Crash, Dies, Aborts, EndCommit, replicaState, Busy, VcTypes,
       VcDomains, MutexInv

\* The log and the numbers of info become those of s.
Adopted(s, info) ==
  /\ LogFits(setLog(info.opLog), commitNum[s])
  /\ opLog'[s] = setLog(info.opLog) /\ commitNum'[s] = info.commitNum
  /\ \/ /\ quorumReached(s, doViewChangeMap[s][viewNum[s]])
        /\ viewNum[s] \in View
        /\ info = ScanInfos(viewChangeInfoMap[s][viewNum[s]])
     \/ \E v \in View : HasStart(s, v) /\ info = viewStartInfoMap[s][v]

\* A step of a view change leaves a log alone or replaces it by one received.
LEMMA VcLogs ==
  ASSUME VcMove, StructInv, DOMAIN opLog = ReplicaId, NEW s \in ReplicaId
  PROVE  /\ DOMAIN opLog' = ReplicaId
         /\ \/ opLog'[s] = opLog[s] /\ commitNum'[s] = commitNum[s]
            \/ \E info : Adopted(s, info)
<1> DEFINE Goal ==
      /\ DOMAIN opLog' = ReplicaId
      /\ \/ opLog'[s] = opLog[s] /\ commitNum'[s] = commitNum[s]
         \/ \E info : Adopted(s, info)
<1>0. /\ VcDomains /\ viewNum[s] \in 0 .. MaxView /\ MaxView \in Nat
      /\ vpc[s] # "none" => viewNum[s] \in View
  BY ViewAssumption DEF StructInv, VcTypes, VcTypesAt, MutexInv
<1>1. ASSUME NEW r \in ReplicaId, NEW v, BecomeBackup(r, v),
             HasStart(r, v), r = s => v \in View
      PROVE  Goal
  <2>1. CASE r = s
    <3>1. \/ UNCHANGED <<opLog, commitNum>>
          \/ /\ DOMAIN opLog' = ReplicaId
             /\ Adopted(s, viewStartInfoMap[s][v])
      BY <1>0, <1>1, <2>1
      DEF BecomeBackup, Adopt, AdoptState, Aborts, Dies, replicaState, storage,
          VcDomains, Adopted
    <3> QED
      BY <3>1
  <2>2. CASE r # s
    BY <1>0, <1>1, <2>2
    DEF BecomeBackup, Adopt, AdoptState, Aborts, Dies, replicaState, storage,
        VcDomains
  <2> QED
    BY <2>1, <2>2
<1>2. ASSUME NEW r \in ReplicaId, changeView(r) PROVE Goal
  <2>1. CASE /\ viewStartInfoMap[r][viewNum[r] + 1] # Nil
             /\ BecomeBackup(r, viewNum[r] + 1)
    <3>1. viewNum[r] < MaxView /\ (r = s => viewNum[r] + 1 \in View)
      BY <1>0, <1>2 DEF changeView, View
    <3> QED
      BY <1>1, <2>1, <3>1 DEF HasStart
  <2>2. CASE UNCHANGED <<commitNum, storage>>
    BY <2>2 DEF storage
  <2> QED
    BY <1>2, <2>1, <2>2 DEF changeView
<1>3. ASSUME NEW r \in ReplicaId, ViewArrived(r) PROVE Goal
  <2>1. vpc[r] # "none" /\ HasStart(r, viewNum[r]) /\ BecomeBackup(r, viewNum[r])
    BY <1>3 DEF ViewArrived, HasStart
  <2> QED
    BY <1>0, <1>1, <2>1
<1>4. ASSUME NEW r \in ReplicaId, InfosArrived(r) PROVE Goal
  <2>1. CASE r = s
    <3>1. \/ UNCHANGED <<opLog, commitNum>>
          \/ /\ DOMAIN opLog' = ReplicaId
             /\ Adopted(s, ScanInfos(viewChangeInfoMap[s][viewNum[s]]))
      BY <1>0, <1>4, <2>1
      DEF InfosArrived, BecomePrimary, Adopt, AdoptState, Aborts, Dies,
          replicaState, storage, VcDomains, Adopted
    <3> QED
      BY <3>1
  <2>2. CASE r # s
    BY <1>0, <1>4, <2>2
    DEF InfosArrived, BecomePrimary, Adopt, AdoptState, Aborts, Dies,
        replicaState, storage, VcDomains
  <2> QED
    BY <2>1, <2>2
<1>5. ASSUME NEW r \in ReplicaId, NEW b \in ReplicaId,
             \/ invokeStartViewChange(r, b) \/ invokeDoViewChange(r, b)
             \/ DoViewChangeFails(r, b) \/ invokeStartView(r, b)
             \/ vcCallFails(r, b) \/ processDoViewChange(r) \/ processStartView(r)
             \/ AssertPrimaryFails(r) \/ SpuriousVcWakeup(r) \/ VcTimedOut(r)
             \/ CandidateIsSelf(r) \/ CountOwnRequest(r) \/ RequestsArrived(r)
             \/ EndStartView(r)
      PROVE  UNCHANGED <<opLog, commitNum>>
  BY <1>5
  DEF invokeStartViewChange, invokeDoViewChange, DoViewChangeFails,
      invokeStartView, vcCallFails, processDoViewChange, processStartView,
      AssertPrimaryFails, SpuriousVcWakeup, VcTimedOut, CandidateIsSelf,
      CountOwnRequest, RequestsArrived, ReachedStartQuorum, EndStartView,
      Aborts, Dies, replicaState, storage
<1>6. ASSUME UNCHANGED <<opLog, commitNum>> PROVE Goal
  BY <1>6
<1> QED
  BY <1>2, <1>3, <1>4, <1>5, <1>6 DEF VcMove, VcStep

\* What is adopted has no mark above its commit number, and has the entry at
\* the old commit number committed: the number does not fall.
LEMMA AdoptedMarks ==
  ASSUME StructInv, MarkInv, NEW s \in ReplicaId, NEW info, Adopted(s, info)
  PROVE  LogMarked(opLog'[s], commitNum'[s]) /\ commitNum[s] <= commitNum'[s]
<1>1. InfoMarked(info)
  <2>1. CASE \E v \in View : HasStart(s, v) /\ info = viewStartInfoMap[s][v]
    BY <2>1 DEF MarkInv
  <2>2. CASE /\ quorumReached(s, doViewChangeMap[s][viewNum[s]])
             /\ viewNum[s] \in View
             /\ info = ScanInfos(viewChangeInfoMap[s][viewNum[s]])
    <3> DEFINE q == viewChangeInfoMap[s][viewNum[s]]
    <3>1. IsSeq(q) /\ doViewChangeMap[s][viewNum[s]] = Len(q)
      BY <2>2 DEF StructInv, InfoInv
    <3>2. Len(q) \in Nat
      BY <3>1, LenProperties DEF IsSeq
    <3>3. Len(q) >= N \div 2 + 1
      BY <2>2, <3>1, <3>2, QuorumIsMajority DEF StructInv
    <3>4. Len(q) \in Nat \ {0}
      BY <3>2, <3>3, SizeAssumption
    <3>5. PICK i \in 1 .. Len(q) : info = q[i]
      BY <2>2, <3>4, ScanPicks
    <3> QED
      BY <2>2, <3>5 DEF MarkInv
  <2> QED
    BY <2>1, <2>2 DEF Adopted
<1>2. LogMarked(setLog(info.opLog), info.commitNum)
  BY <1>1, SetLogMarked DEF InfoMarked
<1> QED
  BY <1>2, FitsBound DEF Adopted

-----------------------------------------------------------------------------
\* t1 commits nothing that lies below the commit number.
LEMMA BusyKept ==
  ASSUME StructInv, BoundInv, BusyInv, VcMove \/ Next
  PROVE  BusyInv'
<1> SUFFICES ASSUME NEW r \in ReplicaId, Busy(r)' PROVE commitNum'[r] <= opNum'[r]
  BY DEF BusyInv
<1>0. /\ VcTypes /\ MutexInv /\ MsgInv
      /\ opNum[r] \in Nat /\ commitNum[r] \in Nat
  BY DEF StructInv, VcTypes, VcTypesAt
<1>1. CASE VcMove
  <2>1. Busy(r) /\ Phase(r)
    BY <1>0, <1>1, VcKeeps, VcPhases DEF Busy
  <2>2. repMutex[r] = "t1" /\ vpc[r] = "none"
    BY <1>0, <2>1 DEF MutexInv
  <2>3. Stays(r)
    BY <2>1, <2>2
    DEF Phase, Begins, Asks, Settles, Leaves, Elected, ElectedWith, Follows,
        FollowsIn
  <2> QED
    BY <2>1, <2>3 DEF Stays, SameRole, SameView, SameNumbers, BusyInv
<1>2. CASE Next
  <2>1. opNum'[r] \in {opNum[r], opNum[r] + 1}
    BY <1>0, <1>2, NextNumbers
  <2>2. CASE Busy(r)
    <3>1. commitNum'[r] \in {commitNum[r], opNum[r]} /\ commitNum[r] <= opNum[r]
      <4>1. \/ commitNum'[r] = commitNum[r] \/ commitNum'[r] = opNum[r]
        BY <1>0, <1>2, <2>2, NextCommits
      <4> QED
        BY <2>2, <4>1 DEF BusyInv
    <3> QED
      BY <1>0, <2>1, <3>1
  <2>3. CASE ~ Busy(r)
    <3>1. Rules(r)
      BY <1>0, <1>2, <2>3, NextMutex
    <3>2. /\ commitNum[r] <= opNum[r]
          /\ IsCommit(r) /\ repListener[r].info.viewNum = viewNum[r]
               => repListener[r].info.commitNum <= commitNum[r]
      BY <3>1 DEF BoundInv
    <3>3. IsCommit(r) => repListener[r].info.commitNum \in Nat
      BY <1>0 DEF MsgInv
    <3>4. commitNum'[r] = commitNum[r]
      BY <1>0, <1>2, <2>3, <3>2, <3>3, NextNumbers
    <3> QED
      BY <1>0, <2>1, <3>2, <3>4
  <2> QED
    BY <2>2, <2>3
<1> QED
  BY <1>1, <1>2

\* What a replica sends of its log carries no mark above its commit number.
LEMMA SentMarked ==
  ASSUME MarkInv, NEW r \in ReplicaId
  PROVE  InfoMarked(viewChangeInfo(r)) /\ InfoMarked(viewStartInfo(r))
<1>1. VecMarked(getLog(opLog[r]), commitNum[r])
  BY GetLogMarked DEF MarkInv
<1> QED
  BY <1>1 DEF InfoMarked, viewChangeInfo, viewStartInfo

\* A step of a view change keeps the marks,
LEMMA VcMarksKept ==
  ASSUME VcMove, StructInv, MarkInv
  PROVE  MarkInv'
<1>0. VcTypes /\ MutexInv /\ MsgInv /\ InfoInv
  BY DEF StructInv
<1>1. 0 \in ReplicaId
  BY SizeAssumption DEF ReplicaId
<1>2. DOMAIN opLog' = ReplicaId
  BY <1>1, VcLogs DEF MarkInv
<1>3. ASSUME NEW r \in ReplicaId PROVE LogMarked(opLog'[r], commitNum'[r])
  <2>1. CASE opLog'[r] = opLog[r] /\ commitNum'[r] = commitNum[r]
    BY <2>1 DEF MarkInv
  <2>2. CASE \E info : Adopted(r, info)
    BY <2>2, AdoptedMarks
  <2> QED
    BY <2>1, <2>2, VcLogs DEF MarkInv
<1>4. ASSUME NEW b \in ReplicaId, IsOffer(b)' \/ IsStart(b)'
      PROVE  InfoMarked(repListener'[b].info.info)
  <2>1. CASE repListener'[b] = repListener[b]
    BY <1>4, <2>1 DEF MarkInv, IsOffer, IsStart
  <2>2. CASE repListener'[b] = Nil
    BY <1>4, <2>2 DEF IsOffer, IsStart
  <2>3. ASSUME NEW r \in ReplicaId,
               NewMsg(b, r, doViewChangeMsg(r)) \/ NewMsg(b, r, startViewMsg(r))
        PROVE  InfoMarked(repListener'[b].info.info)
    <3>1. repListener'[b].info.info \in {viewChangeInfo(r), viewStartInfo(r)}
      BY <2>3 DEF NewMsg, doViewChangeMsg, startViewMsg
    <3> QED
      BY <3>1, SentMarked
  <2> QED
    BY <1>0, <2>1, <2>2, <2>3, VcMessages DEF MsgStep
<1>5. ASSUME NEW b \in ReplicaId, NEW v \in View
      PROVE  \A i \in 1 .. Len(viewChangeInfoMap'[b][v]) :
               InfoMarked(viewChangeInfoMap'[b][v][i])
  <2> DEFINE p == viewChangeInfoMap[b][v]
             q == viewChangeInfoMap'[b][v]
             Goal == \A i \in 1 .. Len(q) : InfoMarked(q[i])
  <2>0. /\ IsSeq(p) /\ \A i \in 1 .. Len(p) : InfoMarked(p[i])
        /\ DOMAIN viewChangeInfoMap[b] = View
    BY <1>0 DEF InfoInv, MarkInv, VcTypes, VcTypesAt
  <2>1. ASSUME q = p PROVE Goal
    BY <2>0, <2>1
  <2>2. ASSUME NEW u, NEW info, InfoMarked(info), InfoCounted(b, u, info)
        PROVE  Goal
    <3>1. q = p \/ q = Append(p, info)
      BY <2>0, <2>2 DEF InfoCounted
    <3> HIDE DEF p, q
    <3>2. ASSUME q = Append(p, info) PROVE Goal
      <4>1. /\ Len(p) \in Nat /\ Len(q) = Len(p) + 1
            /\ \A i \in 1 .. Len(p) : q[i] = p[i]
            /\ q[Len(q)] = info
        BY <2>0, <3>2, AppendFacts
      <4>2. \A i \in 1 .. Len(q) : i \in 1 .. Len(p) \/ i = Len(q)
        BY <4>1
      <4> QED
        BY <2>0, <2>2, <4>1, <4>2
    <3> QED
      BY <2>1, <3>1, <3>2
  <2>3. CASE InfosKept(b)
    BY <2>1, <2>3 DEF InfosKept
  <2>4. CASE InfosCleared(b)
    <3>1. q = <<>>
      BY <2>4 DEF InfosCleared
    <3> QED
      BY <3>1, EmptyFacts
  <2>5. CASE CountsOwn(b)
    BY <2>2, <2>5, SentMarked DEF CountsOwn
  <2>6. CASE CountsOffer(b)
    <3>1. IsOffer(b)
      BY <2>6 DEF CountsOffer
    <3> QED
      BY <2>2, <2>6, <3>1 DEF CountsOffer, MarkInv
  <2>7. InfoStep(b)
    BY <1>0, VcInfos
  <2> QED
    BY <2>3, <2>4, <2>5, <2>6, <2>7 DEF InfoStep
<1>6. ASSUME NEW b \in ReplicaId, NEW v \in View, HasStart(b, v)'
      PROVE  InfoMarked(viewStartInfoMap'[b][v])
  <2>0. DOMAIN viewStartInfoMap[b] = View /\ DOMAIN startViewMap[b] = View
    BY <1>0 DEF VcTypes, VcTypesAt
  <2>1. CASE StartKept(b)
    BY <1>6, <2>1 DEF StartKept, HasStart, MarkInv
  <2>2. CASE StartCleared(b)
    BY <1>6, <2>2 DEF StartCleared, HasStart
  <2>3. CASE StartRecorded(b)
    <3> DEFINE info == repListener[b].info.info
    <3>1. InfoMarked(info)
      BY <2>3 DEF StartRecorded, MarkInv
    <3>2. CASE v = info.viewNum
      BY <2>0, <2>3, <3>1, <3>2 DEF StartRecorded
    <3>3. CASE v # info.viewNum
      <4>1. HasStart(b, v) /\ viewStartInfoMap'[b][v] = viewStartInfoMap[b][v]
        BY <1>6, <2>0, <2>3, <3>3 DEF StartRecorded, HasStart
      <4> QED
        BY <4>1 DEF MarkInv
    <3> QED
      BY <3>2, <3>3
  <2> QED
    BY <1>0, <2>1, <2>2, <2>3, VcStarts DEF StartStep
<1> QED
  BY <1>2, <1>3, <1>4, <1>5, <1>6 DEF MarkInv

\* ... and so does a step of replication.
LEMMA NextMarksKept ==
  ASSUME Next, UNCHANGED vcVars, StructInv, BusyInv, MarkInv
  PROVE  MarkInv'
<1>0. VcTypes /\ MutexInv
  BY DEF StructInv
<1>1. 0 \in ReplicaId
  BY SizeAssumption DEF ReplicaId
<1>2. DOMAIN opLog' = ReplicaId
  BY <1>0, <1>1, NextLogs DEF MarkInv
<1>3. ASSUME NEW r \in ReplicaId PROVE LogMarked(opLog'[r], commitNum'[r])
  <2>0. /\ LogMarked(opLog[r], commitNum[r])
        /\ opNum[r] \in Nat /\ commitNum[r] \in Nat
    BY <1>0 DEF MarkInv, VcTypes, VcTypesAt
  <2>1. CASE opLog'[r] = opLog[r] /\ commitNum'[r] = commitNum[r]
    BY <2>0, <2>1
  <2>2. ASSUME commitNum'[r] = commitNum[r],
               NEW op, opLog'[r] = append(opLog[r], op, opNum[r] + 1)
        PROVE  LogMarked(opLog'[r], commitNum'[r])
    <3>1. opNum[r] + 1 \in Nat
      BY <2>0
    <3> QED
      BY <2>0, <2>2, <3>1, AppendMarked
  <2>3. ASSUME opLog'[r] = commit(opLog[r], commitNum'[r]),
               \/ Busy(r) /\ commitNum'[r] = opNum[r]
               \/ commitNum'[r] = commitNum[r] + 1
        PROVE  LogMarked(opLog'[r], commitNum'[r])
    <3>1. commitNum'[r] \in Nat /\ commitNum[r] <= commitNum'[r]
      BY <2>0, <2>3 DEF BusyInv
    <3> QED
      BY <2>0, <2>3, <3>1, CommitMarked
  <2> QED
    BY <1>0, <2>1, <2>2, <2>3, NextLogs DEF MarkInv
<1>4. ASSUME NEW b \in ReplicaId, IsOffer(b)' \/ IsStart(b)'
      PROVE  InfoMarked(repListener'[b].info.info)
  <2>1. CASE repListener'[b] = repListener[b]
    BY <1>4, <2>1 DEF MarkInv, IsOffer, IsStart
  <2>2. CASE repListener'[b] # repListener[b]
    <3>1. repListener'[b] # Nil /\ repListener'[b].thread = "vc"
      BY <1>4 DEF IsOffer, IsStart
    <3>2. PICK p \in ReplicaId \ {b}, t \in {"t1", "hbt"} :
            repListener'[b] = [from |-> p, thread |-> t, info |-> commitInfo(p, t)]
      BY <1>0, <2>2, <3>1, NextListener
    <3>3. repListener'[b].thread = t
      BY <3>2
    <3> QED
      BY <3>1, <3>3
  <2> QED
    BY <2>1, <2>2
<1>5. /\ UNCHANGED <<viewChangeInfoMap, viewStartInfoMap, startViewMap>>
  BY DEF vcVars, mapVars
<1> QED
  BY <1>2, <1>3, <1>4, <1>5 DEF MarkInv, HasStart

-----------------------------------------------------------------------------
\* At first every replica has the same log, all of it committed.
LEMMA InitLogs ==
  ASSUME VcInit
  PROVE  LogsInv
<1> DEFINE m == Len(Committed)
<1>1. m \in Nat
  BY ViewAssumption
<1>2. BusyInv
  BY DEF VcInit, InitCommitted, BusyInv, Busy
<1>3. LogMarked(InitLog, m)
  <2> DEFINE q == [n \in 1 .. m |-> n]
             f == InitLog.entries
  <2>1. /\ InitLog.opNums = q /\ DOMAIN f = 1 .. m
        /\ \A n \in 1 .. m : f[n].opNum = n
    BY DEF InitLog
  <2>2. q \in [1 .. m -> {q[i] : i \in DOMAIN q}] /\ \A i \in 1 .. m : q[i] = i
    OBVIOUS
  <2> HIDE DEF m, q, f
  <2>3. q \in Seq({q[i] : i \in DOMAIN q}) /\ Len(q) = m
    BY <1>1, <2>2, IsASeq, LenProperties
  <2>4. \A n \in DOMAIN f : f[n].opNum = n /\ EntryMarked(f[n], m)
    BY <1>1, <2>1 DEF EntryMarked
  <2> QED
    BY <2>1, <2>2, <2>3, <2>4 DEF LogMarked, IsSeq, f
<1>4. /\ DOMAIN opLog = ReplicaId
      /\ \A r \in ReplicaId : /\ opLog[r] = InitLog /\ commitNum[r] = m
                              /\ ~ IsOffer(r) /\ ~ IsStart(r)
  BY DEF VcInit, InitCommitted, IsOffer, IsStart
<1>5. \A b \in ReplicaId : \A v \in View :
        viewChangeInfoMap[b][v] = <<>> /\ ~ HasStart(b, v)
  BY DEF VcInit, HasStart
<1>6. MarkInv
  BY <1>3, <1>4, <1>5, EmptyFacts DEF MarkInv
<1> QED
  BY <1>2, <1>6 DEF LogsInv

\* Marks and numbers are kept as long as no reply is lost.
LEMMA StepLogs ==
  ASSUME StructInv, ViewInv, LogsInv, [VcNext]_allVars
  PROVE  LogsInv'
<1> SUFFICES ASSUME resent' = 0 PROVE BusyInv' /\ MarkInv'
  BY DEF LogsInv
<1>0. BusyInv /\ MarkInv /\ BoundInv
  BY StepResent DEF LogsInv, ViewInv
<1>1. CASE VcMove
  BY <1>0, <1>1, BusyKept, VcMarksKept
<1>2. CASE Next /\ UNCHANGED vcVars
  BY <1>0, <1>2, BusyKept, NextMarksKept
<1>3. CASE UNCHANGED allVars
  <2>1. UNCHANGED <<opNum, commitNum, opLog, cpc, repListener,
                    viewChangeInfoMap, viewStartInfoMap, startViewMap>>
    BY <1>3
    DEF allVars, vars, replicaState, storage, clientVars, rpcVars, vcVars,
        mapVars
  <2> QED
    BY <1>0, <2>1
    DEF BusyInv, Busy, MarkInv, IsOffer, IsStart, HasStart
<1> QED
  BY <1>1, <1>2, <1>3 DEF VcNext, VcMove

\* A step from such a state lowers no commit number.
LEMMA StepCommits ==
  ASSUME StructInv, LogsInv, resent = 0, [VcNext]_allVars, NEW r \in ReplicaId
  PROVE  commitNum'[r] >= commitNum[r]
<1>0. /\ VcTypes /\ MutexInv /\ BusyInv /\ MarkInv
      /\ opNum[r] \in Nat /\ commitNum[r] \in Nat
  BY DEF StructInv, LogsInv, VcTypes, VcTypesAt
<1>1. CASE VcMove
  <2>1. /\ DOMAIN opLog = ReplicaId
        /\ VcTypes'
    BY <1>0, <1>1, VcTypesKept DEF MarkInv
  <2>2. commitNum'[r] \in Nat
    BY <2>1 DEF VcTypes, VcTypesAt
  <2>3. commitNum'[r] = commitNum[r] \/ \E info : Adopted(r, info)
    BY <1>1, <2>1, VcLogs
  <2> QED
    BY <1>0, <2>2, <2>3, AdoptedMarks
<1>2. CASE Next /\ UNCHANGED vcVars
  <2>1. \/ commitNum'[r] = commitNum[r] \/ commitNum'[r] = commitNum[r] + 1
        \/ Busy(r) /\ commitNum'[r] = opNum[r]
    BY <1>0, <1>2, NextNumbers
  <2> QED
    BY <1>0, <2>1 DEF BusyInv
<1>3. CASE UNCHANGED allVars
  BY <1>0, <1>3 DEF allVars, vars, replicaState
<1> QED
  BY <1>1, <1>2, <1>3 DEF VcNext, VcMove

\* As long as no reply is lost, a change of the view never takes a replica back
\* to a lower commit number: what it adopts has its own last committed entry
\* committed, and no log has a mark above the number that goes with it.
THEOREM CommitsGrow == VcSpec /\ [](resent = 0) => CommitNumsGrow
<1>1. VcInit => LogsInv
  BY InitLogs
<1>2. StructInv /\ ViewInv /\ LogsInv /\ [VcNext]_allVars => LogsInv'
  BY StepLogs
<1>3. StructInv /\ LogsInv /\ resent = 0 /\ [VcNext]_allVars
        => [\A r \in ReplicaId : commitNum'[r] >= commitNum[r]]_allVars
  BY StepCommits
<1> QED
  BY <1>1, <1>2, <1>3, ViewChangeInvariant, PTL DEF VcSpec, CommitNumsGrow

-----------------------------------------------------------------------------
(***************************************************************************)
(* Types of changeView's variables.  Two of them are not obvious: a count  *)
(* of requests may pass the quorum by the replica's own one only, and the  *)
(* id of the next candidate stays that of a replica, as long as nobody     *)
(* counts itself among the others (LogPrepInfo inserts an entry for the    *)
(* primary, who may by then be the replica itself).                        *)
(***************************************************************************)
\* No replica has inserted itself into its map of the others (LogPrepInfo).
NoOwnEntry == \A r \in ReplicaId : r \notin peers[r]

HbtPhase ==
  {"none", "startViewChange", "waitRequests", "doViewChange", "haveInfos",
   "waitInfos", "haveView", "waitView", "startView"}

LoopTypes ==
  /\ viewStartReqMap \in [ReplicaId -> [View -> Nat]]
  /\ doViewChangeMap \in [ReplicaId -> [View -> Nat]]
  /\ startViewMap \in [ReplicaId -> [View -> 0 .. 1]]
  /\ vpc \in [ReplicaId -> HbtPhase]
  /\ vcTodo \in [ReplicaId -> SUBSET ReplicaId]
  /\ newPriId \in [ReplicaId -> ReplicaId]
  /\ tried \in [ReplicaId -> 0 .. N]
  /\ vcTimeouts \in Nat
  /\ viewNum \in [ReplicaId -> Nat]

MajorityCnt == N \div 2 + 1

\* hbt of r has counted its own request for view v.
Counted(r, v) ==
  viewNum[r] > v \/ (viewNum[r] = v /\ vpc[r] # "startViewChange")

\* Requests are counted up to the quorum, and the own one once in any case.
RequestsInv ==
  \A r \in ReplicaId : \A v \in View :
    \/ viewStartReqMap[r][v] <= MajorityCnt
    \/ Counted(r, v) /\ viewStartReqMap[r][v] <= MajorityCnt + 1

\* While there is a candidate to call, the loop has another turn left, or the
\* next candidate is the replica itself.
TriedInv ==
  \A r \in ReplicaId :
    vpc[r] = "doViewChange" /\ vcTodo[r] # {} => tried[r] = 0 \/ tried[r] + 2 < N

LoopInv == LoopTypes /\ RequestsInv /\ TriedInv

\* Without an entry for itself a replica knows exactly the others, and the
\* candidates are replicas.
LEMMA OthersOnly ==
  ASSUME StructInv, NoOwnEntry, NEW r \in ReplicaId
  PROVE  /\ peers[r] = OtherReplicas(r) /\ Cardinality(peers[r]) = N - 1
         /\ \A cnt \in Nat : quorumReached(r, cnt) <=> cnt >= MajorityCnt
         /\ \A c \in ReplicaId :
              /\ NextCandidate(r, c) \in ReplicaId
              /\ N = 2 /\ c # r => NextCandidate(r, c) = r
<1>1. peers[r] \subseteq ReplicaId /\ OtherReplicas(r) \subseteq peers[r]
  BY DEF StructInv, VcTypes, VcTypesAt
<1>2. peers[r] = ReplicaId \ {r} /\ OtherReplicas(r) = ReplicaId \ {r}
  BY <1>1 DEF NoOwnEntry, OtherReplicas
<1>3. IsFiniteSet(ReplicaId) /\ Cardinality(ReplicaId) = N
  BY SizeAssumption, FS_Interval DEF ReplicaId
<1>4. Cardinality(peers[r]) = N - 1
  BY <1>2, <1>3, FS_RemoveElement
<1>5. \A cnt \in Nat : quorumReached(r, cnt) <=> cnt >= MajorityCnt
  BY <1>4, SizeAssumption DEF quorumReached, getMajorityCnt, MajorityCnt
<1>6. ASSUME NEW c \in ReplicaId
      PROVE  /\ NextCandidate(r, c) \in ReplicaId
             /\ N = 2 /\ c # r => NextCandidate(r, c) = r
  <2>1. NextCandidate(r, c) = IF c + 1 > N - 1 THEN 0 ELSE c + 1
    BY <1>4 DEF NextCandidate
  <2> QED
    BY <2>1, SizeAssumption DEF ReplicaId
<1> QED
  BY <1>2, <1>4, <1>5, <1>6

-----------------------------------------------------------------------------
\* What a step does to the requests counted at a replica.
RequestsKept(s) == viewStartReqMap'[s] = viewStartReqMap[s]
RequestsCleared(s) == viewStartReqMap'[s] = [v \in View |-> 0]
OwnCounted(s) ==
  /\ vpc[s] = "startViewChange" /\ vpc'[s] # "startViewChange"
  /\ viewNum'[s] = viewNum[s]
  /\ viewStartReqMap'[s] = [viewStartReqMap[s] EXCEPT ![viewNum[s]] = @ + 1]
RequestCounted(s) ==
  \E v : /\ ~quorumReached(s, viewStartReqMap[s][v])
         /\ viewStartReqMap'[s] = [viewStartReqMap[s] EXCEPT ![v] = @ + 1]
RequestStep(s) ==
  RequestsKept(s) \/ RequestsCleared(s) \/ OwnCounted(s) \/ RequestCounted(s)

\* ... which it keeps, clears or extends by one, short of a quorum or for itself.
LEMMA VcRequests ==
  ASSUME VcMove, VcTypes, LoopTypes, NEW s \in ReplicaId
  PROVE  RequestStep(s)
<1>0. VcDomains /\ DOMAIN viewStartReqMap = ReplicaId
  BY DEF VcTypes, LoopTypes
<1>1. ASSUME NEW r \in ReplicaId, CountOwnRequest(r) PROVE RequestStep(s)
  <2>1. RequestsKept(s) \/ OwnCounted(s)
    BY <1>0, <1>1
    DEF CountOwnRequest, ReachedStartQuorum, replicaState, VcDomains,
        RequestsKept, OwnCounted
  <2> QED
    BY <2>1 DEF RequestStep
<1>2. ASSUME NEW r \in ReplicaId, NEW b \in ReplicaId,
             invokeStartViewChange(r, b)
      PROVE  RequestStep(s)
  <2>1. CASE viewStartReqMap' = viewStartReqMap
    BY <2>1 DEF RequestStep, RequestsKept
  <2>2. CASE /\ ~quorumReached(b, viewStartReqMap[b][viewNum[r]])
             /\ viewStartReqMap' =
                  [viewStartReqMap EXCEPT ![b][viewNum[r]] = @ + 1]
    BY <1>0, <2>2 DEF RequestStep, RequestsKept, RequestCounted
  <2> QED
    BY <1>2, <2>1, <2>2 DEF invokeStartViewChange, processStartViewChange
<1>3. ASSUME NEW r \in ReplicaId, changeView(r) \/ ViewArrived(r) \/ EndStartView(r)
      PROVE  RequestStep(s)
  BY <1>0, <1>3
  DEF changeView, ViewArrived, BecomeBackup, EndStartView, ClearMaps, mapVars,
      vcVars, RequestStep, RequestsKept, RequestsCleared
<1>4. ASSUME NEW r \in ReplicaId, NEW b \in ReplicaId,
             \/ invokeDoViewChange(r, b) \/ RequestsArrived(r)
             \/ DoViewChangeFails(r, b) \/ invokeStartView(r, b)
             \/ vcCallFails(r, b) \/ processDoViewChange(r)
             \/ processStartView(r) \/ InfosArrived(r)
             \/ AssertPrimaryFails(r) \/ SpuriousVcWakeup(r) \/ VcTimedOut(r)
             \/ CandidateIsSelf(r)
      PROVE  RequestStep(s)
  BY <1>4
  DEF invokeDoViewChange, RequestsArrived, DoViewChangeFails,
      invokeStartView, vcCallFails, processDoViewChange, processStartView,
      InfosArrived, BecomePrimary, AssertPrimaryFails, SpuriousVcWakeup,
      VcTimedOut, CandidateIsSelf, mapVars, vcVars, RequestStep, RequestsKept
<1> QED
  BY <1>1, <1>2, <1>3, <1>4 DEF VcMove, VcStep

\* So the count passes the quorum by the own request only.
LEMMA VcRequestsKept ==
  ASSUME VcMove, StructInv, NoOwnEntry, LoopTypes, RequestsInv
  PROVE  RequestsInv'
<1> SUFFICES ASSUME NEW s \in ReplicaId, NEW v \in View
             PROVE  \/ viewStartReqMap'[s][v] <= MajorityCnt
                    \/ /\ Counted(s, v)'
                       /\ viewStartReqMap'[s][v] <= MajorityCnt + 1
  BY DEF RequestsInv
<1> DEFINE m == viewStartReqMap[s]
           h == MajorityCnt
<1>0. /\ VcTypes /\ MutexInv /\ MsgInv
      /\ v \in Nat /\ viewNum[s] \in Nat /\ h \in Nat
      /\ m \in [View -> Nat]
  <2>1. VcTypes /\ MutexInv /\ MsgInv /\ v \in Nat /\ viewNum[s] \in Nat
    BY ViewAssumption DEF StructInv, VcTypes, VcTypesAt, View
  <2>2. h \in Nat
    BY SizeAssumption DEF MajorityCnt
  <2>3. m \in [View -> Nat]
    BY DEF LoopTypes
  <2> QED
    BY <2>1, <2>2, <2>3
<1>1. m[v] <= h \/ (Counted(s, v) /\ m[v] <= h + 1)
  BY <1>0 DEF RequestsInv
<1>2. Phase(s)
  BY <1>0, VcPhases
<1>3. viewNum'[s] \in Nat /\ viewNum'[s] >= viewNum[s]
  BY <1>2, PhaseViews, ViewAssumption
<1>4. Counted(s, v) => Counted(s, v)'
  BY <1>0, <1>2, <1>3
  DEF Counted, Phase, Stays, Begins, Asks, Settles, Leaves, Elected,
      ElectedWith, Follows, FollowsIn, SameRole, SameView
<1>5. CASE RequestsKept(s)
  BY <1>1, <1>4, <1>5 DEF RequestsKept
<1>6. CASE RequestsCleared(s)
  BY <1>0, <1>6 DEF RequestsCleared
<1>7. CASE OwnCounted(s)
  <2>1. CASE v = viewNum[s]
    <3>1. ~ Counted(s, v) /\ Counted(s, v)'
      BY <1>0, <1>7, <2>1 DEF OwnCounted, Counted
    <3>2. m'[v] = m[v] + 1
      BY <1>0, <1>7, <2>1 DEF OwnCounted
    <3> QED
      BY <1>0, <1>1, <3>1, <3>2
  <2>2. CASE v # viewNum[s]
    <3>1. m'[v] = m[v]
      BY <1>0, <1>7, <2>2 DEF OwnCounted
    <3> QED
      BY <1>1, <1>4, <3>1
  <2> QED
    BY <2>1, <2>2
<1>8. CASE RequestCounted(s)
  <2>1. PICK u : /\ ~quorumReached(s, m[u])
                 /\ m' = [m EXCEPT ![u] = @ + 1]
    BY <1>8 DEF RequestCounted
  <2>2. CASE v = u
    <3>1. m[v] \in Nat /\ m[v] < h
      BY <1>0, <2>1, <2>2, OthersOnly
    <3>2. m'[v] = m[v] + 1
      BY <1>0, <2>1, <2>2
    <3> QED
      BY <1>0, <3>1, <3>2
  <2>3. CASE v # u
    <3>1. m'[v] = m[v]
      BY <1>0, <2>1, <2>3
    <3> QED
      BY <1>1, <1>4, <3>1
  <2> QED
    BY <2>2, <2>3
<1> QED
  BY <1>0, <1>5, <1>6, <1>7, <1>8, VcRequests DEF RequestStep

\* The next candidate is a replica, and no more are tried than there are.
LEMMA VcTries ==
  ASSUME VcMove, StructInv, NoOwnEntry, LoopTypes, TriedInv
  PROVE  /\ vcTodo' \in [ReplicaId -> SUBSET ReplicaId]
         /\ newPriId' \in [ReplicaId -> ReplicaId]
         /\ tried' \in [ReplicaId -> 0 .. N]
         /\ TriedInv'
<1> DEFINE
      Types == /\ vcTodo' \in [ReplicaId -> SUBSET ReplicaId]
               /\ newPriId' \in [ReplicaId -> ReplicaId]
               /\ tried' \in [ReplicaId -> 0 .. N]
      Goal == Types /\ TriedInv'
<1>0. /\ vcTodo \in [ReplicaId -> SUBSET ReplicaId]
      /\ newPriId \in [ReplicaId -> ReplicaId]
      /\ tried \in [ReplicaId -> 0 .. N]
      /\ DOMAIN vpc = ReplicaId
      /\ N \in Nat
      /\ MsgInv
      /\ \A r \in ReplicaId : r \notin vcTodo[r]
      /\ \A r \in ReplicaId : priId[r] \in ReplicaId
      /\ \A r \in ReplicaId : peers[r] \ {r} \subseteq ReplicaId
  BY SizeAssumption DEF LoopTypes, StructInv, VcTypes, VcTypesAt, MutexInv
<1>1. ASSUME UNCHANGED <<newPriId, tried>>,
             vcTodo' \in [ReplicaId -> SUBSET ReplicaId],
             \A s \in ReplicaId :
               /\ vpc'[s] = "doViewChange" => vpc[s] = "doViewChange"
               /\ vpc'[s] = "doViewChange" => vcTodo'[s] \subseteq vcTodo[s]
      PROVE  Goal
  <2>1. Types
    BY <1>0, <1>1
  <2>2. TriedInv'
    BY <1>1 DEF TriedInv
  <2> QED
    BY <2>1, <2>2
<1>2. ASSUME NEW r \in ReplicaId, NEW b \in ReplicaId, vcReturned(r, b)
      PROVE  /\ vcTodo' \in [ReplicaId -> SUBSET ReplicaId]
             /\ \A s \in ReplicaId : vcTodo'[s] \subseteq vcTodo[s]
  BY <1>0, <1>2 DEF vcReturned
<1>3. ASSUME NEW r \in ReplicaId, NEW b \in ReplicaId, Settle(r, b)
      PROVE  \A s \in ReplicaId : vpc'[s] = "doViewChange" => vpc[s] = "doViewChange"
  BY <1>0, <1>3 DEF Settle, AwaitView
<1>4. ASSUME NEW r \in ReplicaId, NEW b \in ReplicaId,
             \/ invokeStartViewChange(r, b) \/ invokeDoViewChange(r, b)
             \/ invokeStartView(r, b) \/ vcCallFails(r, b)
      PROVE  Goal
  <2>1. /\ vcTodo' \in [ReplicaId -> SUBSET ReplicaId]
        /\ \A s \in ReplicaId : vcTodo'[s] \subseteq vcTodo[s]
    BY <1>0, <1>2, <1>4
    DEF invokeStartViewChange, invokeDoViewChange, invokeStartView,
        vcCallFails, vcReplyLost, Arrive
  <2>2. \A s \in ReplicaId : vpc'[s] = "doViewChange" => vpc[s] = "doViewChange"
    BY <1>3, <1>4
    DEF invokeStartViewChange, invokeDoViewChange, invokeStartView,
        vcCallFails
  <2>3. UNCHANGED <<newPriId, tried>>
    BY <1>4
    DEF invokeStartViewChange, invokeDoViewChange, invokeStartView,
        vcCallFails
  <2> QED
    BY <1>1, <2>1, <2>2, <2>3
<1>5. ASSUME NEW b \in ReplicaId, processDoViewChange(b) \/ processStartView(b)
      PROVE  Goal
  <2>1. From(b) \in ReplicaId
    BY <1>5 DEF processDoViewChange, processStartView, MsgInv, StructInv
  <2>2. \/ vcEndCall(From(b), b) /\ UNCHANGED <<newPriId, tried>>
        \/ UNCHANGED vcVars
    BY <1>5 DEF processDoViewChange, processStartView, From
  <2>3. ASSUME vcEndCall(From(b), b)
        PROVE  /\ vcTodo' \in [ReplicaId -> SUBSET ReplicaId]
               /\ \A s \in ReplicaId : vcTodo'[s] \subseteq vcTodo[s]
               /\ \A s \in ReplicaId : vpc'[s] = "doViewChange" => vpc[s] = "doViewChange"
    BY <1>0, <1>2, <1>3, <2>1, <2>3 DEF vcEndCall, vcReplyLost
  <2>4. CASE UNCHANGED vcVars
    BY <1>0, <1>1, <2>4 DEF vcVars, loopVars
  <2> QED
    BY <1>1, <2>2, <2>3, <2>4
<1>6. ASSUME NEW r \in ReplicaId,
             \/ changeView(r) \/ InfosArrived(r) \/ ViewArrived(r)
             \/ AssertPrimaryFails(r) \/ SpuriousVcWakeup(r) \/ VcTimedOut(r)
             \/ EndStartView(r) \/ CandidateIsSelf(r)
      PROVE  Goal
  <2>1. UNCHANGED <<newPriId, tried>>
    BY <1>6
    DEF changeView, InfosArrived, BecomePrimary, ViewArrived, BecomeBackup,
        AssertPrimaryFails, SpuriousVcWakeup, VcTimedOut, EndStartView,
        CandidateIsSelf, vcVars, loopVars
  <2>2. CASE CandidateIsSelf(r)
    BY <1>0, <1>1, <1>3, <2>1, <2>2 DEF CandidateIsSelf
  <2>3. CASE ~ CandidateIsSelf(r)
    <3>1. /\ \/ UNCHANGED vcTodo
             \/ vcTodo' = [vcTodo EXCEPT ![r] = peers[r] \ {r}]
          /\ \/ UNCHANGED vpc /\ UNCHANGED vcTodo
             \/ vpc' = [vpc EXCEPT ![r] = "none"]
             \/ vpc' = [vpc EXCEPT ![r] = "startViewChange"]
             \/ vpc' = [vpc EXCEPT ![r] = "startView"]
      BY <1>6, <2>3
      DEF changeView, InfosArrived, BecomePrimary, ViewArrived, BecomeBackup,
          AssertPrimaryFails, SpuriousVcWakeup, VcTimedOut, EndStartView,
          vcVars, loopVars
    <3> QED
      BY <1>0, <1>1, <2>1, <3>1
  <2> QED
    BY <2>2, <2>3
<1>7. ASSUME NEW r \in ReplicaId, ReachedStartQuorum(r) PROVE Goal
  <2>1. NextCandidate(r, priId[r]) \in ReplicaId
    BY <1>0, OthersOnly
  <2>2. Types
    BY <1>0, <1>7, <2>1 DEF ReachedStartQuorum
  <2>3. TriedInv'
    BY <1>0, <1>7 DEF ReachedStartQuorum, TriedInv
  <2> QED
    BY <2>2, <2>3
<1>8. ASSUME NEW r \in ReplicaId, CountOwnRequest(r) \/ RequestsArrived(r)
      PROVE  Goal
  <2>1. CASE ~ ReachedStartQuorum(r)
    <3>1. UNCHANGED <<newPriId, tried, vcTodo>>
          /\ vpc' = [vpc EXCEPT ![r] = "waitRequests"]
      BY <1>8, <2>1 DEF CountOwnRequest, RequestsArrived
    <3> QED
      BY <1>0, <1>1, <3>1
  <2> QED
    BY <1>7, <2>1
<1>9. ASSUME NEW r \in ReplicaId, NEW b \in ReplicaId, DoViewChangeFails(r, b)
      PROVE  Goal
  <2> DEFINE c == NextCandidate(r, b)
  <2>1. /\ vpc[r] = "doViewChange" /\ b \in vcTodo[r] /\ b # r
        /\ tried' = [tried EXCEPT ![r] = @ + 1]
    BY <1>0, <1>9 DEF DoViewChangeFails, vcMayCall
  <2>2. tried[r] \in 0 .. N /\ (tried[r] = 0 \/ tried[r] + 2 < N)
    BY <1>0, <2>1 DEF TriedInv
  <2>3. N > 1 /\ tried[r] + 1 \in 0 .. N
    <3>1. N > 1
      <4>1. b \in ReplicaId
        BY <1>0, <2>1
      <4> QED
        BY SizeAssumption, <2>1, <4>1 DEF ReplicaId
    <3> QED
      BY <1>0, <2>2, <3>1
  <2>4. /\ c \in ReplicaId /\ (N = 2 => c = r)
        /\ Cardinality(peers[r]) = N - 1
    BY <2>1, OthersOnly
  <2>5. CASE tried[r] + 1 = Cardinality(peers[r]) - 1
    <3>1. UNCHANGED newPriId /\ vcTodo' = [vcTodo EXCEPT ![r] = {}]
          /\ Settle(r, b)
      BY <1>9, <2>5 DEF DoViewChangeFails
    <3>2. Types
      BY <1>0, <2>1, <2>3, <3>1
    <3>3. TriedInv'
      BY <1>0, <1>3, <2>1, <3>1 DEF TriedInv
    <3> QED
      BY <3>2, <3>3
  <2>6. CASE tried[r] + 1 # Cardinality(peers[r]) - 1
    <3>1. /\ newPriId' = [newPriId EXCEPT ![r] = c]
          /\ vcTodo' = [vcTodo EXCEPT ![r] = {c} \ {r}]
          /\ UNCHANGED vpc
      BY <1>9, <2>6 DEF DoViewChangeFails
    <3>2. Types
      BY <1>0, <2>1, <2>3, <2>4, <3>1
    <3>3. vcTodo'[r] # {} => tried'[r] + 2 < N
      <4>1. CASE N = 2
        BY <1>0, <2>4, <3>1, <4>1
      <4>2. CASE N # 2
        BY <1>0, <2>1, <2>2, <2>3, <2>4, <2>6, <4>2
      <4> QED
        BY <4>1, <4>2
    <3>4. TriedInv'
      BY <1>0, <2>1, <3>1, <3>3 DEF TriedInv
    <3> QED
      BY <3>2, <3>4
  <2> QED
    BY <2>5, <2>6
<1> QED
  BY <1>4, <1>5, <1>6, <1>8, <1>9 DEF VcMove, VcStep

\* Counting one more keeps the type of a count.
LEMMA OneMore ==
  ASSUME NEW m \in [ReplicaId -> [View -> Nat]], NEW r, NEW v
  PROVE  [m EXCEPT ![r][v] = @ + 1] \in [ReplicaId -> [View -> Nat]]
<1> DEFINE f == [m[r] EXCEPT ![v] = @ + 1]
<1>1. ASSUME r \in ReplicaId PROVE f \in [View -> Nat]
  <2>1. m[r] \in [View -> Nat]
    BY <1>1
  <2>2. f = [u \in View |-> IF u = v THEN m[r][u] + 1 ELSE m[r][u]]
    BY <2>1
  <2>3. \A u \in View : m[r][u] \in Nat /\ m[r][u] + 1 \in Nat
    BY <2>1
  <2> HIDE DEF f
  <2> QED
    BY <2>2, <2>3
<1>2. [m EXCEPT ![r] = f] \in [ReplicaId -> [View -> Nat]]
  <2> HIDE DEF f
  <2> QED
    BY <1>1
<1> QED
  BY <1>2

\* The other variables keep their types.
LEMMA VcLoopTypes ==
  ASSUME VcMove, StructInv, NoOwnEntry, LoopTypes, TriedInv
  PROVE  LoopTypes'
<1> DEFINE
      A == /\ viewStartReqMap' \in [ReplicaId -> [View -> Nat]]
           /\ doViewChangeMap' \in [ReplicaId -> [View -> Nat]]
           /\ startViewMap' \in [ReplicaId -> [View -> 0 .. 1]]
      B == /\ vpc' \in [ReplicaId -> HbtPhase]
           /\ vcTimeouts' \in Nat
      C == DOMAIN viewNum' = ReplicaId /\ viewNum' = [s \in ReplicaId |-> viewNum'[s]]
      Goal == A /\ B /\ C
<1>0. LoopTypes /\ StructInv
  OBVIOUS
<1>1. ASSUME UNCHANGED vcVars PROVE A /\ B
  BY <1>0, <1>1 DEF vcVars, mapVars, loopVars, LoopTypes
<1>2. ASSUME NEW r \in ReplicaId, ClearMaps(r) PROVE A
  BY <1>0, <1>2 DEF ClearMaps, LoopTypes
<1>3. ASSUME NEW r \in ReplicaId, NEW p \in ReplicaId, Settle(r, p)
      PROVE  vpc' \in [ReplicaId -> HbtPhase]
  BY <1>0, <1>3 DEF Settle, AwaitView, LoopTypes, HbtPhase
<1>4. ASSUME NEW r \in ReplicaId, ReachedStartQuorum(r)
      PROVE  /\ doViewChangeMap' \in [ReplicaId -> [View -> Nat]]
             /\ startViewMap' \in [ReplicaId -> [View -> 0 .. 1]]
             /\ B /\ C
  <2>1. doViewChangeMap' \in [ReplicaId -> [View -> Nat]]
    BY <1>0, <1>4, OneMore DEF ReachedStartQuorum, LoopTypes
  <2> QED
    BY <1>0, <1>4, <2>1 DEF ReachedStartQuorum, replicaState, LoopTypes, HbtPhase
<1>5. ASSUME NEW r \in ReplicaId, CountOwnRequest(r) \/ RequestsArrived(r)
      PROVE  Goal
  <2>1. viewStartReqMap' \in [ReplicaId -> [View -> Nat]]
    <3>1. \/ UNCHANGED viewStartReqMap
          \/ viewStartReqMap' = [viewStartReqMap EXCEPT ![r][viewNum[r]] = @ + 1]
      BY <1>5 DEF CountOwnRequest, RequestsArrived
    <3>2. viewStartReqMap \in [ReplicaId -> [View -> Nat]]
      BY <1>0 DEF LoopTypes
    <3>3. [viewStartReqMap EXCEPT ![r][viewNum[r]] = @ + 1]
            \in [ReplicaId -> [View -> Nat]]
      BY <3>2, OneMore
    <3> QED
      BY <3>1, <3>2, <3>3
  <2>2. CASE ~ ReachedStartQuorum(r)
    <3>1. /\ vpc' = [vpc EXCEPT ![r] = "waitRequests"]
          /\ UNCHANGED <<doViewChangeMap, startViewMap, vcTimeouts, viewNum>>
      BY <1>5, <2>2 DEF CountOwnRequest, RequestsArrived, replicaState
    <3> QED
      BY <1>0, <2>1, <3>1 DEF LoopTypes, HbtPhase
  <2> QED
    BY <1>4, <2>1, <2>2
<1>6. ASSUME NEW r \in ReplicaId, NEW b \in ReplicaId,
             \/ invokeStartViewChange(r, b) \/ invokeStartView(r, b)
             \/ vcCallFails(r, b)
      PROVE  Goal
  <2>1. B /\ C
    BY <1>0, <1>6
    DEF invokeStartViewChange, invokeStartView, vcCallFails, replicaState,
        LoopTypes, HbtPhase
  <2>2. UNCHANGED mapVars => A
    BY <1>0 DEF mapVars, LoopTypes
  <2>3. CASE invokeStartViewChange(r, b)
    <3>1. viewStartReqMap' \in [ReplicaId -> [View -> Nat]]
      BY <1>0, <2>3, OneMore
      DEF invokeStartViewChange, processStartViewChange, LoopTypes
    <3> QED
      BY <1>0, <2>1, <2>3, <3>1 DEF invokeStartViewChange, LoopTypes
  <2> QED
    BY <1>6, <2>1, <2>2, <2>3 DEF invokeStartView, vcCallFails
<1>7. ASSUME NEW r \in ReplicaId, NEW b \in ReplicaId,
             invokeDoViewChange(r, b) \/ DoViewChangeFails(r, b)
      PROVE  Goal
  <2>1. UNCHANGED <<mapVars, viewNum, vcTimeouts>>
    BY <1>7 DEF invokeDoViewChange, DoViewChangeFails
  <2>2. vpc' \in [ReplicaId -> HbtPhase]
    BY <1>0, <1>3, <1>7
    DEF invokeDoViewChange, DoViewChangeFails, LoopTypes, HbtPhase
  <2> QED
    BY <1>0, <2>1, <2>2 DEF mapVars, LoopTypes
<1>8. ASSUME NEW b \in ReplicaId, processDoViewChange(b) \/ processStartView(b)
      PROVE  Goal
  <2>1. From(b) \in ReplicaId
    BY <1>8 DEF processDoViewChange, processStartView, MsgInv, StructInv
  <2>2. UNCHANGED viewNum /\ C
    BY <1>0, <1>8
    DEF processDoViewChange, processStartView, Aborts, Dies, replicaState,
        LoopTypes
  <2>3. ASSUME vcEndCall(From(b), b) PROVE vpc' \in [ReplicaId -> HbtPhase]
    BY <1>0, <1>3, <2>1, <2>3 DEF vcEndCall, LoopTypes, HbtPhase
  <2>4. CASE processDoViewChange(b)
    <3>1. doViewChangeMap' \in [ReplicaId -> [View -> Nat]]
      BY <1>0, <2>4, OneMore DEF processDoViewChange, LoopTypes
    <3>2. vcEndCall(From(b), b)
          /\ UNCHANGED <<viewStartReqMap, startViewMap, vcTimeouts>>
      BY <2>4 DEF processDoViewChange, From
    <3> QED
      BY <1>0, <2>2, <2>3, <3>1, <3>2 DEF LoopTypes
  <2>5. CASE processStartView(b) /\ ~ UNCHANGED vcVars
    <3>1. PICK v : startViewMap' = [startViewMap EXCEPT ![b][v] = 1]
      BY <2>5 DEF processStartView
    <3>2. startViewMap' \in [ReplicaId -> [View -> 0 .. 1]]
      <4> DEFINE f == [startViewMap[b] EXCEPT ![v] = 1]
      <4>1. startViewMap \in [ReplicaId -> [View -> 0 .. 1]]
        BY <1>0 DEF LoopTypes
      <4>2. f \in [View -> 0 .. 1]
        <5>1. startViewMap[b] \in [View -> 0 .. 1]
          BY <4>1
        <5>2. f = [u \in View |-> IF u = v THEN 1 ELSE startViewMap[b][u]]
          BY <5>1
        <5> HIDE DEF f
        <5> QED
          BY <5>1, <5>2
      <4>3. startViewMap' = [startViewMap EXCEPT ![b] = f]
        BY <3>1
      <4> HIDE DEF f
      <4> QED
        BY <4>1, <4>2, <4>3
    <3>3. vcEndCall(From(b), b)
          /\ UNCHANGED <<viewStartReqMap, doViewChangeMap, vcTimeouts>>
      BY <2>5 DEF processStartView, From
    <3> QED
      BY <1>0, <2>2, <2>3, <3>2, <3>3 DEF LoopTypes
  <2> QED
    BY <1>1, <1>8, <2>2, <2>4, <2>5
<1>9. ASSUME NEW r \in ReplicaId,
             \/ changeView(r) \/ InfosArrived(r) \/ ViewArrived(r)
             \/ EndStartView(r)
      PROVE  Goal
  <2>1. A
    BY <1>0, <1>1, <1>2, <1>9
    DEF changeView, InfosArrived, BecomePrimary, ViewArrived, BecomeBackup,
        EndStartView, mapVars, LoopTypes
  <2>2. vcTimeouts' \in Nat
    BY <1>0, <1>9
    DEF changeView, InfosArrived, BecomePrimary, ViewArrived, BecomeBackup,
        EndStartView, vcVars, LoopTypes
  <2>3. \/ UNCHANGED vpc \/ vpc' = [vpc EXCEPT ![r] = "none"]
        \/ vpc' = [vpc EXCEPT ![r] = "startViewChange"]
        \/ vpc' = [vpc EXCEPT ![r] = "startView"]
    BY <1>9
    DEF changeView, InfosArrived, BecomePrimary, ViewArrived, BecomeBackup,
        EndStartView, vcVars, loopVars
  <2>4. C
    BY <1>0, <1>9
    DEF changeView, InfosArrived, BecomePrimary, ViewArrived, BecomeBackup,
        EndStartView, Adopt, AdoptState, Aborts, Dies, replicaState, LoopTypes
  <2> QED
    BY <1>0, <2>1, <2>2, <2>3, <2>4 DEF LoopTypes, HbtPhase
<1>10. ASSUME NEW r \in ReplicaId,
              \/ AssertPrimaryFails(r) \/ SpuriousVcWakeup(r) \/ VcTimedOut(r)
              \/ CandidateIsSelf(r)
       PROVE  Goal
  <2>1. A /\ vcTimeouts' \in Nat
    BY <1>0, <1>10
    DEF AssertPrimaryFails, SpuriousVcWakeup, VcTimedOut, CandidateIsSelf,
        vcVars, mapVars, LoopTypes
  <2>2. vpc' \in [ReplicaId -> HbtPhase]
    BY <1>0, <1>3, <1>10
    DEF AssertPrimaryFails, SpuriousVcWakeup, VcTimedOut, CandidateIsSelf,
        vcVars, loopVars, LoopTypes, HbtPhase
  <2>3. C
    BY <1>0, <1>10
    DEF AssertPrimaryFails, SpuriousVcWakeup, VcTimedOut, CandidateIsSelf,
        Aborts, Dies, replicaState, LoopTypes
  <2> QED
    BY <2>1, <2>2, <2>3
<1>11. Goal
  BY <1>5, <1>6, <1>7, <1>8, <1>9, <1>10 DEF VcMove, VcStep
<1>12. viewNum' \in [ReplicaId -> Nat]
  <2>1. \A s \in ReplicaId : viewNum'[s] \in Nat
    BY <1>0, ViewAssumption, VcPhases, PhaseViews DEF StructInv
  <2> QED
    BY <1>11, <2>1
<1> QED
  BY <1>11, <1>12, VcTries DEF LoopTypes

\* A replica that has inserted itself stays in its own list.
LEMMA PeersGrow ==
  ASSUME StructInv, [VcNext]_allVars, NoOwnEntry'
  PROVE  NoOwnEntry
<1>1. \A r \in ReplicaId : peers[r] \subseteq peers'[r]
  <2>1. CASE Next /\ UNCHANGED vcVars
    <3>1. UNCHANGED peers \/ \E r \in ReplicaId : LogPrepInfo(r)
      BY <2>1
      DEF Next, ClientRequest, Replicate, invokePrepare, CountSelf, Notified,
          SpuriousWakeup, TimedOut, StartCommit, Finish, HeartBeat,
          invokeCommit, processCommit, PopPrepInfo, invokePrepareOk,
          EndPrepInfo, CallFails, Crash, Dies, Aborts, storage, prepVars,
          clientVars
    <3>2. ASSUME NEW r \in ReplicaId, LogPrepInfo(r)
          PROVE  \A s \in ReplicaId : peers[s] \subseteq peers'[s]
      BY <3>2
      DEF LogPrepInfo, Aborts, Dies, storage, prepVars, StructInv, VcTypes,
          VcDomains
    <3> QED
      BY <3>1, <3>2
  <2>2. CASE VcMove
    BY <2>2, VcKeeps
  <2>3. CASE UNCHANGED allVars
    BY <2>3 DEF allVars, vars, storage, prepVars, replicaState
  <2> QED
    BY <2>1, <2>2, <2>3 DEF VcNext, VcMove
<1> QED
  BY <1>1 DEF NoOwnEntry

\* Steps keep the invariant, those of replication by leaving changeView alone,
LEMMA StepLoop ==
  ASSUME StructInv, NoOwnEntry => LoopInv, [VcNext]_allVars
  PROVE  (NoOwnEntry => LoopInv)'
<1> SUFFICES ASSUME NoOwnEntry' PROVE LoopInv'
  OBVIOUS
<1>0. NoOwnEntry /\ LoopTypes /\ RequestsInv /\ TriedInv
  BY PeersGrow DEF LoopInv
<1>1. CASE VcMove
  BY <1>0, <1>1, VcLoopTypes, VcRequestsKept, VcTries DEF LoopInv
<1>2. CASE Next /\ UNCHANGED vcVars
  <2>1. UNCHANGED <<viewNum, vcVars>>
    BY <1>2, NextView
  <2> QED
    BY <1>0, <2>1
    DEF LoopInv, LoopTypes, RequestsInv, TriedInv, Counted, vcVars, mapVars,
        loopVars
<1>3. CASE UNCHANGED allVars
  BY <1>0, <1>3
  DEF LoopInv, LoopTypes, RequestsInv, TriedInv, Counted, allVars, vars,
      replicaState, vcVars, mapVars, loopVars
<1> QED
  BY <1>1, <1>2, <1>3 DEF VcNext, VcMove

\* and it holds before the first view change.
LEMMA InitLoop ==
  ASSUME VcInit
  PROVE  LoopInv
<1>1. 0 \in ReplicaId /\ 0 \in 0 .. N /\ 0 <= MajorityCnt
  BY SizeAssumption DEF ReplicaId, MajorityCnt
<1>2. LoopTypes
  BY <1>1 DEF VcInit, InitCommitted, LoopTypes, HbtPhase
<1>3. RequestsInv /\ TriedInv
  BY <1>1 DEF VcInit, RequestsInv, TriedInv
<1> QED
  BY <1>2, <1>3 DEF LoopInv

\* No replica is recorded twice, so that there are at most N infos.
LEMMA InfosAtMostN ==
  ASSUME StructInv, VoteInv, NEW b \in ReplicaId, NEW v \in View
  PROVE  Len(viewChangeInfoMap[b][v]) <= N
<1>1. IsFiniteSet(ReplicaId) /\ Cardinality(ReplicaId) = N
  BY SizeAssumption, FS_Interval DEF ReplicaId
<1> QED
  BY <1>1, InfosDistinct, FS_Subset

\* As long as no reply is lost and no replica has inserted itself into its map
\* of the others, a view change counts at most as many requests and infos as
\* there are replicas, and the next candidate for the primary is one.
THEOREM CandidatesAreReplicas ==
  VcSpec => [](resent = 0 /\ NoOwnEntry => VcTypeOK)
<1>1. VcInit => (NoOwnEntry => LoopInv)
  BY InitLoop
<1>2. StructInv /\ (NoOwnEntry => LoopInv) /\ [VcNext]_allVars
        => (NoOwnEntry => LoopInv)'
  BY StepLoop
<1>3. ASSUME StructInv, ViewInv, LoopInv, resent = 0 PROVE VcTypeOK
  <2>1. LoopTypes /\ RequestsInv /\ StructInv /\ VoteInv
    BY <1>3 DEF LoopInv, ViewInv
  <2>2. viewStartReqMap \in [ReplicaId -> [View -> 0 .. N + 1]]
    <3>1. MajorityCnt + 1 <= N + 1 /\ MajorityCnt \in Nat /\ N \in Nat
      BY SizeAssumption DEF MajorityCnt
    <3>2. \A r \in ReplicaId : \A v \in View :
            viewStartReqMap[r][v] \in Nat /\ viewStartReqMap[r][v] <= MajorityCnt + 1
      BY <2>1, <3>1 DEF LoopTypes, RequestsInv
    <3>3. \A r \in ReplicaId : \A v \in View :
            viewStartReqMap[r][v] \in 0 .. N + 1
      BY <3>1, <3>2
    <3> QED
      BY <2>1, <3>3 DEF LoopTypes
  <2>3. doViewChangeMap \in [ReplicaId -> [View -> 0 .. N + 1]]
    <3>1. \A r \in ReplicaId : \A v \in View : doViewChangeMap[r][v] <= N
      BY <2>1, InfosAtMostN DEF StructInv, InfoInv
    <3>2. \A r \in ReplicaId : \A v \in View :
            doViewChangeMap[r][v] \in 0 .. N + 1
      BY <2>1, <3>1, SizeAssumption DEF LoopTypes
    <3> QED
      BY <2>1, <3>2 DEF LoopTypes
  <2>4. \A r \in ReplicaId : \A v \in View :
          \A i \in DOMAIN viewChangeInfoMap[r][v] :
            viewChangeInfoMap[r][v][i].viewNum = v
    <3> SUFFICES ASSUME NEW r \in ReplicaId, NEW v \in View
                 PROVE  \A i \in DOMAIN viewChangeInfoMap[r][v] :
                          viewChangeInfoMap[r][v][i].viewNum = v
      OBVIOUS
    <3> DEFINE q == viewChangeInfoMap[r][v]
    <3>1. /\ IsSeq(q)
          /\ \A i \in 1 .. Len(q) : \E w \in ReplicaId : IsChangeInfo(q[i], v, w)
      BY <2>1 DEF StructInv, InfoInv
    <3>2. DOMAIN q = 1 .. Len(q)
      BY <3>1, LenProperties DEF IsSeq
    <3> QED
      BY <3>1, <3>2 DEF IsChangeInfo
  <2>5. /\ viewNum \in [ReplicaId -> 0 .. MaxView]
        /\ \A r \in ReplicaId : vpc[r] # "none" => repMutex[r] = "hbt"
    <3>1. \A r \in ReplicaId : viewNum[r] \in 0 .. MaxView
      BY <2>1 DEF StructInv, VcTypes, VcTypesAt
    <3> QED
      BY <2>1, <3>1 DEF LoopTypes, StructInv, MutexInv
  <2> QED
    BY <2>1, <2>2, <2>3, <2>4, <2>5 DEF VcTypeOK, LoopTypes, HbtPhase
<1>4. StructInv /\ ViewInv /\ (NoOwnEntry => LoopInv)
        => (resent = 0 /\ NoOwnEntry => VcTypeOK)
  BY <1>3
<1> QED
  BY <1>1, <1>2, <1>4, ViewChangeInvariant, PTL DEF VcSpec
=============================================================================
