-------------------- MODULE VsReplicatorRefinementProofs --------------------
(***************************************************************************)
(* Proofs that normal-case replication implements the abstract store, for  *)
(* every number of replicas and whatever calls fail, are repeated or are   *)
(* delayed, as long as no wait for a quorum times out.                     *)
(*                                                                         *)
(* A timeout leaves an operation in the log that no commit number was ever *)
(* raised over: the commit of the next one skips it at the primary and     *)
(* does not at the backups.  Without one, operations are committed in the  *)
(* order they are logged, one at a time, which is the invariant.           *)
(***************************************************************************)
EXTENDS VsReplicatorProofs, SequenceTheorems

\* No client was told so far that its operation found no quorum.
NoTimeout == \A x \in replies : x.err # "QUORUM_NOT_REACHED"

\* Nothing is logged and left behind: outside replicate() everything that is
\* logged is committed, and inside it everything but the operation at hand.
OneByOne ==
  /\ cpc[0] \in {"idle", "enter", "commit"} => opNum[0] = commitNum[0]
  /\ cpc[0] \in {"prepare", "wait", "reached"} => opNum[0] = commitNum[0] + 1

RefineInv == SafetyInv /\ (NoTimeout => OneByOne)

AppliedBy == [r \in ReplicaId |-> Applied(r)]

-----------------------------------------------------------------------------
(***************************************************************************)
(* Sequences given as functions.                                           *)
(***************************************************************************)
\* A function on 1 .. m is a sequence.
LEMMA FunctionIsSeq ==
  ASSUME NEW S, NEW m \in Nat, NEW f \in [1 .. m -> S]
  PROVE  f \in Seq(S) /\ Len(f) = m
BY SeqDef

\* A sequence that extends another by one element is an Append of it.
LEMMA FunctionAppend ==
  ASSUME NEW S, NEW m \in Nat, NEW f \in [1 .. m -> S], NEW g \in [1 .. m + 1 -> S],
         \A i \in 1 .. m : g[i] = f[i]
  PROVE  g = Append(f, g[m + 1])
<1>1. f \in Seq(S) /\ Len(f) = m /\ g \in Seq(S) /\ Len(g) = m + 1
  BY FunctionIsSeq
<1>2. g[m + 1] \in S
  OBVIOUS
<1> DEFINE h == Append(f, g[m + 1])
<1>3. /\ h \in Seq(S) /\ Len(h) = m + 1
      /\ \A i \in 1 .. m : h[i] = f[i]
      /\ h[m + 1] = g[m + 1]
  BY <1>1, <1>2, AppendProperties
<1> HIDE DEF h
<1>4. \A i \in 1 .. Len(g) : g[i] = h[i]
  BY <1>1, <1>3
<1>5. g = h
  BY <1>1, <1>3, <1>4, SeqEqual
<1> QED
  BY <1>5 DEF h

-----------------------------------------------------------------------------
\* Nothing is committed at the start.
LEMMA InitRefine == Init => RefineInv
BY InitSafety, ZeroIsReplica DEF Init, RefineInv, OneByOne

\* A reply is not taken back.
LEMMA RepliesStay == [Next]_vars => (NoTimeout' => NoTimeout)
<1> SUFFICES ASSUME [Next]_vars PROVE replies \subseteq replies'
  BY DEF NoTimeout
<1>1. ASSUME NEW r \in ReplicaId, Replicate(r) \/ TimedOut(r) \/ Finish(r)
      PROVE  replies \subseteq replies'
  BY <1>1 DEF Replicate, TimedOut, Finish, ReplyToClient
<1>2. ASSUME NEW r \in ReplicaId,
             \/ \E op \in ClientOp : ClientRequest(r, op)
             \/ \E b \in ReplicaId : invokePrepare(r, b)
             \/ CountSelf(r) \/ Notified(r) \/ SpuriousWakeup(r)
             \/ StartCommit(r) \/ HeartBeat(r)
             \/ \E t \in {"t1", "hbt"}, b \in ReplicaId : invokeCommit(r, t, b)
             \/ processCommit(r) \/ PopPrepInfo(r) \/ LogPrepInfo(r)
             \/ \E b \in ReplicaId : invokePrepareOk(r, b)
             \/ EndPrepInfo(r)
             \/ \E t \in Caller, b \in ReplicaId : CallFails(r, t, b)
             \/ Crash(r)
      PROVE  UNCHANGED replies
  BY <1>2 DEF ClientRequest, invokePrepare, CountSelf, Notified, SpuriousWakeup,
              StartCommit, HeartBeat, invokeCommit, processCommit, PopPrepInfo,
              LogPrepInfo, invokePrepareOk, EndPrepInfo, CallFails, Crash,
              Aborts, Dies, clientVars
<1> QED
  BY <1>1, <1>2 DEF Next, vars, clientVars

\* Unless a wait times out, the next operation comes after the commit.
LEMMA StepOneByOne ==
  RefineInv /\ [Next]_vars => (NoTimeout' => OneByOne')
<1> SUFFICES ASSUME RefineInv, [Next]_vars, NoTimeout' PROVE OneByOne'
  OBVIOUS
<1>t. /\ SafetyInv /\ TypeOK /\ ThreadInv /\ ViewInv /\ LogInv /\ CommitInv
      /\ OneByOne
  BY RepliesStay DEF RefineInv, SafetyInv, TypeInv
<1>f. /\ cpc \in [ReplicaId -> {"idle", "enter", "prepare", "wait", "reached",
                               "commit"}]
      /\ opNum \in [ReplicaId -> 0 .. MaxOp]
      /\ commitNum \in [ReplicaId -> 0 .. MaxOp]
      /\ 0 \in ReplicaId
  BY <1>t, ZeroIsReplica DEF TypeOK
<1>1. ASSUME cpc'[0] = cpc[0], opNum'[0] = opNum[0],
             commitNum'[0] = commitNum[0]
      PROVE  OneByOne'
  BY <1>1, <1>t DEF OneByOne
<1>2. ASSUME NEW r \in ReplicaId, NEW op \in ClientOp, ClientRequest(r, op)
      PROVE  OneByOne'
  BY <1>2, <1>f, <1>t
  DEF ClientRequest, OneByOne, replicaState, ViewInv, isPrimary
<1>3. ASSUME NEW r \in ReplicaId, Replicate(r) PROVE OneByOne'
  <2>1. r = 0 /\ cpc[0] = "enter" /\ status[0] = "NORMAL"
    BY <1>3, <1>t DEF Replicate, ViewInv, isPrimary
  <2>2. /\ UNCHANGED commitNum
        /\ opNum'[0] = opNum[0] + 1 /\ cpc'[0] = "prepare"
    BY <1>3, <1>f, <2>1 DEF Replicate
  <2> QED
    BY <1>f, <1>t, <2>1, <2>2 DEF OneByOne
<1>4. ASSUME NEW r \in ReplicaId, CountSelf(r) \/ Notified(r) \/ SpuriousWakeup(r)
      PROVE  OneByOne'
  <2>1. r = 0 /\ cpc[0] \in {"prepare", "wait"}
    BY <1>4, <1>t DEF CountSelf, Notified, SpuriousWakeup, LogInv, ClientAt
  <2>2. /\ UNCHANGED <<commitNum, opNum>>
        /\ cpc'[0] \in {"prepare", "wait", "reached"}
    BY <1>4, <1>f, <2>1 DEF CountSelf, Notified, SpuriousWakeup, replicaState
  <2> QED
    BY <1>t, <2>1, <2>2 DEF OneByOne
<1>5. ASSUME NEW r \in ReplicaId, TimedOut(r) PROVE FALSE
  <2> DEFINE x == [viewNum |-> viewNum[r], opNum |-> opNum[r], op |-> creq[r],
                   err |-> "QUORUM_NOT_REACHED"]
  <2>1. x \in replies'
    BY <1>5 DEF TimedOut, ReplyToClient
  <2>2. x.err = "QUORUM_NOT_REACHED"
    OBVIOUS
  <2> QED
    BY <2>1, <2>2 DEF NoTimeout
<1>6. ASSUME NEW r \in ReplicaId, StartCommit(r) PROVE OneByOne'
  <2>1. r = 0
    BY <1>6, <1>t DEF StartCommit, LogInv, ClientAt
  <2>2. /\ UNCHANGED opNum
        /\ commitNum'[0] = opNum[0] /\ cpc'[0] = "commit"
    BY <1>6, <1>f, <2>1 DEF StartCommit
  <2> QED
    BY <1>t, <2>2 DEF OneByOne
<1>7. ASSUME NEW r \in ReplicaId, Finish(r) PROVE OneByOne'
  <2>1. r = 0 /\ cpc[0] = "commit"
    BY <1>7, <1>t DEF Finish, LogInv, ClientAt
  <2>2. /\ UNCHANGED <<opNum, commitNum>> /\ cpc'[0] = "idle"
    BY <1>7, <1>f, <2>1 DEF Finish, ReplyToClient, replicaState
  <2> QED
    BY <1>t, <2>1, <2>2 DEF OneByOne
<1>8. ASSUME NEW b \in ReplicaId, processCommit(b) PROVE OneByOne'
  <2>1. UNCHANGED <<cpc, opNum>>
    BY <1>8 DEF processCommit, Aborts, Dies, replicaState, clientVars
  <2>2. commitNum'[0] = commitNum[0]
    <3>1. \/ UNCHANGED commitNum
          \/ /\ commitNum' = [commitNum EXCEPT ![b] = NextCommit(b)]
             /\ repListener[b].info.commitNum > commitNum[b]
      BY <1>8 DEF processCommit, Aborts, Dies, replicaState
    <3>2. repListener[b].info.commitNum <= commitNum[0]
      BY <1>8, <1>t DEF processCommit, CommitInv
    <3>3. repListener[b].info.commitNum \in Nat
      BY <1>8, <1>t DEF processCommit, TypeOK, CommitMsg, CommitInfo
    <3> QED
      BY <1>f, <3>1, <3>2, <3>3
  <2> QED
    BY <1>1, <2>1, <2>2
<1>9. ASSUME NEW r \in ReplicaId, LogPrepInfo(r) PROVE OneByOne'
  <2>1. r # 0
    BY <1>9, <1>t DEF LogPrepInfo, LogInv, PrepAt
  <2>2. UNCHANGED <<cpc, commitNum>> /\ opNum'[0] = opNum[0]
    BY <1>9, <1>f, <2>1 DEF LogPrepInfo, Aborts, Dies, replicaState, clientVars
  <2> QED
    BY <1>1, <2>2
<1>10. ASSUME NEW r \in ReplicaId,
             \/ \E b \in ReplicaId : invokePrepare(r, b)
             \/ HeartBeat(r)
             \/ \E t \in {"t1", "hbt"}, b \in ReplicaId : invokeCommit(r, t, b)
             \/ PopPrepInfo(r)
             \/ \E b \in ReplicaId : invokePrepareOk(r, b)
             \/ EndPrepInfo(r)
             \/ \E t \in Caller, b \in ReplicaId : CallFails(r, t, b)
             \/ Crash(r)
      PROVE  UNCHANGED <<cpc, opNum, commitNum>>
  BY <1>10 DEF invokePrepare, HeartBeat, invokeCommit, PopPrepInfo,
               invokePrepareOk, EndPrepInfo, CallFails, Crash, Dies,
               replicaState, clientVars
<1>11. CASE UNCHANGED vars
  BY <1>1, <1>11 DEF vars, replicaState, clientVars
<1> QED
  BY <1>1, <1>2, <1>3, <1>4, <1>5, <1>6, <1>7, <1>8, <1>9, <1>10, <1>11 DEF Next

\* As long as no wait times out, operations are committed one by one.
LEMMA RefineInvariant == Spec => []RefineInv
<1>1. RefineInv /\ [Next]_vars => RefineInv'
  BY StepSafety, StepOneByOne DEF RefineInv
<1> QED
  BY <1>1, InitRefine, PTL DEF Spec

-----------------------------------------------------------------------------
(***************************************************************************)
(* The history.                                                            *)
(***************************************************************************)
HistoryShape ==
  /\ commitNum[0] \in Nat
  /\ History \in [1 .. commitNum[0] -> ClientOp]
  /\ \A n \in 1 .. commitNum[0] :
       n \in DOMAIN opLog[0].entries /\ History[n] = opLog[0].entries[n].op

\* The history is a sequence of logged operations,
LEMMA HistoryShaped == SafetyInv => HistoryShape
<1> SUFFICES ASSUME SafetyInv PROVE HistoryShape
  OBVIOUS
<1>1. /\ commitNum[0] \in 0 .. MaxOp /\ opNum[0] \in 0 .. MaxOp
      /\ opLog[0] \in OpLog
      /\ commitNum[0] <= opNum[0]
      /\ DOMAIN opLog[0].entries = 1 .. opNum[0]
  BY ZeroIsReplica DEF SafetyInv, TypeInv, TypeOK, LogInv, LogAt, CommitInv
<1>2. \A n \in 1 .. commitNum[0] : n \in DOMAIN opLog[0].entries
  BY <1>1, BoundAssumption
<1>3. \A n \in DOMAIN opLog[0].entries : opLog[0].entries[n].op \in ClientOp
  BY <1>1, OpLogParts DEF LogEntry
<1> QED
  BY <1>1, <1>2, <1>3, BoundAssumption DEF HistoryShape, History

\* ... also after a step.
LEMMA HistoryShapedNext == SafetyInv' => HistoryShape'
BY HistoryShaped, PTL

\* The history changes with the commit number of the primary only, ...
LEMMA HistoryStays ==
  ASSUME SafetyInv, SafetyInv', Keeps, commitNum'[0] = commitNum[0]
  PROVE  History' = History
<1>1. HistoryShape /\ HistoryShape'
  BY HistoryShaped, HistoryShapedNext
<1>2. \A n \in 1 .. commitNum[0] : opLog'[0].entries[n].op = opLog[0].entries[n].op
  BY <1>1, ZeroIsReplica DEF HistoryShape, Keeps
<1> QED
  BY <1>1, <1>2 DEF HistoryShape

\* ... and grows by the operation that is committed.
LEMMA HistoryGrows ==
  ASSUME SafetyInv, SafetyInv', Keeps, commitNum'[0] = commitNum[0] + 1,
         commitNum[0] + 1 \in DOMAIN opLog[0].entries
  PROVE  /\ History' = Append(History, opLog[0].entries[commitNum[0] + 1].op)
         /\ opLog[0].entries[commitNum[0] + 1].op \in ClientOp
<1>1. HistoryShape /\ HistoryShape'
  BY HistoryShaped, HistoryShapedNext
<1> DEFINE m == commitNum[0]
           g == History'
<1>2. /\ m \in Nat /\ History \in [1 .. m -> ClientOp] /\ g \in [1 .. m + 1 -> ClientOp]
      /\ \A i \in 1 .. m : g[i] = History[i]
      /\ g[m + 1] = opLog[0].entries[m + 1].op
  BY <1>1, ZeroIsReplica DEF HistoryShape, Keeps
<1> HIDE DEF m, g
<1>3. g = Append(History, g[m + 1]) /\ g[m + 1] \in ClientOp
  BY <1>2, FunctionAppend
<1> QED
  BY <1>2, <1>3 DEF m, g

-----------------------------------------------------------------------------
(***************************************************************************)
(* The steps of the abstract store.                                        *)
(***************************************************************************)
StoreSteps == [Abstract!StoreNext]_(Abstract!storeVars)

\* The commit of t1 is the commit of the abstract store; the primary applies
\* when t1 returns and a backup when it processes a commit.
LEMMA StepStore ==
  RefineInv /\ RefineInv' /\ NoTimeout /\ [Next]_vars => StoreSteps
<1> SUFFICES ASSUME RefineInv, RefineInv', NoTimeout, [Next]_vars
             PROVE  StoreSteps
  OBVIOUS
<1>t. SafetyInv /\ SafetyInv' /\ OneByOne /\ Keeps
  BY StepKeeps DEF RefineInv
<1>i. TypeOK /\ ThreadInv /\ ViewInv /\ LogInv /\ CommitInv /\ HistoryShape
  BY <1>t, HistoryShaped DEF SafetyInv, TypeInv
<1>f. /\ cpc \in [ReplicaId -> {"idle", "enter", "prepare", "wait", "reached",
                               "commit"}]
      /\ opNum \in [ReplicaId -> 0 .. MaxOp]
      /\ commitNum \in [ReplicaId -> 0 .. MaxOp]
      /\ kvMap \in [ReplicaId -> KvMap]
      /\ 0 \in ReplicaId
  BY <1>i, ZeroIsReplica DEF TypeOK
<1>h. Len(History) = commitNum[0]
  BY <1>i, FunctionIsSeq DEF HistoryShape
<1>1. ASSUME UNCHANGED <<commitNum, kvMap>>,
             \A r \in ReplicaId : Applied(r)' = Applied(r)
      PROVE  StoreSteps
  <2>1. History' = History
    BY <1>1, <1>t, HistoryStays
  <2>2. AppliedBy' = AppliedBy
    BY <1>1 DEF AppliedBy
  <2> QED
    BY <1>1, <2>1, <2>2 DEF StoreSteps, AppliedBy, Abstract!storeVars
<1>2. ASSUME NEW r \in ReplicaId, StartCommit(r) PROVE StoreSteps
  <2>1. r = 0 /\ opNum[0] = commitNum[0] + 1 /\ Logs(0, opNum[0], creq[0])
    BY <1>2, <1>i, <1>t DEF StartCommit, LogInv, ClientAt, OneByOne
  <2>2. /\ UNCHANGED kvMap
        /\ commitNum' = [commitNum EXCEPT ![0] = commitNum[0] + 1]
        /\ cpc[0] = "reached" /\ cpc' = [cpc EXCEPT ![0] = "commit"]
    BY <1>2, <2>1 DEF StartCommit
  <2>3. commitNum[0] + 1 \in DOMAIN opLog[0].entries
    BY <2>1 DEF Logs, hasEntry
  <2>4. PICK op \in ClientOp : History' = Append(History, op)
    BY <1>f, <1>t, <2>2, <2>3, HistoryGrows
  <2>5. \A s \in ReplicaId : Applied(s)' = Applied(s)
    BY <1>f, <2>2 DEF Applied
  <2>6. AppliedBy' = AppliedBy
    BY <2>5 DEF AppliedBy
  <2>7. Abstract!CommitOp(op)
    BY <2>2, <2>4, <2>6 DEF Abstract!CommitOp, AppliedBy
  <2> QED
    BY <2>7 DEF StoreSteps, Abstract!StoreNext
<1>3. ASSUME NEW r \in ReplicaId, NEW op, History' = History,
             Applied(r) \in Nat, Applied(r) + 1 <= commitNum[0],
             History[Applied(r) + 1] = op,
             Applied(r)' = Applied(r) + 1,
             \A s \in ReplicaId : s # r => Applied(s)' = Applied(s),
             kvMap' = [kvMap EXCEPT ![r] = applyOp(@, op)]
      PROVE  StoreSteps
  <2>1. AppliedBy' = [AppliedBy EXCEPT ![r] = @ + 1]
    BY <1>3 DEF AppliedBy
  <2>2. AppliedBy[r] = Applied(r) /\ Applied(r) < Len(History)
    BY <1>3, <1>f, <1>h DEF AppliedBy
  <2>3. kvMap' = [kvMap EXCEPT ![r] = applyOp(@, History[AppliedBy[r] + 1])]
    BY <1>3, <2>2
  <2>4. Abstract!Apply(r)
    BY <1>3, <2>1, <2>2, <2>3 DEF Abstract!Apply, AppliedBy, applyOp, Abstract!applyOp
  <2> QED
    BY <2>4 DEF StoreSteps, Abstract!StoreNext, ReplicaId, Abstract!ReplicaId
<1>4. ASSUME NEW r \in ReplicaId, Finish(r) PROVE StoreSteps
  <2>1. /\ r = 0 /\ cpc[0] = "commit" /\ opNum[0] = commitNum[0]
        /\ Logs(0, commitNum[0], creq[0]) /\ commitNum[0] \in OpInt
    BY <1>4, <1>i DEF Finish, LogInv, ClientAt, CommitInv, ThreadInv
  <2>2. /\ UNCHANGED commitNum /\ cpc' = [cpc EXCEPT ![0] = "idle"]
        /\ kvMap' = [kvMap EXCEPT ![0] = applyOp(@, creq[0])]
    BY <1>4, <2>1 DEF Finish, ReplyToClient, replicaState
  <2>3. /\ Applied(0) = commitNum[0] - 1 /\ Applied(0)' = commitNum[0]
        /\ \A s \in ReplicaId : s # 0 => Applied(s)' = Applied(s)
    BY <1>f, <2>1, <2>2 DEF Applied
  <2>4. History' = History
    BY <1>t, <2>2, HistoryStays
  <2>5. History[commitNum[0]] = creq[0]
    BY <1>i, <2>1 DEF HistoryShape, Logs, OpInt
  <2>6. Applied(0) \in Nat /\ Applied(0) + 1 = commitNum[0] /\ Applied(0)' = Applied(0) + 1
    BY <1>f, <2>1, <2>3 DEF OpInt
  <2>7. /\ Applied(r) \in Nat /\ Applied(r) + 1 = commitNum[0]
        /\ Applied(r)' = Applied(r) + 1
        /\ \A s \in ReplicaId : s # r => Applied(s)' = Applied(s)
    BY <2>1, <2>3, <2>6
  <2>8. /\ Applied(r) + 1 <= commitNum[0] /\ History[Applied(r) + 1] = creq[0]
        /\ kvMap' = [kvMap EXCEPT ![r] = applyOp(@, creq[0])]
    BY <1>f, <2>1, <2>2, <2>5, <2>7
  <2>9. PICK op : op = creq[0]
    OBVIOUS
  <2> QED
    BY <1>3, <2>4, <2>7, <2>8, <2>9
<1>5. ASSUME NEW b \in ReplicaId, processCommit(b) PROVE StoreSteps
  <2>1. UNCHANGED cpc
    BY <1>5 DEF processCommit, Aborts, Dies, clientVars
  <2>2. CASE UNCHANGED <<commitNum, kvMap>>
    <3>1. \A s \in ReplicaId : Applied(s)' = Applied(s)
      BY <2>1, <2>2 DEF Applied
    <3> QED
      BY <1>1, <2>2, <3>1
  <2>3. CASE /\ repListener[b].info.commitNum > commitNum[b]
             /\ hasEntry(opLog[b], commitNum[b] + 1)
             /\ commitNum' = [commitNum EXCEPT ![b] = commitNum[b] + 1]
             /\ kvMap' = [kvMap EXCEPT
                            ![b] = applyOp(@, opLog[b].entries[commitNum[b] + 1].op)]
    <3>1. /\ repListener[b].info.commitNum <= commitNum[0]
          /\ repListener[b].info.commitNum \in Nat
      BY <1>5, <1>i DEF processCommit, CommitInv, TypeOK, CommitMsg, CommitInfo
    <3>2. b # 0 /\ commitNum[b] + 1 <= commitNum[0] /\ commitNum[b] + 1 \in 1 .. commitNum[0]
      BY <1>f, <2>3, <3>1
    <3>3. cpc[b] = "idle"
      BY <1>i, <3>2 DEF LogInv, ClientAt
    <3>4. /\ Applied(b) = commitNum[b] /\ Applied(b)' = commitNum[b] + 1
          /\ \A s \in ReplicaId : s # b => Applied(s)' = Applied(s)
      BY <1>f, <2>1, <2>3, <3>3 DEF Applied
    <3>5. History' = History
      BY <1>f, <1>t, <2>3, <3>2, HistoryStays
    <3>6. History[commitNum[b] + 1] = opLog[b].entries[commitNum[b] + 1].op
      BY <1>i, <2>3, <3>2 DEF HistoryShape, LogInv, LogAt, Logs, hasEntry
    <3>7. Applied(b) \in Nat
      BY <1>f, <3>4
    <3> QED
      BY <1>3, <1>f, <2>3, <3>2, <3>4, <3>5, <3>6, <3>7
  <2> QED
    BY <1>5, <2>2, <2>3
    DEF processCommit, Aborts, Dies, replicaState, storage, NextCommit
<1>6. ASSUME NEW r \in ReplicaId,
             \/ \E op \in ClientOp : ClientRequest(r, op)
             \/ Replicate(r) \/ CountSelf(r) \/ Notified(r)
             \/ SpuriousWakeup(r) \/ TimedOut(r)
      PROVE  StoreSteps
  <2>1. /\ UNCHANGED <<commitNum, kvMap>>
        /\ \A s \in ReplicaId : cpc'[s] = "commit" <=> cpc[s] = "commit"
    BY <1>6, <1>f DEF ClientRequest, Replicate, CountSelf, Notified,
                      SpuriousWakeup, TimedOut, ReplyToClient, replicaState, storage
  <2>2. \A s \in ReplicaId : Applied(s)' = Applied(s)
    BY <2>1 DEF Applied
  <2> QED
    BY <1>1, <2>1, <2>2
<1>7. ASSUME NEW r \in ReplicaId,
             \/ \E b \in ReplicaId : invokePrepare(r, b)
             \/ HeartBeat(r)
             \/ \E t \in {"t1", "hbt"}, b \in ReplicaId : invokeCommit(r, t, b)
             \/ PopPrepInfo(r) \/ LogPrepInfo(r)
             \/ \E b \in ReplicaId : invokePrepareOk(r, b)
             \/ EndPrepInfo(r)
             \/ \E t \in Caller, b \in ReplicaId : CallFails(r, t, b)
             \/ Crash(r)
      PROVE  UNCHANGED <<cpc, commitNum, kvMap>>
  BY <1>7 DEF invokePrepare, HeartBeat, invokeCommit, PopPrepInfo, LogPrepInfo,
              invokePrepareOk, EndPrepInfo, CallFails, Crash, Aborts, Dies,
              replicaState, storage, clientVars
<1>8. CASE UNCHANGED <<cpc, commitNum, kvMap>>
  <2>1. \A s \in ReplicaId : Applied(s)' = Applied(s)
    BY <1>8 DEF Applied
  <2> QED
    BY <1>1, <1>8, <2>1
<1>9. CASE UNCHANGED vars
  BY <1>8, <1>9 DEF vars, replicaState, storage, clientVars
<1> QED
  BY <1>2, <1>4, <1>5, <1>6, <1>7, <1>8, <1>9 DEF Next

\* Initial states map to an initial state of the abstract store.
LEMMA InitStore == Init => Abstract!StoreInit
<1> SUFFICES ASSUME Init PROVE Abstract!StoreInit
  OBVIOUS
<1>1. History = <<>>
  <2>1. commitNum[0] = 0
    BY ZeroIsReplica DEF Init
  <2>2. 1 .. commitNum[0] = {}
    BY <2>1
  <2>3. History \in Seq({}) /\ Len(History) = 0
    BY <2>1, <2>2, FunctionIsSeq DEF History
  <2> QED
    BY <2>3, EmptySeq
<1>2. AppliedBy = [r \in ReplicaId |-> 0]
  BY DEF Init, Applied, AppliedBy
<1> QED
  BY <1>1, <1>2
  DEF Init, Abstract!StoreInit, AppliedBy, EmptyKv, Abstract!EmptyKv, ReplicaId,
      Abstract!ReplicaId

-----------------------------------------------------------------------------
(***************************************************************************)
(* The stores.                                                             *)
(***************************************************************************)

\* f[n] is the store that the first n operations of the history make, ...
Replays(f) ==
  /\ f \in [0 .. Len(History) -> KvMap]
  /\ f[0] = EmptyKv
  /\ \A n \in 1 .. Len(History) : f[n] = applyOp(f[n - 1], History[n])

\* ... and every replica holds the one of the prefix it has applied.
StoreInv ==
  \E f : Replays(f) /\ \A r \in ReplicaId :
    Applied(r) \in 0 .. Len(History) /\ kvMap[r] = f[Applied(r)]

\* Every map is empty at the start, as is the history.
LEMMA InitStoreInv == Init => StoreInv
<1> SUFFICES ASSUME Init PROVE StoreInv
  OBVIOUS
<1>1. Len(History) = 0
  BY InitStore, EmptySeq DEF Abstract!StoreInit
<1>2. \A r \in ReplicaId : Applied(r) = 0 /\ kvMap[r] = EmptyKv
  BY DEF Init, Applied
<1>3. PICK f : f = [n \in 0 .. 0 |-> EmptyKv]
  OBVIOUS
<1>4. EmptyKv \in KvMap
  BY DEF EmptyKv, KvMap
<1>5. Replays(f)
  BY <1>1, <1>3, <1>4 DEF Replays
<1> QED
  BY <1>1, <1>2, <1>3, <1>5 DEF StoreInv

\* A step of the abstract store keeps it, whoever takes it.
LEMMA StepStoreInv ==
  RefineInv /\ RefineInv' /\ StoreInv /\ StoreSteps => StoreInv'
<1> SUFFICES ASSUME RefineInv, RefineInv', StoreInv, StoreSteps PROVE StoreInv'
  OBVIOUS
<1>h. /\ HistoryShape /\ Len(History) = commitNum[0] /\ Len(History) \in Nat
      /\ History \in Seq(ClientOp)
  BY HistoryShaped, FunctionIsSeq DEF RefineInv, HistoryShape
<1>f. PICK f : Replays(f) /\ \A r \in ReplicaId :
                 Applied(r) \in 0 .. Len(History) /\ kvMap[r] = f[Applied(r)]
  BY DEF StoreInv
<1>1. CASE UNCHANGED (Abstract!storeVars)
  <2>1. UNCHANGED <<History, AppliedBy, kvMap>>
    BY <1>1 DEF Abstract!storeVars, AppliedBy
  <2>2. \A r \in ReplicaId : Applied(r)' = Applied(r)
    BY <2>1 DEF AppliedBy
  <2>3. Replays(f)'
    BY <1>f, <2>1 DEF Replays
  <2> QED
    BY <1>f, <2>1, <2>2, <2>3 DEF StoreInv
<1>2. ASSUME NEW op \in ClientOp, Abstract!CommitOp(op) PROVE StoreInv'
  <2>1. History' = Append(History, op) /\ UNCHANGED <<AppliedBy, kvMap>>
    BY <1>2 DEF Abstract!CommitOp, AppliedBy
  <2>2. \A r \in ReplicaId : Applied(r)' = Applied(r)
    BY <2>1 DEF AppliedBy
  <2>3. PICK m \in Nat : m = Len(History)
    BY <1>h
  <2>4. /\ Len(History') = m + 1 /\ History'[m + 1] = op
        /\ \A n \in 1 .. m : History'[n] = History[n]
    BY <1>h, <2>1, <2>3, AppendProperties
  <2>5. /\ f \in [0 .. m -> KvMap] /\ f[0] = EmptyKv
        /\ \A n \in 1 .. m : f[n] = applyOp(f[n - 1], History[n])
    BY <1>f, <2>3 DEF Replays
  <2>6. PICK kv \in KvMap : kv = applyOp(f[m], op)
    BY <2>5, ApplyType
  <2>7. PICK g : g = [n \in 0 .. m + 1 |-> IF n = m + 1 THEN kv ELSE f[n]]
    OBVIOUS
  <2>8. /\ g \in [0 .. m + 1 -> KvMap] /\ g[0] = EmptyKv
        /\ g[m + 1] = kv /\ \A n \in 0 .. m : g[n] = f[n]
    BY <2>5, <2>6, <2>7
  <2>9. ASSUME NEW n \in 1 .. m + 1 PROVE g[n] = applyOp(g[n - 1], History'[n])
    <3>1. CASE n = m + 1
      BY <2>4, <2>6, <2>8, <3>1
    <3>2. CASE n # m + 1
      <4>1. n \in 1 .. m /\ n \in 0 .. m /\ n - 1 \in 0 .. m
        BY <3>2
      <4> QED
        BY <2>4, <2>5, <2>8, <4>1
    <3> QED BY <3>1, <3>2
  <2>10. Replays(g)'
    BY <2>4, <2>8, <2>9 DEF Replays
  <2>11. ASSUME NEW r \in ReplicaId
         PROVE  Applied(r)' \in 0 .. Len(History') /\ kvMap'[r] = g[Applied(r)']
    <3>1. Applied(r) \in 0 .. m /\ kvMap'[r] = f[Applied(r)]
      BY <1>f, <2>1, <2>3
    <3> QED
      BY <2>2, <2>4, <2>8, <3>1
  <2> QED
    BY <2>10, <2>11 DEF StoreInv
<1>3. ASSUME NEW r \in ReplicaId, Abstract!Apply(r) PROVE StoreInv'
  <2>1. /\ History' = History /\ Applied(r) < Len(History)
        /\ AppliedBy' = [AppliedBy EXCEPT ![r] = Applied(r) + 1]
        /\ kvMap' = [kvMap EXCEPT ![r] = applyOp(kvMap[r], History[Applied(r) + 1])]
    BY <1>3 DEF Abstract!Apply, AppliedBy, applyOp, Abstract!applyOp
  <2>2. /\ Applied(r)' = Applied(r) + 1
        /\ \A s \in ReplicaId : s # r => Applied(s)' = Applied(s)
    BY <2>1 DEF AppliedBy
  <2>3. Replays(f)'
    BY <1>f, <2>1 DEF Replays
  <2>4. kvMap \in [ReplicaId -> KvMap]
    BY DEF RefineInv, SafetyInv, TypeInv, TypeOK
  <2>5. PICK m \in Nat : m = Len(History)
    BY <1>h
  <2>6. PICK a \in 0 .. m : a = Applied(r)
    BY <1>f, <2>5
  <2>7. a + 1 \in 1 .. m /\ f[a + 1] = applyOp(f[a], History[a + 1])
    <3>1. a + 1 \in 1 .. m /\ (a + 1) - 1 = a
      BY <2>1, <2>5, <2>6
    <3> QED
      BY <1>f, <2>5, <3>1 DEF Replays
  <2>8. kvMap'[r] = f[a + 1] /\ \A s \in ReplicaId : s # r => kvMap'[s] = kvMap[s]
    BY <1>f, <2>1, <2>4, <2>6, <2>7
  <2>9. ASSUME NEW s \in ReplicaId
        PROVE  Applied(s)' \in 0 .. Len(History') /\ kvMap'[s] = f[Applied(s)']
    BY <1>f, <2>1, <2>2, <2>5, <2>6, <2>7, <2>8
  <2> QED
    BY <2>3, <2>9 DEF StoreInv
<1> QED
  BY <1>1, <1>2, <1>3 DEF StoreSteps, Abstract!StoreNext, ReplicaId, Abstract!ReplicaId

-----------------------------------------------------------------------------
(***************************************************************************)
(* The theorems.                                                           *)
(***************************************************************************)

\* For any number of replicas, and whatever calls fail, are repeated or are
\* late: if no wait for a quorum times out, replicate(), the commits and the
\* heartbeats implement the abstract store, each step a commit, one replica
\* applying the next operation, or nothing.
THEOREM ImplementsStore == Spec /\ []NoTimeout => ImplementsReplicatedStore
<1>1. RefineInv /\ RefineInv' /\ NoTimeout /\ [Next]_vars
        => [Abstract!StoreNext]_(Abstract!storeVars)
  BY StepStore DEF StoreSteps
<1> QED
  BY <1>1, InitStore, RefineInvariant, PTL
  DEF Spec, ImplementsReplicatedStore, Abstract!StoreSpec

\* Until a wait for a quorum times out, two replicas that have applied equally
\* many operations hold the same keys and values.
THEOREM StoresAgree == Spec => [](NoTimeout => KvAgreement)
<1>1. (NoTimeout => StoreInv) /\ RefineInv /\ RefineInv' /\ [Next]_vars
        => (NoTimeout' => StoreInv')
  BY StepStore, StepStoreInv, RepliesStay
<1>2. StoreInv => KvAgreement
  BY DEF StoreInv, KvAgreement
<1> QED
  BY <1>1, <1>2, InitStoreInv, RefineInvariant, PTL DEF Spec
=============================================================================
