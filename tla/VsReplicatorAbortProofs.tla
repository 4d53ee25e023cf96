---------------------- MODULE VsReplicatorAbortProofs ----------------------
(***************************************************************************)
(* Proof that no assert() of normal-case replication fails, for every      *)
(* number of replicas, as long as no call is lost or repeated.             *)
(*                                                                         *)
(* processPrepInfo() asserts that a prepare has the next number.  The      *)
(* invariant counts: what a live backup has logged, holds, has queued and  *)
(* is yet to be sent are together the operations of the primary, in order. *)
(* processCommit() asserts that what is at or below its commit number is   *)
(* committed, which a backup keeps true and the primary, which skips what  *)
(* timed out, does not: but nobody sends commits to the primary.           *)
(***************************************************************************)
EXTENDS VsReplicatorProofs

\* Nobody is started again: no backup is recovering.
AllNormal == \A r \in ReplicaId : status[r] = "NORMAL"

\* Commits come from the primary and go to the backups, and the caller waits
\* for the one t2 of a backup is in.
SendAt(r) == r # 0 => todo[r]["t1"] = {} /\ todo[r]["hbt"] = {}
ListenAt(b) ==
  repListener[b] # Nil =>
    /\ b # 0
    /\ repListener[b].from = 0
    /\ repListener[b].thread \in {"t1", "hbt"}
    /\ b \in todo[0][repListener[b].thread]
    /\ repListener[b].thread = "t1" => cpc[0] = "commit"
SendInv == \A r \in ReplicaId : SendAt(r) /\ ListenAt(r)

\* A backup has committed all that its commit number says.
MarkInv ==
  \A b \in ReplicaId : b # 0 =>
    \A n \in 1 .. commitNum[b] : isCommitted(opLog[b], n)

InHand(b) == IF ppc[b] = "checked" THEN 1 ELSE 0
Unsent(b) == IF cpc[0] = "prepare" /\ b \in todo[0]["t1"] THEN 1 ELSE 0

QueueAt(b) ==
  /\ ppc[b] = "checked" => ppInfo[b].opNum = opNum[b] + 1
  /\ \A i \in 1 .. Len(prepReqQ[b]) :
       /\ prepReqQ[b][i].viewNum = 0
       /\ prepReqQ[b][i].opNum = opNum[b] + InHand(b) + i
  /\ opNum[b] + InHand(b) + Len(prepReqQ[b]) + Unsent(b) = opNum[0]

CallsHold == lost = 0 /\ resent = 0

QueueInv ==
  CallsHold => \A b \in ReplicaId :
    proc[b] # "aborted" /\ (b # 0 /\ Up(b) => QueueAt(b))

AbortInv == SafetyInv /\ AllNormal /\ CallInv /\ SendInv /\ MarkInv /\ QueueInv

-----------------------------------------------------------------------------
\* A call that ends leaves the other calls alone.
LEMMA TodoLess ==
  ASSUME TypeOK, NEW r \in ReplicaId, NEW t \in Caller, NEW b \in ReplicaId,
         UNCHANGED todo \/ todo' = [todo EXCEPT ![r][t] = @ \ {b}]
  PROVE  \A s \in ReplicaId : \A u \in Caller :
           /\ todo'[s][u] \subseteq todo[s][u]
           /\ \A c \in todo[s][u] : c \in todo'[s][u] \/ (s = r /\ u = t /\ c = b)
BY DEF TypeOK

\* ... and so does the end of a call whose reply may be lost.
LEMMA EndCallTodo ==
  ASSUME TypeOK, NEW r \in ReplicaId, NEW t \in Caller, NEW b \in ReplicaId,
         EndCall(r, t, b)
  PROVE  \A s \in ReplicaId : \A u \in Caller :
           /\ todo'[s][u] \subseteq todo[s][u]
           /\ \A c \in todo[s][u] : c \in todo'[s][u] \/ (s = r /\ u = t /\ c = b)
BY TodoLess DEF EndCall

\* A call that is not repeated is over.
LEMMA EndCallOnce ==
  ASSUME TypeOK, NEW r \in ReplicaId, NEW t \in Caller, NEW b \in ReplicaId,
         EndCall(r, t, b), resent' = 0
  PROVE  b \notin todo'[r][t]
BY DEF TypeOK, EndCall

\* Commits go from the primary to the backups only.
LEMMA StepSend ==
  SafetyInv /\ AllNormal /\ CallInv /\ SendInv /\ [Next]_vars => SendInv'
<1> SUFFICES ASSUME SafetyInv, AllNormal, CallInv, SendInv, [Next]_vars
             PROVE  SendInv'
  OBVIOUS
<1>t. TypeOK /\ ViewInv /\ LogInv
  BY DEF SafetyInv, TypeInv
<1>f. /\ todo \in [ReplicaId -> [Caller -> SUBSET ReplicaId]]
      /\ cpc \in [ReplicaId -> {"idle", "enter", "prepare", "wait", "reached",
                               "commit"}]
      /\ repListener \in [ReplicaId -> CommitMsg \cup {Nil}]
      /\ "t1" \in Caller /\ "hbt" \in Caller /\ "ppit" \in Caller
      /\ 0 \in ReplicaId
  BY <1>t, ZeroIsReplica DEF TypeOK, Caller
<1>1. ASSUME \A s \in ReplicaId : s # 0 => /\ todo'[s]["t1"] \subseteq todo[s]["t1"]
                                           /\ todo'[s]["hbt"] \subseteq todo[s]["hbt"],
             \A b \in ReplicaId : repListener'[b] # Nil =>
               /\ repListener'[b] = repListener[b]
               /\ b \in todo'[0][repListener[b].thread]
               /\ repListener[b].thread = "t1" => cpc'[0] = "commit"
      PROVE  SendInv'
  BY <1>1 DEF SendInv, SendAt, ListenAt
<1>2. ASSUME UNCHANGED <<todo, repListener>>,
             cpc[0] = "commit" /\ todo[0]["t1"] # {} => cpc'[0] = "commit"
      PROVE  SendInv'
  BY <1>1, <1>2 DEF SendInv, ListenAt
<1>3. ASSUME NEW r \in ReplicaId, NEW how, Dies(r, how) PROVE SendInv'
  <2>1. UNCHANGED <<todo, cpc>>
    BY <1>3 DEF Dies, clientVars
  <2>2. \A b \in ReplicaId : repListener'[b] = repListener[b] \/ repListener'[b] = Nil
    BY <1>3, <1>f DEF Dies
  <2> QED
    BY <1>1, <2>1, <2>2 DEF SendInv, ListenAt
<1>4. ASSUME NEW r \in ReplicaId, NEW t \in Caller, NEW b \in ReplicaId,
             EndCall(r, t, b), UNCHANGED <<repListener, cpc>>,
             t = "ppit" \/ (cpc[0] # "commit" /\ t = "t1")
      PROVE  SendInv'
  <2>1. \A s \in ReplicaId : \A u \in Caller :
           /\ todo'[s][u] \subseteq todo[s][u]
           /\ \A c \in todo[s][u] : c \in todo'[s][u] \/ (s = r /\ u = t /\ c = b)
    BY <1>4, <1>t, EndCallTodo
  <2> QED
    BY <1>1, <1>4, <1>f, <2>1 DEF SendInv, ListenAt
<1>5. ASSUME NEW r \in ReplicaId, Replicate(r) \/ StartCommit(r) PROVE SendInv'
  <2>1. r = 0 /\ cpc[0] # "commit"
    BY <1>5, <1>t DEF Replicate, StartCommit, ViewInv, isPrimary, LogInv, ClientAt
  <2>2. /\ UNCHANGED repListener
        /\ UNCHANGED todo \/ todo' = [todo EXCEPT ![0]["t1"] = peers[0] \ {0}]
    BY <1>5, <2>1 DEF Replicate, StartCommit
  <2>3. /\ \A s \in ReplicaId : s # 0 => todo'[s] = todo[s]
        /\ todo'[0]["hbt"] = todo[0]["hbt"]
    BY <1>f, <2>2
  <2> QED
    BY <1>1, <1>f, <2>1, <2>2, <2>3 DEF SendInv, ListenAt
<1>6. ASSUME NEW r \in ReplicaId, HeartBeat(r) PROVE SendInv'
  <2>1. r = 0 /\ todo[0]["hbt"] = {}
    BY <1>6, <1>t DEF HeartBeat, ViewInv, isPrimary
  <2>2. /\ UNCHANGED <<repListener, cpc>>
        /\ todo' = [todo EXCEPT ![0]["hbt"] = peers[0] \ {0}]
    BY <1>6, <2>1 DEF HeartBeat, clientVars
  <2>3. /\ \A s \in ReplicaId : s # 0 => todo'[s] = todo[s]
        /\ todo'[0]["t1"] = todo[0]["t1"]
    BY <1>f, <2>2
  <2> QED
    BY <1>1, <1>f, <2>1, <2>2, <2>3 DEF SendInv, ListenAt
<1>7. ASSUME NEW r \in ReplicaId, NEW t \in {"t1", "hbt"}, NEW b \in ReplicaId,
             invokeCommit(r, t, b)
      PROVE  SendInv'
  <2>1. /\ b \in todo[r][t] /\ b # r
        /\ t = "t1" => cpc[r] = "commit"
    BY <1>7 DEF invokeCommit, Delivered, MayCall
  <2>2. r = 0
    BY <2>1 DEF SendInv, SendAt
  <2>3. /\ UNCHANGED <<todo, cpc>>
        /\ repListener' = [repListener EXCEPT ![b] =
             [from |-> 0, thread |-> t, info |-> commitInfo(0, t)]]
    BY <1>7, <2>2 DEF invokeCommit, AllNormal, clientVars
  <2>4. ASSUME NEW c \in ReplicaId PROVE SendAt(c)' /\ ListenAt(c)'
    <3>1. SendAt(c)'
      BY <2>3 DEF SendInv, SendAt
    <3>2. CASE c # b
      BY <1>f, <2>3, <3>1, <3>2 DEF SendInv, ListenAt
    <3>3. CASE c = b
      <4>1. /\ repListener'[b].from = 0 /\ repListener'[b].thread = t
        BY <1>f, <2>3
      <4> QED
        BY <2>1, <2>2, <2>3, <3>1, <3>3, <4>1 DEF ListenAt
    <3> QED BY <3>2, <3>3
  <2> QED
    BY <2>4 DEF SendInv
<1>8. ASSUME NEW b \in ReplicaId, processCommit(b) PROVE SendInv'
  <2>1. CASE Aborts(b)
    BY <1>3, <2>1 DEF Aborts
  <2>2. CASE EndCommit(b, repListener[b]) /\ UNCHANGED cpc
    <3>1. /\ repListener[b].from \in ReplicaId /\ repListener[b].thread \in Caller
          /\ repListener[b].from = 0
          /\ EndCall(repListener[b].from, repListener[b].thread, b)
          /\ repListener' = [repListener EXCEPT ![b] = Nil]
      BY <1>8, <1>f, <2>2 DEF processCommit, EndCommit, CommitMsg, SendInv, ListenAt
    <3>2. \A s \in ReplicaId : \A u \in Caller :
             /\ todo'[s][u] \subseteq todo[s][u]
             /\ \A c \in todo[s][u] : c \in todo'[s][u] \/ c = b
      BY <1>t, <3>1, EndCallTodo
    <3>3. \A c \in ReplicaId : repListener'[c] # Nil =>
            c # b /\ repListener'[c] = repListener[c]
      BY <1>f, <3>1
    <3>4. \A c \in ReplicaId : repListener[c] # Nil => repListener[c].thread \in Caller
      BY <1>f DEF CommitMsg
    <3> QED
      BY <1>1, <1>f, <2>2, <3>2, <3>3, <3>4 DEF SendInv, ListenAt
  <2> QED
    BY <1>8, <2>1, <2>2 DEF processCommit, clientVars
<1>9. ASSUME NEW r \in ReplicaId, NEW b \in ReplicaId,
             invokePrepare(r, b) \/ invokePrepareOk(r, b)
      PROVE  SendInv'
  <2>1. UNCHANGED <<repListener, cpc>>
    BY <1>9 DEF invokePrepare, invokePrepareOk, clientVars
  <2>2. CASE invokePrepare(r, b)
    <3>1. cpc[0] # "commit" /\ EndCall(r, "t1", b)
      BY <2>2, <1>t DEF invokePrepare, LogInv, ClientAt
    <3> QED
      BY <1>4, <1>f, <2>1, <3>1
  <2>3. CASE invokePrepareOk(r, b)
    <3>1. EndCall(r, "ppit", b)
      BY <2>3 DEF invokePrepareOk
    <3> QED
      BY <1>4, <1>f, <2>1, <3>1
  <2> QED BY <1>9, <2>2, <2>3
<1>10. ASSUME NEW r \in ReplicaId, NEW t \in Caller, NEW b \in ReplicaId,
              CallFails(r, t, b)
       PROVE  SendInv'
  <2>1. /\ UNCHANGED <<repListener, cpc>>
        /\ todo' = [todo EXCEPT ![r][t] = @ \ {b}]
        /\ ~Blocked(r, b)
    BY <1>10 DEF CallFails, MayCall, clientVars
  <2>2. \A s \in ReplicaId : \A u \in Caller :
           /\ todo'[s][u] \subseteq todo[s][u]
           /\ \A c \in todo[s][u] : c \in todo'[s][u] \/ (s = r /\ u = t /\ c = b)
    BY <1>t, <2>1, TodoLess
  <2>3. ASSUME NEW c \in ReplicaId, repListener'[c] # Nil
        PROVE  /\ repListener'[c] = repListener[c]
               /\ c \in todo'[0][repListener[c].thread]
               /\ repListener[c].thread = "t1" => cpc'[0] = "commit"
    <3>1. /\ repListener[c].from = 0 /\ c \in todo[0][repListener[c].thread]
          /\ repListener[c].thread \in Caller
          /\ repListener[c].thread = "t1" => cpc[0] = "commit"
      BY <1>f, <2>1, <2>3 DEF SendInv, ListenAt
    <3>2. ~(r = 0 /\ c = b)
      BY <2>1, <2>3, <3>1 DEF Blocked
    <3> QED
      BY <1>f, <2>1, <2>2, <3>1, <3>2
  <2> QED
    BY <1>1, <1>f, <2>2, <2>3
<1>11. ASSUME NEW r \in ReplicaId, Finish(r) PROVE SendInv'
  <2>1. UNCHANGED <<todo, repListener>> /\ r = 0 /\ todo[0]["t1"] = {}
    BY <1>11, <1>t DEF Finish, rpcVars, LogInv, ClientAt
  <2> QED
    BY <1>2, <2>1
<1>12. ASSUME NEW r \in ReplicaId,
             \/ \E op \in ClientOp : ClientRequest(r, op)
             \/ CountSelf(r) \/ Notified(r) \/ SpuriousWakeup(r) \/ TimedOut(r)
       PROVE  SendInv'
  <2>1. /\ UNCHANGED <<todo, repListener>>
        /\ cpc[0] = "commit" => cpc'[0] = "commit"
    BY <1>12, <1>f DEF ClientRequest, CountSelf, Notified, SpuriousWakeup,
                       TimedOut, ReplyToClient, rpcVars
  <2> QED
    BY <1>2, <2>1
<1>13. ASSUME NEW r \in ReplicaId, PopPrepInfo(r) \/ EndPrepInfo(r) PROVE SendInv'
  BY <1>2, <1>13 DEF PopPrepInfo, EndPrepInfo, rpcVars, clientVars
<1>14. ASSUME NEW r \in ReplicaId, LogPrepInfo(r) PROVE SendInv'
  <2>1. CASE Aborts(r)
    BY <1>3, <2>1 DEF Aborts
  <2>2. CASE ~Aborts(r)
    <3>1. /\ UNCHANGED <<repListener, cpc>>
          /\ todo' = [todo EXCEPT ![r]["ppit"] = {priId[r]}]
      BY <1>14, <2>2 DEF LogPrepInfo, clientVars
    <3>2. \A s \in ReplicaId : /\ todo'[s]["t1"] = todo[s]["t1"]
                               /\ todo'[s]["hbt"] = todo[s]["hbt"]
      BY <1>f, <3>1
    <3> QED
      BY <1>1, <1>f, <3>1, <3>2 DEF SendInv, ListenAt
  <2> QED BY <2>1, <2>2
<1>15. ASSUME NEW r \in ReplicaId, Crash(r) PROVE SendInv'
  BY <1>3, <1>15 DEF Crash
<1>16. CASE UNCHANGED vars
  BY <1>2, <1>16 DEF vars, rpcVars, clientVars
<1> QED
  BY <1>5, <1>6, <1>7, <1>8, <1>9, <1>10, <1>11, <1>12, <1>13, <1>14, <1>15,
     <1>16 DEF Next

-----------------------------------------------------------------------------
(***************************************************************************)
(* Commit marks.                                                           *)
(***************************************************************************)
\* A backup has committed all that its commit number says, also after a step.
LEMMA StepMark == SafetyInv /\ SendInv /\ MarkInv /\ [Next]_vars => MarkInv'
<1> SUFFICES ASSUME SafetyInv, SendInv, MarkInv, [Next]_vars,
                    NEW b \in ReplicaId, b # 0, NEW n \in 1 .. commitNum'[b]
             PROVE  isCommitted(opLog[b], n)'
  BY DEF MarkInv
<1>t. TypeOK /\ ViewInv /\ LogInv /\ Keeps
  BY StepKeeps DEF SafetyInv, TypeInv
<1>f. /\ commitNum \in [ReplicaId -> 0 .. MaxOp]
      /\ opLog \in [ReplicaId -> OpLog]
  BY <1>t DEF TypeOK
<1>1. ASSUME n \in 1 .. commitNum[b] PROVE isCommitted(opLog[b], n)'
  BY <1>1, <1>t DEF MarkInv, isCommitted, Keeps, hasEntry
<1>2. ASSUME NEW r \in ReplicaId, processCommit(r)
      PROVE  isCommitted(opLog[b], n)'
  <2>1. CASE UNCHANGED commitNum
    BY <1>1, <2>1
  <2>2. CASE /\ hasEntry(opLog[r], commitNum[r] + 1)
             /\ commitNum' = [commitNum EXCEPT ![r] = commitNum[r] + 1]
             /\ opLog' = [opLog EXCEPT ![r] = commit(opLog[r], commitNum[r] + 1)]
    <3>1. CASE r # b \/ n # commitNum[b] + 1
      BY <1>1, <1>f, <2>2, <3>1
    <3>2. CASE r = b /\ n = commitNum[b] + 1
      <4>1. opLog[b] \in OpLog /\ n \in OpInt /\ n \in DOMAIN opLog[b].entries
        BY <1>f, <2>2, <3>2, OpLogParts DEF hasEntry
      <4>2. opLog'[b] = commit(opLog[b], n)
        BY <1>f, <2>2, <3>2
      <4>3. n \in DOMAIN commit(opLog[b], n).entries
            /\ commit(opLog[b], n).entries[n].committed
        BY <4>1, CommitType
      <4> QED
        BY <4>2, <4>3 DEF isCommitted, hasEntry
    <3> QED BY <3>1, <3>2
  <2> QED
    BY <1>2, <2>1, <2>2 DEF processCommit, Aborts, Dies, replicaState, NextCommit
<1>3. ASSUME NEW r \in ReplicaId, StartCommit(r) PROVE isCommitted(opLog[b], n)'
  <2>1. r = 0
    BY <1>3, <1>t DEF StartCommit, LogInv, ClientAt
  <2> QED
    BY <1>1, <1>3, <1>f, <2>1 DEF StartCommit
<1>4. ASSUME NEW r \in ReplicaId,
             \/ \E op \in ClientOp : ClientRequest(r, op)
             \/ Replicate(r)
             \/ \E c \in ReplicaId : invokePrepare(r, c)
             \/ CountSelf(r) \/ Notified(r) \/ SpuriousWakeup(r) \/ TimedOut(r)
             \/ Finish(r) \/ HeartBeat(r)
             \/ \E t \in {"t1", "hbt"}, c \in ReplicaId : invokeCommit(r, t, c)
             \/ PopPrepInfo(r) \/ LogPrepInfo(r)
             \/ \E c \in ReplicaId : invokePrepareOk(r, c)
             \/ EndPrepInfo(r)
             \/ \E t \in Caller, c \in ReplicaId : CallFails(r, t, c)
             \/ Crash(r)
      PROVE  UNCHANGED commitNum
  BY <1>4 DEF ClientRequest, Replicate, invokePrepare, CountSelf, Notified,
              SpuriousWakeup, TimedOut, Finish, HeartBeat, invokeCommit,
              PopPrepInfo, LogPrepInfo, invokePrepareOk, EndPrepInfo,
              CallFails, Crash, Aborts, Dies, replicaState
<1>5. CASE UNCHANGED commitNum
  BY <1>1, <1>5
<1>6. CASE UNCHANGED vars
  BY <1>5, <1>6 DEF vars, replicaState
<1> QED
  BY <1>2, <1>3, <1>4, <1>5, <1>6 DEF Next

-----------------------------------------------------------------------------
(***************************************************************************)
(* Prepares.                                                               *)
(***************************************************************************)

\* Faults stay, and nobody comes back.
LEMMA ProcStays ==
  ASSUME SafetyInv, [Next]_vars
  PROVE  /\ lost' = 0 => lost = 0
         /\ \A b \in ReplicaId : Up(b)' => Up(b)
<1>t. lost \in Nat /\ proc \in [ReplicaId -> ProcState]
  BY DEF SafetyInv, TypeInv, TypeOK
<1>1. ASSUME NEW r \in ReplicaId, NEW how, how # "up", Dies(r, how)
      PROVE  UNCHANGED lost /\ \A b \in ReplicaId : Up(b)' => Up(b)
  BY <1>1, <1>t DEF Dies, Up
<1>2. ASSUME NEW r \in ReplicaId, processCommit(r) \/ LogPrepInfo(r) \/ Crash(r)
      PROVE  UNCHANGED lost /\ \A b \in ReplicaId : Up(b)' => Up(b)
  <2>1. CASE UNCHANGED <<lost, proc>>
    BY <2>1 DEF Up
  <2> QED
    BY <1>1, <1>2, <2>1 DEF processCommit, LogPrepInfo, Crash, Aborts, faultVars
<1>3. ASSUME NEW r \in ReplicaId,
             \/ \E op \in ClientOp : ClientRequest(r, op)
             \/ Replicate(r)
             \/ \E b \in ReplicaId : invokePrepare(r, b)
             \/ CountSelf(r) \/ Notified(r) \/ SpuriousWakeup(r) \/ TimedOut(r)
             \/ StartCommit(r) \/ Finish(r) \/ HeartBeat(r)
             \/ \E t \in {"t1", "hbt"}, b \in ReplicaId : invokeCommit(r, t, b)
             \/ PopPrepInfo(r)
             \/ \E b \in ReplicaId : invokePrepareOk(r, b)
             \/ EndPrepInfo(r)
             \/ \E t \in Caller, b \in ReplicaId : CallFails(r, t, b)
      PROVE  UNCHANGED proc /\ (UNCHANGED lost \/ lost' = lost + 1)
  BY <1>3 DEF ClientRequest, Replicate, invokePrepare, CountSelf, Notified,
              SpuriousWakeup, TimedOut, StartCommit, Finish, HeartBeat,
              invokeCommit, PopPrepInfo, invokePrepareOk, EndPrepInfo,
              CallFails, faultVars
<1>4. CASE UNCHANGED vars
  BY <1>4 DEF vars, faultVars, Up
<1> QED
  BY <1>t, <1>2, <1>3, <1>4 DEF Next, Up

\* The prepares of a live backup stay in order and complete.
LEMMA StepQueue ==
  AbortInv /\ [Next]_vars => QueueInv'
<1> SUFFICES ASSUME AbortInv, [Next]_vars, CallsHold'
             PROVE  \A s \in ReplicaId :
                      proc'[s] # "aborted" /\ (s # 0 /\ Up(s)' => QueueAt(s)')
  BY DEF QueueInv
<1>i. SafetyInv /\ AllNormal /\ CallInv /\ SendInv /\ MarkInv
  BY DEF AbortInv
<1>h. lost = 0 /\ resent = 0 /\ lost' = 0 /\ resent' = 0
  BY <1>i, FaultsStay, ProcStays DEF CallsHold
<1>q. \A s \in ReplicaId : proc[s] # "aborted" /\ (s # 0 /\ Up(s) => QueueAt(s))
  BY <1>h DEF AbortInv, QueueInv, CallsHold
<1>u. \A s \in ReplicaId : Up(s)' => Up(s)
  BY <1>i, ProcStays
<1>t. TypeOK /\ ThreadInv /\ ViewInv /\ LogInv /\ CommitInv
  BY <1>i DEF SafetyInv, TypeInv
<1>f. /\ todo \in [ReplicaId -> [Caller -> SUBSET ReplicaId]]
      /\ ppc \in [ReplicaId -> {"idle", "checked", "logged"}]
      /\ ppInfo \in [ReplicaId -> PrepInfo \cup {Nil}]
      /\ cpc \in [ReplicaId -> {"idle", "enter", "prepare", "wait", "reached",
                               "commit"}]
      /\ opNum \in [ReplicaId -> 0 .. MaxOp]
      /\ prepReqQ \in [ReplicaId -> Seq(PrepInfo)]
      /\ proc \in [ReplicaId -> ProcState]
      /\ "ppit" \in Caller /\ "t1" \in Caller /\ "hbt" \in Caller
      /\ 0 \in ReplicaId
  BY <1>t, ZeroIsReplica DEF TypeOK, Caller
<1>g. \A s \in ReplicaId : /\ opNum[s] \in Nat /\ Len(prepReqQ[s]) \in Nat
                           /\ InHand(s) \in Nat /\ Unsent(s) \in Nat
  BY <1>f DEF InHand, Unsent
<1> DEFINE Goal == \A s \in ReplicaId :
                     proc'[s] # "aborted" /\ (s # 0 /\ Up(s)' => QueueAt(s)')
\* Steps that do not concern prepares.
<1>1. ASSUME UNCHANGED <<opNum, ppc, ppInfo, prepReqQ>>,
             \A s \in ReplicaId : proc'[s] # "aborted",
             \A s \in ReplicaId : s # 0 /\ Up(s)' => Unsent(s)' = Unsent(s)
      PROVE  Goal
  BY <1>1, <1>q, <1>u DEF QueueAt, InHand
<1>2. ASSUME NEW r \in ReplicaId, Replicate(r) PROVE Goal
  <2>1. /\ r = 0 /\ cpc[0] = "enter" /\ status[0] = "NORMAL"
        /\ peers[0] \ {0} = OtherReplicas(0)
    BY <1>2, <1>i, <1>t, <1>f
    DEF Replicate, ViewInv, isPrimary, CallInv, OtherReplicas
  <2>2. /\ opNum' = [opNum EXCEPT ![0] = opNum[0] + 1]
        /\ cpc' = [cpc EXCEPT ![0] = "prepare"]
        /\ todo' = [todo EXCEPT ![0]["t1"] = OtherReplicas(0)]
        /\ UNCHANGED <<ppc, ppInfo, prepReqQ, proc>>
    BY <1>2, <2>1 DEF Replicate, prepVars, faultVars
  <2>3. ASSUME NEW s \in ReplicaId, s # 0, Up(s)' PROVE QueueAt(s)'
    <3>1. QueueAt(s) /\ Unsent(s) = 0
      BY <1>q, <1>u, <2>1, <2>3 DEF Unsent
    <3>2. Unsent(s)' = 1
      <4>1. s \in OtherReplicas(0) /\ cpc'[0] = "prepare"
            /\ todo'[0]["t1"] = OtherReplicas(0)
        BY <1>f, <2>2, <2>3 DEF OtherReplicas
      <4> QED
        BY <4>1 DEF Unsent
    <3>3. /\ opNum'[s] = opNum[s] /\ opNum'[0] = opNum[0] + 1
          /\ InHand(s)' = InHand(s)
      BY <1>f, <2>2, <2>3 DEF InHand
    <3>4. ppc'[s] = ppc[s] /\ ppInfo'[s] = ppInfo[s] /\ prepReqQ'[s] = prepReqQ[s]
      BY <2>2
    <3> QED
      BY <1>g, ZeroIsReplica, <3>1, <3>2, <3>3, <3>4 DEF QueueAt
  <2> QED
    BY <1>q, <2>2, <2>3
<1>3. ASSUME NEW r \in ReplicaId, NEW b \in ReplicaId, invokePrepare(r, b)
      PROVE  Goal
  <2>1. r = 0 /\ b # 0 /\ cpc[0] = "prepare" /\ b \in todo[0]["t1"]
    BY <1>3, <1>t DEF invokePrepare, Delivered, MayCall, LogInv, ClientAt
  <2> DEFINE x == prepInfo(0)
  <2>2. /\ prepReqQ' = [prepReqQ EXCEPT ![b] = Append(prepReqQ[b], x)]
        /\ x.viewNum = 0 /\ x.opNum = opNum[0]
        /\ EndCall(0, "t1", b)
        /\ UNCHANGED <<opNum, ppc, ppInfo, cpc, proc>>
    BY <1>3, <1>i, <1>t, <2>1
    DEF invokePrepare, processPrepare, prepInfo, ViewInv, AllNormal,
        replicaState, clientVars
  <2>3. x \in PrepInfo
    BY <1>t, <2>1 DEF prepInfo, PrepInfo, TypeOK, ThreadInv
  <2> HIDE DEF x
  <2>4. /\ b \notin todo'[0]["t1"]
        /\ \A c \in ReplicaId : c # b => (c \in todo'[0]["t1"] <=> c \in todo[0]["t1"])
    BY <1>f, <1>h, <1>t, <2>2, EndCallOnce, EndCallTodo
  <2>5. ASSUME NEW s \in ReplicaId, s # 0, Up(s)' PROVE QueueAt(s)'
    <3>1. QueueAt(s)
      BY <1>q, <1>u, <2>5
    <3>2. CASE s # b
      <4>1. prepReqQ'[s] = prepReqQ[s] /\ Unsent(s)' = Unsent(s) /\ InHand(s)' = InHand(s)
        BY <1>f, <2>2, <2>4, <3>2 DEF Unsent, InHand
      <4> QED
        BY <2>2, <3>1, <4>1 DEF QueueAt
    <3>3. CASE s = b
      <4>0. /\ opNum[b] \in Nat /\ Len(prepReqQ[b]) \in Nat /\ InHand(b) \in Nat
            /\ opNum[0] \in Nat
        BY <1>f, <1>g
      <4>1. Unsent(b) = 1 /\ Unsent(b)' = 0 /\ InHand(b)' = InHand(b)
        BY <2>1, <2>2, <2>4 DEF Unsent, InHand
      <4>2. /\ prepReqQ'[b] = Append(prepReqQ[b], x)
            /\ prepReqQ[b] \in Seq(PrepInfo)
        BY <1>f, <2>2
      <4>3. /\ Len(prepReqQ'[b]) = Len(prepReqQ[b]) + 1
            /\ \A i \in 1 .. Len(prepReqQ[b]) : prepReqQ'[b][i] = prepReqQ[b][i]
            /\ prepReqQ'[b][Len(prepReqQ[b]) + 1] = x
        BY <2>3, <4>2
      <4>4. opNum[b] + InHand(b) + Len(prepReqQ[b]) + 1 = opNum[0]
        BY <3>1, <3>3, <4>1 DEF QueueAt
      <4>5. \A i \in 1 .. Len(prepReqQ'[b]) :
              /\ prepReqQ'[b][i].viewNum = 0
              /\ prepReqQ'[b][i].opNum = opNum[b] + InHand(b) + i
        <5>1. PICK k \in Nat : k = Len(prepReqQ[b])
          BY <4>0
        <5>2. ASSUME NEW i \in 1 .. k
              PROVE  /\ prepReqQ'[b][i].viewNum = 0
                     /\ prepReqQ'[b][i].opNum = opNum[b] + InHand(b) + i
          BY <3>1, <3>3, <4>3, <5>1 DEF QueueAt
        <5>3. /\ prepReqQ'[b][k + 1].viewNum = 0
              /\ prepReqQ'[b][k + 1].opNum = opNum[b] + InHand(b) + (k + 1)
          <6>1. prepReqQ'[b][k + 1] = x
            BY <4>3, <5>1
          <6>2. opNum[0] = opNum[b] + InHand(b) + (k + 1)
            BY <4>0, <4>4, <5>1
          <6> QED
            BY <2>2, <6>1, <6>2
        <5>4. Len(prepReqQ'[b]) = k + 1
          BY <4>3, <5>1
        <5>5. ASSUME NEW i \in 1 .. Len(prepReqQ'[b])
              PROVE  /\ prepReqQ'[b][i].viewNum = 0
                     /\ prepReqQ'[b][i].opNum = opNum[b] + InHand(b) + i
          <6>1. i \in 1 .. k + 1
            BY <5>4, <5>5
          <6>2. i \in 1 .. k \/ i = k + 1
            BY <6>1
          <6>3. CASE i \in 1 .. k
            BY <5>2, <6>3
          <6>4. CASE i = k + 1
            <7>1. prepReqQ'[b][i] = prepReqQ'[b][k + 1]
              BY <6>4
            <7>2. opNum[b] + InHand(b) + i = opNum[b] + InHand(b) + (k + 1)
              BY <6>4
            <7> QED BY <5>3, <7>1, <7>2
          <6> QED BY <6>2, <6>3, <6>4
        <5> QED
          BY <5>5
      <4>6. opNum'[b] + InHand(b)' + Len(prepReqQ'[b]) + Unsent(b)' = opNum'[0]
        <5>1. Len(prepReqQ'[b]) = Len(prepReqQ[b]) + 1
          BY <4>3
        <5>2. opNum'[b] = opNum[b] /\ opNum'[0] = opNum[0]
          BY <2>2
        <5>3. InHand(b)' = InHand(b) /\ Unsent(b)' = 0
          BY <4>1
        <5> QED
          BY <4>0, <4>4, <5>1, <5>2, <5>3
      <4>7. ppc'[b] = "checked" => ppInfo'[b].opNum = opNum'[b] + 1
        BY <2>2, <3>1, <3>3 DEF QueueAt
      <4> QED
        BY <2>2, <3>3, <4>1, <4>5, <4>6, <4>7 DEF QueueAt
    <3> QED BY <3>2, <3>3
  <2> QED
    BY <1>q, <2>2, <2>5
<1>4. ASSUME NEW r \in ReplicaId, PopPrepInfo(r) PROVE Goal
  <2>1. /\ ppc[r] = "idle" /\ prepReqQ[r] # <<>>
        /\ prepReqQ' = [prepReqQ EXCEPT ![r] = Tail(prepReqQ[r])]
        /\ UNCHANGED <<opNum, cpc, todo, proc>>
    BY <1>4 DEF PopPrepInfo, replicaState, clientVars, rpcVars, faultVars
  <2>2. \A s \in ReplicaId : s # r => /\ prepReqQ'[s] = prepReqQ[s]
                                      /\ ppc'[s] = ppc[s] /\ ppInfo'[s] = ppInfo[s]
    BY <1>4, <1>f DEF PopPrepInfo
  <2>3. ASSUME NEW s \in ReplicaId, s # 0, Up(s)' PROVE QueueAt(s)'
    <3>1. QueueAt(s) /\ Unsent(s)' = Unsent(s)
      BY <1>q, <1>u, <2>1, <2>3 DEF Unsent
    <3>2. CASE s # r
      BY <2>1, <2>2, <3>1, <3>2 DEF QueueAt, InHand
    <3>3. CASE s = r
      <4> DEFINE q == prepReqQ[r]
      <4>1. q \in Seq(PrepInfo) /\ q # <<>> /\ prepReqQ'[r] = Tail(q)
        BY <1>f, <2>1
      <4>2. InHand(r) = 0
        BY <2>1 DEF InHand
      <4>3. \A i \in 1 .. Len(q) : q[i].viewNum = 0 /\ q[i].opNum = opNum[r] + i
        BY <1>g, <3>1, <3>3, <4>2 DEF QueueAt
      <4>4. /\ Len(q) \in Nat /\ Len(q) >= 1 /\ Head(q) = q[1]
            /\ Len(Tail(q)) = Len(q) - 1
            /\ \A i \in 1 .. Len(Tail(q)) : Tail(q)[i] = q[i + 1]
        BY <4>1
      <4>5. Head(q).viewNum = 0 /\ Head(q).opNum = opNum[r] + 1
        BY <4>3, <4>4
      <4>6. ppc'[r] = "checked" /\ ppInfo'[r] = Head(q)
        BY <1>4, <1>f, <1>i, <1>t, <2>3, <3>3, <4>5
        DEF PopPrepInfo, ViewInv, AllNormal, isPrimary
      <4>7. InHand(r)' = 1
        BY <4>6 DEF InHand
      <4> HIDE DEF q
      <4>8. ASSUME NEW i \in 1 .. Len(Tail(q))
            PROVE  /\ Tail(q)[i].viewNum = 0
                   /\ Tail(q)[i].opNum = opNum[r] + 1 + i
        <5>1. i + 1 \in 1 .. Len(q)
          BY <4>4
        <5>2. /\ Tail(q)[i] = q[i + 1] /\ q[i + 1].viewNum = 0
              /\ q[i + 1].opNum = opNum[r] + (i + 1)
          BY <4>3, <4>4, <5>1
        <5>3. opNum[r] + (i + 1) = opNum[r] + 1 + i
          BY <1>g
        <5> QED
          BY <5>2, <5>3
      <4>9. opNum[r] + 1 + Len(Tail(q)) + Unsent(r) = opNum[0]
        BY <1>f, <1>g, <3>1, <3>3, <4>2, <4>4 DEF QueueAt, q
      <4>10. ppInfo'[r].opNum = opNum'[r] + 1 /\ opNum'[r] = opNum[r]
        BY <2>1, <4>5, <4>6
      <4>11. opNum'[r] + InHand(r)' + Len(prepReqQ'[r]) + Unsent(r)' = opNum'[0]
        BY <2>1, <3>1, <3>3, <4>1, <4>7, <4>9
      <4>12. \A i \in 1 .. Len(prepReqQ'[r]) :
               /\ prepReqQ'[r][i].viewNum = 0
               /\ prepReqQ'[r][i].opNum = opNum'[r] + InHand(r)' + i
        BY <2>1, <4>1, <4>7, <4>8
      <4> QED
        BY <3>3, <4>10, <4>11, <4>12 DEF QueueAt
    <3> QED BY <3>2, <3>3
  <2> QED
    BY <1>q, <2>1, <2>3
<1>5. ASSUME NEW r \in ReplicaId, LogPrepInfo(r) PROVE Goal
  <2>1. r # 0 /\ Up(r) /\ ppc[r] = "checked" /\ ppInfo[r].opNum = opNum[r] + 1
    BY <1>5, <1>q, <1>t DEF LogPrepInfo, LogInv, PrepAt, QueueAt
  <2>2. /\ opNum' = [opNum EXCEPT ![r] = opNum[r] + 1]
        /\ ppc' = [ppc EXCEPT ![r] = "logged"]
        /\ todo' = [todo EXCEPT ![r]["ppit"] = {priId[r]}]
        /\ UNCHANGED <<prepReqQ, ppInfo, cpc, proc>>
    BY <1>5, <2>1 DEF LogPrepInfo, clientVars, faultVars
  <2>3. opNum'[0] = opNum[0] /\ todo'[0] = todo[0]
    BY <1>f, <2>1, <2>2
  <2>4. ASSUME NEW s \in ReplicaId, s # 0, Up(s)' PROVE QueueAt(s)'
    <3>1. QueueAt(s) /\ Unsent(s)' = Unsent(s)
      BY <1>q, <1>u, <2>2, <2>3, <2>4 DEF Unsent
    <3>2. CASE s # r
      BY <1>f, <2>2, <2>3, <3>1, <3>2 DEF QueueAt, InHand
    <3>3. CASE s = r
      <4>1. /\ opNum'[r] = opNum[r] + 1 /\ ppc'[r] = "logged"
            /\ InHand(r) = 1 /\ InHand(r)' = 0
        BY <1>f, <2>1, <2>2 DEF InHand
      <4> QED
        BY <1>g, <1>f, <2>2, <2>3, <3>1, <3>3, <4>1 DEF QueueAt
    <3> QED BY <3>2, <3>3
  <2> QED
    BY <1>q, <2>2, <2>4
<1>6. ASSUME NEW r \in ReplicaId, EndPrepInfo(r) PROVE Goal
  <2>1. /\ UNCHANGED <<opNum, cpc, todo, proc, prepReqQ>>
        /\ \A s \in ReplicaId : s # r => ppc'[s] = ppc[s] /\ ppInfo'[s] = ppInfo[s]
        /\ ppc[r] = "logged" /\ ppc'[r] = "idle"
    BY <1>6, <1>f DEF EndPrepInfo, replicaState, clientVars, rpcVars, faultVars
  <2>2. ASSUME NEW s \in ReplicaId, s # 0, Up(s)' PROVE QueueAt(s)'
    <3>1. QueueAt(s) /\ Unsent(s)' = Unsent(s) /\ InHand(s)' = InHand(s)
      BY <1>q, <1>u, <2>1, <2>2 DEF Unsent, InHand
    <3> QED
      BY <2>1, <3>1 DEF QueueAt
  <2> QED
    BY <1>q, <2>1, <2>2
<1>7. ASSUME NEW r \in ReplicaId, NEW t \in Caller, NEW b \in ReplicaId,
             CallFails(r, t, b)
      PROVE  Goal
  <2>1. /\ UNCHANGED <<opNum, ppc, ppInfo, prepReqQ, proc, cpc>>
        /\ todo' = [todo EXCEPT ![r][t] = @ \ {b}]
        /\ ~Up(b) \/ b = r
    BY <1>7, <1>h DEF CallFails, replicaState, prepVars, clientVars
  <2>2. \A s \in ReplicaId : \A u \in Caller :
           /\ todo'[s][u] \subseteq todo[s][u]
           /\ \A c \in todo[s][u] : c \in todo'[s][u] \/ (s = r /\ u = t /\ c = b)
    BY <1>t, <2>1, TodoLess
  <2>3. ASSUME NEW s \in ReplicaId, s # 0, Up(s)' PROVE Unsent(s)' = Unsent(s)
    <3>1. ~(r = 0 /\ s = b)
      BY <1>u, <2>1, <2>3
    <3> QED
      BY <1>f, <2>1, <2>2, <3>1 DEF Unsent
  <2> QED
    BY <1>1, <1>q, <2>1, <2>3
<1>8. ASSUME NEW r \in ReplicaId, NEW t \in {"t1", "hbt"}, NEW b \in ReplicaId,
             invokeCommit(r, t, b)
      PROVE  Goal
  <2>1. /\ UNCHANGED <<opNum, ppc, ppInfo, prepReqQ, proc, cpc, todo>>
    BY <1>8, <1>i DEF invokeCommit, AllNormal, replicaState, prepVars, clientVars
  <2> QED
    BY <1>1, <1>q, <2>1 DEF Unsent
<1>9. ASSUME NEW b \in ReplicaId, processCommit(b) PROVE Goal
  <2>1. /\ b # 0 /\ repListener[b].from = 0 /\ repListener[b].thread \in Caller
        /\ repListener[b].thread = "t1" => cpc[0] = "commit"
    BY <1>9, <1>i, <1>f DEF processCommit, SendInv, ListenAt
  <2>2. ~(/\ repListener[b].info.commitNum > 0
          /\ repListener[b].info.commitNum <= commitNum[b]
          /\ ~isCommitted(opLog[b], repListener[b].info.commitNum))
    <3>1. repListener[b].info.commitNum \in 0 .. MaxOp
      BY <1>9, <1>t DEF processCommit, TypeOK, CommitMsg, CommitInfo
    <3>2. commitNum[b] \in 0 .. MaxOp
      BY <1>t DEF TypeOK
    <3> QED
      BY <1>i, <2>1, <3>1, <3>2, BoundAssumption DEF MarkInv
  <2>3. /\ UNCHANGED <<opNum, ppc, ppInfo, prepReqQ, proc, cpc>>
        /\ EndCall(repListener[b].from, repListener[b].thread, b)
    BY <1>9, <2>2 DEF processCommit, EndCommit, replicaState, prepVars, clientVars
  <2>4. \A u \in Caller :
           /\ todo'[0][u] \subseteq todo[0][u]
           /\ \A c \in todo[0][u] :
                c \in todo'[0][u] \/ (u = repListener[b].thread /\ c = b)
    BY <1>f, <1>t, <2>1, <2>3, EndCallTodo
  <2>5. \A s \in ReplicaId : Unsent(s)' = Unsent(s)
    BY <1>f, <2>1, <2>3, <2>4 DEF Unsent
  <2> QED
    BY <1>1, <1>q, <2>3, <2>5
<1>10. ASSUME NEW r \in ReplicaId, NEW b \in ReplicaId, invokePrepareOk(r, b)
       PROVE  Goal
  <2>1. /\ UNCHANGED <<opNum, ppc, ppInfo, prepReqQ, proc, cpc>>
        /\ EndCall(r, "ppit", b)
    BY <1>10 DEF invokePrepareOk, replicaState, clientVars
  <2>2. \A c \in ReplicaId : c \in todo'[0]["t1"] <=> c \in todo[0]["t1"]
    BY <1>f, <1>t, <2>1, EndCallTodo
  <2> QED
    BY <1>1, <1>q, <2>1, <2>2 DEF Unsent
<1>11. ASSUME NEW r \in ReplicaId, CountSelf(r) PROVE Goal
  <2>1. r = 0 /\ cpc[0] = "prepare" /\ todo[0]["t1"] = {}
    BY <1>11, <1>t DEF CountSelf, LogInv, ClientAt
  <2>2. UNCHANGED <<opNum, ppc, ppInfo, prepReqQ, proc, todo>>
    BY <1>11 DEF CountSelf, replicaState, rpcVars, faultVars
  <2> QED
    BY <1>1, <1>q, <2>1, <2>2 DEF Unsent
<1>12. ASSUME NEW r \in ReplicaId,
              \/ \E op \in ClientOp : ClientRequest(r, op)
              \/ Notified(r) \/ SpuriousWakeup(r) \/ TimedOut(r) \/ Finish(r)
       PROVE  Goal
  <2>1. /\ UNCHANGED <<opNum, ppc, ppInfo, prepReqQ, proc, todo>>
        /\ cpc'[0] = "prepare" <=> cpc[0] = "prepare"
    BY <1>12, <1>f DEF ClientRequest, Notified, SpuriousWakeup, TimedOut, Finish,
                       ReplyToClient, replicaState, prepVars, rpcVars, faultVars
  <2> QED
    BY <1>1, <1>q, <2>1 DEF Unsent
<1>13. ASSUME NEW r \in ReplicaId, StartCommit(r) PROVE Goal
  <2>1. r = 0 /\ cpc[0] = "reached"
    BY <1>13, <1>t DEF StartCommit, LogInv, ClientAt
  <2>2. UNCHANGED <<opNum, ppc, ppInfo, prepReqQ, proc>> /\ cpc'[0] # "prepare"
    BY <1>13, <1>f, <2>1 DEF StartCommit, prepVars, faultVars
  <2> QED
    BY <1>1, <1>q, <2>1, <2>2 DEF Unsent
<1>14. ASSUME NEW r \in ReplicaId, HeartBeat(r) PROVE Goal
  <2>1. /\ UNCHANGED <<opNum, ppc, ppInfo, prepReqQ, proc, cpc>>
        /\ todo' = [todo EXCEPT ![r]["hbt"] = peers[r] \ {r}]
    BY <1>14 DEF HeartBeat, replicaState, prepVars, clientVars, faultVars
  <2>2. todo'[0]["t1"] = todo[0]["t1"]
    BY <1>f, <2>1
  <2> QED
    BY <1>1, <1>q, <2>1, <2>2 DEF Unsent
<1>15. ASSUME NEW r \in ReplicaId, Crash(r) PROVE Goal
  <2>1. UNCHANGED <<opNum, ppc, ppInfo, prepReqQ, cpc, todo>>
    BY <1>15 DEF Crash, Dies, replicaState, prepVars, clientVars
  <2>2. \A s \in ReplicaId : proc'[s] # "aborted"
    BY <1>15, <1>f, <1>q DEF Crash, Dies
  <2> QED
    BY <1>1, <2>1, <2>2 DEF Unsent
<1>16. CASE UNCHANGED vars
  BY <1>1, <1>16, <1>q
  DEF vars, replicaState, prepVars, clientVars, rpcVars, faultVars, Unsent
<1> QED
  BY <1>2, <1>3, <1>4, <1>5, <1>6, <1>7, <1>8, <1>9, <1>10, <1>11, <1>12, <1>13,
     <1>14, <1>15, <1>16 DEF Next

-----------------------------------------------------------------------------
\* Nothing is sent, queued or committed at the start.
LEMMA InitAbort == Init => AbortInv
<1> SUFFICES ASSUME Init PROVE AbortInv
  OBVIOUS
<1>1. SafetyInv /\ AllNormal /\ CallInv
  BY InitQuorum DEF QuorumInv, AllNormal, Init
<1>2. SendInv
  BY DEF Init, SendInv, SendAt, ListenAt, Caller
<1>3. MarkInv
  BY DEF Init, MarkInv
<1>4. QueueInv
  BY ZeroIsReplica DEF Init, QueueInv, QueueAt, InHand, Unsent
<1> QED
  BY <1>1, <1>2, <1>3, <1>4 DEF AbortInv

\* For any number of replicas, and whoever crashes or whatever wait times out:
\* as long as no call is lost or repeated, neither the assert() of
\* processPrepInfo nor that of processCommit ever fails.
THEOREM NobodyAborts == Spec => []NoAbort
<1>1. AbortInv /\ [Next]_vars => AbortInv'
  <2> SUFFICES ASSUME AbortInv, [Next]_vars PROVE AbortInv'
    OBVIOUS
  <2>1. SafetyInv' /\ AllNormal'
    BY StepSafety, NextView DEF AbortInv, AllNormal
  <2>2. CallInv' /\ SendInv' /\ MarkInv' /\ QueueInv'
    BY StepCall, StepSend, StepMark, StepQueue DEF AbortInv
  <2> QED
    BY <2>1, <2>2 DEF AbortInv
<1>2. AbortInv => NoAbort
  BY DEF AbortInv, QueueInv, CallsHold, NoAbort
<1> QED
  BY <1>1, <1>2, InitAbort, PTL DEF Spec
=============================================================================
