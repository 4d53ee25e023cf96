------------------------- MODULE VsReplicatorProofs -------------------------
(***************************************************************************)
(* Proofs about normal-case replication, for every number of replicas, set *)
(* of operations and bound.  First the logs: they agree, and what is       *)
(* committed is final.  Then what a commit stands for: an operation that   *)
(* was committed is logged by a majority, and what a client was told is    *)
(* done survives the crash of a minority, whatever the faults.             *)
(***************************************************************************)
EXTENDS VsReplicator, FiniteSetTheorems, TLAPS

\* What the threads' program counters say about their local variables.
ThreadInv ==
  \A r \in ReplicaId :
    /\ cpc[r] # "idle" => creq[r] \in ClientOp
    /\ cpc[r] \in {"prepare", "wait", "reached", "commit"} => opNum[r] \in OpInt
    /\ ppc[r] # "idle" => ppInfo[r] \in PrepInfo
    /\ todo[r]["ppit"] # {} => ppc[r] = "logged"

TypeInv == TypeOK /\ ThreadInv

-----------------------------------------------------------------------------
(***************************************************************************)
(* The operators on logs and maps.                                         *)
(***************************************************************************)

\* A log is in OpLog exactly when its map sends operation numbers to entries.
LEMMA OpLogMembership ==
  ASSUME NEW opNums \in Seq(OpInt), NEW D \in SUBSET OpInt,
         NEW f \in [D -> LogEntry]
  PROVE  [opNums |-> opNums, entries |-> f] \in OpLog
BY DEF OpLog

\* ... and conversely.
LEMMA OpLogParts ==
  ASSUME NEW log \in OpLog
  PROVE  /\ log.opNums \in Seq(OpInt)
         /\ DOMAIN log.entries \in SUBSET OpInt
         /\ log.entries \in [DOMAIN log.entries -> LogEntry]
BY DEF OpLog

\* The empty log is a log.
LEMMA EmptyLogType == EmptyLog \in OpLog /\ DOMAIN EmptyLog.entries = {}
<1> DEFINE f == [n \in {} |-> n]
<1>1. f \in [{} -> LogEntry]
  OBVIOUS
<1>2. <<>> \in Seq(OpInt)
  OBVIOUS
<1>3. [opNums |-> <<>>, entries |-> f] \in OpLog
  BY <1>1, <1>2, OpLogMembership
<1> QED
  BY <1>3 DEF EmptyLog

\* append adds one entry, and changes no other.
LEMMA AppendType ==
  ASSUME NEW log \in OpLog, NEW op \in ClientOp, NEW n \in OpInt
  PROVE  /\ append(log, op, n) \in OpLog
         /\ DOMAIN append(log, op, n).entries = DOMAIN log.entries \cup {n}
         /\ append(log, op, n).entries[n].op = op
         /\ \A m \in DOMAIN log.entries :
              m # n => append(log, op, n).entries[m] = log.entries[m]
<1> DEFINE D == DOMAIN log.entries \cup {n}
           e == [op |-> op, opNum |-> n, committed |-> FALSE]
           f == [m \in D |-> IF m = n THEN e ELSE log.entries[m]]
<1>1. append(log, op, n) = [opNums |-> Append(log.opNums, n), entries |-> f]
  BY DEF append
<1>2. Append(log.opNums, n) \in Seq(OpInt) /\ D \in SUBSET OpInt
  BY OpLogParts
<1>3. e \in LogEntry
  BY DEF LogEntry
<1>4. f \in [D -> LogEntry]
  <2> HIDE DEF e
  <2> QED BY <1>3, OpLogParts
<1> HIDE DEF e
<1>5. DOMAIN f = D /\ f[n] = e
        /\ \A m \in DOMAIN log.entries : m # n => f[m] = log.entries[m]
  OBVIOUS
<1> HIDE DEF f, D
<1>6. append(log, op, n) \in OpLog
  BY <1>1, <1>2, <1>4, OpLogMembership
<1>7. append(log, op, n).entries = f
  BY <1>1
<1>8. e.op = op
  BY DEF e
<1> QED
  BY <1>5, <1>6, <1>7, <1>8 DEF D

\* commit marks one entry, and leaves its operation and the others alone.
LEMMA CommitType ==
  ASSUME NEW log \in OpLog, NEW n \in OpInt
  PROVE  /\ commit(log, n) \in OpLog
         /\ DOMAIN commit(log, n).entries = DOMAIN log.entries
         /\ \A m \in DOMAIN log.entries :
              /\ commit(log, n).entries[m].op = log.entries[m].op
              /\ log.entries[m].committed =>
                   commit(log, n).entries[m] = log.entries[m]
              /\ commit(log, n).entries[m].committed
                   <=> m = n \/ log.entries[m].committed
<1> DEFINE D == DOMAIN log.entries
           e(m) == [op |-> log.entries[m].op, opNum |-> log.entries[m].opNum,
                    committed |-> TRUE]
           f == [m \in D |-> IF m = n THEN e(m) ELSE log.entries[m]]
<1>1. commit(log, n) = [opNums |-> log.opNums, entries |-> f]
  BY DEF commit
<1>2. \A m \in D : log.entries[m] \in LogEntry
  BY OpLogParts
<1>3. \A m \in D : /\ e(m) \in LogEntry
                   /\ e(m).op = log.entries[m].op
                   /\ e(m).committed
                   /\ log.entries[m].committed => e(m) = log.entries[m]
  BY <1>2 DEF LogEntry
<1> HIDE DEF e
<1>4. /\ f \in [D -> LogEntry]
      /\ \A m \in D : /\ f[m].op = log.entries[m].op
                      /\ log.entries[m].committed => f[m] = log.entries[m]
                      /\ f[m].committed <=> m = n \/ log.entries[m].committed
  BY <1>2, <1>3
<1>5. log.opNums \in Seq(OpInt) /\ D \in SUBSET OpInt
  BY OpLogParts
<1> HIDE DEF f
<1>6. commit(log, n) \in OpLog
  BY <1>1, <1>4, <1>5, OpLogMembership
<1>7. commit(log, n).entries = f
  BY <1>1
<1> QED
  BY <1>4, <1>6, <1>7

\* An operation maps a key-value map to one.
LEMMA ApplyType ==
  ASSUME NEW kv \in KvMap, NEW op \in ClientOp
  PROVE  applyOp(kv, op) \in KvMap
<1>1. op \in Op
  BY OpAssumption
<1>2. op.val \in Val \cup {NoVal}
  BY <1>1 DEF Op
<1> QED
  BY <1>2 DEF applyOp, KvMap
-----------------------------------------------------------------------------
(***************************************************************************)
(* Type correctness.                                                       *)
(***************************************************************************)

\* The end of a call keeps the types of the variables it touches.
LEMMA EndCallType ==
  ASSUME TypeOK, NEW r \in ReplicaId, NEW t \in Caller, NEW b \in ReplicaId,
         EndCall(r, t, b)
  PROVE  /\ todo' \in [ReplicaId -> [Caller -> SUBSET ReplicaId]]
         /\ \A s \in ReplicaId : \A u \in Caller : todo'[s][u] \subseteq todo[s][u]
         /\ repClient' \in [ReplicaId -> Call \cup {Nil}]
         /\ resent' \in Nat
<1>1. [thread |-> t, to |-> b, retry |-> TRUE] \in Call
  BY DEF Call
<1>2. CASE /\ todo' = [todo EXCEPT ![r][t] = @ \ {b}]
           /\ repClient' = [repClient EXCEPT ![r] = Nil]
           /\ UNCHANGED resent
  <2>1. todo[r][t] \ {b} \in SUBSET ReplicaId
    BY DEF TypeOK
  <2>2. [todo[r] EXCEPT ![t] = todo[r][t] \ {b}] \in [Caller -> SUBSET ReplicaId]
    BY <2>1 DEF TypeOK
  <2>3. todo' \in [ReplicaId -> [Caller -> SUBSET ReplicaId]]
    BY <1>2, <2>2 DEF TypeOK
  <2>4. \A s \in ReplicaId : \A u \in Caller : todo'[s][u] \subseteq todo[s][u]
    BY <1>2 DEF TypeOK
  <2> QED
    BY <1>2, <2>3, <2>4 DEF TypeOK
<1>3. CASE /\ resent' = resent + 1
           /\ repClient' = [repClient EXCEPT
                              ![r] = [thread |-> t, to |-> b, retry |-> TRUE]]
           /\ UNCHANGED todo
  BY <1>1, <1>3 DEF TypeOK
<1> QED
  BY <1>2, <1>3 DEF EndCall

\* One more response counted keeps the type of the wait maps.
LEMMA UpdateCountType ==
  ASSUME NEW w \in [ReplicaId -> [OpInt -> Nat]], NEW r \in ReplicaId,
         NEW n \in OpInt
  PROVE  [w EXCEPT ![r][n] = @ + 1] \in [ReplicaId -> [OpInt -> Nat]]
<1>1. [w[r] EXCEPT ![n] = @ + 1] \in [OpInt -> Nat]
  OBVIOUS
<1> QED
  BY <1>1

\* The types hold at the start.
LEMMA InitType == Init => TypeInv
<1> SUFFICES ASSUME Init PROVE TypeInv
  OBVIOUS
<1>1. EmptyKv \in KvMap
  BY DEF EmptyKv, KvMap
<1>2. 0 \in ReplicaId /\ 0 \in 0 .. MaxOp
  BY SizeAssumption, BoundAssumption DEF ReplicaId
<1>3. [viewNum |-> 0, commitNum |-> 0] \in CommitInfo
  BY <1>2 DEF CommitInfo
<1>4. TypeOK
  BY <1>1, <1>2, <1>3, EmptyLogType
  DEF Init, TypeOK, Status, OtherReplicas, ProcState
<1>5. ThreadInv
  BY DEF Init, ThreadInv, Caller
<1> QED
  BY <1>4, <1>5 DEF TypeInv

\* Every step keeps the types.
LEMMA StepType == TypeInv /\ [Next]_vars => TypeInv'
<1> SUFFICES ASSUME TypeInv, [Next]_vars PROVE TypeInv'
  OBVIOUS
<1> USE DEF TypeInv, vars, replicaState, storage, clientVars, prepVars, rpcVars,
            faultVars
<1>1. ASSUME NEW r \in ReplicaId, NEW op \in ClientOp, ClientRequest(r, op)
      PROVE  TypeInv'
  BY <1>1 DEF TypeOK, ThreadInv, ClientRequest
<1>2. ASSUME NEW r \in ReplicaId, NEW how \in {"down", "aborted"}, Dies(r, how)
      PROVE  TypeInv'
  BY <1>2 DEF TypeOK, ThreadInv, Dies, ProcState
<1>3. ASSUME NEW r \in ReplicaId, Replicate(r) PROVE TypeInv'
  <2>1. opNum[r] + 1 \in OpInt /\ opNum[r] + 1 \in 0 .. MaxOp
    BY <1>3, BoundAssumption DEF Replicate, TypeOK, OpInt
  <2>2. creq[r] \in ClientOp
    BY <1>3 DEF Replicate, ThreadInv
  <2>3. append(opLog[r], creq[r], opNum[r] + 1) \in OpLog
    BY <2>1, <2>2, AppendType DEF TypeOK
  <2>4. [viewNum |-> viewNum[r], opNum |-> opNum[r] + 1, op |-> creq[r],
         err |-> "STATUS_NOT_NORMAL"] \in Reply
    BY <2>1, <2>2 DEF Reply, Error, TypeOK
  <2>5. opNum' \in [ReplicaId -> 0 .. MaxOp] /\ opNum'[r] \in OpInt
    BY <1>3, <2>1 DEF Replicate, TypeOK
  <2>6. CASE status[r] # "NORMAL"
    <3>1. TypeOK'
      BY <1>3, <2>4, <2>5, <2>6 DEF TypeOK, Replicate, ReplyToClient
    <3>2. ThreadInv'
      BY <1>3, <2>6 DEF TypeOK, ThreadInv, Replicate, ReplyToClient
    <3> QED BY <3>1, <3>2
  <2>7. CASE status[r] = "NORMAL"
    <3> DEFINE row == [todo[r] EXCEPT !["t1"] = peers[r] \ {r}]
               log == append(opLog[r], creq[r], opNum[r] + 1)
    <3>1. row \in [Caller -> SUBSET ReplicaId] /\ row["ppit"] = todo[r]["ppit"]
      BY DEF TypeOK, Caller
    <3>2. /\ todo' = [todo EXCEPT ![r] = row]
          /\ opLog' = [opLog EXCEPT ![r] = log]
          /\ cpc' = [cpc EXCEPT ![r] = "prepare"]
          /\ repMutex' = [repMutex EXCEPT ![r] = "t1"]
          /\ UNCHANGED <<creq, replies>>
      BY <1>3, <2>7 DEF Replicate
    <3>3. UNCHANGED <<priId, status, viewNum, commitNum, kvMap, peers, prepVars,
                      hbInfo, repClient, repListener, faultVars>>
      BY <1>3 DEF Replicate
    <3>4. log \in OpLog
      BY <2>3
    <3> HIDE DEF row, log
    <3>5. TypeOK'
      BY <2>5, <3>1, <3>2, <3>3, <3>4 DEF TypeOK
    <3>6. opNum' = [opNum EXCEPT ![r] = opNum[r] + 1]
      BY <1>3 DEF Replicate
    <3>7. ThreadInv'
      BY <2>1, <2>2, <3>1, <3>2, <3>3, <3>6 DEF TypeOK, ThreadInv
    <3> QED BY <3>5, <3>7
  <2> QED BY <2>6, <2>7
<1>4. ASSUME NEW r \in ReplicaId, NEW b \in ReplicaId, invokePrepare(r, b)
      PROVE  TypeInv'
  <2>1. prepInfo(r) \in PrepInfo
    BY <1>4 DEF invokePrepare, prepInfo, PrepInfo, TypeOK, ThreadInv
  <2>2. prepReqQ' \in [ReplicaId -> Seq(PrepInfo)]
    <3> HIDE DEF TypeInv
    <3>1. Append(prepReqQ[b], prepInfo(r)) \in Seq(PrepInfo)
      BY <2>1 DEF TypeOK, TypeInv
    <3> QED
      BY <1>4, <3>1 DEF invokePrepare, processPrepare, TypeOK, TypeInv
  <2>3. "t1" \in Caller /\ EndCall(r, "t1", b)
    BY <1>4 DEF invokePrepare, Caller
  <2>4. TypeOK'
    BY <1>4, <2>2, <2>3, EndCallType DEF TypeOK, invokePrepare
  <2>5. ThreadInv'
    BY <1>4, <2>3, EndCallType DEF ThreadInv, invokePrepare, Caller
  <2> QED BY <2>4, <2>5
<1>5. ASSUME NEW r \in ReplicaId, CountSelf(r) PROVE TypeInv'
  <2>1. waitMap' \in [ReplicaId -> [OpInt -> Nat]]
    BY <1>5, UpdateCountType DEF CountSelf, TypeOK, ThreadInv
  <2> QED
    BY <1>5, <2>1 DEF TypeOK, ThreadInv, CountSelf
<1>6. ASSUME NEW r \in ReplicaId, Notified(r) \/ SpuriousWakeup(r)
      PROVE  TypeInv'
  <2>1. /\ cpc[r] = "wait"
        /\ cpc' = [cpc EXCEPT ![r] = "reached"]
        /\ spurious' \in Nat
        /\ UNCHANGED <<replicaState, storage, repMutex, prepVars, creq, replies,
                       hbInfo, rpcVars, proc, lost, resent>>
    BY <1>6 DEF Notified, SpuriousWakeup, TypeOK
  <2>2. TypeOK'
    BY <2>1 DEF TypeOK
  <2>3. ThreadInv'
    BY <2>1 DEF TypeOK, ThreadInv
  <2> QED BY <2>2, <2>3
<1>7. ASSUME NEW r \in ReplicaId, TimedOut(r) PROVE TypeInv'
  <2>1. [viewNum |-> viewNum[r], opNum |-> opNum[r], op |-> creq[r],
         err |-> "QUORUM_NOT_REACHED"] \in Reply
    BY <1>7 DEF TimedOut, Reply, Error, TypeOK, ThreadInv
  <2> QED
    BY <1>7, <2>1 DEF TypeOK, ThreadInv, TimedOut, ReplyToClient
<1>8. ASSUME NEW r \in ReplicaId, StartCommit(r) PROVE TypeInv'
  <2>1. commit(opLog[r], opNum[r]) \in OpLog
    BY <1>8, CommitType DEF StartCommit, TypeOK, ThreadInv
  <2> QED
    BY <1>8, <2>1 DEF TypeOK, ThreadInv, StartCommit, Caller
<1>9. ASSUME NEW r \in ReplicaId, Finish(r) PROVE TypeInv'
  <2>1. [viewNum |-> viewNum[r], opNum |-> opNum[r], op |-> creq[r],
         err |-> "NONE"] \in Reply
    BY <1>9 DEF Finish, Reply, Error, TypeOK, ThreadInv
  <2>2. applyOp(kvMap[r], creq[r]) \in KvMap
    BY <1>9, ApplyType DEF Finish, TypeOK, ThreadInv
  <2> QED
    BY <1>9, <2>1, <2>2 DEF TypeOK, ThreadInv, Finish, ReplyToClient
<1>10. ASSUME NEW r \in ReplicaId, HeartBeat(r) PROVE TypeInv'
  <2>1. [viewNum |-> viewNum[r], commitNum |-> commitNum[r]] \in CommitInfo
    BY DEF CommitInfo, TypeOK
  <2> QED
    BY <1>10, <2>1 DEF TypeOK, ThreadInv, HeartBeat, Caller
<1>11. ASSUME NEW r \in ReplicaId, NEW t \in {"t1", "hbt"},
              NEW b \in ReplicaId, invokeCommit(r, t, b)
       PROVE  TypeInv'
  <2>1. t \in Caller
    BY DEF Caller
  <2>2. commitInfo(r, t) \in CommitInfo
    BY DEF commitInfo, CommitInfo, TypeOK
  <2>3. CASE EndCall(r, t, b) /\ UNCHANGED repListener
    <3>1. TypeOK'
      BY <1>11, <2>1, <2>3, EndCallType DEF TypeOK, invokeCommit
    <3>2. ThreadInv'
      BY <1>11, <2>1, <2>3, EndCallType DEF ThreadInv, invokeCommit, Caller
    <3> QED BY <3>1, <3>2
  <2>4. CASE
          /\ repListener' = [repListener EXCEPT ![b] =
               [from |-> r, thread |-> t, info |-> commitInfo(r, t)]]
          /\ repClient' = [repClient EXCEPT ![r] =
               [thread |-> t, to |-> b, retry |-> Retrying(r)]]
          /\ UNCHANGED <<todo, resent>>
    <3>1. [from |-> r, thread |-> t, info |-> commitInfo(r, t)] \in CommitMsg
      BY <2>1, <2>2 DEF CommitMsg
    <3>2. Retrying(r) \in BOOLEAN
      BY DEF Retrying, TypeOK, Call
    <3>3. [thread |-> t, to |-> b, retry |-> Retrying(r)] \in Call
      BY <2>1, <3>2 DEF Call
    <3> QED
      BY <1>11, <2>4, <3>1, <3>3 DEF TypeOK, ThreadInv, invokeCommit
  <2> QED BY <1>11, <2>3, <2>4 DEF invokeCommit
<1>12. ASSUME NEW b \in ReplicaId, processCommit(b) PROVE TypeInv'
  <2> DEFINE m == repListener[b]
             c == NextCommit(b)
  <2>1. m \in CommitMsg
    BY <1>12 DEF processCommit, TypeOK
  <2>2. m.from \in ReplicaId /\ m.thread \in Caller
    BY <2>1 DEF CommitMsg
  <2>3. CASE Aborts(b)
    BY <1>2, <2>3 DEF Aborts
  <2>4. ASSUME EndCommit(b, m)
        PROVE  /\ todo' \in [ReplicaId -> [Caller -> SUBSET ReplicaId]]
               /\ \A s \in ReplicaId : todo'[s]["ppit"] \subseteq todo[s]["ppit"]
               /\ repClient' \in [ReplicaId -> Call \cup {Nil}]
               /\ resent' \in Nat
               /\ repListener' \in [ReplicaId -> CommitMsg \cup {Nil}]
    <3>1. EndCall(m.from, m.thread, b)
      BY <2>4 DEF EndCommit
    <3>2. repListener' \in [ReplicaId -> CommitMsg \cup {Nil}]
      BY <2>4 DEF EndCommit, TypeOK
    <3> QED
      BY <2>2, <3>1, <3>2, EndCallType DEF Caller
  <2>5. CASE /\ EndCommit(b, m)
             /\ UNCHANGED <<replicaState, storage, repMutex, prepVars,
                            clientVars, hbInfo, proc, lost, spurious>>
    BY <2>4, <2>5 DEF TypeOK, ThreadInv
  <2>6. CASE /\ hasEntry(opLog[b], c)
             /\ commitNum' = [commitNum EXCEPT ![b] = c]
             /\ opLog' = [opLog EXCEPT ![b] = commit(@, c)]
             /\ kvMap' = [kvMap EXCEPT
                            ![b] = applyOp(@, opLog[b].entries[c].op)]
             /\ EndCommit(b, m)
             /\ UNCHANGED <<priId, status, viewNum, opNum, peers, repMutex,
                            prepVars, clientVars, hbInfo, proc, lost, spurious>>
    <3>0. opLog[b] \in OpLog /\ kvMap[b] \in KvMap
      BY DEF TypeOK
    <3>1. c \in OpInt /\ opLog[b].entries[c] \in LogEntry
      BY <2>6, <3>0, OpLogParts DEF hasEntry
    <3>2. commit(opLog[b], c) \in OpLog
      BY <3>0, <3>1, CommitType
    <3>3. applyOp(kvMap[b], opLog[b].entries[c].op) \in KvMap
      BY <3>0, <3>1, ApplyType DEF LogEntry
    <3>4. c \in 0 .. MaxOp
      BY <3>1, BoundAssumption DEF OpInt
    <3> HIDE DEF c
    <3> QED
      BY <2>4, <2>6, <3>2, <3>3, <3>4 DEF TypeOK, ThreadInv
  <2> QED
    BY <1>12, <2>3, <2>5, <2>6 DEF processCommit
<1>13. ASSUME NEW r \in ReplicaId, PopPrepInfo(r) PROVE TypeInv'
  <2>1. prepReqQ[r] \in Seq(PrepInfo) /\ prepReqQ[r] # <<>>
    BY <1>13 DEF PopPrepInfo, TypeOK
  <2>2. Head(prepReqQ[r]) \in PrepInfo /\ Tail(prepReqQ[r]) \in Seq(PrepInfo)
    BY <2>1
  <2>3. prepReqQ' \in [ReplicaId -> Seq(PrepInfo)]
    <3> DEFINE tl == Tail(prepReqQ[r])
    <3>1. prepReqQ' = [prepReqQ EXCEPT ![r] = tl] /\ tl \in Seq(PrepInfo)
      BY <1>13, <2>2 DEF PopPrepInfo
    <3> HIDE DEF tl
    <3> QED
      BY <3>1 DEF TypeOK
  <2>4. \/ /\ ppc' = [ppc EXCEPT ![r] = "checked"]
           /\ \E info \in PrepInfo : ppInfo' = [ppInfo EXCEPT ![r] = info]
        \/ UNCHANGED <<ppc, ppInfo>>
    BY <1>13, <2>2 DEF PopPrepInfo
  <2>5. UNCHANGED <<replicaState, storage, repMutex, waitMap, clientVars,
                    hbInfo, rpcVars, faultVars>>
    BY <1>13 DEF PopPrepInfo
  <2>6. /\ ppc' \in [ReplicaId -> {"idle", "checked", "logged"}]
        /\ ppInfo' \in [ReplicaId -> PrepInfo \cup {Nil}]
        /\ \A s \in ReplicaId : /\ ppc'[s] # "idle" => ppInfo'[s] \in PrepInfo
                                /\ ppc[s] = "logged" => ppc'[s] = "logged"
    <3>1. /\ ppc \in [ReplicaId -> {"idle", "checked", "logged"}]
          /\ ppInfo \in [ReplicaId -> PrepInfo \cup {Nil}]
          /\ \A s \in ReplicaId : ppc[s] # "idle" => ppInfo[s] \in PrepInfo
          /\ ppc[r] = "idle"
      BY <1>13 DEF PopPrepInfo, TypeOK, ThreadInv
    <3> HIDE DEF TypeInv
    <3> QED BY <2>4, <3>1
  <2>7. TypeOK'
    BY <2>3, <2>5, <2>6 DEF TypeOK
  <2>8. ThreadInv'
    BY <2>5, <2>6 DEF ThreadInv
  <2> QED BY <2>7, <2>8
<1>14. ASSUME NEW r \in ReplicaId, LogPrepInfo(r) PROVE TypeInv'
  <2>1. CASE Aborts(r)
    BY <1>2, <2>1 DEF Aborts
  <2>2. CASE ~Aborts(r)
    <3>1. ppInfo[r] \in PrepInfo
      BY <1>14 DEF LogPrepInfo, ThreadInv
    <3>2. ppInfo[r].opNum \in OpInt /\ ppInfo[r].opNum \in 0 .. MaxOp
      BY <3>1, BoundAssumption DEF PrepInfo, OpInt
    <3>3. append(opLog[r], ppInfo[r].op, ppInfo[r].opNum) \in OpLog
      BY <3>1, AppendType DEF PrepInfo, TypeOK
    <3> DEFINE row == [todo[r] EXCEPT !["ppit"] = {priId[r]}]
               log == append(opLog[r], ppInfo[r].op, ppInfo[r].opNum)
    <3>4. row \in [Caller -> SUBSET ReplicaId]
      BY DEF TypeOK, Caller
    <3>5. /\ todo' = [todo EXCEPT ![r] = row]
          /\ opLog' = [opLog EXCEPT ![r] = log]
          /\ log \in OpLog
          /\ ppc' = [ppc EXCEPT ![r] = "logged"]
          /\ opNum' = [opNum EXCEPT ![r] = ppInfo[r].opNum]
          /\ peers' = [peers EXCEPT ![r] = peers[r] \cup {priId[r]}]
          /\ repMutex' = [repMutex EXCEPT ![r] = "ppit"]
          /\ UNCHANGED <<priId, status, viewNum, commitNum, kvMap, prepReqQ,
                         waitMap, clientVars, ppInfo, hbInfo, repClient,
                         repListener, faultVars>>
      BY <1>14, <2>2, <3>3 DEF LogPrepInfo
    <3> HIDE DEF row, log
    <3>6. TypeOK'
      BY <3>2, <3>4, <3>5 DEF TypeOK
    <3>7. ThreadInv'
      BY <3>1, <3>2, <3>4, <3>5 DEF TypeOK, ThreadInv
    <3> QED BY <3>6, <3>7
  <2> QED BY <2>1, <2>2
<1>15. ASSUME NEW r \in ReplicaId, NEW b \in ReplicaId, invokePrepareOk(r, b)
       PROVE  TypeInv'
  <2>1. "ppit" \in Caller /\ EndCall(r, "ppit", b)
    BY <1>15 DEF invokePrepareOk, Caller
  <2>2. ppInfo[r].opNum \in OpInt
    BY <1>15 DEF invokePrepareOk, Delivered, MayCall, ThreadInv, PrepInfo
  <2>3. waitMap' \in [ReplicaId -> [OpInt -> Nat]]
    BY <1>15, <2>2, UpdateCountType
    DEF invokePrepareOk, processPrepareOk, CountResponse, TypeOK
  <2>4. TypeOK'
    BY <1>15, <2>1, <2>3, EndCallType DEF TypeOK, invokePrepareOk
  <2>5. ThreadInv'
    BY <1>15, <2>1, EndCallType DEF ThreadInv, invokePrepareOk
  <2> QED BY <2>4, <2>5
<1>16. ASSUME NEW r \in ReplicaId, EndPrepInfo(r) PROVE TypeInv'
  BY <1>16 DEF TypeOK, ThreadInv, EndPrepInfo
<1>17. ASSUME NEW r \in ReplicaId, NEW t \in Caller, NEW b \in ReplicaId,
              CallFails(r, t, b)
       PROVE  TypeInv'
  <2> DEFINE row == [todo[r] EXCEPT ![t] = @ \ {b}]
  <2>1. row \in [Caller -> SUBSET ReplicaId]
    <3>1. todo[r][t] \ {b} \in SUBSET ReplicaId
      BY DEF TypeOK
    <3> QED BY <3>1 DEF TypeOK
  <2>2. row["ppit"] \subseteq todo[r]["ppit"]
    BY DEF TypeOK, Caller
  <2>3. todo' = [todo EXCEPT ![r] = row]
    BY <1>17 DEF CallFails
  <2> HIDE DEF row
  <2>4. lost' \in Nat
    BY <1>17 DEF CallFails, TypeOK
  <2> QED
    BY <1>17, <2>1, <2>2, <2>3, <2>4 DEF TypeOK, ThreadInv, CallFails
<1>18. CASE UNCHANGED vars
  BY <1>18 DEF TypeOK, ThreadInv
<1> QED
  BY <1>1, <1>2, <1>3, <1>4, <1>5, <1>6, <1>7, <1>8, <1>9, <1>10, <1>11,
     <1>12, <1>13, <1>14, <1>15, <1>16, <1>17, <1>18
  DEF Next, Aborts, Crash

\* Every variable stays in its type, in every behaviour: in particular no
\* operation number, queued prepare or commit number leaves its range, and no
\* handler reads a request or a prepare that is not there.
THEOREM TypeCorrect == Spec => []TypeOK
<1>1. Spec => []TypeInv
  BY InitType, StepType, PTL DEF Spec
<1>2. TypeInv => TypeOK
  BY DEF TypeInv
<1> QED
  BY <1>1, <1>2, PTL

-----------------------------------------------------------------------------
(***************************************************************************)
(* The safety of normal-case replication: logs match, committed entries    *)
(* are final, and no backup commits ahead of the primary.                  *)
(*                                                                         *)
(* None of the three properties is inductive.  The invariant adds that the *)
(* logs have no gap, that every prepare in flight, queued or being logged  *)
(* is an entry of the primary's log, and that every commit number in       *)
(* flight was the primary's commit number at some time.                    *)
(***************************************************************************)
\* Without a view change everybody follows replica 0, which is NORMAL; a backup
\* may be recovering.
ViewInv ==
  \A r \in ReplicaId :
    /\ priId[r] = 0 /\ viewNum[r] = 0
    /\ status[r] = "NORMAL" \/ (r # 0 /\ status[r] = "RECOVERING")

\* A log has no gap, and it is the primary's up to the replica's own opNum.
LogAt(r) ==
  /\ DOMAIN opLog[r].entries = 1 .. opNum[r]
  /\ \A n \in DOMAIN opLog[r].entries : Logs(0, n, opLog[r].entries[n].op)

\* t1 replicates only at replica 0, and what it replicates is logged there.
ClientAt(r) ==
  /\ cpc[r] # "idle" => r = 0
  /\ cpc[r] \in {"prepare", "wait", "reached", "commit"}
       => Logs(0, opNum[r], creq[r])

\* Prepares that are queued, or that ppit of a backup is about to log, are in
\* the primary's log.
PrepAt(r) ==
  /\ \A i \in 1 .. Len(prepReqQ[r]) :
       Logs(0, prepReqQ[r][i].opNum, prepReqQ[r][i].op)
  /\ ppc[r] = "checked" => r # 0 /\ Logs(0, ppInfo[r].opNum, ppInfo[r].op)

LogInv == \A r \in ReplicaId : LogAt(r) /\ ClientAt(r) /\ PrepAt(r)

\* Every commit number around is at most the primary's.
CommitInv ==
  \A r \in ReplicaId :
    /\ commitNum[r] <= commitNum[0]
    /\ commitNum[r] <= opNum[r]
    /\ hbInfo[r].commitNum <= commitNum[0]
    /\ repListener[r] # Nil => repListener[r].info.commitNum <= commitNum[0]
    /\ cpc[r] = "commit" => opNum[r] = commitNum[r]

SafetyInv == TypeInv /\ ViewInv /\ LogInv /\ CommitInv

\* What a step does to the logs: entries stay, their operations too, and a
\* committed entry does not change at all.
Keeps ==
  \A r \in ReplicaId : \A n \in DOMAIN opLog[r].entries :
    /\ hasEntry(opLog'[r], n)
    /\ opLog'[r].entries[n].op = opLog[r].entries[n].op
    /\ opLog[r].entries[n].committed =>
         opLog'[r].entries[n] = opLog[r].entries[n]

-----------------------------------------------------------------------------
\* Replica 0, the first primary, exists.
LEMMA ZeroIsReplica == 0 \in ReplicaId
BY SizeAssumption DEF ReplicaId

\* The safety invariant holds at the start.
LEMMA InitSafety == Init => SafetyInv
<1> SUFFICES ASSUME Init PROVE SafetyInv
  OBVIOUS
<1>1. TypeInv
  BY InitType
<1>2. ViewInv
  BY DEF Init, ViewInv
<1>3. LogInv
  BY EmptyLogType DEF Init, LogInv, LogAt, ClientAt, PrepAt
<1>4. CommitInv
  BY ZeroIsReplica DEF Init, CommitInv
<1> QED
  BY <1>1, <1>2, <1>3, <1>4 DEF SafetyInv

\* replicate(), processPrepInfo() and processCommit() only add the next entry
\* or mark one as committed.
LEMMA StepKeeps == SafetyInv /\ [Next]_vars => Keeps
<1> SUFFICES ASSUME SafetyInv, [Next]_vars PROVE Keeps
  OBVIOUS
<1> USE DEF SafetyInv
<1>1. CASE UNCHANGED opLog
  BY <1>1 DEF Keeps, hasEntry
<1>2. ASSUME NEW r \in ReplicaId, NEW op \in ClientOp,
             opNum[r] + 1 \in OpInt,
             opLog' = [opLog EXCEPT ![r] = append(opLog[r], op, opNum[r] + 1)]
      PROVE  Keeps
  <2>1. /\ opLog \in [ReplicaId -> OpLog]
        /\ opNum[r] \in 0 .. MaxOp
        /\ DOMAIN opLog[r].entries = 1 .. opNum[r]
    BY DEF TypeInv, TypeOK, LogInv, LogAt
  <2> DEFINE log == append(opLog[r], op, opNum[r] + 1)
  <2>2. /\ DOMAIN log.entries = DOMAIN opLog[r].entries \cup {opNum[r] + 1}
        /\ \A m \in DOMAIN opLog[r].entries :
             m # opNum[r] + 1 => log.entries[m] = opLog[r].entries[m]
    <3>1. opLog[r] \in OpLog /\ opNum[r] + 1 \in OpInt
      BY <1>2, <2>1
    <3> QED
      BY <3>1, AppendType
  <2>3. opNum[r] + 1 \notin DOMAIN opLog[r].entries
    BY <2>1
  <2>4. opLog' = [opLog EXCEPT ![r] = log]
    BY <1>2
  <2> HIDE DEF log
  <2> QED
    BY <2>1, <2>2, <2>3, <2>4 DEF Keeps, hasEntry
<1>3. ASSUME NEW r \in ReplicaId, NEW n \in OpInt,
             opLog' = [opLog EXCEPT ![r] = commit(opLog[r], n)]
      PROVE  Keeps
  <2>1. opLog \in [ReplicaId -> OpLog]
    BY DEF TypeInv, TypeOK
  <2> DEFINE log == commit(opLog[r], n)
  <2>2. /\ DOMAIN log.entries = DOMAIN opLog[r].entries
        /\ \A m \in DOMAIN opLog[r].entries :
             /\ log.entries[m].op = opLog[r].entries[m].op
             /\ opLog[r].entries[m].committed =>
                  log.entries[m] = opLog[r].entries[m]
    BY <2>1, CommitType
  <2>3. opLog' = [opLog EXCEPT ![r] = log]
    BY <1>3
  <2> HIDE DEF log
  <2> QED
    BY <2>1, <2>2, <2>3 DEF Keeps, hasEntry
<1>4. ASSUME NEW r \in ReplicaId, Replicate(r) PROVE Keeps
  <2>1. opNum[r] + 1 \in OpInt
    BY <1>4, BoundAssumption DEF Replicate, TypeInv, TypeOK, OpInt
  <2>2. creq[r] \in ClientOp
    BY <1>4 DEF Replicate, TypeInv, ThreadInv
  <2> QED
    BY <1>1, <1>2, <1>4, <2>1, <2>2 DEF Replicate
<1>5. ASSUME NEW r \in ReplicaId, StartCommit(r) PROVE Keeps
  <2>1. opNum[r] \in OpInt
    BY <1>5 DEF StartCommit, TypeInv, ThreadInv
  <2> QED
    BY <1>3, <1>5, <2>1 DEF StartCommit
<1>6. ASSUME NEW r \in ReplicaId, LogPrepInfo(r) PROVE Keeps
  <2>1. CASE Aborts(r)
    BY <1>1, <2>1 DEF Aborts, Dies, storage
  <2>2. CASE ~Aborts(r)
    <3>1. ppInfo[r] \in PrepInfo
      BY <1>6 DEF LogPrepInfo, TypeInv, ThreadInv
    <3>2. /\ opNum[r] + 1 \in OpInt
          /\ ppInfo[r].op \in ClientOp
          /\ ppInfo[r].opNum = opNum[r] + 1
      BY <1>6, <2>2, <3>1 DEF LogPrepInfo, PrepInfo
    <3> QED
      BY <1>2, <1>6, <2>2, <3>2 DEF LogPrepInfo
  <2> QED BY <2>1, <2>2
<1>7. ASSUME NEW b \in ReplicaId, processCommit(b) PROVE Keeps
  <2>1. CASE UNCHANGED opLog
    BY <1>1, <2>1
  <2>2. CASE /\ hasEntry(opLog[b], NextCommit(b))
             /\ opLog' = [opLog EXCEPT ![b] = commit(@, NextCommit(b))]
    <3>1. NextCommit(b) \in OpInt
      BY <2>2, OpLogParts DEF hasEntry, TypeInv, TypeOK
    <3> QED
      BY <1>3, <2>2, <3>1
  <2> QED
    BY <1>7, <2>1, <2>2 DEF processCommit, Aborts, Dies, storage
<1>8. ASSUME NEW r \in ReplicaId,
             \/ \E op \in ClientOp : ClientRequest(r, op)
             \/ \E b \in ReplicaId : invokePrepare(r, b)
             \/ CountSelf(r) \/ Notified(r) \/ SpuriousWakeup(r) \/ TimedOut(r)
             \/ Finish(r) \/ HeartBeat(r)
             \/ \E t \in {"t1", "hbt"}, b \in ReplicaId : invokeCommit(r, t, b)
             \/ PopPrepInfo(r)
             \/ \E b \in ReplicaId : invokePrepareOk(r, b)
             \/ EndPrepInfo(r)
             \/ \E t \in Caller, b \in ReplicaId : CallFails(r, t, b)
             \/ Crash(r)
      PROVE  UNCHANGED opLog
  BY <1>8 DEF ClientRequest, invokePrepare, CountSelf,
              Notified, SpuriousWakeup, TimedOut, Finish, HeartBeat,
              invokeCommit, PopPrepInfo, invokePrepareOk, EndPrepInfo,
              CallFails, Crash, Aborts, Dies, storage
<1>9. CASE UNCHANGED vars
  BY <1>1, <1>9 DEF vars, storage
<1> QED
  BY <1>1, <1>4, <1>5, <1>6, <1>7, <1>8, <1>9 DEF Next

\* No step of normal-case replication changes role, status or view.
LEMMA NextView == [Next]_vars => UNCHANGED <<priId, status, viewNum>>
<1> SUFFICES ASSUME [Next]_vars PROVE UNCHANGED <<priId, status, viewNum>>
  OBVIOUS
<1>1. ASSUME NEW r \in ReplicaId,
             \/ \E op \in ClientOp : ClientRequest(r, op)
             \/ Replicate(r)
             \/ \E b \in ReplicaId : invokePrepare(r, b)
             \/ CountSelf(r) \/ Notified(r) \/ SpuriousWakeup(r) \/ TimedOut(r)
             \/ StartCommit(r) \/ Finish(r) \/ HeartBeat(r)
      PROVE  UNCHANGED <<priId, status, viewNum>>
  BY <1>1 DEF ClientRequest, Replicate, invokePrepare,
              CountSelf, Notified, SpuriousWakeup, TimedOut, StartCommit,
              Finish, HeartBeat, Aborts, Dies, replicaState
<1>2. ASSUME NEW r \in ReplicaId,
             \/ \E t \in {"t1", "hbt"}, b \in ReplicaId : invokeCommit(r, t, b)
             \/ processCommit(r) \/ PopPrepInfo(r) \/ LogPrepInfo(r)
             \/ \E b \in ReplicaId : invokePrepareOk(r, b)
             \/ EndPrepInfo(r)
             \/ \E t \in Caller, b \in ReplicaId : CallFails(r, t, b)
             \/ Crash(r)
      PROVE  UNCHANGED <<priId, status, viewNum>>
  BY <1>2 DEF invokeCommit, processCommit, PopPrepInfo, LogPrepInfo,
              invokePrepareOk, EndPrepInfo, CallFails, Crash, Aborts, Dies,
              replicaState
<1>3. CASE UNCHANGED vars
  BY <1>3 DEF vars, replicaState
<1> QED
  BY <1>1, <1>2, <1>3 DEF Next

\* ... so that everybody goes on following replica 0.
LEMMA StepView == ViewInv /\ [Next]_vars => ViewInv'
BY NextView DEF ViewInv

\* A step takes what is in the primary's log along.
LEMMA LogsStable ==
  ASSUME Keeps
  PROVE  \A n, op : Logs(0, n, op) => Logs(0, n, op)'
BY ZeroIsReplica DEF Keeps, Logs, hasEntry

\* LogAt is kept.
LEMMA StepLogAt == SafetyInv /\ [Next]_vars => \A s \in ReplicaId : LogAt(s)'
<1> SUFFICES ASSUME SafetyInv, [Next]_vars, NEW s \in ReplicaId PROVE LogAt(s)'
  OBVIOUS
<1>t. TypeOK /\ ThreadInv /\ ViewInv /\ LogInv
  BY DEF SafetyInv, TypeInv
<1>k. Keeps /\ \A n, op : Logs(0, n, op) => Logs(0, n, op)'
  BY StepKeeps, LogsStable
<1>0. LogAt(s) /\ opLog \in [ReplicaId -> OpLog] /\ opNum \in [ReplicaId -> 0 .. MaxOp]
  BY <1>t DEF LogInv, TypeOK
<1>1. CASE UNCHANGED <<opLog, opNum>>
  BY <1>0, <1>1 DEF LogAt, Logs, hasEntry
<1>2. ASSUME NEW r \in ReplicaId, NEW op \in ClientOp,
             opNum[r] + 1 \in OpInt,
             opNum' = [opNum EXCEPT ![r] = opNum[r] + 1],
             opLog' = [opLog EXCEPT ![r] = append(opLog[r], op, opNum[r] + 1)],
             r # 0 => Logs(0, opNum[r] + 1, op)
      PROVE  LogAt(s)'
  <2>1. CASE s # r
    <3>1. opLog'[s] = opLog[s] /\ opNum'[s] = opNum[s]
      BY <1>0, <1>2, <2>1
    <3> QED
      BY <1>0, <1>k, <3>1 DEF LogAt
  <2>2. CASE s = r
    <3> DEFINE n == opNum[r] + 1
               log == append(opLog[r], op, n)
    <3>1. /\ DOMAIN log.entries = DOMAIN opLog[r].entries \cup {n}
          /\ log.entries[n].op = op
          /\ \A m \in DOMAIN opLog[r].entries :
               m # n => log.entries[m] = opLog[r].entries[m]
      <4>1. opLog[r] \in OpLog /\ n \in OpInt
        BY <1>0, <1>2
      <4> QED
        BY <4>1, AppendType
    <3>2. opLog'[r] = log /\ opNum'[r] = n /\ opNum[r] \in Nat
      BY <1>0, <1>2
    <3>3. DOMAIN opLog[r].entries = 1 .. opNum[r]
      BY <1>0, <2>2 DEF LogAt
    <3>4. 1 .. n = 1 .. opNum[r] \cup {n}
      BY <3>2
    <3>5. n \in DOMAIN opLog'[r].entries /\ opLog'[r].entries[n].op = op
      BY <3>1, <3>2
    <3>6. hasEntry(opLog'[0], n) /\ opLog'[0].entries[n].op = op
      <4>1. CASE r = 0
        BY <3>5, <4>1 DEF hasEntry
      <4>2. CASE r # 0
        BY <1>2, <1>k, <4>2 DEF Logs
      <4> QED BY <4>1, <4>2
    <3>7. \A m \in DOMAIN opLog[r].entries :
            /\ hasEntry(opLog'[0], m)
            /\ opLog'[0].entries[m].op = opLog'[r].entries[m].op
      BY <1>0, <1>k, <2>2, ZeroIsReplica DEF LogAt, Keeps, Logs, hasEntry
    <3> HIDE DEF log, n
    <3>8. DOMAIN opLog'[s].entries = 1 .. opNum'[s]
      BY <2>2, <3>1, <3>2, <3>3, <3>4
    <3>9. \A m \in DOMAIN opLog'[s].entries :
            /\ hasEntry(opLog'[0], m)
            /\ opLog'[0].entries[m].op = opLog'[s].entries[m].op
      BY <2>2, <3>1, <3>2, <3>5, <3>6, <3>7
    <3> QED
      BY <3>8, <3>9 DEF LogAt, Logs
  <2> QED BY <2>1, <2>2
<1>3. ASSUME NEW r \in ReplicaId, NEW n \in OpInt, UNCHANGED opNum,
             opLog' = [opLog EXCEPT ![r] = commit(opLog[r], n)]
      PROVE  LogAt(s)'
  <2>1. DOMAIN opLog'[s].entries = DOMAIN opLog[s].entries
    <3>1. opLog[r] \in OpLog
      BY <1>0
    <3>2. DOMAIN commit(opLog[r], n).entries = DOMAIN opLog[r].entries
      BY <3>1, CommitType
    <3> QED
      BY <1>0, <1>3, <3>2
  <2> QED
    BY <1>0, <1>3, <1>k, <2>1, ZeroIsReplica DEF LogAt, Keeps, Logs, hasEntry
<1>4. ASSUME NEW r \in ReplicaId, Replicate(r) PROVE LogAt(s)'
  <2>1. opNum[r] + 1 \in OpInt
    BY <1>0, <1>4, BoundAssumption DEF Replicate, OpInt
  <2>2. creq[r] \in ClientOp /\ r = 0 /\ status[r] = "NORMAL"
    BY <1>4, <1>t DEF Replicate, ThreadInv, ViewInv, isPrimary
  <2> QED
    BY <1>2, <1>4, <2>1, <2>2 DEF Replicate
<1>5. ASSUME NEW r \in ReplicaId, StartCommit(r) PROVE LogAt(s)'
  <2>1. opNum[r] \in OpInt
    BY <1>5, <1>t DEF StartCommit, ThreadInv
  <2> QED
    BY <1>3, <1>5, <2>1 DEF StartCommit
<1>6. ASSUME NEW r \in ReplicaId, LogPrepInfo(r) PROVE LogAt(s)'
  <2>1. CASE Aborts(r)
    BY <1>1, <2>1 DEF Aborts, Dies, storage, replicaState
  <2>2. CASE ~Aborts(r)
    <3>1. ppInfo[r] \in PrepInfo
      BY <1>6, <1>t DEF LogPrepInfo, ThreadInv
    <3>2. /\ opNum[r] + 1 \in OpInt
          /\ ppInfo[r].op \in ClientOp
          /\ ppInfo[r].opNum = opNum[r] + 1
      BY <1>6, <2>2, <3>1 DEF LogPrepInfo, PrepInfo
    <3>3. Logs(0, opNum[r] + 1, ppInfo[r].op)
      BY <1>6, <1>t, <3>2 DEF LogPrepInfo, LogInv, PrepAt
    <3> QED
      BY <1>2, <1>6, <2>2, <3>2, <3>3 DEF LogPrepInfo
  <2> QED BY <2>1, <2>2
<1>7. ASSUME NEW b \in ReplicaId, processCommit(b) PROVE LogAt(s)'
  <2>1. CASE /\ hasEntry(opLog[b], NextCommit(b))
             /\ UNCHANGED opNum
             /\ opLog' = [opLog EXCEPT ![b] = commit(@, NextCommit(b))]
    <3>1. NextCommit(b) \in OpInt
      BY <1>0, <2>1, OpLogParts DEF hasEntry
    <3> QED
      BY <1>3, <2>1, <3>1
  <2> QED
    BY <1>1, <1>7, <2>1
    DEF processCommit, Aborts, Dies, storage, replicaState
<1>8. ASSUME NEW r \in ReplicaId,
             \/ \E op \in ClientOp : ClientRequest(r, op)
             \/ \E b \in ReplicaId : invokePrepare(r, b)
             \/ CountSelf(r) \/ Notified(r) \/ SpuriousWakeup(r) \/ TimedOut(r)
             \/ Finish(r) \/ HeartBeat(r)
             \/ \E t \in {"t1", "hbt"}, b \in ReplicaId : invokeCommit(r, t, b)
             \/ PopPrepInfo(r)
             \/ \E b \in ReplicaId : invokePrepareOk(r, b)
             \/ EndPrepInfo(r)
             \/ \E t \in Caller, b \in ReplicaId : CallFails(r, t, b)
             \/ Crash(r)
      PROVE  UNCHANGED <<opLog, opNum>>
  BY <1>8 DEF ClientRequest, invokePrepare, CountSelf,
              Notified, SpuriousWakeup, TimedOut, Finish, HeartBeat,
              invokeCommit, PopPrepInfo, invokePrepareOk, EndPrepInfo,
              CallFails, Crash, Aborts, Dies, storage, replicaState
<1>9. CASE UNCHANGED vars
  BY <1>1, <1>9 DEF vars, storage, replicaState
<1> QED
  BY <1>1, <1>4, <1>5, <1>6, <1>7, <1>8, <1>9 DEF Next

\* ClientAt is kept.
LEMMA StepClientAt == SafetyInv /\ [Next]_vars => \A s \in ReplicaId : ClientAt(s)'
<1> SUFFICES ASSUME SafetyInv, [Next]_vars, NEW s \in ReplicaId
             PROVE  ClientAt(s)'
  OBVIOUS
<1>t. TypeOK /\ ThreadInv /\ ViewInv /\ LogInv
  BY DEF SafetyInv, TypeInv
<1>k. \A n, op : Logs(0, n, op) => Logs(0, n, op)'
  BY StepKeeps, LogsStable
<1>0. ClientAt(s) /\ cpc[s] \in {"idle", "enter", "prepare", "wait", "reached",
                                "commit"}
  BY <1>t DEF LogInv, TypeOK
<1>f. /\ cpc \in [ReplicaId -> {"idle", "enter", "prepare", "wait", "reached",
                               "commit"}]
      /\ creq \in [ReplicaId -> ClientOp \cup {Nil}]
      /\ opNum \in [ReplicaId -> 0 .. MaxOp]
  BY <1>t DEF TypeOK
\* Another replica's step, or one of another thread.
<1>1. CASE cpc'[s] = cpc[s] /\ creq'[s] = creq[s] /\ opNum'[s] = opNum[s]
  <2>1. \A n, op : n = opNum[s] /\ op = creq[s] /\ Logs(0, n, op)
                     => Logs(0, n, op)'
    BY <1>k
  <2> QED
    BY <1>0, <1>1, <2>1 DEF ClientAt, Logs
\* t1 gets ready, has replied, or moves on with the same operation.
<1>2. CASE cpc'[s] = "idle" \/ (cpc'[s] = "enter" /\ s = 0)
  BY <1>2 DEF ClientAt
<1>3. CASE /\ cpc[s] \in {"prepare", "wait", "reached", "commit"}
           /\ creq'[s] = creq[s] /\ opNum'[s] = opNum[s]
  <2>1. \A n, op : n = opNum[s] /\ op = creq[s] /\ Logs(0, n, op)
                     => Logs(0, n, op)'
    BY <1>k
  <2> QED
    BY <1>0, <1>3, <2>1 DEF ClientAt, Logs
<1>4. ASSUME NEW r \in ReplicaId, NEW op \in ClientOp, ClientRequest(r, op)
      PROVE  ClientAt(s)'
  <2>1. r = 0
    BY <1>4, <1>t DEF ClientRequest, ViewInv, isPrimary
  <2> QED
    BY <1>1, <1>2, <1>4, <1>f, <2>1 DEF ClientRequest, replicaState
<1>5. ASSUME NEW r \in ReplicaId, Replicate(r) PROVE ClientAt(s)'
  <2>1. r = 0 /\ status[r] = "NORMAL"
    BY <1>5, <1>t DEF Replicate, ViewInv, isPrimary
  <2>2. CASE s # r
    BY <1>1, <1>5, <1>f, <2>1, <2>2 DEF Replicate
  <2>3. CASE s = r
    <3>1. opNum[r] + 1 \in OpInt /\ creq[r] \in ClientOp /\ opLog[r] \in OpLog
      BY <1>5, <1>t, BoundAssumption DEF Replicate, ThreadInv, TypeOK, OpInt
    <3> DEFINE log == append(opLog[r], creq[r], opNum[r] + 1)
    <3>2. /\ opNum[r] + 1 \in DOMAIN log.entries
          /\ log.entries[opNum[r] + 1].op = creq[r]
      BY <3>1, AppendType
    <3>3. /\ opLog'[0] = log
          /\ opNum'[s] = opNum[r] + 1
          /\ creq'[s] = creq[r]
      BY <1>5, <1>t, <2>1, <2>3 DEF Replicate, TypeOK
    <3> HIDE DEF log
    <3> QED
      BY <2>1, <2>3, <3>2, <3>3 DEF ClientAt, Logs, hasEntry
  <2> QED BY <2>2, <2>3
<1>6. ASSUME NEW r \in ReplicaId,
             \/ CountSelf(r) \/ Notified(r) \/ SpuriousWakeup(r)
             \/ TimedOut(r) \/ StartCommit(r) \/ Finish(r)
      PROVE  ClientAt(s)'
  <2>1. CASE s # r
    BY <1>1, <1>6, <1>f, <2>1
    DEF CountSelf, Notified, SpuriousWakeup, TimedOut, StartCommit, Finish,
        ReplyToClient, replicaState
  <2>2. CASE s = r
    <3>1. /\ cpc[s] \in {"prepare", "wait", "reached", "commit"}
          /\ opNum'[s] = opNum[s]
          /\ creq'[s] = creq[s] \/ cpc'[s] = "idle"
      BY <1>6, <1>f, <2>2
      DEF CountSelf, Notified, SpuriousWakeup, TimedOut, StartCommit, Finish,
          ReplyToClient, replicaState
    <3> QED
      BY <1>2, <1>3, <3>1
  <2> QED BY <2>1, <2>2
<1>7. ASSUME NEW r \in ReplicaId, LogPrepInfo(r) PROVE ClientAt(s)'
  <2>1. r # 0
    BY <1>7, <1>t DEF LogPrepInfo, LogInv, PrepAt
  <2>2. CASE s # r
    BY <1>1, <1>7, <1>f, <2>2
    DEF LogPrepInfo, Aborts, Dies, clientVars, replicaState
  <2>3. CASE s = r
    <3>1. cpc[s] = "idle"
      BY <1>0, <2>1, <2>3 DEF ClientAt
    <3> QED
      BY <1>2, <1>7, <3>1 DEF LogPrepInfo, Aborts, Dies, clientVars
  <2> QED BY <2>2, <2>3
<1>8. ASSUME NEW r \in ReplicaId,
             \/ \E b \in ReplicaId : invokePrepare(r, b)
             \/ HeartBeat(r)
             \/ \E t \in {"t1", "hbt"}, b \in ReplicaId : invokeCommit(r, t, b)
             \/ processCommit(r)
             \/ PopPrepInfo(r)
             \/ \E b \in ReplicaId : invokePrepareOk(r, b)
             \/ EndPrepInfo(r)
             \/ \E t \in Caller, b \in ReplicaId : CallFails(r, t, b)
             \/ Crash(r)
      PROVE  UNCHANGED <<cpc, creq, opNum>>
  BY <1>8 DEF invokePrepare, HeartBeat, invokeCommit,
              processCommit, PopPrepInfo, invokePrepareOk, EndPrepInfo,
              CallFails, Crash, Aborts, Dies, clientVars, replicaState
<1>9. CASE UNCHANGED vars
  BY <1>1, <1>9 DEF vars, clientVars, replicaState
<1> QED
  BY <1>1, <1>4, <1>5, <1>6, <1>7, <1>8, <1>9 DEF Next

\* PrepAt is kept.
LEMMA StepPrepAt == SafetyInv /\ [Next]_vars => \A s \in ReplicaId : PrepAt(s)'
<1> SUFFICES ASSUME SafetyInv, [Next]_vars, NEW s \in ReplicaId
             PROVE  PrepAt(s)'
  OBVIOUS
<1>t. TypeOK /\ ThreadInv /\ ViewInv /\ LogInv
  BY DEF SafetyInv, TypeInv
<1>k. \A n, op : Logs(0, n, op) => Logs(0, n, op)'
  BY StepKeeps, LogsStable
<1>0. /\ PrepAt(s)
      /\ prepReqQ \in [ReplicaId -> Seq(PrepInfo)]
      /\ ppc \in [ReplicaId -> {"idle", "checked", "logged"}]
      /\ ppInfo \in [ReplicaId -> PrepInfo \cup {Nil}]
  BY <1>t DEF LogInv, TypeOK
\* The step takes over what the primary logged for the queue and for ppit.
<1>q. ASSUME prepReqQ'[s] = prepReqQ[s]
      PROVE  \A i \in 1 .. Len(prepReqQ'[s]) :
               /\ hasEntry(opLog'[0], prepReqQ'[s][i].opNum)
               /\ opLog'[0].entries[prepReqQ'[s][i].opNum].op = prepReqQ'[s][i].op
  <2>1. \A i \in 1 .. Len(prepReqQ[s]) :
          Logs(0, prepReqQ[s][i].opNum, prepReqQ[s][i].op)
    BY <1>0 DEF PrepAt
  <2> QED
    BY <1>k, <1>q, <2>1 DEF Logs
<1>p. ASSUME ppc'[s] = "checked" => ppc[s] = "checked" /\ ppInfo'[s] = ppInfo[s]
      PROVE  ppc'[s] = "checked" =>
               /\ s # 0
               /\ hasEntry(opLog'[0], ppInfo'[s].opNum)
               /\ opLog'[0].entries[ppInfo'[s].opNum].op = ppInfo'[s].op
  <2>1. ppc[s] = "checked" => s # 0 /\ Logs(0, ppInfo[s].opNum, ppInfo[s].op)
    BY <1>0 DEF PrepAt
  <2> QED
    BY <1>k, <1>p, <2>1 DEF Logs
<1>1. CASE UNCHANGED <<prepReqQ, ppc, ppInfo>>
  BY <1>1, <1>p, <1>q DEF PrepAt, Logs
<1>2. ASSUME NEW r \in ReplicaId, NEW b \in ReplicaId, invokePrepare(r, b)
      PROVE  PrepAt(s)'
  <2>1. UNCHANGED <<ppc, ppInfo>>
    BY <1>2 DEF invokePrepare
  <2>2. CASE prepReqQ'[s] = prepReqQ[s]
    BY <1>p, <1>q, <2>1, <2>2 DEF PrepAt, Logs
  <2>3. CASE prepReqQ'[s] = Append(prepReqQ[s], prepInfo(r))
    <3>1. Logs(0, opNum[r], creq[r])
      BY <1>2, <1>t DEF invokePrepare, LogInv, ClientAt
    <3>2. \A i \in 1 .. Len(prepReqQ[s]) :
            Logs(0, prepReqQ[s][i].opNum, prepReqQ[s][i].op)
      BY <1>0 DEF PrepAt
    <3> DEFINE q == prepReqQ[s]
               x == prepInfo(r)
    <3>3. q \in Seq(PrepInfo) /\ x \in PrepInfo
      BY <1>0, <1>2, <1>t
      DEF invokePrepare, prepInfo, PrepInfo, TypeOK, ThreadInv
    <3>4. x.opNum = opNum[r] /\ x.op = creq[r]
      BY DEF prepInfo
    <3> HIDE DEF q, x
    <3>5. \A i \in 1 .. Len(Append(q, x)) :
            Append(q, x)[i] = x \/ (i \in 1 .. Len(q) /\ Append(q, x)[i] = q[i])
      BY <3>3
    <3>6. \A i \in 1 .. Len(Append(q, x)) :
            Logs(0, Append(q, x)[i].opNum, Append(q, x)[i].op)
      BY <3>1, <3>2, <3>4, <3>5 DEF q
    <3>7. prepReqQ'[s] = Append(q, x)
      BY <2>3 DEF q, x
    <3>8. \A i \in 1 .. Len(prepReqQ'[s]) :
               /\ hasEntry(opLog'[0], prepReqQ'[s][i].opNum)
               /\ opLog'[0].entries[prepReqQ'[s][i].opNum].op = prepReqQ'[s][i].op
      BY <1>k, <3>6, <3>7 DEF Logs
    <3> QED
      BY <1>p, <2>1, <3>8 DEF PrepAt, Logs
  <2> QED
    BY <1>0, <1>2, <2>2, <2>3 DEF invokePrepare, processPrepare
<1>3. ASSUME NEW r \in ReplicaId, PopPrepInfo(r) PROVE PrepAt(s)'
  <2>1. CASE s # r
    <3>1. prepReqQ'[s] = prepReqQ[s] /\ ppc'[s] = ppc[s] /\ ppInfo'[s] = ppInfo[s]
      BY <1>0, <1>3, <2>1 DEF PopPrepInfo
    <3> QED
      BY <1>p, <1>q, <3>1 DEF PrepAt, Logs
  <2>2. CASE s = r
    <3> DEFINE q == prepReqQ[s]
    <3>1. q \in Seq(PrepInfo) /\ q # <<>>
      BY <1>0, <1>3, <2>2 DEF PopPrepInfo
    <3>2. \A i \in 1 .. Len(q) : Logs(0, q[i].opNum, q[i].op)
      BY <1>0 DEF PrepAt
    <3>3. prepReqQ'[s] = Tail(q)
      BY <1>0, <1>3, <2>2 DEF PopPrepInfo
    <3>4. \/ ppc'[s] = "checked" /\ ppInfo'[s] = Head(q) /\ s # 0
          \/ ppc'[s] = "idle"
      BY <1>0, <1>3, <1>t, <2>2, ZeroIsReplica DEF PopPrepInfo, ViewInv, isPrimary
    <3> HIDE DEF q
    <3>5. /\ Logs(0, Head(q).opNum, Head(q).op)
          /\ \A i \in 1 .. Len(Tail(q)) : Logs(0, Tail(q)[i].opNum, Tail(q)[i].op)
      BY <3>1, <3>2
    <3>6. \A i \in 1 .. Len(prepReqQ'[s]) :
               /\ hasEntry(opLog'[0], prepReqQ'[s][i].opNum)
               /\ opLog'[0].entries[prepReqQ'[s][i].opNum].op = prepReqQ'[s][i].op
      BY <1>k, <3>3, <3>5 DEF Logs
    <3>7. ppc'[s] = "checked" =>
               /\ s # 0
               /\ hasEntry(opLog'[0], ppInfo'[s].opNum)
               /\ opLog'[0].entries[ppInfo'[s].opNum].op = ppInfo'[s].op
      BY <1>k, <3>4, <3>5 DEF Logs
    <3> QED
      BY <3>6, <3>7 DEF PrepAt, Logs
  <2> QED BY <2>1, <2>2
<1>4. ASSUME NEW r \in ReplicaId, LogPrepInfo(r) \/ EndPrepInfo(r)
      PROVE  PrepAt(s)'
  <2>1. prepReqQ'[s] = prepReqQ[s]
    BY <1>4 DEF LogPrepInfo, EndPrepInfo, Aborts, Dies, prepVars
  <2>2. ppc'[s] = "checked" => ppc[s] = "checked" /\ ppInfo'[s] = ppInfo[s]
    BY <1>0, <1>4 DEF LogPrepInfo, EndPrepInfo, Aborts, Dies, prepVars
  <2> QED
    BY <1>p, <1>q, <2>1, <2>2 DEF PrepAt, Logs
<1>5. ASSUME NEW r \in ReplicaId,
             \/ \E op \in ClientOp : ClientRequest(r, op)
             \/ Replicate(r)
             \/ CountSelf(r) \/ Notified(r) \/ SpuriousWakeup(r) \/ TimedOut(r)
             \/ StartCommit(r) \/ Finish(r) \/ HeartBeat(r)
             \/ \E t \in {"t1", "hbt"}, b \in ReplicaId : invokeCommit(r, t, b)
             \/ processCommit(r)
             \/ \E b \in ReplicaId : invokePrepareOk(r, b)
             \/ \E t \in Caller, b \in ReplicaId : CallFails(r, t, b)
             \/ Crash(r)
      PROVE  UNCHANGED <<prepReqQ, ppc, ppInfo>>
  BY <1>5 DEF ClientRequest, Replicate, CountSelf,
              Notified, SpuriousWakeup, TimedOut, StartCommit, Finish,
              HeartBeat, invokeCommit, processCommit, invokePrepareOk,
              CallFails, Crash, Aborts, Dies, prepVars
<1>6. CASE UNCHANGED vars
  BY <1>1, <1>6 DEF vars, prepVars
<1> QED
  BY <1>1, <1>2, <1>3, <1>4, <1>5, <1>6 DEF Next

-----------------------------------------------------------------------------
(***************************************************************************)
(* Commit numbers.                                                         *)
(***************************************************************************)
\* A commit number stays within the log, and behind that of the primary.
LEMMA StepCommit == SafetyInv /\ [Next]_vars => CommitInv'
<1> SUFFICES ASSUME SafetyInv, [Next]_vars PROVE CommitInv'
  OBVIOUS
<1>t. TypeOK /\ ThreadInv /\ ViewInv /\ LogInv /\ CommitInv
  BY DEF SafetyInv, TypeInv
<1>f. /\ commitNum \in [ReplicaId -> 0 .. MaxOp]
      /\ opNum \in [ReplicaId -> 0 .. MaxOp]
      /\ cpc \in [ReplicaId -> {"idle", "enter", "prepare", "wait", "reached",
                               "commit"}]
      /\ hbInfo \in [ReplicaId -> CommitInfo]
      /\ repListener \in [ReplicaId -> CommitMsg \cup {Nil}]
      /\ 0 \in ReplicaId
  BY <1>t, ZeroIsReplica DEF TypeOK
<1>n. /\ \A r \in ReplicaId : hbInfo[r].commitNum \in 0 .. MaxOp
      /\ \A r \in ReplicaId : repListener[r] # Nil =>
           repListener[r].info.commitNum \in 0 .. MaxOp
  BY <1>f DEF CommitInfo, CommitMsg
<1>1. CASE UNCHANGED <<commitNum, opNum, cpc, hbInfo, repListener>>
  BY <1>1, <1>t DEF CommitInv
<1>2. ASSUME NEW r \in ReplicaId, NEW op \in ClientOp, ClientRequest(r, op)
      PROVE  CommitInv'
  BY <1>2, <1>f, <1>t DEF ClientRequest, CommitInv, replicaState, rpcVars
<1>3. ASSUME NEW r \in ReplicaId, NEW how, Dies(r, how) PROVE CommitInv'
  BY <1>3, <1>f, <1>t DEF Dies, CommitInv, replicaState, clientVars
<1>4. ASSUME NEW r \in ReplicaId, Replicate(r) PROVE CommitInv'
  <2>1. opNum'[r] = opNum[r] + 1 /\ cpc'[r] # "commit"
    BY <1>4, <1>f DEF Replicate, ReplyToClient
  <2>2. \A s \in ReplicaId : s # r => opNum'[s] = opNum[s] /\ cpc'[s] = cpc[s]
    BY <1>4, <1>f DEF Replicate, ReplyToClient
  <2>3. UNCHANGED <<commitNum, hbInfo, repListener>>
    BY <1>4 DEF Replicate
  <2> QED
    BY <1>f, <1>t, <2>1, <2>2, <2>3 DEF CommitInv
<1>5. ASSUME NEW r \in ReplicaId,
             CountSelf(r) \/ Notified(r) \/ SpuriousWakeup(r) \/ TimedOut(r)
               \/ Finish(r)
      PROVE  CommitInv'
  <2>1. /\ \A s \in ReplicaId : cpc'[s] = "commit" => cpc[s] = "commit"
        /\ UNCHANGED <<commitNum, opNum, hbInfo, repListener>>
    BY <1>5, <1>f DEF CountSelf, Notified, SpuriousWakeup, TimedOut, Finish,
                     ReplyToClient, replicaState, rpcVars
  <2> QED
    BY <1>t, <2>1 DEF CommitInv
<1>6. ASSUME NEW r \in ReplicaId, StartCommit(r) PROVE CommitInv'
  <2>1. r = 0 /\ commitNum[0] <= opNum[0]
    BY <1>6, <1>t, <1>f DEF StartCommit, LogInv, ClientAt, CommitInv
  <2>2. /\ commitNum' = [commitNum EXCEPT ![0] = opNum[0]]
        /\ cpc' = [cpc EXCEPT ![0] = "commit"]
        /\ UNCHANGED <<opNum, hbInfo, repListener>>
    BY <1>6, <2>1 DEF StartCommit
  <2>3. /\ commitNum'[0] = opNum[0] /\ commitNum'[0] >= commitNum[0]
        /\ \A s \in ReplicaId : s # 0 => /\ commitNum'[s] = commitNum[s]
                                         /\ cpc'[s] = cpc[s]
    BY <1>f, <2>1, <2>2
  <2>4. ASSUME NEW s \in ReplicaId
        PROVE  /\ commitNum'[s] <= commitNum'[0]
               /\ commitNum'[s] <= opNum'[s]
               /\ cpc'[s] = "commit" => opNum'[s] = commitNum'[s]
    <3>1. /\ commitNum[s] <= commitNum[0]
          /\ commitNum[s] <= opNum[s]
          /\ cpc[s] = "commit" => opNum[s] = commitNum[s]
      BY <1>t DEF CommitInv
    <3>2. commitNum[s] \in Int /\ commitNum[0] \in Int /\ opNum[0] \in Int
      BY <1>f
    <3> QED
      BY <2>2, <2>3, <3>1, <3>2
  <2>5. ASSUME NEW s \in ReplicaId
        PROVE  /\ hbInfo'[s].commitNum <= commitNum'[0]
               /\ repListener'[s] # Nil =>
                    repListener'[s].info.commitNum <= commitNum'[0]
    <3>1. /\ hbInfo[s].commitNum <= commitNum[0]
          /\ repListener[s] # Nil => repListener[s].info.commitNum <= commitNum[0]
      BY <1>t DEF CommitInv
    <3>2. commitNum[0] \in Int /\ opNum[0] \in Int
      BY <1>f
    <3> QED
      BY <1>n, <2>2, <2>3, <3>1, <3>2
  <2> QED
    BY <2>4, <2>5 DEF CommitInv
<1>7. ASSUME NEW r \in ReplicaId, HeartBeat(r) PROVE CommitInv'
  <2>1. /\ hbInfo' = [hbInfo EXCEPT
                  ![r] = [viewNum |-> viewNum[r], commitNum |-> commitNum[r]]]
        /\ UNCHANGED <<commitNum, opNum, cpc, repListener>>
    BY <1>7 DEF HeartBeat, replicaState, clientVars
  <2>2. \A s \in ReplicaId : hbInfo'[s].commitNum <= commitNum[0]
    BY <1>f, <1>t, <2>1 DEF CommitInv
  <2> QED
    BY <1>t, <2>1, <2>2 DEF CommitInv
<1>8. ASSUME NEW r \in ReplicaId, NEW t \in {"t1", "hbt"},
             NEW b \in ReplicaId, invokeCommit(r, t, b)
      PROVE  CommitInv'
  <2>1. UNCHANGED <<commitNum, opNum, cpc, hbInfo>>
    BY <1>8 DEF invokeCommit, replicaState, clientVars
  <2>2. commitInfo(r, t).commitNum <= commitNum[0]
    <3>1. CASE t = "hbt"
      BY <1>t, <3>1 DEF commitInfo, CommitInv
    <3>2. CASE t = "t1"
      <4>1. cpc[r] = "commit"
        BY <1>8, <3>2 DEF invokeCommit
      <4>2. opNum[r] <= commitNum[0]
        BY <1>f, <1>t, <4>1 DEF CommitInv, LogInv, ClientAt
      <4> QED
        BY <3>2, <4>2 DEF commitInfo
    <3> QED BY <3>1, <3>2
  <2> DEFINE msg == [from |-> r, thread |-> t, info |-> commitInfo(r, t)]
  <2>3. msg.info.commitNum <= commitNum[0]
    BY <2>2
  <2>4. repListener' = repListener \/ repListener' = [repListener EXCEPT ![b] = msg]
    BY <1>8 DEF invokeCommit
  <2> HIDE DEF msg
  <2> QED
    BY <1>f, <1>t, <2>1, <2>3, <2>4 DEF CommitInv
<1>9. ASSUME NEW b \in ReplicaId, processCommit(b) PROVE CommitInv'
  <2>1. CASE Aborts(b)
    BY <1>3, <2>1 DEF Aborts
  <2>2. CASE ~Aborts(b)
    <3>1. /\ repListener' = [repListener EXCEPT ![b] = Nil]
          /\ UNCHANGED <<opNum, cpc, hbInfo>>
          /\ \/ UNCHANGED commitNum
             \/ /\ commitNum' = [commitNum EXCEPT ![b] = commitNum[b] + 1]
                /\ repListener[b].info.commitNum > commitNum[b]
                /\ hasEntry(opLog[b], commitNum[b] + 1)
      BY <1>9, <2>2
      DEF processCommit, EndCommit, NextCommit, replicaState, clientVars
    <3>2. repListener[b].info.commitNum <= commitNum[0]
      BY <1>9, <1>t DEF processCommit, CommitInv
    <3>3. repListener[b].info.commitNum \in 0 .. MaxOp
      BY <1>9, <1>n DEF processCommit
    <3>4. hasEntry(opLog[b], commitNum[b] + 1) => commitNum[b] + 1 <= opNum[b]
      BY <1>f, <1>t DEF LogInv, LogAt, hasEntry
    <3>5. UNCHANGED commitNum \/
            /\ commitNum' = [commitNum EXCEPT ![b] = commitNum[b] + 1]
            /\ b # 0 /\ commitNum[b] + 1 <= commitNum[0]
            /\ commitNum[b] + 1 <= opNum[b]
      BY <1>f, <3>1, <3>2, <3>3, <3>4
    <3>6. cpc[b] # "commit" \/ b = 0
      BY <1>t DEF LogInv, ClientAt
    <3> QED
      BY <1>f, <1>t, <3>1, <3>5, <3>6 DEF CommitInv
  <2> QED BY <2>1, <2>2
<1>10. ASSUME NEW r \in ReplicaId, LogPrepInfo(r) PROVE CommitInv'
  <2>1. CASE Aborts(r)
    BY <1>3, <2>1 DEF Aborts
  <2>2. CASE ~Aborts(r)
    <3>1. r # 0 /\ cpc[r] = "idle"
      BY <1>10, <1>t DEF LogPrepInfo, LogInv, PrepAt, ClientAt
    <3>2. /\ opNum' = [opNum EXCEPT ![r] = opNum[r] + 1]
          /\ UNCHANGED <<commitNum, cpc, hbInfo, repListener>>
      BY <1>10, <2>2 DEF LogPrepInfo, clientVars
    <3> QED
      BY <1>f, <1>t, <3>1, <3>2 DEF CommitInv
  <2> QED BY <2>1, <2>2
<1>11. ASSUME NEW r \in ReplicaId,
             \/ \E b \in ReplicaId : invokePrepare(r, b)
             \/ PopPrepInfo(r)
             \/ \E b \in ReplicaId : invokePrepareOk(r, b)
             \/ EndPrepInfo(r)
             \/ \E t \in Caller, b \in ReplicaId : CallFails(r, t, b)
      PROVE  UNCHANGED <<commitNum, opNum, cpc, hbInfo, repListener>>
  BY <1>11 DEF invokePrepare, PopPrepInfo, invokePrepareOk, EndPrepInfo,
               CallFails, replicaState, clientVars, rpcVars
<1>12. CASE UNCHANGED vars
  BY <1>1, <1>12 DEF vars, replicaState, clientVars, rpcVars
<1> QED
  BY <1>1, <1>2, <1>3, <1>4, <1>5, <1>6, <1>7, <1>8, <1>9, <1>10, <1>11, <1>12
  DEF Next, Aborts, Crash

-----------------------------------------------------------------------------
(***************************************************************************)
(* The theorems.                                                           *)
(***************************************************************************)
\* The safety invariant is inductive.
LEMMA StepSafety == SafetyInv /\ [Next]_vars => SafetyInv'
BY StepType, StepView, StepLogAt, StepClientAt, StepPrepAt, StepCommit
DEF SafetyInv, LogInv

\* The safety invariant holds in every state.
LEMMA SafetyInvariant == Spec => []SafetyInv
BY StepSafety, InitSafety, PTL DEF Spec

\* For any number of replicas and whatever calls fail, repeat or time out, no
\* two logs ever differ in an operation: the order in which replicate()
\* numbers operations is the order of every log.
THEOREM LogsMatch == Spec => []LogMatching
<1>1. SafetyInv => LogMatching
  BY DEF SafetyInv, LogInv, LogAt, LogMatching, Logs, hasEntry
<1> QED
  BY <1>1, SafetyInvariant, PTL

\* processCommit never takes a backup past the commit number of the primary,
\* neither by a heartbeat read before the last commit nor by one that waited.
THEOREM BackupsFollow == Spec => []BackupBehindPrimary
<1>1. SafetyInv => BackupBehindPrimary
  BY DEF SafetyInv, ViewInv, CommitInv, BackupBehindPrimary
<1> QED
  BY <1>1, SafetyInvariant, PTL

\* No step lowers a commit number.
LEMMA StepCommitGrows ==
  SafetyInv /\ [Next]_vars => \A s \in ReplicaId : commitNum'[s] >= commitNum[s]
<1> SUFFICES ASSUME SafetyInv, [Next]_vars
             PROVE  \A s \in ReplicaId : commitNum'[s] >= commitNum[s]
  OBVIOUS
<1>1. commitNum \in [ReplicaId -> 0 .. MaxOp] /\ opNum \in [ReplicaId -> 0 .. MaxOp]
  BY DEF SafetyInv, TypeInv, TypeOK
<1>2. ASSUME NEW r \in ReplicaId, StartCommit(r)
      PROVE  \A s \in ReplicaId : commitNum'[s] >= commitNum[s]
  BY <1>1, <1>2 DEF StartCommit, SafetyInv, CommitInv
<1>3. ASSUME NEW r \in ReplicaId, processCommit(r)
      PROVE  \A s \in ReplicaId : commitNum'[s] >= commitNum[s]
  BY <1>1, <1>3 DEF processCommit, NextCommit, Aborts, Dies, replicaState
<1>4. CASE UNCHANGED commitNum
  BY <1>1, <1>4
<1>5. ASSUME NEW r \in ReplicaId,
             \/ \E op \in ClientOp : ClientRequest(r, op)
             \/ Replicate(r)
             \/ \E b \in ReplicaId : invokePrepare(r, b)
             \/ CountSelf(r) \/ Notified(r) \/ SpuriousWakeup(r) \/ TimedOut(r)
             \/ Finish(r) \/ HeartBeat(r)
             \/ \E t \in {"t1", "hbt"}, b \in ReplicaId : invokeCommit(r, t, b)
             \/ PopPrepInfo(r) \/ LogPrepInfo(r)
             \/ \E b \in ReplicaId : invokePrepareOk(r, b)
             \/ EndPrepInfo(r)
             \/ \E t \in Caller, b \in ReplicaId : CallFails(r, t, b)
             \/ Crash(r)
      PROVE  UNCHANGED commitNum
  BY <1>5 DEF ClientRequest, Replicate, invokePrepare,
              CountSelf, Notified, SpuriousWakeup, TimedOut, Finish,
              HeartBeat, invokeCommit, PopPrepInfo, LogPrepInfo,
              invokePrepareOk, EndPrepInfo, CallFails, Crash, Aborts, Dies,
              replicaState
<1>6. CASE UNCHANGED vars
  BY <1>1, <1>6 DEF vars, replicaState
<1> QED
  BY <1>2, <1>3, <1>4, <1>5, <1>6 DEF Next

\* A commit is never taken back: commit numbers do not decrease, and neither
\* append nor commit changes an entry once it is committed.
THEOREM CommitsStay == Spec => CommitsAreFinal
<1> DEFINE Final ==
      \A r \in ReplicaId :
       /\ commitNum'[r] >= commitNum[r]
       /\ \A n \in DOMAIN opLog[r].entries : opLog[r].entries[n].committed
            => /\ hasEntry(opLog'[r], n)
               /\ opLog'[r].entries[n] = opLog[r].entries[n]
<1>1. SafetyInv /\ [Next]_vars => [Final]_vars
  <2> SUFFICES ASSUME SafetyInv, Next PROVE Final
    BY DEF vars
  <2>1. Keeps
    BY StepKeeps
  <2>2. \A r \in ReplicaId : commitNum'[r] >= commitNum[r]
    BY StepCommitGrows
  <2> QED
    BY <2>1, <2>2 DEF Keeps
<1> QED
  BY <1>1, SafetyInvariant, PTL DEF Spec, CommitsAreFinal

-----------------------------------------------------------------------------
(***************************************************************************)
(* Quorums.  processPrepareOk counts responses and not replicas.  The      *)
(* invariant bounds the count of a number by the replicas that have logged *)
(* it and have no response to it left to send.                             *)
(***************************************************************************)
\* What the calling threads know: the end points never change, only backups
\* log prepares, and they respond to the primary only, and to the number they
\* logged last.
CallInv ==
  \A r \in ReplicaId :
    /\ peers[r] = OtherReplicas(r)
    /\ todo[r]["ppit"] \subseteq {0}
    /\ ppc[r] # "idle" => r # 0
    /\ ppc[r] = "logged" => ppInfo[r].opNum = opNum[r]

\* Replica s has logged n and has yet to be counted for it.
Owing(s, n) ==
  /\ opNum[s] = n
  /\ \/ s = 0 /\ cpc[0] = "prepare"
     \/ s # 0 /\ ppc[s] = "logged" /\ 0 \in todo[s]["ppit"]

Holders(n) == {s \in ReplicaId : n <= opNum[s]}
Counted(n) == {s \in Holders(n) : ~Owing(s, n)}

Majority(S) == Cardinality(S) >= N \div 2 + 1

CountInv ==
  resent = 0 => \A n \in OpInt : waitMap[0][n] <= Cardinality(Counted(n))

\* n is committed, or t1 has gone past its wait for n and is about to commit.
Agreed(n) == n = commitNum[0] \/ (cpc[0] = "reached" /\ n = opNum[0])

\* t1 goes past its wait, and commits, with a quorum only.
ReachedInv == CountsHold => \A n \in Nat : Agreed(n) => Majority(Holders(n))

\* A client was told of committed operations only.
ReplyInv ==
  \A x \in replies : x.err = "NONE" =>
    x.opNum <= commitNum[0] /\ Logs(0, x.opNum, x.op)

QuorumInv == SafetyInv /\ CallInv /\ CountInv /\ ReachedInv /\ ReplyInv

-----------------------------------------------------------------------------
(***************************************************************************)
(* Cardinalities.                                                          *)
(***************************************************************************)
\* There are N replicas.
LEMMA ReplicasFinite ==
  /\ IsFiniteSet(ReplicaId) /\ Cardinality(ReplicaId) = N
  /\ \A S \in SUBSET ReplicaId :
       IsFiniteSet(S) /\ Cardinality(S) \in Nat /\ Cardinality(S) <= N
<1>1. IsFiniteSet(ReplicaId) /\ Cardinality(ReplicaId) = N
  BY SizeAssumption, FS_Interval DEF ReplicaId
<1>2. ASSUME NEW S \in SUBSET ReplicaId
      PROVE  IsFiniteSet(S) /\ Cardinality(S) \in Nat /\ Cardinality(S) <= N
  BY <1>1, FS_Subset, FS_CardinalityType
<1> QED
  BY <1>1, <1>2

\* A set with one replica more is larger by one at least.
LEMMA CardinalityGrows ==
  ASSUME NEW S \in SUBSET ReplicaId, NEW T \in SUBSET ReplicaId, S \subseteq T
  PROVE  /\ Cardinality(S) <= Cardinality(T)
         /\ \A x \in T : x \notin S => Cardinality(S) + 1 <= Cardinality(T)
<1>1. IsFiniteSet(S) /\ IsFiniteSet(T) /\ Cardinality(S) \in Nat /\ Cardinality(T) \in Nat
  BY ReplicasFinite
<1>2. Cardinality(S) <= Cardinality(T)
  BY <1>1, FS_Subset
<1>3. ASSUME NEW x \in T, x \notin S PROVE Cardinality(S) + 1 <= Cardinality(T)
  <2>1. Cardinality(S) # Cardinality(T)
    BY <1>1, <1>3, FS_Subset
  <2> QED
    BY <1>1, <1>2, <2>1
<1> QED
  BY <1>2, <1>3

\* The quorum a replica computes from its end points is a majority of all.
LEMMA MajorityOfAll ==
  ASSUME NEW r \in ReplicaId
  PROVE  getMajorityCnt(OtherReplicas(r)) = N \div 2 + 1
<1>1. Cardinality(OtherReplicas(r)) = N - 1
  BY ReplicasFinite, FS_RemoveElement DEF OtherReplicas
<1> QED
  BY <1>1, SizeAssumption DEF getMajorityCnt

-----------------------------------------------------------------------------
(***************************************************************************)
(* The calling threads.                                                    *)
(***************************************************************************)
\* Every step keeps what the calling threads know.
LEMMA StepCall == SafetyInv /\ CallInv /\ [Next]_vars => CallInv'
<1> SUFFICES ASSUME SafetyInv, CallInv, [Next]_vars PROVE CallInv'
  OBVIOUS
<1>t. TypeOK /\ ThreadInv /\ ViewInv /\ LogInv /\ CallInv
  BY DEF SafetyInv, TypeInv
<1>f. /\ peers \in [ReplicaId -> SUBSET ReplicaId]
      /\ todo \in [ReplicaId -> [Caller -> SUBSET ReplicaId]]
      /\ ppc \in [ReplicaId -> {"idle", "checked", "logged"}]
      /\ ppInfo \in [ReplicaId -> PrepInfo \cup {Nil}]
      /\ opNum \in [ReplicaId -> 0 .. MaxOp]
      /\ "t1" \in Caller /\ "hbt" \in Caller /\ "ppit" \in Caller
  BY <1>t DEF TypeOK, Caller
<1>1. ASSUME UNCHANGED <<peers, ppc, ppInfo, opNum>>,
             \A s \in ReplicaId : todo'[s]["ppit"] \subseteq todo[s]["ppit"]
      PROVE  CallInv'
  BY <1>1, <1>t DEF CallInv
<1>2. ASSUME NEW r \in ReplicaId, NEW b \in ReplicaId, NEW t \in Caller,
             EndCall(r, t, b), UNCHANGED <<peers, ppc, ppInfo, opNum>>
      PROVE  CallInv'
  BY <1>1, <1>2, <1>t, <1>f, EndCallType
<1>3. ASSUME NEW r \in ReplicaId, Replicate(r) PROVE CallInv'
  <2>1. r = 0 /\ ppc[0] = "idle"
    BY <1>3, <1>t DEF Replicate, ViewInv, isPrimary, CallInv
  <2>2. /\ UNCHANGED <<peers, ppc, ppInfo>>
        /\ \A s \in ReplicaId : s # 0 => opNum'[s] = opNum[s]
        /\ \A s \in ReplicaId : todo'[s]["ppit"] = todo[s]["ppit"]
    BY <1>3, <1>f, <2>1 DEF Replicate, prepVars
  <2> QED
    BY <1>t, <2>1, <2>2 DEF CallInv
<1>4. ASSUME NEW r \in ReplicaId, PopPrepInfo(r) PROVE CallInv'
  <2>1. /\ UNCHANGED <<peers, opNum, todo>>
        /\ ppc[r] = "idle"
        /\ \A s \in ReplicaId : s # r => ppc'[s] = ppc[s] /\ ppInfo'[s] = ppInfo[s]
        /\ ppc'[r] = "idle" \/ (ppc'[r] = "checked" /\ r # 0)
    BY <1>4, <1>f, <1>t DEF PopPrepInfo, storage, replicaState, rpcVars, isPrimary, ViewInv
  <2> QED
    BY <1>t, <2>1 DEF CallInv
<1>5. ASSUME NEW r \in ReplicaId, LogPrepInfo(r) PROVE CallInv'
  <2>1. CASE Aborts(r)
    BY <1>1, <2>1 DEF Aborts, Dies, storage, prepVars, replicaState
  <2>2. CASE ~Aborts(r)
    <3>1. r # 0 /\ priId[r] = 0
      BY <1>5, <1>t DEF LogPrepInfo, LogInv, PrepAt, ViewInv
    <3>2. peers[r] \cup {0} = OtherReplicas(r)
      BY <1>t, <3>1, ZeroIsReplica DEF CallInv, OtherReplicas
    <3>3. /\ UNCHANGED ppInfo
          /\ opNum' = [opNum EXCEPT ![r] = ppInfo[r].opNum]
          /\ peers' = [peers EXCEPT ![r] = peers[r] \cup {0}]
          /\ todo' = [todo EXCEPT ![r]["ppit"] = {0}]
          /\ ppc' = [ppc EXCEPT ![r] = "logged"]
      BY <1>5, <2>2, <3>1 DEF LogPrepInfo
    <3>4. \A s \in ReplicaId : todo'[s]["ppit"] \subseteq {0}
      BY <1>f, <1>t, <3>3 DEF CallInv
    <3> HIDE DEF CallInv
    <3>5. ASSUME NEW s \in ReplicaId
          PROVE  /\ peers'[s] = OtherReplicas(s)
                 /\ ppc'[s] # "idle" => s # 0
                 /\ ppc'[s] = "logged" => ppInfo'[s].opNum = opNum'[s]
      BY <1>f, <1>t, <3>1, <3>2, <3>3 DEF CallInv
    <3> QED
      BY <3>4, <3>5 DEF CallInv
  <2> QED BY <2>1, <2>2
<1>6. ASSUME NEW r \in ReplicaId, EndPrepInfo(r) PROVE CallInv'
  <2>1. /\ UNCHANGED <<peers, opNum, todo>>
        /\ \A s \in ReplicaId : s # r => ppc'[s] = ppc[s] /\ ppInfo'[s] = ppInfo[s]
        /\ ppc'[r] = "idle"
    BY <1>6, <1>f DEF EndPrepInfo, storage, replicaState, rpcVars
  <2> QED
    BY <1>t, <2>1 DEF CallInv
<1>7. ASSUME NEW r \in ReplicaId, StartCommit(r) \/ HeartBeat(r) PROVE CallInv'
  <2>1. UNCHANGED <<peers, ppc, ppInfo, opNum>>
    BY <1>7 DEF StartCommit, HeartBeat, prepVars, storage, replicaState
  <2>2. \/ todo' = [todo EXCEPT ![r]["t1"] = peers[r] \ {r}]
        \/ todo' = [todo EXCEPT ![r]["hbt"] = peers[r] \ {r}]
    BY <1>7 DEF StartCommit, HeartBeat
  <2>3. \A s \in ReplicaId : todo'[s]["ppit"] = todo[s]["ppit"]
    BY <1>f, <2>2
  <2> QED
    BY <1>1, <2>1, <2>3
<1>8. ASSUME NEW r \in ReplicaId, NEW t \in {"t1", "hbt"}, NEW b \in ReplicaId,
             invokeCommit(r, t, b)
      PROVE  CallInv'
  <2>1. UNCHANGED <<peers, ppc, ppInfo, opNum>>
    BY <1>8 DEF invokeCommit, prepVars, storage, replicaState
  <2> QED
    BY <1>1, <1>2, <1>8, <1>f, <2>1 DEF invokeCommit
<1>9. ASSUME NEW b \in ReplicaId, processCommit(b) PROVE CallInv'
  <2>1. UNCHANGED <<peers, ppc, ppInfo, opNum>>
    BY <1>9 DEF processCommit, Aborts, Dies, prepVars, storage, replicaState
  <2>2. repListener[b].from \in ReplicaId /\ repListener[b].thread \in Caller
    BY <1>9, <1>t DEF processCommit, TypeOK, CommitMsg
  <2>3. CASE EndCommit(b, repListener[b])
    BY <1>2, <2>1, <2>2, <2>3 DEF EndCommit
  <2>4. CASE Aborts(b)
    BY <1>1, <2>4 DEF Aborts, Dies, prepVars, storage, replicaState
  <2> QED
    BY <1>9, <2>3, <2>4 DEF processCommit
<1>10. ASSUME NEW r \in ReplicaId, NEW b \in ReplicaId,
              invokePrepare(r, b) \/ invokePrepareOk(r, b)
       PROVE  CallInv'
  BY <1>2, <1>10, <1>f
  DEF invokePrepare, invokePrepareOk, prepVars, storage, replicaState
<1>11. ASSUME NEW r \in ReplicaId, NEW t \in Caller, NEW b \in ReplicaId,
              CallFails(r, t, b)
       PROVE  CallInv'
  <2>1. \A s \in ReplicaId : todo'[s]["ppit"] \subseteq todo[s]["ppit"]
    BY <1>11, <1>f DEF CallFails
  <2> QED
    BY <1>1, <1>11, <2>1 DEF CallFails, prepVars, storage, replicaState
<1>12. ASSUME NEW r \in ReplicaId,
              \/ \E op \in ClientOp : ClientRequest(r, op)
              \/ CountSelf(r) \/ Notified(r) \/ SpuriousWakeup(r) \/ TimedOut(r)
              \/ Finish(r) \/ Crash(r)
       PROVE  UNCHANGED <<peers, ppc, ppInfo, opNum, todo>>
  BY <1>12 DEF ClientRequest, CountSelf, Notified, SpuriousWakeup, TimedOut,
               Finish, Crash, Dies, prepVars, storage, replicaState, rpcVars
<1>13. CASE UNCHANGED vars
  BY <1>1, <1>13 DEF vars, prepVars, storage, replicaState, rpcVars
<1> QED
  BY <1>1, <1>3, <1>4, <1>5, <1>6, <1>7, <1>8, <1>9, <1>10, <1>11, <1>12,
     <1>13 DEF Next

-----------------------------------------------------------------------------
(***************************************************************************)
(* Counting responses.                                                     *)
(***************************************************************************)

\* A step takes a replica to the next number, or leaves it no further from
\* being counted for the number it has.
Nearer(s) ==
  \/ opNum'[s] = opNum[s] + 1
  \/ /\ opNum'[s] = opNum[s]
     /\ s = 0 /\ cpc'[0] = "prepare" => cpc[0] = "prepare"
     /\ s # 0 /\ ppc'[s] = "logged" /\ 0 \in todo'[s]["ppit"]
          => ppc[s] = "logged" /\ 0 \in todo[s]["ppit"]

\* A step brings no replica back to owing a response.
LEMMA StepNearer ==
  SafetyInv /\ [Next]_vars => \A s \in ReplicaId : Nearer(s)
<1> SUFFICES ASSUME SafetyInv, [Next]_vars, NEW s \in ReplicaId PROVE Nearer(s)
  OBVIOUS
<1>t. TypeOK /\ ThreadInv /\ ViewInv /\ LogInv
  BY DEF SafetyInv, TypeInv
<1>f. /\ todo \in [ReplicaId -> [Caller -> SUBSET ReplicaId]]
      /\ ppc \in [ReplicaId -> {"idle", "checked", "logged"}]
      /\ cpc \in [ReplicaId -> {"idle", "enter", "prepare", "wait", "reached",
                               "commit"}]
      /\ opNum \in [ReplicaId -> 0 .. MaxOp]
      /\ "t1" \in Caller /\ "hbt" \in Caller /\ "ppit" \in Caller
      /\ 0 \in ReplicaId
  BY <1>t, ZeroIsReplica DEF TypeOK, Caller
<1>1. ASSUME opNum'[s] = opNum[s],
             cpc'[0] = "prepare" => cpc[0] = "prepare",
             ppc'[s] = "logged" => ppc[s] = "logged",
             todo'[s]["ppit"] \subseteq todo[s]["ppit"]
      PROVE  Nearer(s)
  BY <1>1 DEF Nearer
<1>2. ASSUME NEW r \in ReplicaId, NEW b \in ReplicaId, NEW t \in Caller,
             EndCall(r, t, b), UNCHANGED <<opNum, cpc, ppc>>
      PROVE  Nearer(s)
  BY <1>1, <1>2, <1>t, <1>f, EndCallType
<1>3. ASSUME NEW r \in ReplicaId, Replicate(r) PROVE Nearer(s)
  <2>1. r = 0
    BY <1>3, <1>t DEF Replicate, ViewInv, isPrimary
  <2>2. /\ opNum' = [opNum EXCEPT ![0] = opNum[0] + 1]
        /\ UNCHANGED ppc
        /\ UNCHANGED todo \/ todo' = [todo EXCEPT ![0]["t1"] = peers[0] \ {0}]
    BY <1>3, <2>1 DEF Replicate, prepVars
  <2>3. \A x \in ReplicaId : todo'[x]["ppit"] = todo[x]["ppit"]
    BY <1>f, <2>2
  <2> QED
    BY <1>f, <2>2, <2>3 DEF Nearer
<1>4. ASSUME NEW r \in ReplicaId, LogPrepInfo(r) PROVE Nearer(s)
  <2>1. CASE Aborts(r)
    BY <1>1, <2>1 DEF Aborts, Dies, prepVars, replicaState, clientVars
  <2>2. CASE ~Aborts(r)
    <3>1. /\ opNum' = [opNum EXCEPT ![r] = opNum[r] + 1]
          /\ todo' = [todo EXCEPT ![r]["ppit"] = {priId[r]}]
          /\ ppc' = [ppc EXCEPT ![r] = "logged"]
          /\ UNCHANGED cpc
      BY <1>4, <2>2 DEF LogPrepInfo, clientVars
    <3>2. s # r => todo'[s] = todo[s] /\ ppc'[s] = ppc[s]
      BY <1>f, <3>1
    <3> QED
      BY <1>f, <3>1, <3>2 DEF Nearer
  <2> QED BY <2>1, <2>2
<1>5. ASSUME NEW r \in ReplicaId, StartCommit(r) \/ HeartBeat(r) PROVE Nearer(s)
  <2>0. /\ UNCHANGED <<ppc, opNum>>
        /\ UNCHANGED cpc \/ cpc' = [cpc EXCEPT ![r] = "commit"]
    BY <1>5 DEF StartCommit, HeartBeat, prepVars, replicaState, clientVars
  <2>1. UNCHANGED <<ppc, opNum>> /\ (cpc'[0] = "prepare" => cpc[0] = "prepare")
    BY <1>f, <2>0
  <2>2. \/ todo' = [todo EXCEPT ![r]["t1"] = peers[r] \ {r}]
        \/ todo' = [todo EXCEPT ![r]["hbt"] = peers[r] \ {r}]
    BY <1>5 DEF StartCommit, HeartBeat
  <2>3. \A x \in ReplicaId : todo'[x]["ppit"] = todo[x]["ppit"]
    BY <1>f, <2>2
  <2> QED
    BY <1>1, <2>1, <2>3
<1>6. ASSUME NEW r \in ReplicaId, NEW t \in {"t1", "hbt"}, NEW b \in ReplicaId,
             invokeCommit(r, t, b)
      PROVE  Nearer(s)
  <2>1. UNCHANGED <<cpc, ppc, opNum>>
    BY <1>6 DEF invokeCommit, prepVars, replicaState, clientVars
  <2> QED
    BY <1>1, <1>2, <1>6, <1>f, <2>1 DEF invokeCommit
<1>7. ASSUME NEW b \in ReplicaId, processCommit(b) PROVE Nearer(s)
  <2>1. UNCHANGED <<cpc, ppc, opNum>>
    BY <1>7 DEF processCommit, Aborts, Dies, prepVars, replicaState, clientVars
  <2>2. repListener[b].from \in ReplicaId /\ repListener[b].thread \in Caller
    BY <1>7, <1>t DEF processCommit, TypeOK, CommitMsg
  <2>3. CASE EndCommit(b, repListener[b])
    BY <1>2, <2>1, <2>2, <2>3 DEF EndCommit
  <2>4. CASE Aborts(b)
    BY <1>1, <2>1, <2>4 DEF Aborts, Dies
  <2> QED
    BY <1>7, <2>3, <2>4 DEF processCommit
<1>8. ASSUME NEW r \in ReplicaId, NEW b \in ReplicaId,
             invokePrepare(r, b) \/ invokePrepareOk(r, b)
      PROVE  Nearer(s)
  BY <1>2, <1>8, <1>f
  DEF invokePrepare, invokePrepareOk, prepVars, replicaState, clientVars
<1>9. ASSUME NEW r \in ReplicaId, NEW t \in Caller, NEW b \in ReplicaId,
             CallFails(r, t, b)
      PROVE  Nearer(s)
  <2>0. todo' = [todo EXCEPT ![r][t] = @ \ {b}]
    BY <1>9 DEF CallFails
  <2>1. todo'[s]["ppit"] \subseteq todo[s]["ppit"]
    BY <1>f, <2>0
  <2> QED
    BY <1>1, <1>9, <2>1 DEF CallFails, prepVars, replicaState, clientVars
<1>10. ASSUME NEW r \in ReplicaId,
              \/ \E op \in ClientOp : ClientRequest(r, op)
              \/ CountSelf(r) \/ Notified(r) \/ SpuriousWakeup(r) \/ TimedOut(r)
              \/ Finish(r)
       PROVE  Nearer(s)
  <2>1. UNCHANGED <<opNum, ppc, todo>> /\ (cpc'[0] = "prepare" => cpc[0] = "prepare")
    BY <1>10, <1>f
    DEF ClientRequest, CountSelf, Notified, SpuriousWakeup, TimedOut, Finish,
        ReplyToClient, prepVars, replicaState, rpcVars
  <2> QED
    BY <1>1, <2>1
<1>11. ASSUME NEW r \in ReplicaId, PopPrepInfo(r) \/ EndPrepInfo(r) \/ Crash(r)
       PROVE  Nearer(s)
  <2>1. UNCHANGED <<opNum, cpc, todo>> /\ (ppc'[s] = "logged" => ppc[s] = "logged")
    BY <1>11, <1>f
    DEF PopPrepInfo, EndPrepInfo, Crash, Dies, prepVars, replicaState, rpcVars,
        clientVars
  <2> QED
    BY <1>1, <2>1
<1>12. CASE UNCHANGED vars
  BY <1>1, <1>12 DEF vars, prepVars, replicaState, rpcVars, clientVars
<1> QED
  BY <1>3, <1>4, <1>5, <1>6, <1>7, <1>8, <1>9, <1>10, <1>11, <1>12 DEF Next

\* Who has logged a number, or was counted for it, stays so.
LEMMA SetsGrow ==
  ASSUME SafetyInv, [Next]_vars, NEW n \in Nat
  PROVE  /\ Holders(n) \subseteq Holders(n)' /\ Counted(n) \subseteq Counted(n)'
         /\ Holders(n)' \in SUBSET ReplicaId /\ Counted(n)' \in SUBSET ReplicaId
         /\ Holders(n) \in SUBSET ReplicaId /\ Counted(n) \in SUBSET ReplicaId
         /\ Counted(n)' \subseteq Holders(n)'
<1>1. \A s \in ReplicaId : Nearer(s) /\ opNum[s] \in Nat
  BY StepNearer DEF SafetyInv, TypeInv, TypeOK
<1>2. ASSUME NEW s \in ReplicaId, n <= opNum[s] PROVE n <= opNum'[s]
  BY <1>1, <1>2 DEF Nearer
<1>3. ASSUME NEW s \in ReplicaId, n <= opNum[s], ~Owing(s, n)
      PROVE  ~Owing(s, n)'
  <2>1. CASE opNum'[s] = opNum[s] + 1
    BY <1>1, <1>3, <2>1 DEF Owing
  <2>2. CASE opNum'[s] = opNum[s]
    BY <1>1, <1>3, <2>2 DEF Owing, Nearer
  <2> QED
    BY <1>1, <2>1, <2>2 DEF Nearer
<1> QED
  BY <1>2, <1>3 DEF Holders, Counted

\* Faults are never forgotten.
LEMMA FaultsStay ==
  ASSUME SafetyInv, [Next]_vars
  PROVE  (resent' = 0 => resent = 0) /\ (spurious' = 0 => spurious = 0)
<1>t. resent \in Nat /\ spurious \in Nat
  BY DEF SafetyInv, TypeInv, TypeOK
<1>1. ASSUME NEW r, NEW t, NEW b, EndCall(r, t, b) PROVE resent' = 0 => resent = 0
  BY <1>1, <1>t DEF EndCall
<1>2. ASSUME NEW r \in ReplicaId,
             \/ \E b \in ReplicaId : invokePrepare(r, b)
             \/ \E t \in {"t1", "hbt"}, b \in ReplicaId : invokeCommit(r, t, b)
             \/ processCommit(r)
             \/ \E b \in ReplicaId : invokePrepareOk(r, b)
      PROVE  (resent' = 0 => resent = 0) /\ UNCHANGED spurious
  BY <1>1, <1>2 DEF invokePrepare, invokeCommit, processCommit, EndCommit,
                    invokePrepareOk, Aborts, Dies
<1>3. ASSUME NEW r \in ReplicaId,
             \/ \E op \in ClientOp : ClientRequest(r, op)
             \/ Replicate(r)
             \/ CountSelf(r) \/ Notified(r) \/ SpuriousWakeup(r) \/ TimedOut(r)
             \/ StartCommit(r) \/ Finish(r) \/ HeartBeat(r)
             \/ PopPrepInfo(r) \/ LogPrepInfo(r) \/ EndPrepInfo(r)
             \/ \E t \in Caller, b \in ReplicaId : CallFails(r, t, b)
             \/ Crash(r)
      PROVE  UNCHANGED resent /\ (UNCHANGED spurious \/ spurious' = spurious + 1)
  BY <1>3 DEF ClientRequest, Replicate, CountSelf, Notified, SpuriousWakeup,
              TimedOut, StartCommit, Finish, HeartBeat, PopPrepInfo, LogPrepInfo,
              EndPrepInfo, CallFails, Crash, Aborts, Dies, faultVars
<1>4. CASE UNCHANGED vars
  BY <1>4 DEF vars, faultVars
<1> QED
  BY <1>t, <1>2, <1>3, <1>4 DEF Next

\* A response that is counted is the one and only of its replica.  The bound
\* may make room for other replicas, X, that cannot respond.
LEMMA CountStep ==
  ASSUME SafetyInv, CallInv, [Next]_vars, resent' = 0, NEW n \in OpInt,
         NEW X \in SUBSET ReplicaId,
         \A s \in X : s # 0 /\ ppc[s] # "logged",
         waitMap[0][n] <= Cardinality(Counted(n) \cup X)
  PROVE  waitMap'[0][n] <= Cardinality(Counted(n)' \cup X)
<1> DEFINE C == Counted(n) \cup X
           D == Counted(n)' \cup X
<1>t. TypeOK /\ ThreadInv /\ ViewInv /\ LogInv
  BY DEF SafetyInv, TypeInv
<1>f. /\ todo \in [ReplicaId -> [Caller -> SUBSET ReplicaId]]
      /\ ppc \in [ReplicaId -> {"idle", "checked", "logged"}]
      /\ cpc \in [ReplicaId -> {"idle", "enter", "prepare", "wait", "reached",
                               "commit"}]
      /\ opNum \in [ReplicaId -> 0 .. MaxOp]
      /\ waitMap \in [ReplicaId -> [OpInt -> Nat]]
      /\ "ppit" \in Caller /\ 0 \in ReplicaId /\ n \in Nat
  BY <1>t, ZeroIsReplica DEF TypeOK, Caller, OpInt
<1>c. waitMap[0][n] <= Cardinality(C) /\ waitMap[0][n] \in Nat
  BY <1>f
<1>g. /\ C \in SUBSET ReplicaId /\ D \in SUBSET ReplicaId /\ C \subseteq D
      /\ Cardinality(C) \in Nat /\ Cardinality(D) \in Nat
  BY <1>f, SetsGrow, ReplicasFinite
<1>1. CASE waitMap'[0][n] <= waitMap[0][n] /\ waitMap'[0][n] \in Nat
  <2>1. Cardinality(C) <= Cardinality(D)
    BY <1>g, CardinalityGrows
  <2> QED
    BY <1>1, <1>c, <1>g, <2>1
<1>2. ASSUME NEW s \in ReplicaId, s \notin X, s \notin Counted(n),
             s \in Counted(n)', waitMap'[0][n] = waitMap[0][n] + 1
      PROVE  waitMap'[0][n] <= Cardinality(D)
  <2>1. Cardinality(C) + 1 <= Cardinality(D)
    BY <1>2, <1>g, CardinalityGrows
  <2> QED
    BY <1>2, <1>c, <1>g, <2>1
<1>3. ASSUME NEW r \in ReplicaId, CountSelf(r)
      PROVE  waitMap'[0][n] <= Cardinality(D)
  <2>1. r = 0 /\ opNum[0] \in OpInt /\ cpc[0] = "prepare"
    BY <1>3, <1>t DEF CountSelf, LogInv, ClientAt, ThreadInv
  <2>2. /\ waitMap' = [waitMap EXCEPT ![0][opNum[0]] = @ + 1]
        /\ cpc'[0] # "prepare" /\ UNCHANGED opNum
    BY <1>3, <1>f, <2>1 DEF CountSelf, replicaState
  <2>3. CASE n # opNum[0]
    BY <1>1, <1>c, <1>f, <2>1, <2>2, <2>3
  <2>4. CASE n = opNum[0]
    <3>1. 0 \notin Counted(n) /\ 0 \in Counted(n)'
      BY <1>f, <2>1, <2>2, <2>4 DEF Counted, Holders, Owing
    <3>2. waitMap'[0][n] = waitMap[0][n] + 1
      BY <1>f, <2>1, <2>2, <2>4
    <3> QED
      BY <1>2, <1>f, <3>1, <3>2
  <2> QED BY <2>3, <2>4
<1>4. ASSUME NEW r \in ReplicaId, NEW b \in ReplicaId, invokePrepareOk(r, b)
      PROVE  waitMap'[0][n] <= Cardinality(D)
  <2>1. /\ b \in todo[r]["ppit"] /\ b # r /\ EndCall(r, "ppit", b)
        /\ UNCHANGED <<opNum, ppc>>
    BY <1>4 DEF invokePrepareOk, Delivered, MayCall, replicaState
  <2>2. b = 0 /\ r # 0 /\ ppc[r] = "logged" /\ ppInfo[r].opNum = opNum[r]
    BY <1>t, <2>1 DEF CallInv, ThreadInv
  <2>3. opNum[r] \in OpInt
    BY <1>t, <2>2 DEF ThreadInv, PrepInfo
  <2>4. UNCHANGED waitMap \/ waitMap' = [waitMap EXCEPT ![0][opNum[r]] = @ + 1]
    BY <1>4, <2>2 DEF invokePrepareOk, processPrepareOk, CountResponse
  <2>5. todo' = [todo EXCEPT ![r]["ppit"] = @ \ {0}]
    <3>1. resent \in Nat
      BY <1>t DEF TypeOK
    <3> QED
      BY <2>1, <2>2, <3>1 DEF EndCall
  <2>6. CASE n # opNum[r] \/ UNCHANGED waitMap
    BY <1>1, <1>c, <1>f, <2>3, <2>4, <2>6
  <2>7. CASE n = opNum[r] /\ ~UNCHANGED waitMap
    <3>1. 0 \in todo[r]["ppit"] /\ 0 \notin todo'[r]["ppit"]
      BY <1>f, <2>1, <2>2, <2>5
    <3>2. r \notin Counted(n) /\ r \in Counted(n)'
      BY <1>f, <2>1, <2>2, <2>7, <3>1 DEF Counted, Holders, Owing
    <3>3. waitMap'[0][n] = waitMap[0][n] + 1
      BY <1>f, <2>3, <2>4, <2>7
    <3>4. r \notin X
      BY <2>2
    <3> QED
      BY <1>2, <3>2, <3>3, <3>4
  <2> QED BY <2>6, <2>7
<1>5. ASSUME NEW r \in ReplicaId, Finish(r)
      PROVE  waitMap'[0][n] <= Cardinality(D)
  <2>1. waitMap' = [waitMap EXCEPT ![r][opNum[r]] = 0]
    BY <1>5 DEF Finish
  <2>2. waitMap'[0][n] = waitMap[0][n] \/ waitMap'[0][n] = 0
    BY <1>f, <2>1
  <2> QED
    BY <1>1, <1>c, <2>2
<1>6. ASSUME NEW r \in ReplicaId,
             \/ \E op \in ClientOp : ClientRequest(r, op)
             \/ Replicate(r)
             \/ \E b \in ReplicaId : invokePrepare(r, b)
             \/ Notified(r) \/ SpuriousWakeup(r) \/ TimedOut(r)
             \/ StartCommit(r) \/ HeartBeat(r)
             \/ \E t \in {"t1", "hbt"}, b \in ReplicaId : invokeCommit(r, t, b)
             \/ processCommit(r) \/ PopPrepInfo(r) \/ LogPrepInfo(r)
             \/ EndPrepInfo(r)
             \/ \E t \in Caller, b \in ReplicaId : CallFails(r, t, b)
             \/ Crash(r)
      PROVE  UNCHANGED waitMap
  BY <1>6 DEF ClientRequest, Replicate, invokePrepare, Notified, SpuriousWakeup,
              TimedOut, StartCommit, HeartBeat, invokeCommit, processCommit,
              PopPrepInfo, LogPrepInfo, EndPrepInfo, CallFails, Crash, Aborts,
              Dies, prepVars
<1>7. CASE UNCHANGED vars
  BY <1>1, <1>7, <1>c DEF vars, prepVars
<1>8. CASE UNCHANGED waitMap
  BY <1>1, <1>8, <1>c
<1> QED
  BY <1>3, <1>4, <1>5, <1>6, <1>7, <1>8 DEF Next

\* The bound of the counts is kept.
LEMMA StepCount ==
  SafetyInv /\ CallInv /\ CountInv /\ [Next]_vars => CountInv'
<1> SUFFICES ASSUME SafetyInv, CallInv, CountInv, [Next]_vars, resent' = 0,
                    NEW n \in OpInt
             PROVE  waitMap'[0][n] <= Cardinality(Counted(n)')
  BY DEF CountInv
<1>1. waitMap[0][n] <= Cardinality(Counted(n) \cup {})
  BY FaultsStay DEF CountInv
<1>2. waitMap'[0][n] <= Cardinality(Counted(n)' \cup {})
  BY <1>1, CountStep
<1> QED
  BY <1>2

\* t1 passes its wait only with the responses of a majority counted.
LEMMA AgreedStep ==
  ASSUME SafetyInv, [Next]_vars, spurious' = 0, NEW n \in Nat, Agreed(n)'
  PROVE  \/ Agreed(n)
         \/ n \in OpInt /\ waitMap'[0][n] >= getMajorityCnt(peers[0])
<1> DEFINE Goal == \/ Agreed(n)
                   \/ n \in OpInt /\ waitMap'[0][n] >= getMajorityCnt(peers[0])
<1> SUFFICES Goal
  OBVIOUS
<1>t. TypeOK /\ ThreadInv /\ ViewInv /\ LogInv
  BY DEF SafetyInv, TypeInv
<1>f. /\ cpc \in [ReplicaId -> {"idle", "enter", "prepare", "wait", "reached",
                               "commit"}]
      /\ opNum \in [ReplicaId -> 0 .. MaxOp]
      /\ commitNum \in [ReplicaId -> 0 .. MaxOp]
      /\ waitMap \in [ReplicaId -> [OpInt -> Nat]]
      /\ 0 \in ReplicaId
  BY <1>t, ZeroIsReplica DEF TypeOK
<1>1. ASSUME opNum'[0] = opNum[0], commitNum'[0] = commitNum[0],
             cpc'[0] = "reached" => cpc[0] = "reached"
      PROVE  Goal
  BY <1>1 DEF Agreed
<1>2. ASSUME NEW r \in ReplicaId, Replicate(r) PROVE Goal
  <2>1. r = 0 /\ cpc'[0] # "reached" /\ UNCHANGED commitNum
    BY <1>2, <1>f, <1>t DEF Replicate, ReplyToClient, ViewInv, isPrimary
  <2> QED
    BY <2>1 DEF Agreed
<1>3. ASSUME NEW r \in ReplicaId, CountSelf(r) \/ Notified(r) PROVE Goal
  <2>1. r = 0 /\ opNum[0] \in OpInt
    BY <1>3, <1>t DEF CountSelf, Notified, LogInv, ClientAt, ThreadInv
  <2>2. UNCHANGED <<opNum, commitNum>>
    BY <1>3 DEF CountSelf, Notified, replicaState
  <2>3. cpc'[0] = "reached" => waitMap'[0][opNum[0]] >= getMajorityCnt(peers[0])
    BY <1>3, <1>f, <2>1 DEF CountSelf, Notified, prepVars, quorumReached
  <2> QED
    BY <2>1, <2>2, <2>3 DEF Agreed
<1>4. ASSUME NEW r \in ReplicaId, SpuriousWakeup(r) PROVE Goal
  <2>1. spurious' = spurious + 1 /\ spurious = 0 /\ spurious' = 0
    BY <1>4, FaultsStay DEF SpuriousWakeup
  <2> QED
    BY <2>1
<1>5. ASSUME NEW r \in ReplicaId, StartCommit(r) PROVE Goal
  <2>1. r = 0 /\ cpc[0] = "reached"
    BY <1>5, <1>t DEF StartCommit, LogInv, ClientAt
  <2>2. commitNum'[0] = opNum[0] /\ cpc'[0] = "commit"
    BY <1>5, <1>f, <2>1 DEF StartCommit
  <2> QED
    BY <2>1, <2>2 DEF Agreed
<1>6. ASSUME NEW b \in ReplicaId, processCommit(b) PROVE Goal
  <2>1. UNCHANGED <<cpc, opNum>>
    BY <1>6 DEF processCommit, Aborts, Dies, replicaState, clientVars
  <2>2. commitNum'[0] = commitNum[0]
    <3>1. \/ UNCHANGED commitNum
          \/ /\ commitNum' = [commitNum EXCEPT ![b] = NextCommit(b)]
             /\ repListener[b].info.commitNum > commitNum[b]
      BY <1>6 DEF processCommit, Aborts, Dies, replicaState
    <3>2. repListener[b].info.commitNum <= commitNum[0]
      BY <1>6 DEF processCommit, SafetyInv, CommitInv
    <3>3. repListener[b].info.commitNum \in Nat
      BY <1>6, <1>t DEF processCommit, TypeOK, CommitMsg, CommitInfo
    <3> QED
      BY <1>f, <3>1, <3>2, <3>3
  <2> QED
    BY <1>1, <2>1, <2>2
<1>7. ASSUME NEW r \in ReplicaId, LogPrepInfo(r) PROVE Goal
  <2>1. r # 0
    BY <1>7, <1>t DEF LogPrepInfo, LogInv, PrepAt
  <2>2. UNCHANGED <<cpc, commitNum>> /\ opNum'[0] = opNum[0]
    BY <1>7, <1>f, <2>1 DEF LogPrepInfo, Aborts, Dies, replicaState, clientVars
  <2> QED
    BY <1>1, <2>2
<1>8. ASSUME NEW r \in ReplicaId,
             \/ \E op \in ClientOp : ClientRequest(r, op)
             \/ TimedOut(r) \/ Finish(r)
      PROVE  Goal
  <2>1. UNCHANGED <<opNum, commitNum>> /\ (cpc'[0] = "reached" => cpc[0] = "reached")
    BY <1>8, <1>f DEF ClientRequest, TimedOut, Finish, ReplyToClient, replicaState
  <2> QED
    BY <1>1, <2>1
<1>9. ASSUME NEW r \in ReplicaId,
             \/ \E b \in ReplicaId : invokePrepare(r, b)
             \/ HeartBeat(r)
             \/ \E t \in {"t1", "hbt"}, b \in ReplicaId : invokeCommit(r, t, b)
             \/ PopPrepInfo(r)
             \/ \E b \in ReplicaId : invokePrepareOk(r, b)
             \/ EndPrepInfo(r)
             \/ \E t \in Caller, b \in ReplicaId : CallFails(r, t, b)
             \/ Crash(r)
      PROVE  UNCHANGED <<cpc, opNum, commitNum>>
  BY <1>9 DEF invokePrepare, HeartBeat, invokeCommit, PopPrepInfo,
              invokePrepareOk, EndPrepInfo, CallFails, Crash, Dies,
              replicaState, clientVars
<1>10. CASE UNCHANGED <<cpc, opNum, commitNum>>
  BY <1>1, <1>10
<1>11. CASE UNCHANGED vars
  BY <1>1, <1>11 DEF vars, replicaState, clientVars
<1> QED
  BY <1>2, <1>3, <1>4, <1>5, <1>6, <1>7, <1>8, <1>9, <1>10, <1>11 DEF Next

\* A commit number goes on to stand for a majority.
LEMMA StepReached ==
  QuorumInv /\ CountInv' /\ [Next]_vars => ReachedInv'
<1> SUFFICES ASSUME QuorumInv, CountInv', [Next]_vars, CountsHold',
                    NEW n \in Nat, Agreed(n)'
             PROVE  Majority(Holders(n)')
  BY DEF ReachedInv, Majority
<1>i. SafetyInv /\ CallInv /\ TypeOK'
  BY StepType DEF QuorumInv, SafetyInv, TypeInv
<1>h. CountsHold /\ resent' = 0 /\ spurious' = 0
  BY <1>i, FaultsStay DEF CountsHold
<1>s. /\ Holders(n) \in SUBSET ReplicaId /\ Holders(n)' \in SUBSET ReplicaId
      /\ Holders(n) \subseteq Holders(n)' /\ Counted(n)' \subseteq Holders(n)'
      /\ Counted(n)' \in SUBSET ReplicaId
  BY <1>i, SetsGrow
<1>c. /\ Cardinality(Holders(n)) \in Nat /\ Cardinality(Holders(n)') \in Nat
      /\ Cardinality(Counted(n)') \in Nat /\ N \div 2 + 1 \in Nat
  BY <1>s, ReplicasFinite, SizeAssumption
<1>1. CASE Agreed(n)
  <2>1. Majority(Holders(n))
    BY <1>1, <1>h DEF QuorumInv, ReachedInv
  <2>2. Cardinality(Holders(n)) <= Cardinality(Holders(n)')
    BY <1>s, CardinalityGrows
  <2> QED
    BY <1>c, <2>1, <2>2 DEF Majority
<1>2. CASE n \in OpInt /\ waitMap'[0][n] >= getMajorityCnt(peers[0])
  <2>1. waitMap'[0][n] >= N \div 2 + 1 /\ waitMap'[0][n] \in Nat
    BY <1>2, <1>i, ZeroIsReplica, MajorityOfAll DEF CallInv, TypeOK
  <2>2. waitMap'[0][n] <= Cardinality(Counted(n)')
    BY <1>2, <1>h DEF CountInv
  <2>3. Cardinality(Counted(n)') <= Cardinality(Holders(n)')
    BY <1>s, CardinalityGrows
  <2> QED
    BY <1>c, <2>1, <2>2, <2>3 DEF Majority
<1> QED
  BY <1>1, <1>2, <1>h, <1>i, AgreedStep

\* A reply says done only after the commit.
LEMMA StepReply == SafetyInv /\ ReplyInv /\ [Next]_vars => ReplyInv'
<1> SUFFICES ASSUME SafetyInv, ReplyInv, [Next]_vars PROVE ReplyInv'
  OBVIOUS
<1>t. SafetyInv /\ TypeOK /\ ReplyInv /\ LogInv /\ CommitInv /\ ViewInv
  BY DEF SafetyInv, TypeInv
<1>k. \A n, op : Logs(0, n, op) => Logs(0, n, op)'
  BY <1>t, StepKeeps, LogsStable
<1>f. /\ commitNum \in [ReplicaId -> 0 .. MaxOp]
      /\ opNum \in [ReplicaId -> 0 .. MaxOp]
      /\ 0 \in ReplicaId
      /\ \A x \in replies : x.opNum \in Nat
  BY <1>t, ZeroIsReplica DEF TypeOK, Reply, OpInt
<1>c. commitNum'[0] \in Nat /\ commitNum'[0] >= commitNum[0]
  BY <1>f, <1>t, StepType, StepCommitGrows DEF SafetyInv, TypeInv, TypeOK
<1>1. ASSUME \A x \in replies' : x \in replies \/ x.err # "NONE" PROVE ReplyInv'
  <2>1. ASSUME NEW x \in replies', x.err = "NONE"
        PROVE  x.opNum <= commitNum'[0] /\ Logs(0, x.opNum, x.op)'
    <3>1. x \in replies /\ x.opNum <= commitNum[0] /\ Logs(0, x.opNum, x.op)
      BY <1>1, <1>t, <2>1 DEF ReplyInv
    <3>2. x.opNum <= commitNum'[0]
      BY <1>c, <1>f, <3>1
    <3> QED
      BY <1>k, <3>1, <3>2
  <2> QED
    BY <2>1 DEF ReplyInv, Logs
<1>2. ASSUME NEW r \in ReplicaId, Finish(r) PROVE ReplyInv'
  <2> DEFINE y == [viewNum |-> viewNum[r], opNum |-> opNum[r], op |-> creq[r],
                   err |-> "NONE"]
  <2>1. r = 0 /\ Logs(0, opNum[0], creq[0]) /\ opNum[0] = commitNum[0]
    BY <1>2, <1>t DEF Finish, LogInv, ClientAt, CommitInv
  <2>2. replies' = replies \cup {y} /\ UNCHANGED commitNum
    BY <1>2 DEF Finish, ReplyToClient, replicaState
  <2>3. y.opNum = commitNum[0] /\ Logs(0, y.opNum, y.op)
    BY <2>1
  <2> HIDE DEF y
  <2>4. ASSUME NEW x \in replies', x.err = "NONE"
        PROVE  x.opNum <= commitNum'[0] /\ Logs(0, x.opNum, x.op)'
    <3>1. x.opNum <= commitNum[0] /\ Logs(0, x.opNum, x.op)
      BY <1>f, <1>t, <2>2, <2>3, <2>4 DEF ReplyInv
    <3> QED
      BY <1>k, <2>2, <3>1
  <2> QED
    BY <2>4 DEF ReplyInv, Logs
<1>3. ASSUME NEW r \in ReplicaId, Replicate(r) \/ TimedOut(r) PROVE ReplyInv'
  BY <1>1, <1>3 DEF Replicate, TimedOut, ReplyToClient
<1>4. ASSUME NEW r \in ReplicaId,
             \/ \E op \in ClientOp : ClientRequest(r, op)
             \/ \E b \in ReplicaId : invokePrepare(r, b)
             \/ CountSelf(r) \/ Notified(r) \/ SpuriousWakeup(r)
             \/ StartCommit(r) \/ HeartBeat(r)
             \/ \E t \in {"t1", "hbt"}, b \in ReplicaId : invokeCommit(r, t, b)
             \/ processCommit(r) \/ PopPrepInfo(r) \/ LogPrepInfo(r)
             \/ \E b \in ReplicaId : invokePrepareOk(r, b)
             \/ EndPrepInfo(r)
             \/ \E t \in Caller, b \in ReplicaId : CallFails(r, t, b)
             \/ Crash(r)
      PROVE  UNCHANGED replies
  BY <1>4 DEF ClientRequest, invokePrepare, CountSelf, Notified, SpuriousWakeup,
              StartCommit, HeartBeat, invokeCommit, processCommit, PopPrepInfo,
              LogPrepInfo, invokePrepareOk, EndPrepInfo, CallFails, Crash,
              Aborts, Dies, clientVars
<1>5. CASE UNCHANGED replies
  BY <1>1, <1>5
<1>6. CASE UNCHANGED vars
  BY <1>1, <1>6 DEF vars, clientVars
<1> QED
  BY <1>2, <1>3, <1>4, <1>5, <1>6 DEF Next

-----------------------------------------------------------------------------
(***************************************************************************)
(* The theorems.                                                           *)
(***************************************************************************)

\* Nobody has logged or counted anything, and number 0 is held by everybody.
LEMMA InitQuorum == Init => QuorumInv
<1> SUFFICES ASSUME Init PROVE QuorumInv
  OBVIOUS
<1>1. SafetyInv
  BY InitSafety
<1>2. CallInv
  BY DEF Init, CallInv, Caller
<1>3. CountInv
  <2>1. ASSUME NEW n \in OpInt PROVE waitMap[0][n] <= Cardinality(Counted(n))
    <3>1. Counted(n) \in SUBSET ReplicaId
      BY DEF Counted, Holders
    <3>2. waitMap[0][n] = 0 /\ Cardinality(Counted(n)) \in Nat
      BY <3>1, ZeroIsReplica, ReplicasFinite DEF Init
    <3> QED
      BY <3>2
  <2> QED
    BY <2>1 DEF CountInv
<1>4. ReachedInv
  <2>1. \A n \in Nat : Agreed(n) => n = 0
    BY ZeroIsReplica DEF Init, Agreed
  <2>2. Holders(0) = ReplicaId
    BY DEF Init, Holders
  <2>3. Majority(ReplicaId)
    BY ReplicasFinite, SizeAssumption DEF Majority
  <2> QED
    BY <2>1, <2>2, <2>3 DEF ReachedInv
<1>5. ReplyInv
  BY DEF Init, ReplyInv
<1> QED
  BY <1>1, <1>2, <1>3, <1>4, <1>5 DEF QuorumInv

\* The invariant of the counts holds in every state.
LEMMA QuorumInvariant == Spec => []QuorumInv
<1>1. QuorumInv /\ [Next]_vars => QuorumInv'
  <2> SUFFICES ASSUME QuorumInv, [Next]_vars PROVE QuorumInv'
    OBVIOUS
  <2>1. SafetyInv'
    BY StepSafety DEF QuorumInv
  <2>2. CallInv' /\ CountInv'
    BY StepCall, StepCount DEF QuorumInv
  <2>3. ReachedInv' /\ ReplyInv'
    BY <2>2, StepReached, StepReply DEF QuorumInv
  <2> QED
    BY <2>1, <2>2, <2>3 DEF QuorumInv
<1> QED
  BY <1>1, InitQuorum, PTL DEF Spec

\* What a replica has logged and how far, as the logs have no gap.
LEMMA HoldersLog ==
  ASSUME SafetyInv, NEW s \in ReplicaId, NEW n \in OpInt, n <= opNum[s]
  PROVE  hasEntry(opLog[s], n) /\ Logs(0, n, opLog[s].entries[n].op)
<1>1. n \in DOMAIN opLog[s].entries
  BY DEF SafetyInv, TypeInv, TypeOK, LogInv, LogAt, OpInt
<1> QED
  BY <1>1 DEF SafetyInv, LogInv, LogAt, hasEntry

\* replicate() raises the commit number over an operation only when a majority
\* of the replicas has it in its log, whatever calls fail or waits time out,
\* as long as no call is repeated and no wait woken for nothing.
THEOREM CommitsHaveQuorum == Spec => []QuorumLogged
<1>1. ASSUME QuorumInv, CountsHold, NEW r \in ReplicaId, NEW n \in 1 .. commitNum[r]
      PROVE  Cardinality({s \in ReplicaId : hasEntry(opLog[s], n)}) >= N \div 2 + 1
  <2>0. /\ opNum \in [ReplicaId -> 0 .. MaxOp] /\ commitNum \in [ReplicaId -> 0 .. MaxOp]
        /\ commitNum[r] <= commitNum[0] /\ SafetyInv
    BY <1>1 DEF QuorumInv, SafetyInv, CommitInv, TypeInv, TypeOK
  <2>1. /\ n \in OpInt /\ n <= commitNum[0]
        /\ commitNum[0] \in Nat
    BY <2>0, ZeroIsReplica, BoundAssumption DEF OpInt
  <2> DEFINE H == Holders(commitNum[0])
             L == {s \in ReplicaId : hasEntry(opLog[s], n)}
  <2>2. \A s \in H : hasEntry(opLog[s], n)
    <3>1. ASSUME NEW s \in H PROVE hasEntry(opLog[s], n)
      <4>1. s \in ReplicaId /\ n <= opNum[s]
        BY <2>0, <2>1 DEF Holders
      <4> QED
        BY <2>0, <2>1, <4>1, HoldersLog
    <3> QED
      BY <3>1
  <2>3. H \in SUBSET ReplicaId /\ L \in SUBSET ReplicaId /\ H \subseteq L
    BY <2>2 DEF Holders
  <2>4. Cardinality(H) >= N \div 2 + 1
    BY <1>1, <2>1 DEF QuorumInv, ReachedInv, Agreed, Majority
  <2> HIDE DEF H, L
  <2>5. /\ Cardinality(H) <= Cardinality(L)
        /\ Cardinality(H) \in Nat /\ Cardinality(L) \in Nat
        /\ N \div 2 + 1 \in Nat
    BY <2>3, CardinalityGrows, ReplicasFinite, SizeAssumption
  <2>6. Cardinality(L) >= N \div 2 + 1
    BY <2>4, <2>5
  <2> QED
    BY <2>6 DEF L
<1>2. QuorumInv => QuorumLogged
  BY <1>1 DEF QuorumLogged
<1> QED
  BY <1>2, QuorumInvariant, PTL

\* A client told that its operation is done can rely on it: while at most a
\* minority of the processes has ended, one of the others has it in its log.
THEOREM AcksSurvive == Spec => []AckedSurvives
<1>1. ASSUME QuorumInv, CountsHold,
             Cardinality({s \in ReplicaId : ~Up(s)}) <= (N - 1) \div 2,
             NEW x \in replies, x.err = "NONE"
      PROVE  \E s \in ReplicaId : Up(s) /\ Logs(s, x.opNum, x.op)
  <2>0. /\ opNum \in [ReplicaId -> 0 .. MaxOp] /\ commitNum \in [ReplicaId -> 0 .. MaxOp]
        /\ SafetyInv /\ x.opNum \in OpInt
        /\ x.opNum <= commitNum[0] /\ Logs(0, x.opNum, x.op)
    BY <1>1 DEF QuorumInv, SafetyInv, TypeInv, TypeOK, Reply, ReplyInv
  <2> DEFINE H == Holders(commitNum[0])
             D == {s \in ReplicaId : ~Up(s)}
  <2>1. H \in SUBSET ReplicaId /\ D \in SUBSET ReplicaId
    BY DEF Holders
  <2>2. Cardinality(H) >= N \div 2 + 1 /\ Cardinality(D) <= (N - 1) \div 2
    BY <1>1, <2>0, ZeroIsReplica DEF QuorumInv, ReachedInv, Agreed, Majority
  <2>3. ~(H \subseteq D)
    <3> HIDE DEF H, D
    <3> SUFFICES ASSUME H \subseteq D PROVE FALSE
      OBVIOUS
    <3>1. /\ Cardinality(H) <= Cardinality(D)
          /\ Cardinality(H) \in Nat /\ Cardinality(D) \in Nat
      BY <2>1, CardinalityGrows, ReplicasFinite
    <3>2. (N - 1) \div 2 < N \div 2 + 1 /\ N \in Nat
      BY SizeAssumption
    <3> QED
      BY <2>2, <3>1, <3>2
  <2>4. PICK s \in ReplicaId : Up(s) /\ commitNum[0] <= opNum[s]
    BY <2>3 DEF Holders
  <2>5. x.opNum <= opNum[s]
    BY <2>0, <2>4, ZeroIsReplica DEF OpInt
  <2>6. hasEntry(opLog[s], x.opNum) /\ Logs(0, x.opNum, opLog[s].entries[x.opNum].op)
    BY <2>0, <2>5, HoldersLog
  <2> QED
    BY <2>0, <2>4, <2>6 DEF Logs
<1>2. QuorumInv => AckedSurvives
  BY <1>1 DEF AckedSurvives
<1> QED
  BY <1>2, QuorumInvariant, PTL
=============================================================================
