--------------------------- MODULE RecoveryProofs ---------------------------
(***************************************************************************)
(* Proofs about restart and recovery composed with replication, as long as *)
(* no replica begins a view change: for every number of replicas, restarts *)
(* of backups, operations and faults.                                      *)
(*                                                                         *)
(* A backup that is started again has lost its log, and with it what the   *)
(* primary counted it for.  The argument: if no two of its recoveries have *)
(* the same nonce, the responses to its current one were made after it     *)
(* began, by a primary that had numbered everything the lost log held.     *)
(* Until it adopts one of them the replica is in Lost(n), and from then on *)
(* in Holders(n), so that the two together never lose a replica.           *)
(***************************************************************************)
EXTENDS RecoveryHandler, VsReplicatorProofs, WellFoundedInduction

\* Backups are started again, and their configuration files say "Recovering".
Rejoins ==
  0 \notin Restarting /\ \A r \in Restarting : Input(r).recovering = {TRUE}

\* No replica is inside changeView.
NoViewChange == \A r \in ReplicaId : vpc[r] = "none"

RecoveryRequest == [replicaId : ReplicaId, nonce : Nonce]
RecoveryResponse ==
  [to : ReplicaId, replicaId : ReplicaId, nonce : Nonce, viewNum : {0},
   isPrimary : BOOLEAN, opLog : Seq(LogEntry), opNum : 0 .. MaxOp,
   commitNum : 0 .. MaxOp]

RcTypeInv ==
  /\ DOMAIN vpc = ReplicaId
  /\ rcpc \in [ReplicaId -> {"none", "request", "wait"}]
  /\ recoveryReqQ \in [ReplicaId -> Seq(RecoveryRequest)]
  /\ prrt \in [ReplicaId -> {"idle", "popped", "respond", "ended"}]
  /\ inHand \in [ReplicaId -> RecoveryRequest \cup RecoveryResponse \cup {Nil}]
  /\ recoveryResps \in [ReplicaId -> Seq(RecoveryResponse)]
  /\ nonces \in [ReplicaId -> Seq(Nonce)]
  /\ \A r \in ReplicaId :
       /\ prrt[r] = "popped" => inHand[r] \in RecoveryRequest
       /\ prrt[r] = "respond" => inHand[r] \in RecoveryResponse

\* No StartView has been sent.
NoStartView ==
  /\ DOMAIN viewStartInfoMap = ReplicaId
  /\ \A r \in ReplicaId : \A v \in View : viewStartInfoMap[r][v] = Nil

\* A replica that recovers has logged and queued nothing, and recover() runs in
\* nobody else, and has a nonce.
RecoveringInv ==
  \A r \in ReplicaId :
    /\ rcpc[r] # "none" => status[r] = "RECOVERING" /\ nonces[r] # <<>>
    /\ status[r] = "RECOVERING" =>
         opNum[r] = 0 /\ prepReqQ[r] = <<>> /\ ppc[r] = "idle"

\* The vector of a log names its numbers in order, once each.
OrderInv ==
  \A r \in ReplicaId :
    /\ Len(opLog[r].opNums) = opNum[r]
    /\ \A i \in 1 .. opNum[r] : opLog[r].opNums[i] = i
    /\ \A n \in DOMAIN opLog[r].entries : opLog[r].entries[n].opNum = n

\* The nonces of replica s so far.
Used(s) == {nonces[s][i] : i \in 1 .. Len(nonces[s])}

\* A request was made by a recovery that has begun.
RequestOk(q) == q.nonce \in Used(q.replicaId)

\* A response carries the log of the primary as it was at some time after the
\* recovery it answers began, or nothing.
ResponseOk(x) ==
  /\ x.nonce \in Used(x.to)
  /\ x.isPrimary =>
       /\ x.replicaId = 0
       /\ x.opNum <= opNum[0]
       /\ x.commitNum <= x.opNum /\ x.commitNum <= commitNum[0]
       /\ Len(x.opLog) = x.opNum
       /\ \A i \in 1 .. x.opNum :
            x.opLog[i].opNum = i /\ Logs(0, i, x.opLog[i].op)

Received(s) == {recoveryResps[s][i] : i \in 1 .. Len(recoveryResps[s])}
OnItsWay(s) ==
  {inHand[r] : r \in {b \in ReplicaId : prrt[b] = "respond" /\ inHand[b].to = s}}

MessageInv ==
  \A r \in ReplicaId :
    /\ \A i \in 1 .. Len(recoveryReqQ[r]) : RequestOk(recoveryReqQ[r][i])
    /\ prrt[r] = "popped" => RequestOk(inHand[r])
    /\ prrt[r] = "respond" => ResponseOk(inHand[r])
    /\ \A i \in 1 .. Len(recoveryResps[r]) :
         recoveryResps[r][i].to = r /\ ResponseOk(recoveryResps[r][i])

\* Replica s is recovering, and will adopt a log that has n.
Covers(x, s, n) ==
  rcpc[s] # "none" /\ x.isPrimary /\ x.nonce = nonce(s) => n <= x.opNum
WillHold(s, n) == \A x \in Received(s) \cup OnItsWay(s) : Covers(x, s, n)
Lost(n) ==
  {s \in ReplicaId : status[s] = "RECOVERING" /\ n <= opNum[0] /\ WillHold(s, n)}

RcCountInv ==
  resent = 0 /\ DistinctNonces =>
    \A n \in OpInt : waitMap[0][n] <= Cardinality(Counted(n) \cup Lost(n))

RcReachedInv ==
  CountsHold /\ DistinctNonces =>
    \A n \in 0 .. MaxOp : Agreed(n) => Majority(Holders(n) \cup Lost(n))

BaseInv == SafetyInv /\ CallInv /\ ReplyInv
MemoryInv == RcTypeInv /\ NoStartView /\ RecoveringInv /\ OrderInv /\ MessageInv
RcInv == BaseInv /\ MemoryInv /\ RcCountInv /\ RcReachedInv

-----------------------------------------------------------------------------
(***************************************************************************)
(* Replaying a log.                                                        *)
(***************************************************************************)
\* A nonempty set of natural numbers has a least element.
LEMMA LeastElement ==
  ASSUME NEW T \in SUBSET Nat, T # {}
  PROVE  \E m \in T : \A n \in T : m <= n
<1>1. IsWellFoundedOn(OpToRel(<, Nat), Nat)
  BY NatLessThanWellFounded
<1>2. \E m \in T : \A n \in T : ~ (<<n, m>> \in OpToRel(<, Nat))
  BY <1>1, WFMin
<1>3. \E m \in T : \A n \in T : ~ (n < m)
  BY <1>2 DEF OpToRel
<1>4. ASSUME NEW m \in T, \A n \in T : ~ (n < m) PROVE \A n \in T : m <= n
  BY <1>4
<1> QED
  BY <1>3, <1>4

\* What every step of a replay keeps holds all along.
LEMMA ReplayStays ==
  ASSUME NEW m \in Nat, NEW S, NEW f, f[0] \in S,
         \A i \in 1 .. m : f[i - 1] \in S => f[i] \in S
  PROVE  \A i \in 0 .. m : f[i] \in S
<1> DEFINE T == {i \in 0 .. m : f[i] \notin S}
<1>1. SUFFICES ASSUME T # {} PROVE FALSE
  OBVIOUS
<1>2. T \in SUBSET Nat
  OBVIOUS
<1>3. PICK i \in T : \A j \in T : i <= j
  BY <1>1, <1>2, LeastElement
<1>4. i \in 1 .. m /\ i - 1 \in 0 .. m /\ i - 1 \notin T
  BY <1>3
<1> QED
  BY <1>3, <1>4

\* A function that is defined by its value at 0 and a step exists.
LEMMA ReplayExists ==
  ASSUME NEW m \in Nat, NEW k \in KvMap,
         NEW G \in [1 .. m -> [KvMap -> KvMap]]
  PROVE  \E f \in [0 .. m -> KvMap] :
           f[0] = k /\ \A i \in 1 .. m : f[i] = G[i][f[i - 1]]
<1> DEFINE Replays(f, n) ==
             /\ f \in [0 .. n -> KvMap]
             /\ f[0] = k /\ \A i \in 1 .. n : f[i] = G[i][f[i - 1]]
           T == {n \in 0 .. m : ~ \E f : Replays(f, n)}
<1>1. SUFFICES ASSUME m \in T PROVE FALSE
  <2>1. m \in 0 .. m
    OBVIOUS
  <2>2. m \notin T
    OBVIOUS
  <2>3. PICK f : Replays(f, m)
    BY <2>1, <2>2
  <2> QED
    BY <2>3
<1>2. T \in SUBSET Nat
  OBVIOUS
<1>3. PICK n \in T : \A j \in T : n <= j
  BY <1>1, <1>2, LeastElement
<1>4. CASE n = 0
  <2>1. Replays([i \in 0 .. 0 |-> k], 0)
    OBVIOUS
  <2> QED
    BY <1>3, <1>4, <2>1
<1>5. CASE n # 0
  <2>0. n \in 0 .. m
    BY <1>3
  <2>a. n \in 1 .. m /\ n - 1 \in 0 .. m /\ ~(n <= n - 1)
    BY <1>5, <2>0
  <2>1. n \in 1 .. m /\ n - 1 \in 0 .. m /\ n - 1 \notin T
    <3> HIDE DEF T
    <3> QED
      BY <1>3, <2>a
  <2>2. PICK f : Replays(f, n - 1)
    BY <2>1
  <2>3. f[n - 1] \in KvMap /\ G[n] \in [KvMap -> KvMap]
    BY <2>1, <2>2
  <2> DEFINE g == [i \in 0 .. n |-> IF i = n THEN G[n][f[n - 1]] ELSE f[i]]
  <2>4. g \in [0 .. n -> KvMap]
    BY <2>1, <2>2, <2>3
  <2>5. \A i \in 0 .. n - 1 : g[i] = f[i]
    BY <2>1
  <2>6. g[n] = G[n][f[n - 1]]
    BY <2>1
  <2> HIDE DEF g
  <2>7. g[0] = k
    BY <2>1, <2>2, <2>5
  <2>8. ASSUME NEW i \in 1 .. n PROVE g[i] = G[i][g[i - 1]]
    <3>1. CASE i = n
      BY <2>1, <2>5, <2>6, <3>1
    <3>2. CASE i # n
      <4>1. i \in 1 .. n - 1 /\ i - 1 \in 0 .. n - 1 /\ i \in 0 .. n - 1
        BY <2>1, <3>2
      <4> QED
        BY <2>2, <2>5, <4>1
    <3> QED
      BY <3>1, <3>2
  <2>9. Replays(g, n)
    BY <2>4, <2>7, <2>8
  <2> QED
    BY <1>3, <2>9
<1> QED
  BY <1>4, <1>5

\* recoverStateFromLog makes a map of a map.
LEMMA RecoveredType ==
  ASSUME NEW kv \in KvMap, NEW log \in Seq(LogEntry)
  PROVE  recoverStateFromLog(kv, log) \in KvMap
<1> DEFINE
      G(x, i) == IF log[i].committed THEN applyOp(x, log[i].op) ELSE x
      Replays(f) == f = [i \in 0 .. Len(log) |-> IF i = 0 THEN kv ELSE G(f[i - 1], i)]
      H == [i \in 1 .. Len(log) |-> [x \in KvMap |-> G(x, i)]]
      replay == CHOOSE f : Replays(f)
<1>0. Len(log) \in Nat /\ \A i \in 1 .. Len(log) : log[i] \in LogEntry
  OBVIOUS
<1>1. Len(log) \in Nat /\ \A i \in 1 .. Len(log) : log[i].op \in ClientOp
  BY <1>0 DEF LogEntry
<1>2. \A i \in 1 .. Len(log) : \A x \in KvMap : G(x, i) \in KvMap
  BY <1>1, ApplyType
<1> HIDE DEF G
<1>3. H \in [1 .. Len(log) -> [KvMap -> KvMap]]
  BY <1>2
<1>4. PICK f \in [0 .. Len(log) -> KvMap] :
        f[0] = kv /\ \A i \in 1 .. Len(log) : f[i] = H[i][f[i - 1]]
  <2> HIDE DEF H
  <2> QED
    BY <1>0, <1>3, ReplayExists, Zenon
<1>5. \A i \in 0 .. Len(log) : f[i] = IF i = 0 THEN kv ELSE G(f[i - 1], i)
  <2>1. TAKE i \in 0 .. Len(log)
  <2>2. CASE i # 0
    <3>1. i \in 1 .. Len(log) /\ i - 1 \in 0 .. Len(log)
      BY <1>1, <2>2
    <3>2. f[i] = H[i][f[i - 1]] /\ f[i - 1] \in KvMap
      BY <1>4, <3>1
    <3> QED
      BY <2>2, <3>1, <3>2
  <2> QED
    BY <1>4, <2>2
<1>6. Replays(f)
  BY <1>4, <1>5
<1>7. Replays(replay)
  BY <1>6
<1>8. recoverStateFromLog(kv, log) = replay[Len(log)]
  BY DEF recoverStateFromLog, G
<1> HIDE DEF replay
<1>9. /\ replay[0] = kv
      /\ \A i \in 1 .. Len(log) : replay[i] = G(replay[i - 1], i)
  BY <1>1, <1>7
<1>10. \A i \in 1 .. Len(log) : replay[i - 1] \in KvMap => replay[i] \in KvMap
  BY <1>2, <1>9
<1>11. \A i \in 0 .. Len(log) : replay[i] \in KvMap
  BY <1>1, <1>9, <1>10, ReplayStays
<1> QED
  BY <1>1, <1>8, <1>11

\* The map every replica starts with.
LEMMA InitKvType == InitKv \in KvMap
<1> DEFINE
      G(x, i) == applyOp(x, Committed[i])
      Replays(f) ==
        f = [n \in 0 .. Len(Committed) |-> IF n = 0 THEN EmptyKv ELSE G(f[n - 1], n)]
      H == [i \in 1 .. Len(Committed) |-> [x \in KvMap |-> G(x, i)]]
      replay == CHOOSE f : Replays(f)
<1>0. Len(Committed) \in Nat /\ EmptyKv \in KvMap
  BY ViewAssumption DEF EmptyKv, KvMap
<1>1. \A i \in 1 .. Len(Committed) : Committed[i] \in ClientOp
  BY ViewAssumption
<1>2. \A i \in 1 .. Len(Committed) : \A x \in KvMap : G(x, i) \in KvMap
  BY <1>1, ApplyType
<1> HIDE DEF G
<1>3. H \in [1 .. Len(Committed) -> [KvMap -> KvMap]]
  BY <1>2
<1>4. PICK f \in [0 .. Len(Committed) -> KvMap] :
        f[0] = EmptyKv /\ \A i \in 1 .. Len(Committed) : f[i] = H[i][f[i - 1]]
  <2> HIDE DEF H
  <2> QED
    BY <1>0, <1>3, ReplayExists, Zenon
<1>5. \A i \in 0 .. Len(Committed) : f[i] = IF i = 0 THEN EmptyKv ELSE G(f[i - 1], i)
  <2>1. TAKE i \in 0 .. Len(Committed)
  <2>2. CASE i # 0
    <3>1. i \in 1 .. Len(Committed) /\ i - 1 \in 0 .. Len(Committed)
      BY <1>0, <2>2
    <3>2. f[i] = H[i][f[i - 1]] /\ f[i - 1] \in KvMap
      BY <1>4, <3>1
    <3> QED
      BY <2>2, <3>1, <3>2
  <2> QED
    BY <1>4, <2>2
<1>6. Replays(f)
  BY <1>4, <1>5
<1>7. Replays(replay)
  BY <1>6
<1>8. InitKv = replay[Len(Committed)]
  BY DEF InitKv, G
<1> HIDE DEF replay
<1>9. /\ replay[0] = EmptyKv
      /\ \A i \in 1 .. Len(Committed) : replay[i] = G(replay[i - 1], i)
  BY <1>0, <1>7
<1>10. \A i \in 1 .. Len(Committed) : replay[i - 1] \in KvMap => replay[i] \in KvMap
  BY <1>2, <1>9
<1>11. \A i \in 0 .. Len(Committed) : replay[i] \in KvMap
  BY <1>0, <1>9, <1>10, ReplayStays
<1> QED
  BY <1>0, <1>8, <1>11

-----------------------------------------------------------------------------
(***************************************************************************)
(* The initial state, and the logs that are sent.                          *)
(***************************************************************************)
\* The log every replica starts with.
LEMMA InitLogType ==
  /\ InitLog \in OpLog /\ Len(Committed) \in 0 .. MaxOp
  /\ DOMAIN InitLog.entries = 1 .. Len(Committed)
  /\ Len(InitLog.opNums) = Len(Committed)
  /\ \A n \in 1 .. Len(Committed) :
       /\ InitLog.opNums[n] = n
       /\ InitLog.entries[n].opNum = n /\ InitLog.entries[n].op = Committed[n]
<1> DEFINE m == Len(Committed)
           e(n) == [op |-> Committed[n], opNum |-> n, committed |-> TRUE]
           f == [n \in 1 .. m |-> e(n)]
           v == [n \in 1 .. m |-> n]
<1>1. m \in 0 .. MaxOp /\ 1 .. m \in SUBSET OpInt
  BY ViewAssumption, BoundAssumption DEF OpInt
<1>2. \A n \in 1 .. m : Committed[n] \in ClientOp
  BY ViewAssumption
<1>3. \A n \in 1 .. m : e(n) \in LogEntry /\ e(n).opNum = n /\ e(n).op = Committed[n]
  BY <1>1, <1>2 DEF LogEntry
<1>4. InitLog = [opNums |-> v, entries |-> f]
  BY DEF InitLog
<1> HIDE DEF e
<1>5. f \in [1 .. m -> LogEntry] /\ DOMAIN f = 1 .. m /\ \A n \in 1 .. m : f[n] = e(n)
  BY <1>3
<1>6. v \in Seq(OpInt) /\ Len(v) = m /\ \A n \in 1 .. m : v[n] = n
  BY <1>1
<1> HIDE DEF f, v, m
<1>7. InitLog \in OpLog
  BY <1>1, <1>4, <1>5, <1>6, OpLogMembership
<1>8. InitLog.entries = f /\ InitLog.opNums = v
  BY <1>4
<1> QED
  BY <1>1, <1>3, <1>5, <1>6, <1>7, <1>8 DEF m

\* The log that setLog() makes of the entries of a response is that response.
LEMMA SetLogGives ==
  ASSUME NEW vec \in Seq(LogEntry), \A i \in 1 .. Len(vec) : vec[i].opNum = i
  PROVE  /\ setLog(vec) \in OpLog
         /\ DOMAIN setLog(vec).entries = 1 .. Len(vec)
         /\ Len(setLog(vec).opNums) = Len(vec)
         /\ \A n \in 1 .. Len(vec) :
              setLog(vec).opNums[n] = n /\ setLog(vec).entries[n] = vec[n]
<1> DEFINE m == Len(vec)
           v == [i \in 1 .. m |-> vec[i].opNum]
           D == {v[i] : i \in 1 .. m}
           At(n) == CHOOSE i \in 1 .. m : v[i] = n /\ \A j \in i + 1 .. m : v[j] # n
           f == [n \in D |-> vec[At(n)]]
<1>1. m \in Nat /\ \A i \in 1 .. m : vec[i] \in LogEntry
  OBVIOUS
<1>2. 1 .. m \in SUBSET OpInt
  BY <1>1 DEF LogEntry
<1>3. v \in Seq(OpInt) /\ Len(v) = m /\ \A i \in 1 .. m : v[i] = i
  BY <1>1, <1>2
<1>4. D = 1 .. m
  BY <1>3
<1>5. setLog(vec) = [opNums |-> v, entries |-> f]
  BY DEF setLog
<1> HIDE DEF v, D
<1>6. ASSUME NEW n \in 1 .. m PROVE At(n) = n
  <2>1. n \in 1 .. m /\ v[n] = n /\ \A j \in n + 1 .. m : v[j] # n
    BY <1>1, <1>3, <1>6
  <2>2. At(n) \in 1 .. m /\ v[At(n)] = n
    BY <2>1
  <2> QED
    BY <1>3, <2>2
<1> HIDE DEF At
<1>7. DOMAIN f = 1 .. m /\ \A n \in 1 .. m : f[n] = vec[n]
  BY <1>4, <1>6
<1>8. f \in [1 .. m -> LogEntry]
  BY <1>1, <1>4, <1>7
<1> HIDE DEF f, m
<1>9. setLog(vec) \in OpLog
  <2>1. [opNums |-> v, entries |-> f] \in OpLog
    BY <1>2, <1>3, <1>8, OpLogMembership, Zenon
  <2> QED
    BY <1>5, <2>1
<1>10. setLog(vec).entries = f /\ setLog(vec).opNums = v
  BY <1>5
<1> QED
  BY <1>3, <1>7, <1>9, <1>10 DEF m

\* What getLog() of the primary returns.
LEMMA GetLogGives ==
  ASSUME SafetyInv, OrderInv
  PROVE  LET vec == getLog(opLog[0])
         IN  /\ vec \in Seq(LogEntry) /\ Len(vec) = opNum[0]
             /\ \A i \in 1 .. opNum[0] :
                  vec[i].opNum = i /\ Logs(0, i, vec[i].op)
<1> DEFINE vec == getLog(opLog[0])
           v == opLog[0].opNums
           f == opLog[0].entries
<1>1. /\ opNum[0] \in Nat /\ opLog[0] \in OpLog
      /\ DOMAIN f = 1 .. opNum[0]
      /\ \A n \in DOMAIN f : Logs(0, n, f[n].op)
  BY ZeroIsReplica DEF SafetyInv, TypeInv, TypeOK, LogInv, LogAt
<1>2. f \in [DOMAIN f -> LogEntry]
  BY <1>1, OpLogParts
<1>3. /\ Len(v) = opNum[0]
      /\ \A i \in 1 .. opNum[0] : v[i] = i /\ f[i].opNum = i
  BY <1>1, ZeroIsReplica DEF OrderInv
<1>4. vec = [i \in 1 .. Len(v) |-> f[v[i]]]
  BY DEF getLog
<1> HIDE DEF vec, v, f
<1>5. \A i \in 1 .. opNum[0] : f[v[i]] = f[i] /\ f[i] \in LogEntry
  BY <1>1, <1>2, <1>3
<1>6. vec = [i \in 1 .. opNum[0] |-> f[v[i]]]
  BY <1>3, <1>4
<1>7. vec \in Seq(LogEntry) /\ Len(vec) = opNum[0]
  BY <1>1, <1>5, <1>6
<1>8. \A i \in 1 .. opNum[0] : vec[i] = f[i]
  BY <1>5, <1>6
<1>9. \A i \in 1 .. opNum[0] : vec[i].opNum = i /\ Logs(0, i, vec[i].op)
  BY <1>1, <1>3, <1>8
<1> QED
  BY <1>7, <1>9 DEF vec

\* Everybody has applied the same operations, and nobody has started again.
LEMMA RcInitInv == RcInit => RcInv
<1> SUFFICES ASSUME RcInit PROVE RcInv
  OBVIOUS
<1> DEFINE m == Len(Committed)
<1>1. /\ InitCommitted
      /\ m \in 0 .. MaxOp /\ m \in Nat /\ 0 \in ReplicaId
      /\ \A n \in 1 .. m : n \in OpInt /\ Committed[n] \in ClientOp
  BY InitLogType, ViewAssumption, BoundAssumption, ZeroIsReplica
  DEF RcInit, VcInit, OpInt
<1>2. /\ opLog = [r \in ReplicaId |-> InitLog]
      /\ opNum = [r \in ReplicaId |-> m] /\ commitNum = [r \in ReplicaId |-> m]
      /\ kvMap = [r \in ReplicaId |-> InitKv]
      /\ cpc = [r \in ReplicaId |-> "idle"] /\ ppc = [r \in ReplicaId |-> "idle"]
      /\ prepReqQ = [r \in ReplicaId |-> <<>>]
      /\ todo = [r \in ReplicaId |-> [t \in Caller |-> {}]]
      /\ peers = [r \in ReplicaId |-> OtherReplicas(r)]
      /\ waitMap = [r \in ReplicaId |-> [n \in OpInt |-> 0]]
      /\ replies = {[viewNum |-> 0, opNum |-> n, op |-> Committed[n],
                     err |-> "NONE"] : n \in 1 .. m}
      /\ hbInfo = [r \in ReplicaId |-> [viewNum |-> 0, commitNum |-> m]]
      /\ repListener = [r \in ReplicaId |-> Nil]
      /\ proc = [r \in ReplicaId |-> "up"]
      /\ priId = [r \in ReplicaId |-> 0] /\ viewNum = [r \in ReplicaId |-> 0]
      /\ status = [r \in ReplicaId |-> "NORMAL"]
  BY <1>1 DEF InitCommitted
<1>3. /\ InitLog \in OpLog /\ DOMAIN InitLog.entries = 1 .. m
      /\ Len(InitLog.opNums) = m
      /\ \A n \in 1 .. m :
           /\ InitLog.opNums[n] = n
           /\ InitLog.entries[n].opNum = n /\ InitLog.entries[n].op = Committed[n]
  BY InitLogType
<1> HIDE DEF m
<1>4. TypeOK
  <2>1. [viewNum |-> 0, commitNum |-> m] \in CommitInfo
    BY <1>1 DEF CommitInfo
  <2>2. replies \in SUBSET Reply
    BY <1>1, <1>2 DEF Reply, Error
  <2>3. /\ waitMap \in [ReplicaId -> [OpInt -> Nat]]
        /\ todo \in [ReplicaId -> [Caller -> SUBSET ReplicaId]]
        /\ peers \in [ReplicaId -> SUBSET ReplicaId]
    BY <1>2 DEF OtherReplicas
  <2>4. /\ opLog \in [ReplicaId -> OpLog] /\ kvMap \in [ReplicaId -> KvMap]
        /\ opNum \in [ReplicaId -> 0 .. MaxOp]
        /\ commitNum \in [ReplicaId -> 0 .. MaxOp]
        /\ hbInfo \in [ReplicaId -> CommitInfo]
    BY <1>1, <1>2, <1>3, <2>1, InitKvType
  <2> QED
    BY <1>1, <1>2, <2>2, <2>3, <2>4
    DEF InitCommitted, TypeOK, Status, ProcState
<1>5. ThreadInv /\ ViewInv /\ CallInv
  BY <1>2 DEF ThreadInv, ViewInv, CallInv, Caller
<1>6. LogInv
  BY <1>1, <1>2, <1>3 DEF LogInv, LogAt, ClientAt, PrepAt, Logs, hasEntry
<1>7. CommitInv
  BY <1>1, <1>2 DEF CommitInv
<1>8. ReplyInv
  BY <1>1, <1>2, <1>3 DEF ReplyInv, Logs, hasEntry
<1>9. BaseInv
  BY <1>4, <1>5, <1>6, <1>7, <1>8 DEF BaseInv, SafetyInv, TypeInv
<1>10. MemoryInv
  <2>1. RcTypeInv
    <3>1. /\ DOMAIN vpc = ReplicaId
          /\ rcpc \in [ReplicaId -> {"none", "request", "wait"}]
          /\ prrt \in [ReplicaId -> {"idle", "popped", "respond", "ended"}]
          /\ inHand \in [ReplicaId -> {Nil}]
          /\ \A r \in ReplicaId : prrt[r] = "idle"
      BY DEF RcInit, VcInit
    <3>2. /\ recoveryReqQ \in [ReplicaId -> Seq(RecoveryRequest)]
          /\ recoveryResps \in [ReplicaId -> Seq(RecoveryResponse)]
          /\ nonces \in [ReplicaId -> Seq(Nonce)]
      <4>1. /\ <<>> \in Seq(RecoveryRequest) /\ <<>> \in Seq(RecoveryResponse)
            /\ <<>> \in Seq(Nonce)
        OBVIOUS
      <4> QED
        BY <4>1 DEF RcInit
    <3> QED
      BY <3>1, <3>2 DEF RcTypeInv
  <2>2. NoStartView /\ RecoveringInv /\ MessageInv
    BY <1>2 DEF RcInit, VcInit, NoStartView, RecoveringInv, MessageInv
  <2>3. OrderInv
    BY <1>2, <1>3 DEF OrderInv
  <2> QED
    BY <2>1, <2>2, <2>3 DEF MemoryInv
<1>11. RcCountInv
  <2>1. ASSUME NEW n \in OpInt
        PROVE  waitMap[0][n] <= Cardinality(Counted(n) \cup Lost(n))
    <3>1. Counted(n) \cup Lost(n) \in SUBSET ReplicaId
      BY DEF Counted, Holders, Lost
    <3> QED
      BY <1>1, <1>2, <3>1, ReplicasFinite
  <2> QED
    BY <2>1 DEF RcCountInv
<1>12. RcReachedInv
  <2>1. ASSUME NEW n \in 0 .. MaxOp, Agreed(n)
        PROVE  Majority(Holders(n) \cup Lost(n))
    <3>1. n = m
      BY <1>1, <1>2, <2>1 DEF Agreed
    <3>2. Holders(n) \cup Lost(n) = ReplicaId
      BY <1>1, <1>2, <3>1 DEF Holders, Lost
    <3> QED
      BY <3>2, ReplicasFinite, SizeAssumption DEF Majority
  <2> QED
    BY <2>1 DEF RcReachedInv
<1> QED
  BY <1>9, <1>10, <1>11, <1>12 DEF RcInv

-----------------------------------------------------------------------------
(***************************************************************************)
(* Steps of replication.                                                   *)
(***************************************************************************)
\* A replica that recovers logs nothing, and nothing is queued for it.
LEMMA StepIdle ==
  ASSUME SafetyInv, [Next]_vars, NEW s \in ReplicaId, status[s] = "RECOVERING",
         prepReqQ[s] = <<>>, ppc[s] = "idle"
  PROVE  prepReqQ'[s] = <<>> /\ ppc'[s] = "idle" /\ opNum'[s] = opNum[s]
<1>t. /\ TypeOK /\ ViewInv
      /\ prepReqQ \in [ReplicaId -> Seq(PrepInfo)]
      /\ ppc \in [ReplicaId -> {"idle", "checked", "logged"}]
      /\ opNum \in [ReplicaId -> 0 .. MaxOp]
  BY DEF SafetyInv, TypeInv, TypeOK
<1>0. s # 0 /\ status[s] # "NORMAL"
  BY <1>t DEF ViewInv
<1>1. ASSUME NEW r \in ReplicaId, Replicate(r)
      PROVE  UNCHANGED <<prepReqQ, ppc>> /\ opNum'[s] = opNum[s]
  <2>1. r = 0
    BY <1>1, <1>t DEF Replicate, ViewInv, isPrimary
  <2> QED
    BY <1>0, <1>1, <1>t, <2>1 DEF Replicate, prepVars
<1>2. ASSUME NEW r \in ReplicaId, NEW b \in ReplicaId, invokePrepare(r, b)
      PROVE  UNCHANGED <<opNum, ppc>> /\ prepReqQ'[s] = prepReqQ[s]
  BY <1>0, <1>2, <1>t DEF invokePrepare, processPrepare, replicaState
<1>3. ASSUME NEW r \in ReplicaId, PopPrepInfo(r) \/ LogPrepInfo(r) \/ EndPrepInfo(r)
      PROVE  prepReqQ'[s] = prepReqQ[s] /\ ppc'[s] = ppc[s] /\ opNum'[s] = opNum[s]
  <2>1. CASE r # s
    BY <1>3, <1>t, <2>1 DEF PopPrepInfo, LogPrepInfo, EndPrepInfo, Aborts, Dies,
                            replicaState, prepVars
  <2>2. CASE r = s
    BY <1>3, <2>2 DEF PopPrepInfo, LogPrepInfo, EndPrepInfo
  <2> QED
    BY <2>1, <2>2
<1>4. ASSUME NEW r \in ReplicaId,
             \/ \E op \in ClientOp : ClientRequest(r, op)
             \/ CountSelf(r) \/ Notified(r) \/ SpuriousWakeup(r) \/ TimedOut(r)
             \/ StartCommit(r) \/ Finish(r) \/ HeartBeat(r)
             \/ \E t \in {"t1", "hbt"}, b \in ReplicaId : invokeCommit(r, t, b)
             \/ processCommit(r)
             \/ \E b \in ReplicaId : invokePrepareOk(r, b)
             \/ \E t \in Caller, b \in ReplicaId : CallFails(r, t, b)
             \/ Crash(r)
      PROVE  UNCHANGED <<prepReqQ, ppc, opNum>>
  BY <1>4 DEF ClientRequest, CountSelf, Notified, SpuriousWakeup, TimedOut,
              StartCommit, Finish, HeartBeat, invokeCommit, processCommit,
              invokePrepareOk, CallFails, Crash, Aborts, Dies, replicaState,
              prepVars
<1>5. CASE UNCHANGED vars
  BY <1>5 DEF vars, replicaState, prepVars
<1> QED
  BY <1>1, <1>2, <1>3, <1>4, <1>5 DEF Next

\* Replication ends no process by an assertion of recover().
LEMMA StepProc ==
  ASSUME SafetyInv, [Next]_vars, NEW s \in ReplicaId, proc'[s] = "recoveryFailed"
  PROVE  proc[s] = "recoveryFailed"
<1>t. proc \in [ReplicaId -> ProcState]
  BY DEF SafetyInv, TypeInv, TypeOK
<1>1. ASSUME NEW r \in ReplicaId, NEW how \in {"down", "aborted"}, Dies(r, how)
      PROVE  proc[s] = "recoveryFailed"
  BY <1>1, <1>t DEF Dies
<1>2. ASSUME NEW r \in ReplicaId, processCommit(r) \/ LogPrepInfo(r) \/ Crash(r)
      PROVE  UNCHANGED proc \/ Dies(r, "down") \/ Dies(r, "aborted")
  BY <1>2 DEF processCommit, LogPrepInfo, Crash, Aborts, faultVars
<1>3. ASSUME NEW r \in ReplicaId,
             \/ \E op \in ClientOp : ClientRequest(r, op)
             \/ Replicate(r)
             \/ \E b \in ReplicaId : invokePrepare(r, b)
             \/ CountSelf(r) \/ Notified(r) \/ SpuriousWakeup(r) \/ TimedOut(r)
             \/ StartCommit(r) \/ Finish(r) \/ HeartBeat(r)
             \/ \E t \in {"t1", "hbt"}, b \in ReplicaId : invokeCommit(r, t, b)
             \/ PopPrepInfo(r)
             \/ \E b \in ReplicaId : invokePrepareOk(r, b)
             \/ EndPrepInfo(r)
             \/ \E t \in Caller, b \in ReplicaId : CallFails(r, t, b)
      PROVE  UNCHANGED proc
  BY <1>3 DEF ClientRequest, Replicate, invokePrepare, CountSelf, Notified,
              SpuriousWakeup, TimedOut, StartCommit, Finish, HeartBeat,
              invokeCommit, PopPrepInfo, invokePrepareOk, EndPrepInfo, CallFails,
              faultVars
<1>4. CASE UNCHANGED proc
  BY <1>4
<1>5. CASE UNCHANGED vars
  BY <1>4, <1>5 DEF vars, faultVars
<1> QED
  BY <1>1, <1>2, <1>3, <1>4, <1>5 DEF Next

\* append puts the next number last, and commit leaves the vector alone.
LEMMA AppendOrder ==
  ASSUME NEW log \in OpLog, NEW op, NEW k \in Nat,
         Len(log.opNums) = k, \A i \in 1 .. k : log.opNums[i] = i,
         \A n \in DOMAIN log.entries : log.entries[n].opNum = n
  PROVE  LET new == append(log, op, k + 1)
         IN  /\ Len(new.opNums) = k + 1
             /\ \A i \in 1 .. k + 1 : new.opNums[i] = i
             /\ \A n \in DOMAIN new.entries : new.entries[n].opNum = n
<1> DEFINE new == append(log, op, k + 1)
           e == [op |-> op, opNum |-> k + 1, committed |-> FALSE]
           v == Append(log.opNums, k + 1)
           f == [m \in DOMAIN log.entries \cup {k + 1} |->
                   IF m = k + 1 THEN e ELSE log.entries[m]]
<1>1. new = [opNums |-> v, entries |-> f]
  BY DEF append
<1>2. new.opNums = v /\ new.entries = f
  <2> HIDE DEF v, f, new
  <2> QED BY <1>1
<1>3. log.opNums \in Seq(OpInt)
  BY OpLogParts
<1>4. Len(v) = k + 1 /\ \A i \in 1 .. k + 1 : v[i] = i
  BY <1>3
<1>5. e.opNum = k + 1
  OBVIOUS
<1> HIDE DEF e
<1>6. \A n \in DOMAIN f : f[n].opNum = n
  BY <1>5
<1> HIDE DEF v, f, new
<1>7. /\ Len(new.opNums) = k + 1
      /\ \A i \in 1 .. k + 1 : new.opNums[i] = i
      /\ \A n \in DOMAIN new.entries : new.entries[n].opNum = n
  BY <1>2, <1>4, <1>6
<1> QED
  BY <1>7 DEF new

\* ... and commit leaves the numbers alone.
LEMMA CommitOrder ==
  ASSUME NEW log \in OpLog, NEW c,
         \A n \in DOMAIN log.entries : log.entries[n].opNum = n
  PROVE  LET new == commit(log, c)
         IN  /\ new.opNums = log.opNums
             /\ \A n \in DOMAIN new.entries : new.entries[n].opNum = n
<1> DEFINE new == commit(log, c)
           e(m) == [op |-> log.entries[m].op, opNum |-> log.entries[m].opNum,
                    committed |-> TRUE]
           f == [m \in DOMAIN log.entries |-> IF m = c THEN e(m) ELSE log.entries[m]]
<1>1. new = [opNums |-> log.opNums, entries |-> f]
  BY DEF commit
<1>2. new.opNums = log.opNums /\ new.entries = f
  <2> HIDE DEF f, new
  <2> QED BY <1>1
<1>3. \A m : e(m).opNum = log.entries[m].opNum
  OBVIOUS
<1> HIDE DEF e
<1>4. \A n \in DOMAIN f : f[n].opNum = n
  BY <1>3
<1> HIDE DEF f, new
<1>5. new.opNums = log.opNums /\ \A n \in DOMAIN new.entries : new.entries[n].opNum = n
  BY <1>2, <1>4
<1> QED
  BY <1>5 DEF new

\* The vectors of the logs stay in order.
LEMMA StepOrder == SafetyInv /\ OrderInv /\ [Next]_vars => OrderInv'
<1> SUFFICES ASSUME SafetyInv, OrderInv, [Next]_vars PROVE OrderInv'
  OBVIOUS
<1>t. /\ opLog \in [ReplicaId -> OpLog]
      /\ opNum \in [ReplicaId -> 0 .. MaxOp]
      /\ \A r \in ReplicaId : opNum[r] \in Nat
      /\ ThreadInv
  BY DEF SafetyInv, TypeInv, TypeOK
<1>1. ASSUME NEW r \in ReplicaId, NEW op,
             opNum' = [opNum EXCEPT ![r] = opNum[r] + 1],
             opLog' = [opLog EXCEPT ![r] = append(opLog[r], op, opNum[r] + 1)]
      PROVE  OrderInv'
  <2> DEFINE log == append(opLog[r], op, opNum[r] + 1)
  <2>1. opLog[r] \in OpLog /\ opNum[r] \in Nat
    BY <1>t
  <2>2. /\ Len(log.opNums) = opNum[r] + 1
        /\ \A i \in 1 .. opNum[r] + 1 : log.opNums[i] = i
        /\ \A n \in DOMAIN log.entries : log.entries[n].opNum = n
    BY <2>1, AppendOrder DEF OrderInv
  <2>3. opLog' = [opLog EXCEPT ![r] = log]
    BY <1>1
  <2> HIDE DEF log
  <2>4. ASSUME NEW s \in ReplicaId
        PROVE  /\ Len(opLog'[s].opNums) = opNum'[s]
               /\ \A i \in 1 .. opNum'[s] : opLog'[s].opNums[i] = i
               /\ \A n \in DOMAIN opLog'[s].entries :
                    opLog'[s].entries[n].opNum = n
    <3>1. CASE s = r
      BY <1>1, <1>t, <2>2, <2>3, <3>1
    <3>2. CASE s # r
      <4>1. opLog'[s] = opLog[s] /\ opNum'[s] = opNum[s]
        BY <1>1, <1>t, <2>3, <3>2
      <4> QED
        BY <4>1 DEF OrderInv
    <3> QED
      BY <3>1, <3>2
  <2> QED
    BY <2>4 DEF OrderInv
<1>2. ASSUME NEW r \in ReplicaId, NEW c, UNCHANGED opNum,
             opLog' = [opLog EXCEPT ![r] = commit(opLog[r], c)]
      PROVE  OrderInv'
  <2> DEFINE log == commit(opLog[r], c)
  <2>1. opLog[r] \in OpLog
    BY <1>t
  <2>2. /\ log.opNums = opLog[r].opNums
        /\ \A n \in DOMAIN log.entries : log.entries[n].opNum = n
    BY <2>1, CommitOrder DEF OrderInv
  <2>3. opLog' = [opLog EXCEPT ![r] = log]
    BY <1>2
  <2> HIDE DEF log
  <2>4. ASSUME NEW s \in ReplicaId
        PROVE  /\ opLog'[s].opNums = opLog[s].opNums
               /\ \A n \in DOMAIN opLog'[s].entries :
                    opLog'[s].entries[n].opNum = n
    BY <1>t, <2>2, <2>3 DEF OrderInv
  <2> QED
    BY <1>2, <2>4 DEF OrderInv
<1>3. CASE UNCHANGED <<opLog, opNum>>
  BY <1>3 DEF OrderInv
<1>4. ASSUME NEW r \in ReplicaId, Replicate(r) PROVE OrderInv'
  <2>1. CASE status[r] = "NORMAL"
    BY <1>1, <1>4, <2>1 DEF Replicate
  <2>2. CASE status[r] # "NORMAL"
    BY <1>4, <2>2 DEF Replicate, SafetyInv, ViewInv, isPrimary
  <2> QED
    BY <2>1, <2>2
<1>5. ASSUME NEW r \in ReplicaId, LogPrepInfo(r) PROVE OrderInv'
  <2>1. CASE Aborts(r)
    BY <1>3, <2>1 DEF Aborts, Dies, replicaState, storage
  <2>2. CASE ~Aborts(r)
    BY <1>1, <1>5, <2>2 DEF LogPrepInfo
  <2> QED
    BY <2>1, <2>2
<1>6. ASSUME NEW r \in ReplicaId, StartCommit(r) \/ processCommit(r) PROVE OrderInv'
  BY <1>2, <1>3, <1>6 DEF StartCommit, processCommit, Aborts, Dies,
                          replicaState, storage
<1>7. ASSUME NEW r \in ReplicaId,
             \/ \E op \in ClientOp : ClientRequest(r, op)
             \/ \E b \in ReplicaId : invokePrepare(r, b)
             \/ CountSelf(r) \/ Notified(r) \/ SpuriousWakeup(r) \/ TimedOut(r)
             \/ Finish(r) \/ HeartBeat(r)
             \/ \E t \in {"t1", "hbt"}, b \in ReplicaId : invokeCommit(r, t, b)
             \/ PopPrepInfo(r)
             \/ \E b \in ReplicaId : invokePrepareOk(r, b)
             \/ EndPrepInfo(r)
             \/ \E t \in Caller, b \in ReplicaId : CallFails(r, t, b)
             \/ Crash(r)
      PROVE  UNCHANGED <<opLog, opNum>>
  BY <1>7 DEF ClientRequest, invokePrepare, CountSelf, Notified, SpuriousWakeup,
              TimedOut, Finish, HeartBeat, invokeCommit, PopPrepInfo,
              invokePrepareOk, EndPrepInfo, CallFails, Crash, Dies,
              replicaState, storage
<1>8. CASE UNCHANGED vars
  BY <1>3, <1>8 DEF vars, replicaState, storage
<1> QED
  BY <1>3, <1>4, <1>5, <1>6, <1>7, <1>8 DEF Next

\* What was true of a response stays true while the primary goes on.
LEMMA ResponseStays ==
  ASSUME NEW x \in RecoveryResponse, ResponseOk(x), BaseInv,
         opNum[0] <= opNum'[0], opNum'[0] \in Nat,
         commitNum[0] <= commitNum'[0], commitNum'[0] \in Nat,
         \A n, op : Logs(0, n, op) => Logs(0, n, op)',
         Used(x.to) \subseteq Used(x.to)'
  PROVE  ResponseOk(x)'
<1>1. /\ x.opNum \in Nat /\ x.commitNum \in Nat
      /\ opNum[0] \in Nat /\ commitNum[0] \in Nat
  BY ZeroIsReplica DEF RecoveryResponse, BaseInv, SafetyInv, TypeInv, TypeOK
<1>2. x.nonce \in Used(x.to)'
  BY DEF ResponseOk
<1>3. ASSUME x.isPrimary
      PROVE  /\ x.replicaId = 0 /\ x.opNum <= opNum'[0]
             /\ x.commitNum <= x.opNum /\ x.commitNum <= commitNum'[0]
             /\ Len(x.opLog) = x.opNum
             /\ \A i \in 1 .. x.opNum :
                  x.opLog[i].opNum = i /\ Logs(0, i, x.opLog[i].op)'
  <2>1. /\ x.replicaId = 0 /\ x.opNum <= opNum[0]
        /\ x.commitNum <= x.opNum /\ x.commitNum <= commitNum[0]
        /\ Len(x.opLog) = x.opNum
        /\ \A i \in 1 .. x.opNum :
             x.opLog[i].opNum = i /\ Logs(0, i, x.opLog[i].op)
    BY <1>3 DEF ResponseOk
  <2> QED
    BY <1>1, <2>1
<1> QED
  BY <1>2, <1>3 DEF ResponseOk

\* What the counts are bounded by: a step that takes nobody out of the sets as
\* long as nonces differ, and leaves the counts and the commit number alone,
\* keeps the bounds.
LEMMA CountsGo ==
  ASSUME RcCountInv, RcReachedInv, TypeOK,
         waitMap'[0] = waitMap[0], UNCHANGED <<resent, spurious>>,
         commitNum'[0] = commitNum[0], opNum'[0] = opNum[0], cpc'[0] = cpc[0],
         DistinctNonces' => DistinctNonces,
         ASSUME DistinctNonces', NEW n \in Nat
         PROVE
           /\ Counted(n) \cup Lost(n) \subseteq Counted(n)' \cup Lost(n)'
           /\ Holders(n) \cup Lost(n) \subseteq Holders(n)' \cup Lost(n)'
  PROVE  RcCountInv' /\ RcReachedInv'
<1>1. \A n : /\ Counted(n) \cup Lost(n) \in SUBSET ReplicaId
             /\ Counted(n)' \cup Lost(n)' \in SUBSET ReplicaId
             /\ Holders(n) \cup Lost(n) \in SUBSET ReplicaId
             /\ Holders(n)' \cup Lost(n)' \in SUBSET ReplicaId
  BY DEF Counted, Holders, Lost
<1>2. ASSUME resent' = 0, DistinctNonces', NEW n \in OpInt
      PROVE  waitMap'[0][n] <= Cardinality(Counted(n)' \cup Lost(n)')
  <2> DEFINE C == Counted(n) \cup Lost(n)
             D == Counted(n)' \cup Lost(n)'
  <2>1. waitMap[0][n] <= Cardinality(C) /\ waitMap[0][n] \in Nat
    BY <1>2, ZeroIsReplica DEF RcCountInv, TypeOK
  <2>2. C \in SUBSET ReplicaId /\ D \in SUBSET ReplicaId /\ C \subseteq D
    BY <1>1, <1>2 DEF OpInt
  <2> HIDE DEF C, D
  <2>3. /\ Cardinality(C) <= Cardinality(D)
        /\ Cardinality(C) \in Nat /\ Cardinality(D) \in Nat
    BY <2>2, CardinalityGrows, ReplicasFinite
  <2>4. waitMap'[0][n] <= Cardinality(D)
    BY <2>1, <2>3
  <2> QED
    BY <2>4 DEF D
<1>3. ASSUME CountsHold', DistinctNonces', NEW n \in 0 .. MaxOp, Agreed(n)'
      PROVE  Majority(Holders(n)' \cup Lost(n)')
  <2> DEFINE C == Holders(n) \cup Lost(n)
             D == Holders(n)' \cup Lost(n)'
  <2>1. CountsHold /\ DistinctNonces /\ Agreed(n)
    BY <1>3 DEF CountsHold, Agreed
  <2>2. Majority(C)
    BY <2>1 DEF RcReachedInv
  <2>3. C \in SUBSET ReplicaId /\ D \in SUBSET ReplicaId /\ C \subseteq D
    BY <1>1, <1>3, BoundAssumption
  <2> HIDE DEF C, D
  <2>4. /\ Cardinality(C) <= Cardinality(D)
        /\ Cardinality(C) \in Nat /\ Cardinality(D) \in Nat
        /\ N \div 2 + 1 \in Nat
    BY <2>3, CardinalityGrows, ReplicasFinite, SizeAssumption
  <2>5. Majority(D)
    BY <2>2, <2>4 DEF Majority
  <2> QED
    BY <2>5 DEF D
<1> QED
  BY <1>2, <1>3 DEF RcCountInv, RcReachedInv, Majority

\* Replication leaves requests and responses alone, and what they say stays
\* true.
LEMMA NextMemory ==
  ASSUME BaseInv, BaseInv', MemoryInv, [Next]_vars, UNCHANGED <<vcVars, rcVars>>
  PROVE  /\ MemoryInv'
         /\ \A n \in Nat : Lost(n) \subseteq Lost(n)'
<1>u. UNCHANGED <<vpc, viewStartInfoMap, rcpc, nonces, recoveryReqQ, prrt,
                  inHand, recoveryResps>>
  BY DEF vcVars, mapVars, loopVars, rcVars, recoverVars, prrtVars, respVars,
         startVars
<1>s. SafetyInv /\ UNCHANGED <<priId, status, viewNum>>
  BY NextView DEF BaseInv
<1>k. \A n, op : Logs(0, n, op) => Logs(0, n, op)'
  BY <1>s, StepKeeps, LogsStable
<1>g. /\ opNum[0] <= opNum'[0] /\ opNum[0] \in Nat /\ opNum'[0] \in Nat
      /\ commitNum[0] <= commitNum'[0]
      /\ commitNum[0] \in Nat /\ commitNum'[0] \in Nat
  <2>1. /\ opNum[0] \in Nat /\ opNum'[0] \in Nat
        /\ commitNum[0] \in Nat /\ commitNum'[0] \in Nat
    BY ZeroIsReplica DEF BaseInv, SafetyInv, TypeInv, TypeOK
  <2>2. Nearer(0) /\ commitNum'[0] >= commitNum[0]
    BY <1>s, ZeroIsReplica, StepNearer, StepCommitGrows
  <2> QED
    BY <2>1, <2>2 DEF Nearer
<1>1. RcTypeInv'
  BY <1>u DEF MemoryInv, RcTypeInv
<1>2. NoStartView'
  BY <1>u DEF MemoryInv, NoStartView
<1>3. RecoveringInv'
  BY <1>s, <1>u, StepIdle DEF MemoryInv, RecoveringInv
<1>4. OrderInv'
  BY <1>s, StepOrder DEF MemoryInv
<1>5. MessageInv'
  <2>0. RcTypeInv
    BY DEF MemoryInv
  <2>1. \A q : RequestOk(q) => RequestOk(q)'
    BY <1>u DEF RequestOk, Used
  <2>2. ASSUME NEW x \in RecoveryResponse, ResponseOk(x) PROVE ResponseOk(x)'
    <3>1. Used(x.to) \subseteq Used(x.to)'
      BY <1>u DEF Used
    <3> QED
      BY <1>g, <1>k, <2>2, <3>1, ResponseStays
  <2>3. \A r \in ReplicaId :
          /\ prrt[r] = "respond" => inHand[r] \in RecoveryResponse
          /\ \A i \in 1 .. Len(recoveryResps[r]) :
               recoveryResps[r][i] \in RecoveryResponse
    BY <2>0 DEF RcTypeInv
  <2> QED
    BY <1>u, <2>1, <2>2, <2>3 DEF MemoryInv, MessageInv
<1>6. ASSUME NEW n \in Nat PROVE Lost(n) \subseteq Lost(n)'
  <2>1. \A s : WillHold(s, n) => WillHold(s, n)'
    BY <1>u DEF WillHold, Received, OnItsWay, Covers, nonce
  <2> QED
    BY <1>g, <1>s, <2>1 DEF Lost
<1> QED
  BY <1>1, <1>2, <1>3, <1>4, <1>5, <1>6 DEF MemoryInv

\* A step of replication keeps the bounds of the counts.
LEMMA NextCounts ==
  ASSUME RcInv, BaseInv', [Next]_vars, UNCHANGED nonces,
         \A n \in Nat : Lost(n) \subseteq Lost(n)'
  PROVE  RcCountInv' /\ RcReachedInv'
<1>s. SafetyInv /\ CallInv /\ TypeOK /\ TypeOK' /\ ViewInv
  BY DEF RcInv, BaseInv, SafetyInv, TypeInv
<1>d. DistinctNonces' => DistinctNonces
  BY DEF DistinctNonces
<1>1. ASSUME resent' = 0, DistinctNonces', NEW n \in OpInt
      PROVE  waitMap'[0][n] <= Cardinality(Counted(n)' \cup Lost(n)')
  <2>1. PICK X : X = Lost(n)
    OBVIOUS
  <2>2. X \in SUBSET ReplicaId /\ \A s \in X : s # 0 /\ ppc[s] # "logged"
    BY <1>s, <2>1 DEF Lost, RcInv, MemoryInv, RecoveringInv, ViewInv
  <2>3. waitMap[0][n] <= Cardinality(Counted(n) \cup X)
    BY <1>1, <1>d, <1>s, <2>1, FaultsStay DEF RcInv, RcCountInv
  <2>4. waitMap'[0][n] <= Cardinality(Counted(n)' \cup X)
    BY <1>1, <1>s, <2>2, <2>3, CountStep
  <2> DEFINE C == Counted(n)' \cup X
             D == Counted(n)' \cup Lost(n)'
  <2>5. C \subseteq D /\ C \in SUBSET ReplicaId /\ D \in SUBSET ReplicaId
    BY <2>1, <2>2 DEF OpInt, Counted, Holders, Lost
  <2>6. waitMap'[0][n] \in Nat
    BY <1>s, ZeroIsReplica DEF TypeOK
  <2> HIDE DEF C, D
  <2>7. /\ Cardinality(C) <= Cardinality(D)
        /\ Cardinality(C) \in Nat /\ Cardinality(D) \in Nat
    BY <2>5, CardinalityGrows, ReplicasFinite
  <2>8. waitMap'[0][n] <= Cardinality(C)
    BY <2>4 DEF C
  <2>9. waitMap'[0][n] <= Cardinality(D)
    BY <2>6, <2>7, <2>8
  <2> QED
    BY <2>9 DEF D
<1>2. ASSUME CountsHold', DistinctNonces', NEW n \in 0 .. MaxOp, Agreed(n)'
      PROVE  Majority(Holders(n)' \cup Lost(n)')
  <2> DEFINE C == Holders(n) \cup Lost(n)
             D == Holders(n)' \cup Lost(n)'
             E == Counted(n)' \cup Lost(n)'
  <2>0. n \in Nat /\ CountsHold /\ resent' = 0 /\ spurious' = 0
    BY <1>2, <1>s, BoundAssumption, FaultsStay DEF CountsHold
  <2>1. /\ C \subseteq D /\ E \subseteq D
        /\ C \in SUBSET ReplicaId /\ D \in SUBSET ReplicaId /\ E \in SUBSET ReplicaId
    <3>1. /\ Holders(n) \subseteq Holders(n)' /\ Counted(n)' \subseteq Holders(n)'
          /\ Lost(n) \subseteq Lost(n)'
      BY <1>s, <2>0, SetsGrow
    <3>2. /\ Holders(n) \in SUBSET ReplicaId /\ Holders(n)' \in SUBSET ReplicaId
          /\ Lost(n) \in SUBSET ReplicaId /\ Lost(n)' \in SUBSET ReplicaId
      BY DEF Holders, Lost
    <3> QED
      BY <3>1, <3>2
  <2>2. CASE Agreed(n)
    <3>1. Majority(C)
      BY <1>2, <1>d, <2>0, <2>2 DEF RcInv, RcReachedInv
    <3> HIDE DEF C, D, E
    <3>2. /\ Cardinality(C) <= Cardinality(D)
          /\ Cardinality(C) \in Nat /\ Cardinality(D) \in Nat
          /\ N \div 2 + 1 \in Nat
      BY <2>1, CardinalityGrows, ReplicasFinite, SizeAssumption
    <3>3. Majority(D)
      BY <3>1, <3>2 DEF Majority
    <3> QED
      BY <3>3 DEF D
  <2>3. CASE n \in OpInt /\ waitMap'[0][n] >= getMajorityCnt(peers[0])
    <3>1. waitMap'[0][n] >= N \div 2 + 1 /\ waitMap'[0][n] \in Nat
      BY <1>s, <2>3, ZeroIsReplica, MajorityOfAll DEF CallInv, TypeOK
    <3>2. waitMap'[0][n] <= Cardinality(E)
      BY <1>1, <1>2, <2>0, <2>3
    <3> HIDE DEF C, D, E
    <3>3. /\ Cardinality(E) <= Cardinality(D)
          /\ Cardinality(E) \in Nat /\ Cardinality(D) \in Nat
          /\ N \div 2 + 1 \in Nat
      BY <2>1, CardinalityGrows, ReplicasFinite, SizeAssumption
    <3>4. Majority(D)
      BY <3>1, <3>2, <3>3 DEF Majority
    <3> QED
      BY <3>4 DEF D
  <2> QED
    BY <1>2, <1>s, <2>0, <2>2, <2>3, AgreedStep
<1> QED
  BY <1>1, <1>2 DEF RcCountInv, RcReachedInv, Majority

\* A step of replication keeps the invariant.
LEMMA NextKeeps ==
  ASSUME RcInv, [Next]_vars, UNCHANGED <<vcVars, rcVars>>
  PROVE  RcInv'
<1>1. BaseInv'
  BY StepSafety, StepCall, StepReply DEF RcInv, BaseInv
<1>2. MemoryInv' /\ \A n \in Nat : Lost(n) \subseteq Lost(n)'
  BY <1>1, NextMemory DEF RcInv
<1>3. UNCHANGED nonces
  BY DEF rcVars, recoverVars
<1>4. RcCountInv' /\ RcReachedInv'
  BY <1>1, <1>2, <1>3, NextCounts
<1> QED
  BY <1>1, <1>2, <1>4 DEF RcInv

-----------------------------------------------------------------------------
(***************************************************************************)
(* Steps of recovery that leave the replica state and the logs alone.      *)
(***************************************************************************)
\* What such a step leaves alone of replication and of view change.
Still ==
  UNCHANGED <<replicaState, storage, prepVars, clientVars, hbInfo, todo,
              repClient, lost, resent, spurious, vcVars>>

\* ... and what it may do to the locks, the listeners and the processes.
Quiet ==
  /\ Still
  /\ repMutex' \in [ReplicaId -> {"free", "t1", "hbt", "ppit"}]
  /\ proc' \in [ReplicaId -> ProcState]
  /\ repListener' \in [ReplicaId -> CommitMsg \cup {Nil}]
  /\ \A s \in ReplicaId : repListener'[s] \in {repListener[s], Nil}

\* Such a step keeps the invariants of replication, what counts for a number,
\* and the logs.
LEMMA QuietBase ==
  ASSUME BaseInv, NoStartView, OrderInv, Quiet
  PROVE  /\ BaseInv' /\ NoStartView' /\ OrderInv'
         /\ \A n : Counted(n)' = Counted(n) /\ Holders(n)' = Holders(n)
         /\ \A n, op : Logs(0, n, op)' <=> Logs(0, n, op)
<1>u. UNCHANGED <<priId, status, viewNum, opNum, commitNum, opLog, kvMap, peers,
                  prepReqQ, waitMap, ppc, ppInfo, cpc, creq, replies, hbInfo,
                  todo, repClient, lost, resent, spurious, viewStartInfoMap>>
  BY DEF Quiet, Still, replicaState, storage, prepVars, clientVars, vcVars, mapVars
<1>1. TypeInv'
  BY <1>u DEF BaseInv, SafetyInv, TypeInv, TypeOK, ThreadInv, Quiet
<1>2. ViewInv' /\ LogInv' /\ CallInv' /\ ReplyInv'
  BY <1>u DEF BaseInv, SafetyInv, ViewInv, LogInv, LogAt, ClientAt, PrepAt, Logs,
              CallInv, ReplyInv
<1>3. CommitInv'
  BY <1>u DEF BaseInv, SafetyInv, CommitInv, Quiet
<1>4. NoStartView' /\ OrderInv'
  BY <1>u DEF NoStartView, OrderInv
<1>5. \A n : Counted(n)' = Counted(n) /\ Holders(n)' = Holders(n)
  BY <1>u DEF Counted, Holders, Owing
<1> QED
  BY <1>1, <1>2, <1>3, <1>4, <1>5, <1>u DEF BaseInv, SafetyInv, Logs

\* What a quiet step owes: its own variables, and that nobody is forgotten.
LEMMA QuietKeeps ==
  ASSUME RcInv, Quiet, RcTypeInv', RecoveringInv', MessageInv',
         DistinctNonces' => DistinctNonces,
         ASSUME DistinctNonces', NEW s \in ReplicaId, NEW n \in 0 .. opNum[0],
                status[s] = "RECOVERING", WillHold(s, n)
         PROVE  WillHold(s, n)'
  PROVE  RcInv'
<1>u. /\ UNCHANGED <<status, opNum, commitNum, waitMap, cpc, resent, spurious>>
      /\ opNum[0] \in Nat
  BY ZeroIsReplica DEF Quiet, Still, replicaState, prepVars, clientVars, RcInv,
                       BaseInv, SafetyInv, TypeInv, TypeOK
<1>1. /\ BaseInv' /\ NoStartView' /\ OrderInv'
      /\ \A n : Counted(n)' = Counted(n) /\ Holders(n)' = Holders(n)
  BY QuietBase DEF RcInv, MemoryInv
<1>2. ASSUME DistinctNonces', NEW n \in Nat PROVE Lost(n) \subseteq Lost(n)'
  BY <1>u, <1>2 DEF Lost
<1>3. RcCountInv' /\ RcReachedInv'
  BY <1>u, <1>1, <1>2, CountsGo DEF RcInv, BaseInv, SafetyInv, TypeInv
<1> QED
  BY <1>1, <1>3 DEF RcInv, MemoryInv

\* What was true of a request or a response stays true.
LEMMA QuietOk ==
  ASSUME RcInv, Quiet, UNCHANGED nonces
  PROVE  /\ \A q : RequestOk(q) => RequestOk(q)'
         /\ \A x \in RecoveryResponse : ResponseOk(x) => ResponseOk(x)'
<1>1. \A q : RequestOk(q) => RequestOk(q)'
  BY DEF RequestOk, Used
<1>2. /\ BaseInv /\ NoStartView /\ OrderInv
      /\ UNCHANGED <<opNum, commitNum>>
      /\ opNum[0] \in Nat /\ commitNum[0] \in Nat
  BY ZeroIsReplica DEF RcInv, MemoryInv, BaseInv, SafetyInv, TypeInv, TypeOK,
                       Quiet, Still, replicaState
<1>3. \A n, op : Logs(0, n, op) => Logs(0, n, op)'
  BY <1>2, QuietBase
<1>4. ASSUME NEW x \in RecoveryResponse, ResponseOk(x) PROVE ResponseOk(x)'
  <2>1. Used(x.to) \subseteq Used(x.to)'
    BY DEF Used
  <2>2. opNum[0] <= opNum'[0] /\ opNum'[0] \in Nat
    BY <1>2
  <2>3. commitNum[0] <= commitNum'[0] /\ commitNum'[0] \in Nat
    BY <1>2
  <2> QED
    BY <1>2, <1>3, <1>4, <2>1, <2>2, <2>3, ResponseStays
<1> QED
  BY <1>1, <1>4

\* The process of a replica ends or listens, and recovery does not notice.
LEMMA ProcessStep ==
  ASSUME RcInv, Quiet,
         UNCHANGED <<rcpc, nonces, recoveryReqQ, prrt, inHand, recoveryResps>>
  PROVE  RcInv'
<1>q. UNCHANGED <<status, opNum, prepReqQ, ppc, vpc>>
  BY DEF Quiet, Still, replicaState, prepVars, vcVars, loopVars
<1>i. RcTypeInv /\ RecoveringInv /\ MessageInv
  BY DEF RcInv, MemoryInv
<1>1. RcTypeInv'
  BY <1>i, <1>q DEF RcTypeInv
<1>2. RecoveringInv'
  BY <1>i, <1>q DEF RecoveringInv
<1>3. MessageInv'
  <2>1. /\ \A q : RequestOk(q) => RequestOk(q)'
        /\ \A x \in RecoveryResponse : ResponseOk(x) => ResponseOk(x)'
    BY QuietOk
  <2>2. \A s \in ReplicaId :
          /\ prrt[s] = "respond" => inHand[s] \in RecoveryResponse
          /\ \A i \in 1 .. Len(recoveryResps[s]) :
               recoveryResps[s][i] \in RecoveryResponse
    BY <1>i DEF RcTypeInv
  <2> QED
    BY <1>i, <2>1, <2>2 DEF MessageInv
<1>4. \A s : \A n : WillHold(s, n) => WillHold(s, n)'
  BY DEF WillHold, Received, OnItsWay, Covers, nonce
<1>5. DistinctNonces' => DistinctNonces
  BY DEF DistinctNonces
<1> QED
  BY <1>1, <1>2, <1>3, <1>4, <1>5, QuietKeeps

\* CrashToRestart, RecoveryTimedOut, Listen and RecoveryFails.
LEMMA ProcessSteps ==
  ASSUME RcInv, NEW r \in ReplicaId,
         \/ CrashToRestart(r) \/ RecoveryTimedOut(r) \/ Listen(r)
         \/ RecoveryFails(r)
  PROVE  RcInv'
<1>t. /\ proc \in [ReplicaId -> ProcState]
      /\ repListener \in [ReplicaId -> CommitMsg \cup {Nil}]
      /\ repMutex \in [ReplicaId -> {"free", "t1", "hbt", "ppit"}]
  BY DEF RcInv, BaseInv, SafetyInv, TypeInv, TypeOK
<1>1. ASSUME NEW how \in {"down", "aborted"}, Dies(r, how),
             UNCHANGED <<vcVars, rcVars>>
      PROVE  RcInv'
  <2>1. Quiet
    BY <1>1, <1>t DEF Dies, Quiet, Still, ProcState
  <2> QED
    BY <1>1, <2>1, ProcessStep DEF rcVars, recoverVars, prrtVars, respVars
<1>2. CASE CrashToRestart(r)
  BY <1>1, <1>2 DEF CrashToRestart
<1>3. CASE RecoveryTimedOut(r)
  BY <1>1, <1>3 DEF RecoveryTimedOut, Aborts
<1>4. CASE Listen(r)
  <2>1. Quiet
    BY <1>4, <1>t DEF Listen, Quiet, Still, ProcState, rpcVars
  <2>2. UNCHANGED rcVars
    BY <1>4 DEF Listen
  <2> QED
    BY <2>1, <2>2, ProcessStep DEF rcVars, recoverVars, prrtVars, respVars
<1>5. CASE RecoveryFails(r)
  <2>1. Quiet
    BY <1>5, <1>t DEF RecoveryFails, Quiet, Still, ProcState, Elsewhere, storage
  <2> QED
    BY <1>5, <2>1, ProcessStep DEF RecoveryFails, recoverVars, prrtVars, respVars
<1> QED
  BY <1>2, <1>3, <1>4, <1>5

\* A step of recover() after its start, up to the wait.
LEMMA AskStep ==
  ASSUME RcInv, Quiet, UNCHANGED <<nonces, prrt, inHand, recoveryResps>>,
         rcpc' \in [ReplicaId -> {"none", "request", "wait"}],
         \A s \in ReplicaId : rcpc'[s] # "none" => rcpc[s] # "none",
         recoveryReqQ' \in [ReplicaId -> Seq(RecoveryRequest)],
         \A s \in ReplicaId : \A i \in 1 .. Len(recoveryReqQ'[s]) :
           RequestOk(recoveryReqQ'[s][i])
  PROVE  RcInv'
<1>q. UNCHANGED <<status, opNum, prepReqQ, ppc, vpc>>
  BY DEF Quiet, Still, replicaState, prepVars, vcVars, loopVars
<1>i. RcTypeInv /\ RecoveringInv /\ MessageInv
  BY DEF RcInv, MemoryInv
<1>1. RcTypeInv'
  BY <1>i, <1>q DEF RcTypeInv
<1>2. RecoveringInv'
  BY <1>i, <1>q DEF RecoveringInv
<1>3. /\ \A q : RequestOk(q) => RequestOk(q)'
      /\ \A x \in RecoveryResponse : ResponseOk(x) => ResponseOk(x)'
  BY QuietOk
<1>4. MessageInv'
  <2>1. \A s \in ReplicaId :
          /\ prrt[s] = "respond" => inHand[s] \in RecoveryResponse
          /\ \A i \in 1 .. Len(recoveryResps[s]) :
               recoveryResps[s][i] \in RecoveryResponse
    BY <1>i DEF RcTypeInv
  <2> QED
    BY <1>i, <1>3, <2>1 DEF MessageInv
<1>5. \A s \in ReplicaId : \A n : WillHold(s, n) => WillHold(s, n)'
  BY DEF WillHold, Received, OnItsWay, Covers, nonce
<1>6. DistinctNonces' => DistinctNonces
  BY DEF DistinctNonces
<1> QED
  BY <1>1, <1>2, <1>4, <1>5, <1>6, QuietKeeps

\* A nonce more: those before it stay, and if all differ it is a new one.
LEMMA NonceAppended ==
  ASSUME nonces \in [ReplicaId -> Seq(Nonce)], NEW r \in ReplicaId,
         NEW seconds \in Nonce,
         nonces' = [nonces EXCEPT ![r] = Append(nonces[r], seconds)]
  PROVE  /\ nonces' \in [ReplicaId -> Seq(Nonce)] /\ nonces'[r] # <<>>
         /\ \A s \in ReplicaId : s # r => nonces'[s] = nonces[s]
         /\ \A s \in ReplicaId : Used(s) \subseteq Used(s)'
         /\ nonce(r)' = seconds
         /\ DistinctNonces' => DistinctNonces /\ seconds \notin Used(r)
<1> DEFINE old == nonces[r]
           new == Append(old, seconds)
<1>1. /\ old \in Seq(Nonce) /\ new \in Seq(Nonce)
      /\ Len(old) \in Nat /\ Len(new) = Len(old) + 1
      /\ DOMAIN old = 1 .. Len(old) /\ DOMAIN new = 1 .. Len(old) + 1
      /\ \A i \in 1 .. Len(old) : new[i] = old[i]
      /\ new[Len(old) + 1] = seconds /\ new # <<>>
  OBVIOUS
<1>2. nonces' = [nonces EXCEPT ![r] = new]
  OBVIOUS
<1> HIDE DEF new
<1>3. /\ nonces' \in [ReplicaId -> Seq(Nonce)] /\ nonces'[r] = new
      /\ \A s \in ReplicaId : s # r => nonces'[s] = nonces[s]
  BY <1>1, <1>2
<1> HIDE DEF old
<1>4. \A i \in 1 .. Len(old) : i \in 1 .. Len(new)
  BY <1>1
<1>5. ASSUME NEW s \in ReplicaId PROVE Used(s) \subseteq Used(s)'
  <2>1. CASE s = r
    BY <1>1, <1>3, <1>4, <2>1 DEF Used, old
  <2>2. CASE s # r
    BY <1>3, <2>2 DEF Used
  <2> QED
    BY <2>1, <2>2
<1>6. nonce(r)' = seconds
  BY <1>1, <1>3 DEF nonce
<1>7. ASSUME DistinctNonces' PROVE DistinctNonces /\ seconds \notin Used(r)
  <2>1. \A i, j \in DOMAIN new : new[i] = new[j] => i = j
    BY <1>3, <1>7 DEF DistinctNonces
  <2>2. \A i, j \in DOMAIN old : old[i] = old[j] => i = j
    BY <1>1, <1>4, <2>1
  <2>3. DistinctNonces
    <3>1. \A s \in ReplicaId : s # r =>
            \A i, j \in DOMAIN nonces[s] : nonces[s][i] = nonces[s][j] => i = j
      BY <1>3, <1>7 DEF DistinctNonces
    <3> QED
      BY <2>2, <3>1 DEF DistinctNonces, old
  <2>4. \A i \in 1 .. Len(old) : old[i] # seconds
    <3>1. Len(old) + 1 \in DOMAIN new
      BY <1>1
    <3>2. \A i \in 1 .. Len(old) : i \in DOMAIN new /\ i # Len(old) + 1
      BY <1>1
    <3> QED
      BY <1>1, <2>1, <3>1, <3>2
  <2> QED
    BY <2>3, <2>4 DEF Used, old
<1> QED
  BY <1>1, <1>3, <1>5, <1>6, <1>7

\* recover() begins: nothing that is under way answers its nonce.
LEMMA RecoverStep ==
  ASSUME RcInv, NEW r \in ReplicaId, recover(r)
  PROVE  RcInv'
<1>t. /\ proc \in [ReplicaId -> ProcState]
      /\ repListener \in [ReplicaId -> CommitMsg \cup {Nil}]
      /\ repMutex \in [ReplicaId -> {"free", "t1", "hbt", "ppit"}]
      /\ opNum[0] \in Nat /\ commitNum[0] \in Nat
  BY ZeroIsReplica DEF RcInv, BaseInv, SafetyInv, TypeInv, TypeOK
<1>i. RcTypeInv /\ RecoveringInv /\ MessageInv
  BY DEF RcInv, MemoryInv
<1>1. Quiet
  BY <1>t DEF recover, Quiet, Still, faultVars, Elsewhere, storage
<1>q. UNCHANGED <<status, opNum, commitNum, prepReqQ, ppc, vpc>>
  BY <1>1 DEF Quiet, Still, replicaState, prepVars, vcVars, loopVars
<1>2. /\ UNCHANGED <<prrt, inHand, recoveryResps, recoveryReqQ>>
      /\ rcpc' = [rcpc EXCEPT ![r] = "request"] /\ status[r] = "RECOVERING"
  BY DEF recover, prrtVars, respVars
<1>3. PICK seconds \in Nonce :
        nonces' = [nonces EXCEPT ![r] = Append(nonces[r], seconds)]
  BY DEF recover
<1>4. /\ nonces' \in [ReplicaId -> Seq(Nonce)] /\ nonces'[r] # <<>>
      /\ \A s \in ReplicaId : s # r => nonces'[s] = nonces[s]
      /\ \A s \in ReplicaId : Used(s) \subseteq Used(s)'
      /\ nonce(r)' = seconds
      /\ DistinctNonces' => DistinctNonces /\ seconds \notin Used(r)
  BY <1>3, <1>i, NonceAppended DEF RcTypeInv
<1>5. \A s \in ReplicaId : s # r => rcpc'[s] = rcpc[s]
  BY <1>2, <1>i DEF RcTypeInv
<1>6. RcTypeInv'
  BY <1>2, <1>4, <1>i, <1>q DEF RcTypeInv
<1>7. RecoveringInv'
  BY <1>2, <1>4, <1>5, <1>i, <1>q DEF RecoveringInv
<1>8. MessageInv'
  <2>1. \A q \in RecoveryRequest : RequestOk(q) => RequestOk(q)'
    BY <1>4 DEF RequestOk, RecoveryRequest
  <2>2. ASSUME NEW x \in RecoveryResponse, ResponseOk(x) PROVE ResponseOk(x)'
    <3>1. Used(x.to) \subseteq Used(x.to)'
      BY <1>4 DEF RecoveryResponse
    <3>2. /\ opNum[0] <= opNum'[0] /\ opNum'[0] \in Nat
          /\ commitNum[0] <= commitNum'[0] /\ commitNum'[0] \in Nat
      BY <1>t, <1>q
    <3>3. BaseInv /\ \A n, op : Logs(0, n, op) => Logs(0, n, op)'
      BY <1>1, QuietBase DEF RcInv, MemoryInv
    <3> QED
      BY <2>2, <3>1, <3>2, <3>3, ResponseStays
  <2>3. \A s \in ReplicaId :
          /\ \A i \in 1 .. Len(recoveryReqQ[s]) : recoveryReqQ[s][i] \in RecoveryRequest
          /\ prrt[s] = "popped" => inHand[s] \in RecoveryRequest
          /\ prrt[s] = "respond" => inHand[s] \in RecoveryResponse
          /\ \A i \in 1 .. Len(recoveryResps[s]) :
               recoveryResps[s][i] \in RecoveryResponse
    BY <1>i DEF RcTypeInv
  <2> QED
    BY <1>2, <1>i, <2>1, <2>2, <2>3 DEF MessageInv
<1>9. ASSUME DistinctNonces', NEW s \in ReplicaId, NEW n, WillHold(s, n)
      PROVE  WillHold(s, n)'
  <2>1. Received(s)' = Received(s) /\ OnItsWay(s)' = OnItsWay(s)
    BY <1>2 DEF Received, OnItsWay
  <2>2. CASE s = r
    <3>1. ASSUME NEW x \in Received(r) \cup OnItsWay(r) PROVE x.nonce # seconds
      <4>1. x.to = r /\ ResponseOk(x)
        BY <1>i, <3>1 DEF MessageInv, Received, OnItsWay
      <4> QED
        BY <1>4, <1>9, <4>1 DEF ResponseOk
    <3> QED
      BY <1>4, <2>1, <2>2, <3>1 DEF WillHold, Covers
  <2>3. CASE s # r
    BY <1>4, <1>5, <1>9, <2>1, <2>3 DEF WillHold, Covers, nonce
  <2> QED
    BY <2>2, <2>3
<1> QED
  BY <1>1, <1>4, <1>6, <1>7, <1>8, <1>9, QuietKeeps

\* AwaitResponses, invokeRecoveryRequest and RecoveryRequestFails.
LEMMA AskSteps ==
  ASSUME RcInv, NEW r \in ReplicaId,
         \/ AwaitResponses(r)
         \/ \E b \in ReplicaId :
              invokeRecoveryRequest(r, b) \/ RecoveryRequestFails(r, b)
  PROVE  RcInv'
<1>t. /\ proc \in [ReplicaId -> ProcState]
      /\ repListener \in [ReplicaId -> CommitMsg \cup {Nil}]
      /\ repMutex \in [ReplicaId -> {"free", "t1", "hbt", "ppit"}]
  BY DEF RcInv, BaseInv, SafetyInv, TypeInv, TypeOK
<1>i. RcTypeInv /\ RecoveringInv /\ MessageInv
  BY DEF RcInv, MemoryInv
<1>1. CASE AwaitResponses(r)
  <2>1. Quiet
    BY <1>1, <1>t DEF AwaitResponses, Quiet, Still, faultVars, Elsewhere, storage
  <2>2. /\ UNCHANGED <<nonces, prrt, inHand, recoveryResps, recoveryReqQ>>
        /\ rcpc' = [rcpc EXCEPT ![r] = "wait"] /\ rcpc[r] # "none"
    BY <1>1 DEF AwaitResponses, prrtVars, respVars
  <2> QED
    BY <1>i, <2>1, <2>2, AskStep DEF RcTypeInv, MessageInv
<1>2. ASSUME NEW b \in ReplicaId, invokeRecoveryRequest(r, b) PROVE RcInv'
  <2>1. Quiet
    BY <1>2, <1>t DEF invokeRecoveryRequest, Quiet, Still, faultVars, Elsewhere,
                      storage
  <2>2. /\ UNCHANGED <<nonces, prrt, inHand, recoveryResps, rcpc>>
        /\ rcpc[r] # "none"
    BY <1>2 DEF invokeRecoveryRequest, respVars, Asking
  <2> DEFINE q == recoveryRequest(r)
  <2>4. q \in RecoveryRequest /\ RequestOk(q)
    <3>1. nonces[r] \in Seq(Nonce) /\ nonces[r] # <<>>
      BY <1>i, <2>2 DEF RecoveringInv, RcTypeInv
    <3>2. Len(nonces[r]) \in 1 .. Len(nonces[r]) /\ nonce(r) \in Nonce
      BY <3>1 DEF nonce
    <3> QED
      BY <3>2 DEF recoveryRequest, RecoveryRequest, RequestOk, Used, nonce
  <2>5. /\ recoveryReqQ \in [ReplicaId -> Seq(RecoveryRequest)]
        /\ \/ UNCHANGED recoveryReqQ
           \/ recoveryReqQ' = [recoveryReqQ EXCEPT ![b] = Append(recoveryReqQ[b], q)]
    BY <1>2, <1>i DEF invokeRecoveryRequest, processRecoveryRequest, RcTypeInv
  <2> HIDE DEF q
  <2>6. recoveryReqQ' \in [ReplicaId -> Seq(RecoveryRequest)]
    <3> DEFINE longer == Append(recoveryReqQ[b], q)
    <3>1. longer \in Seq(RecoveryRequest)
      BY <2>4, <2>5
    <3>2. UNCHANGED recoveryReqQ \/ recoveryReqQ' = [recoveryReqQ EXCEPT ![b] = longer]
      BY <2>5
    <3> HIDE DEF longer
    <3> QED
      BY <2>5, <3>1, <3>2
  <2>7. ASSUME NEW s \in ReplicaId, NEW i \in 1 .. Len(recoveryReqQ'[s])
        PROVE  RequestOk(recoveryReqQ'[s][i])
    <3>1. CASE recoveryReqQ'[s] = recoveryReqQ[s]
      BY <1>i, <2>7, <3>1 DEF MessageInv
    <3>2. CASE recoveryReqQ'[s] = Append(recoveryReqQ[s], q)
      <4>1. /\ recoveryReqQ[s] \in Seq(RecoveryRequest)
            /\ \A j \in 1 .. Len(recoveryReqQ[s]) : RequestOk(recoveryReqQ[s][j])
        BY <1>i DEF MessageInv, RcTypeInv
      <4>2. recoveryReqQ'[s][i] = q \/ (i \in 1 .. Len(recoveryReqQ[s])
               /\ recoveryReqQ'[s][i] = recoveryReqQ[s][i])
        BY <2>7, <3>2, <4>1
      <4> QED
        BY <2>4, <4>1, <4>2
    <3> QED
      BY <2>5, <3>1, <3>2
  <2> QED
    BY <1>i, <2>1, <2>2, <2>6, <2>7, AskStep DEF RcTypeInv
<1>3. ASSUME NEW b \in ReplicaId, RecoveryRequestFails(r, b) PROVE RcInv'
  <2>1. Quiet
    BY <1>3, <1>t DEF RecoveryRequestFails, Quiet, Still, faultVars, Elsewhere,
                      storage
  <2>2. UNCHANGED <<nonces, prrt, inHand, recoveryResps, rcpc, recoveryReqQ>>
    BY <1>3 DEF RecoveryRequestFails, respVars, prrtVars
  <2> QED
    BY <1>i, <2>1, <2>2, AskStep DEF RcTypeInv, MessageInv
<1> QED
  BY <1>1, <1>2, <1>3

\* prrt takes a request, or drops it.
LEMMA PopStep ==
  ASSUME RcInv, NEW r \in ReplicaId, PopRecoveryReq(r)
  PROVE  RcInv'
<1>t. /\ repListener \in [ReplicaId -> CommitMsg \cup {Nil}]
      /\ repMutex \in [ReplicaId -> {"free", "t1", "hbt", "ppit"}]
      /\ proc \in [ReplicaId -> ProcState]
  BY DEF RcInv, BaseInv, SafetyInv, TypeInv, TypeOK
<1>i. RcTypeInv /\ RecoveringInv /\ MessageInv
  BY DEF RcInv, MemoryInv
<1>1. Quiet
  BY <1>t DEF PopRecoveryReq, Quiet, Still, faultVars, Elsewhere, storage
<1>2. UNCHANGED <<nonces, recoveryResps, rcpc>>
  BY DEF PopRecoveryReq, respVars, recoverVars
<1>q. UNCHANGED <<status, opNum, prepReqQ, ppc, vpc>>
  BY <1>1 DEF Quiet, Still, replicaState, prepVars, vcVars, loopVars
<1> DEFINE queue == recoveryReqQ[r]
<1>3. /\ queue \in Seq(RecoveryRequest) /\ queue # <<>>
      /\ \A i \in 1 .. Len(queue) : RequestOk(queue[i])
  BY <1>i DEF PopRecoveryReq, MessageInv, RcTypeInv
<1>4. /\ recoveryReqQ' = [recoveryReqQ EXCEPT ![r] = Tail(queue)]
      /\ prrt[r] = "idle"
      /\ \/ UNCHANGED inHand /\ prrt' = [prrt EXCEPT ![r] = "ended"]
         \/ /\ inHand' = [inHand EXCEPT ![r] = Head(queue)]
            /\ prrt' = [prrt EXCEPT ![r] = "popped"]
  BY DEF PopRecoveryReq
<1> HIDE DEF queue
<1>5. /\ Head(queue) \in RecoveryRequest /\ RequestOk(Head(queue))
      /\ Tail(queue) \in Seq(RecoveryRequest)
      /\ \A i \in 1 .. Len(Tail(queue)) : RequestOk(Tail(queue)[i])
  <2>1. /\ Len(queue) \in Nat \ {0} /\ Head(queue) = queue[1]
        /\ Tail(queue) \in Seq(RecoveryRequest)
        /\ \A i \in 1 .. Len(Tail(queue)) :
             i + 1 \in 1 .. Len(queue) /\ Tail(queue)[i] = queue[i + 1]
    BY <1>3
  <2>2. 1 \in 1 .. Len(queue) /\ queue[1] \in RecoveryRequest
    BY <1>3, <2>1
  <2> QED
    BY <1>3, <2>1, <2>2
<1>6. RcTypeInv'
  <2>1. recoveryReqQ' \in [ReplicaId -> Seq(RecoveryRequest)]
    BY <1>4, <1>5, <1>i DEF RcTypeInv
  <2>2. /\ inHand' \in [ReplicaId -> RecoveryRequest \cup RecoveryResponse \cup {Nil}]
        /\ prrt' \in [ReplicaId -> {"idle", "popped", "respond", "ended"}]
        /\ \A s \in ReplicaId :
             /\ prrt'[s] = "popped" => inHand'[s] \in RecoveryRequest
             /\ prrt'[s] = "respond" => inHand'[s] \in RecoveryResponse
    <3>1. CASE UNCHANGED inHand /\ prrt' = [prrt EXCEPT ![r] = "ended"]
      BY <1>i, <3>1 DEF RcTypeInv
    <3>2. CASE /\ inHand' = [inHand EXCEPT ![r] = Head(queue)]
               /\ prrt' = [prrt EXCEPT ![r] = "popped"]
      BY <1>5, <1>i, <3>2 DEF RcTypeInv
    <3> QED
      BY <1>4, <3>1, <3>2
  <2> QED
    BY <1>2, <1>q, <1>i, <2>1, <2>2 DEF RcTypeInv
<1>7. RecoveringInv'
  BY <1>2, <1>q, <1>i DEF RecoveringInv
<1>8. /\ \A q : RequestOk(q) => RequestOk(q)'
      /\ \A x \in RecoveryResponse : ResponseOk(x) => ResponseOk(x)'
  BY <1>1, <1>2, QuietOk
<1>9. \A s \in ReplicaId : prrt'[s] = "respond" =>
        prrt[s] = "respond" /\ inHand'[s] = inHand[s]
  BY <1>4, <1>i DEF RcTypeInv
<1>10. MessageInv'
  <2>1. \A s \in ReplicaId : \A i \in 1 .. Len(recoveryReqQ'[s]) :
          RequestOk(recoveryReqQ'[s][i])
    BY <1>4, <1>5, <1>8, <1>i DEF RcTypeInv, MessageInv
  <2>2. \A s \in ReplicaId : prrt'[s] = "popped" => RequestOk(inHand'[s])
    BY <1>4, <1>5, <1>8, <1>i DEF RcTypeInv, MessageInv
  <2>3. \A s \in ReplicaId : prrt'[s] = "respond" => ResponseOk(inHand'[s])
    BY <1>8, <1>9, <1>i DEF RcTypeInv, MessageInv
  <2>4. \A s \in ReplicaId :
          /\ prrt'[s] = "respond" => inHand'[s] \in RecoveryResponse
          /\ \A i \in 1 .. Len(recoveryResps[s]) :
               recoveryResps[s][i] \in RecoveryResponse
    BY <1>6, <1>i DEF RcTypeInv
  <2> QED
    BY <1>2, <1>8, <1>i, <2>1, <2>2, <2>3, <2>4 DEF MessageInv
<1>11. \A s : \A n : WillHold(s, n) => WillHold(s, n)'
  <2>1. \A s : OnItsWay(s)' \subseteq OnItsWay(s)
    BY <1>9 DEF OnItsWay
  <2> QED
    BY <1>2, <2>1 DEF WillHold, Received, Covers, nonce
<1>12. DistinctNonces' => DistinctNonces
  BY <1>2 DEF DistinctNonces
<1> QED
  BY <1>1, <1>6, <1>7, <1>10, <1>11, <1>12, QuietKeeps

\* prrt makes a response of the state it finds.
LEMMA MakeStep ==
  ASSUME RcInv, NEW r \in ReplicaId, MakeResponse(r)
  PROVE  RcInv'
<1>t. /\ repListener \in [ReplicaId -> CommitMsg \cup {Nil}]
      /\ repMutex \in [ReplicaId -> {"free", "t1", "hbt", "ppit"}]
      /\ proc \in [ReplicaId -> ProcState]
      /\ opNum[0] \in 0 .. MaxOp /\ commitNum[0] \in 0 .. MaxOp
      /\ opNum[0] \in Nat /\ commitNum[0] \in Nat
      /\ SafetyInv /\ OrderInv /\ commitNum[0] <= opNum[0]
      /\ priId[r] = 0 /\ viewNum[r] = 0
  BY ZeroIsReplica, BoundAssumption
  DEF RcInv, MemoryInv, BaseInv, SafetyInv, TypeInv, TypeOK, CommitInv, ViewInv
<1>i. RcTypeInv /\ RecoveringInv /\ MessageInv
  BY DEF RcInv, MemoryInv
<1>1. Quiet
  BY <1>t DEF MakeResponse, Quiet, Still, faultVars, Elsewhere, storage
<1>2. UNCHANGED <<nonces, recoveryResps, rcpc, recoveryReqQ>>
  BY DEF MakeResponse, respVars, recoverVars
<1>q. UNCHANGED <<status, opNum, prepReqQ, ppc, vpc>>
  BY <1>1 DEF Quiet, Still, replicaState, prepVars, vcVars, loopVars
<1> DEFINE x == recoveryResponse(r, inHand[r])
           vec == getLog(opLog[0])
<1>3. /\ prrt[r] = "popped" /\ prrt' = [prrt EXCEPT ![r] = "respond"]
      /\ inHand' = [inHand EXCEPT ![r] = x]
  BY DEF MakeResponse
<1>4. /\ vec \in Seq(LogEntry) /\ Len(vec) = opNum[0]
      /\ \A i \in 1 .. opNum[0] : vec[i].opNum = i /\ Logs(0, i, vec[i].op)
  BY <1>t, GetLogGives
<1>5. /\ inHand[r].replicaId \in ReplicaId /\ inHand[r].nonce \in Nonce
      /\ inHand[r].nonce \in Used(inHand[r].replicaId)
  BY <1>i, <1>3 DEF RcTypeInv, MessageInv, RequestOk, RecoveryRequest
<1> HIDE DEF vec
<1>6. /\ x \in RecoveryResponse /\ ResponseOk(x)
      /\ x.isPrimary => x.opNum = opNum[0]
  <2>1. CASE r = 0
    <3>1. x = [to |-> inHand[r].replicaId, replicaId |-> r,
               nonce |-> inHand[r].nonce, viewNum |-> 0, isPrimary |-> TRUE,
               opLog |-> vec, opNum |-> opNum[0], commitNum |-> commitNum[0]]
      BY <1>t, <2>1 DEF recoveryResponse, isPrimary, vec
    <3> HIDE DEF x
    <3>2. x \in RecoveryResponse
      BY <1>t, <1>4, <1>5, <3>1 DEF RecoveryResponse
    <3>3. /\ x.to = inHand[r].replicaId /\ x.nonce = inHand[r].nonce
          /\ x.replicaId = 0 /\ x.opNum = opNum[0] /\ x.commitNum = commitNum[0]
          /\ x.opLog = vec
      BY <2>1, <3>1
    <3>4. ResponseOk(x)
      BY <1>t, <1>4, <1>5, <3>3 DEF ResponseOk
    <3> QED
      BY <3>2, <3>3, <3>4
  <2>2. CASE r # 0
    <3>1. x = [to |-> inHand[r].replicaId, replicaId |-> r,
               nonce |-> inHand[r].nonce, viewNum |-> 0, isPrimary |-> FALSE,
               opLog |-> <<>>, opNum |-> 0, commitNum |-> 0]
      BY <1>t, <2>2 DEF recoveryResponse, isPrimary
    <3> HIDE DEF x
    <3>2. 0 \in 0 .. MaxOp /\ <<>> \in Seq(LogEntry)
      BY BoundAssumption
    <3>3. x \in RecoveryResponse
      BY <1>5, <3>1, <3>2 DEF RecoveryResponse
    <3>4. x.to = inHand[r].replicaId /\ x.nonce = inHand[r].nonce /\ ~x.isPrimary
      BY <3>1
    <3> QED
      BY <1>5, <3>3, <3>4 DEF ResponseOk
  <2> QED
    BY <2>1, <2>2
<1> HIDE DEF x
<1>7. RcTypeInv'
  <2>1. /\ inHand' \in [ReplicaId -> RecoveryRequest \cup RecoveryResponse \cup {Nil}]
        /\ prrt' \in [ReplicaId -> {"idle", "popped", "respond", "ended"}]
        /\ \A s \in ReplicaId :
             /\ prrt'[s] = "popped" => inHand'[s] \in RecoveryRequest
             /\ prrt'[s] = "respond" => inHand'[s] \in RecoveryResponse
    BY <1>3, <1>6, <1>i DEF RcTypeInv
  <2> QED
    BY <1>2, <1>q, <1>i, <2>1 DEF RcTypeInv
<1>8. RecoveringInv'
  BY <1>2, <1>q, <1>i DEF RecoveringInv
<1>9. /\ \A q : RequestOk(q) => RequestOk(q)'
      /\ \A y \in RecoveryResponse : ResponseOk(y) => ResponseOk(y)'
  BY <1>1, <1>2, QuietOk
<1>10. \A s \in ReplicaId : s # r => prrt'[s] = prrt[s] /\ inHand'[s] = inHand[s]
  BY <1>3, <1>i DEF RcTypeInv
<1>11. prrt'[r] = "respond" /\ inHand'[r] = x
  BY <1>3, <1>i DEF RcTypeInv
<1>12. MessageInv'
  <2>1. \A s \in ReplicaId : prrt'[s] = "popped" => RequestOk(inHand'[s])
    BY <1>9, <1>10, <1>11, <1>i DEF MessageInv
  <2>2. \A s \in ReplicaId : prrt'[s] = "respond" => ResponseOk(inHand'[s])
    BY <1>6, <1>9, <1>10, <1>11, <1>i DEF MessageInv, RcTypeInv
  <2>3. \A s \in ReplicaId :
          /\ prrt'[s] = "respond" => inHand'[s] \in RecoveryResponse
          /\ \A i \in 1 .. Len(recoveryResps[s]) :
               recoveryResps[s][i] \in RecoveryResponse
    BY <1>7, <1>i DEF RcTypeInv
  <2> QED
    BY <1>2, <1>9, <1>i, <2>1, <2>2, <2>3 DEF MessageInv
<1>13. ASSUME NEW s \in ReplicaId, NEW n \in 0 .. opNum[0], WillHold(s, n)
       PROVE  WillHold(s, n)'
  <2>1. OnItsWay(s)' \subseteq OnItsWay(s) \cup {x}
    BY <1>10, <1>11 DEF OnItsWay
  <2>2. Covers(x, s, n)
    BY <1>6, <1>t DEF Covers
  <2> QED
    BY <1>2, <1>13, <2>1, <2>2 DEF WillHold, Received, Covers, nonce
<1>14. DistinctNonces' => DistinctNonces
  BY <1>2 DEF DistinctNonces
<1> QED
  BY <1>1, <1>7, <1>8, <1>12, <1>13, <1>14, QuietKeeps

\* A response arrives, or is lost, or is ignored; prrt may send it again.
LEMMA RespondSteps ==
  ASSUME RcInv, NEW r \in ReplicaId, NEW b \in ReplicaId,
         invokeRecoveryResponse(r, b) \/ RecoveryResponseFails(r, b)
  PROVE  RcInv'
<1>t. /\ repListener \in [ReplicaId -> CommitMsg \cup {Nil}]
      /\ repMutex \in [ReplicaId -> {"free", "t1", "hbt", "ppit"}]
      /\ proc \in [ReplicaId -> ProcState]
  BY DEF RcInv, BaseInv, SafetyInv, TypeInv, TypeOK
<1>i. RcTypeInv /\ RecoveringInv /\ MessageInv
  BY DEF RcInv, MemoryInv
<1>1. Quiet
  BY <1>t DEF invokeRecoveryResponse, RecoveryResponseFails, Quiet, Still,
              faultVars, Elsewhere, storage
<1>2. UNCHANGED <<nonces, rcpc, recoveryReqQ>>
  BY DEF invokeRecoveryResponse, RecoveryResponseFails, recoverVars
<1>3. DistinctNonces' => DistinctNonces
  BY <1>2 DEF DistinctNonces
<1>q. UNCHANGED <<status, opNum, prepReqQ, ppc, vpc>>
  BY <1>1 DEF Quiet, Still, replicaState, prepVars, vcVars, loopVars
<1>4. prrt[r] = "respond" /\ inHand[r].to = b
  BY DEF invokeRecoveryResponse, RecoveryResponseFails
<1>5. \/ UNCHANGED <<prrt, inHand>>
      \/ /\ prrt' = [prrt EXCEPT ![r] = "idle"]
         /\ inHand' = [inHand EXCEPT ![r] = Nil]
  BY DEF invokeRecoveryResponse, RecoveryResponseFails, Responded
<1>6. \/ UNCHANGED recoveryResps
      \/ recoveryResps' = [recoveryResps EXCEPT
                             ![b] = Append(recoveryResps[b], inHand[r])]
  BY DEF invokeRecoveryResponse, RecoveryResponseFails, respVars,
         processRecoveryResponse
<1> DEFINE x == inHand[r]
           more == Append(recoveryResps[b], x)
<1>7. x \in RecoveryResponse /\ ResponseOk(x) /\ x.to = b /\ x \in OnItsWay(b)
  BY <1>4, <1>i DEF RcTypeInv, MessageInv, OnItsWay
<1> HIDE DEF x
<1>8. /\ more \in Seq(RecoveryResponse)
      /\ \A i \in 1 .. Len(more) :
           more[i] = x \/ (i \in 1 .. Len(recoveryResps[b]) /\ more[i] = recoveryResps[b][i])
  BY <1>7, <1>i DEF RcTypeInv
<1>9. \A s \in ReplicaId :
        recoveryResps'[s] = recoveryResps[s] \/ (s = b /\ recoveryResps'[b] = more)
  BY <1>6, <1>i DEF RcTypeInv, x
<1>10. recoveryResps' \in [ReplicaId -> Seq(RecoveryResponse)]
  <2>1. UNCHANGED recoveryResps \/ recoveryResps' = [recoveryResps EXCEPT ![b] = more]
    BY <1>6 DEF x
  <2> HIDE DEF more
  <2> QED
    BY <1>8, <1>i, <2>1 DEF RcTypeInv
<1>11. \A s \in ReplicaId :
         /\ prrt'[s] = "respond" => prrt[s] = "respond" /\ inHand'[s] = inHand[s]
         /\ prrt'[s] = "popped" => prrt[s] = "popped" /\ inHand'[s] = inHand[s]
  BY <1>5, <1>i DEF RcTypeInv
<1> HIDE DEF more
<1>12. RcTypeInv'
  <2>1. /\ inHand' \in [ReplicaId -> RecoveryRequest \cup RecoveryResponse \cup {Nil}]
        /\ prrt' \in [ReplicaId -> {"idle", "popped", "respond", "ended"}]
    BY <1>5, <1>i DEF RcTypeInv
  <2> QED
    BY <1>2, <1>q, <1>i, <1>10, <1>11, <2>1 DEF RcTypeInv
<1>13. RecoveringInv'
  BY <1>2, <1>q, <1>i DEF RecoveringInv
<1>14. /\ \A q : RequestOk(q) => RequestOk(q)'
       /\ \A y \in RecoveryResponse : ResponseOk(y) => ResponseOk(y)'
  BY <1>1, <1>2, QuietOk
<1>15. MessageInv'
  <2>1. \A s \in ReplicaId :
          /\ prrt'[s] = "popped" => RequestOk(inHand'[s])
          /\ prrt'[s] = "respond" =>
               inHand'[s] \in RecoveryResponse /\ ResponseOk(inHand'[s])
    BY <1>11, <1>i DEF MessageInv, RcTypeInv
  <2>2. ASSUME NEW s \in ReplicaId, NEW i \in 1 .. Len(recoveryResps'[s])
        PROVE  /\ recoveryResps'[s][i] \in RecoveryResponse
               /\ recoveryResps'[s][i].to = s
               /\ ResponseOk(recoveryResps'[s][i])
    <3>1. CASE recoveryResps'[s] = recoveryResps[s]
      BY <1>i, <2>2, <3>1 DEF MessageInv, RcTypeInv
    <3>2. CASE s = b /\ recoveryResps'[b] = more
      <4>1. \A j \in 1 .. Len(recoveryResps[b]) :
              /\ recoveryResps[b][j] \in RecoveryResponse
              /\ recoveryResps[b][j].to = b
              /\ ResponseOk(recoveryResps[b][j])
        BY <1>i DEF MessageInv, RcTypeInv
      <4> QED
        BY <1>7, <1>8, <2>2, <3>2, <4>1
    <3> QED
      BY <1>9, <3>1, <3>2
  <2> QED
    BY <1>2, <1>14, <1>i, <2>1, <2>2 DEF MessageInv
<1>16. ASSUME NEW s \in ReplicaId, NEW n, WillHold(s, n) PROVE WillHold(s, n)'
  <2>1. OnItsWay(s)' \subseteq OnItsWay(s)
    BY <1>11 DEF OnItsWay
  <2>2. Received(s)' \subseteq Received(s) \cup OnItsWay(s)
    BY <1>7, <1>8, <1>9 DEF Received
  <2> QED
    BY <1>2, <1>16, <2>1, <2>2 DEF WillHold, Covers, nonce
<1> QED
  BY <1>1, <1>3, <1>12, <1>13, <1>15, <1>16, QuietKeeps

-----------------------------------------------------------------------------
(***************************************************************************)
(* The end of recover().                                                   *)
(***************************************************************************)
\* The rest of recover() after an adoption.
Rejoined(r) ==
  /\ repMutex' = [repMutex EXCEPT ![r] = "free"]
  /\ rcpc' = [rcpc EXCEPT ![r] = "none"]
  /\ recoveryResps' = [recoveryResps EXCEPT ![r] = <<>>]
  /\ initFlag' = [initFlag EXCEPT ![r] = FALSE]
  /\ UNCHANGED <<repListener, faultVars, Elsewhere, rcTodo, rcRetry, nonces,
                 prrtVars, started, missed>>

\* A replica that adopts a response of the primary holds what was expected of
\* it, and is as good as a backup that logged it all.
LEMMA AdoptBase ==
  ASSUME RcInv, NEW r \in ReplicaId, r # 0, ppc[r] = "idle",
         NEW x \in RecoveryResponse, x.isPrimary, ResponseOk(x),
         AdoptResponse(r, x), Rejoined(r)
  PROVE  BaseInv' /\ OrderInv'
<1>t. /\ TypeOK /\ ThreadInv /\ ViewInv /\ LogInv /\ CommitInv /\ CallInv
      /\ ReplyInv /\ OrderInv
  BY DEF RcInv, BaseInv, MemoryInv, SafetyInv, TypeInv
<1>u. UNCHANGED <<peers, prepReqQ, waitMap, ppc, ppInfo, cpc, creq, replies,
                  hbInfo, todo, repClient, repListener, proc, lost, resent,
                  spurious>>
  BY DEF Rejoined, Elsewhere, prepVars, clientVars, faultVars
<1> DEFINE kv == recoverStateFromLog(kvMap[r], x.opLog)
           log == setLog(x.opLog)
<1>1. /\ x.opLog \in Seq(LogEntry) /\ x.opNum \in 0 .. MaxOp
      /\ x.commitNum \in 0 .. MaxOp /\ x.replicaId = 0 /\ x.viewNum = 0
      /\ x.opNum <= opNum[0] /\ x.commitNum <= x.opNum
      /\ x.commitNum <= commitNum[0] /\ Len(x.opLog) = x.opNum
      /\ \A i \in 1 .. x.opNum :
           x.opLog[i].opNum = i /\ Logs(0, i, x.opLog[i].op)
  BY DEF RecoveryResponse, ResponseOk
<1>2. kv \in KvMap
  BY <1>1, <1>t, RecoveredType DEF TypeOK
<1>3. /\ log \in OpLog /\ DOMAIN log.entries = 1 .. x.opNum
      /\ Len(log.opNums) = x.opNum
      /\ \A n \in 1 .. x.opNum :
           log.opNums[n] = n /\ log.entries[n] = x.opLog[n]
  BY <1>1, SetLogGives
<1>4. /\ kvMap' = [kvMap EXCEPT ![r] = kv]
      /\ opLog' = [opLog EXCEPT ![r] = log]
      /\ priId' = [priId EXCEPT ![r] = 0] /\ viewNum' = [viewNum EXCEPT ![r] = 0]
      /\ opNum' = [opNum EXCEPT ![r] = x.opNum]
      /\ commitNum' = [commitNum EXCEPT ![r] = x.commitNum]
      /\ status' = [status EXCEPT ![r] = "NORMAL"]
      /\ repMutex' = [repMutex EXCEPT ![r] = "free"]
  BY <1>1 DEF AdoptResponse, Rejoined
<1> HIDE DEF kv, log
<1>5. TypeOK'
  BY <1>t, <1>u, <1>1, <1>2, <1>3, <1>4, ZeroIsReplica DEF TypeOK, Status
<1>6. \A s \in ReplicaId : s # r =>
        /\ opLog'[s] = opLog[s] /\ opNum'[s] = opNum[s]
        /\ commitNum'[s] = commitNum[s] /\ status'[s] = status[s]
        /\ priId'[s] = priId[s] /\ viewNum'[s] = viewNum[s]
  BY <1>t, <1>4 DEF TypeOK
<1>7. /\ opLog'[r] = log /\ opNum'[r] = x.opNum /\ commitNum'[r] = x.commitNum
      /\ status'[r] = "NORMAL" /\ priId'[r] = 0 /\ viewNum'[r] = 0
  BY <1>t, <1>4 DEF TypeOK
<1>8. /\ opLog'[0] = opLog[0] /\ commitNum'[0] = commitNum[0] /\ cpc[r] = "idle"
      /\ \A n, op : Logs(0, n, op)' <=> Logs(0, n, op)
  BY <1>6, <1>t, ZeroIsReplica DEF LogInv, ClientAt, Logs
<1>9. ThreadInv'
  BY <1>t, <1>u, <1>6, <1>8 DEF ThreadInv
<1>10. ViewInv'
  BY <1>t, <1>6, <1>7 DEF ViewInv
<1>11. LogInv'
  <2>1. LogAt(r)'
    BY <1>1, <1>3, <1>7, <1>8 DEF LogAt
  <2>2. \A s \in ReplicaId : s # r => LogAt(s)'
    BY <1>t, <1>6, <1>8 DEF LogInv, LogAt
  <2>3. \A s \in ReplicaId : ClientAt(s)' /\ PrepAt(s)'
    BY <1>t, <1>u, <1>6, <1>8 DEF LogInv, ClientAt, PrepAt
  <2> QED
    BY <2>1, <2>2, <2>3 DEF LogInv
<1>12. CommitInv'
  <2>1. ASSUME NEW s \in ReplicaId
        PROVE  /\ commitNum'[s] <= commitNum'[0]
               /\ commitNum'[s] <= opNum'[s]
               /\ hbInfo[s].commitNum <= commitNum'[0]
               /\ repListener[s] # Nil => repListener[s].info.commitNum <= commitNum'[0]
               /\ cpc[s] = "commit" => opNum'[s] = commitNum'[s]
    BY <1>t, <1>1, <1>6, <1>7, <1>8 DEF CommitInv
  <2> QED
    BY <1>u, <2>1 DEF CommitInv
<1>13. CallInv'
  BY <1>t, <1>u, <1>6 DEF CallInv
<1>14. ReplyInv'
  BY <1>t, <1>u, <1>8 DEF ReplyInv
<1>15. OrderInv'
  <2>1. /\ Len(opLog'[r].opNums) = opNum'[r]
        /\ \A i \in 1 .. opNum'[r] : opLog'[r].opNums[i] = i
        /\ \A n \in DOMAIN opLog'[r].entries : opLog'[r].entries[n].opNum = n
    BY <1>1, <1>3, <1>7
  <2> QED
    BY <1>t, <1>6, <2>1 DEF OrderInv
<1> QED
  BY <1>5, <1>9, <1>10, <1>11, <1>12, <1>13, <1>14, <1>15
  DEF BaseInv, SafetyInv, TypeInv

\* ... and its own requests, responses and counters are in order.
LEMMA AdoptKeeps ==
  ASSUME RcInv, NEW r \in ReplicaId, rcpc[r] # "none",
         NEW x \in RecoveryResponse, x \in Received(r), x.isPrimary,
         x.nonce = nonce(r), ResponseOk(x),
         AdoptResponse(r, x), Rejoined(r)
  PROVE  RcInv'
<1>t. /\ TypeOK /\ ViewInv /\ RcTypeInv /\ NoStartView /\ RecoveringInv /\ MessageInv
      /\ RcCountInv /\ RcReachedInv
  BY DEF RcInv, BaseInv, MemoryInv, SafetyInv, TypeInv
<1>1. /\ status[r] = "RECOVERING" /\ ppc[r] = "idle" /\ opNum[r] = 0 /\ r # 0
  BY <1>t DEF RecoveringInv, ViewInv
<1>2. BaseInv' /\ OrderInv'
  BY <1>1, AdoptBase
<1>u. UNCHANGED <<prepReqQ, waitMap, ppc, cpc, todo, resent, spurious, vpc,
                  viewStartInfoMap, nonces, recoveryReqQ, prrt, inHand>>
  BY DEF Rejoined, Elsewhere, prepVars, clientVars, faultVars, prrtVars, vcVars,
         loopVars, mapVars
<1>3. /\ \A s \in ReplicaId : s # r =>
           /\ opLog'[s] = opLog[s] /\ opNum'[s] = opNum[s]
           /\ commitNum'[s] = commitNum[s] /\ status'[s] = status[s]
           /\ rcpc'[s] = rcpc[s] /\ recoveryResps'[s] = recoveryResps[s]
      /\ opNum'[r] = x.opNum /\ status'[r] = "NORMAL" /\ rcpc'[r] = "none"
      /\ recoveryResps'[r] = <<>>
  BY <1>t DEF AdoptResponse, Rejoined, TypeOK, RcTypeInv
<1>4. RcTypeInv'
  <2>1. recoveryResps' \in [ReplicaId -> Seq(RecoveryResponse)]
    <3>1. <<>> \in Seq(RecoveryResponse)
      OBVIOUS
    <3> QED
      BY <1>t, <3>1 DEF Rejoined, RcTypeInv
  <2>2. rcpc' \in [ReplicaId -> {"none", "request", "wait"}]
    BY <1>t DEF Rejoined, RcTypeInv
  <2> QED
    BY <1>t, <1>u, <2>1, <2>2 DEF RcTypeInv
<1>5. NoStartView'
  BY <1>t, <1>u DEF NoStartView
<1>6. RecoveringInv'
  BY <1>t, <1>u, <1>3 DEF RecoveringInv
<1>7. /\ opNum'[0] = opNum[0] /\ commitNum'[0] = commitNum[0]
      /\ opNum[0] \in Nat /\ commitNum[0] \in Nat
      /\ \A n, op : Logs(0, n, op) => Logs(0, n, op)'
  BY <1>t, <1>1, <1>3, ZeroIsReplica DEF TypeOK, Logs
<1>8. MessageInv'
  <2>1. \A q : RequestOk(q) => RequestOk(q)'
    BY <1>u DEF RequestOk, Used
  <2>2. ASSUME NEW y \in RecoveryResponse, ResponseOk(y) PROVE ResponseOk(y)'
    <3>1. Used(y.to) \subseteq Used(y.to)'
      BY <1>u DEF Used
    <3>2. /\ opNum[0] <= opNum'[0] /\ opNum'[0] \in Nat
          /\ commitNum[0] <= commitNum'[0] /\ commitNum'[0] \in Nat
      BY <1>7
    <3> QED
      BY <1>7, <2>2, <3>1, <3>2, ResponseStays DEF RcInv
  <2>3. \A s \in ReplicaId :
          /\ prrt[s] = "respond" => inHand[s] \in RecoveryResponse
          /\ \A i \in 1 .. Len(recoveryResps[s]) :
               recoveryResps[s][i] \in RecoveryResponse
    BY <1>t DEF RcTypeInv
  <2>4. \A s \in ReplicaId : \A i \in 1 .. Len(recoveryResps'[s]) :
          s # r /\ recoveryResps'[s] = recoveryResps[s]
    BY <1>3
  <2> QED
    BY <1>t, <1>u, <2>1, <2>2, <2>3, <2>4 DEF MessageInv
<1>9. ASSUME NEW n \in Nat
       PROVE  /\ Counted(n) \cup Lost(n) \subseteq Counted(n)' \cup Lost(n)'
              /\ Holders(n) \cup Lost(n) \subseteq Holders(n)' \cup Lost(n)'
  <2>1. \A s \in ReplicaId : s # r =>
          /\ s \in Holders(n) <=> s \in Holders(n)'
          /\ s \in Counted(n) <=> s \in Counted(n)'
    BY <1>u, <1>3 DEF Holders, Counted, Owing
  <2>2. ASSUME NEW s \in Lost(n), s # r PROVE s \in Lost(n)'
    <3>1. s \in ReplicaId /\ status[s] = "RECOVERING" /\ n <= opNum[0] /\ WillHold(s, n)
      BY <2>2 DEF Lost
    <3>2. Received(s)' = Received(s) /\ OnItsWay(s)' = OnItsWay(s)
      BY <1>u, <1>3, <2>2, <3>1 DEF Received, OnItsWay
    <3>3. WillHold(s, n)'
      BY <1>u, <1>3, <2>2, <3>1, <3>2 DEF WillHold, Covers, nonce
    <3> QED
      BY <1>3, <1>7, <2>2, <3>1, <3>3 DEF Lost
  <2>3. ASSUME r \in Holders(n) \cup Lost(n) PROVE r \in Counted(n)' /\ r \in Holders(n)'
    <3>1. n <= x.opNum
      <4>1. CASE r \in Holders(n)
        BY <1>1, <4>1 DEF Holders, RecoveryResponse
      <4>2. CASE r \in Lost(n)
        BY <4>2 DEF Lost, WillHold, Covers
      <4> QED
        BY <2>3, <4>1, <4>2
    <3>2. r \in Holders(n)'
      BY <1>3, <3>1 DEF Holders
    <3>3. ~Owing(r, n)'
      BY <1>1, <1>u DEF Owing
    <3> QED
      BY <3>2, <3>3 DEF Counted
  <2>4. /\ Counted(n) \subseteq Holders(n) /\ Holders(n) \subseteq ReplicaId
        /\ Lost(n) \subseteq ReplicaId
    BY DEF Counted, Holders, Lost
  <2> QED
    BY <2>1, <2>2, <2>3, <2>4
<1>10. RcCountInv' /\ RcReachedInv'
  <2>1. /\ UNCHANGED <<resent, spurious>> /\ waitMap'[0] = waitMap[0]
        /\ cpc'[0] = cpc[0] /\ (DistinctNonces' => DistinctNonces)
    BY <1>u DEF DistinctNonces
  <2> QED
    BY <1>t, <1>7, <1>9, <2>1, CountsGo
<1> QED
  BY <1>2, <1>4, <1>5, <1>6, <1>8, <1>10 DEF RcInv, MemoryInv

\* Recovered and SpuriousRecovery.
LEMMA FinishSteps ==
  ASSUME RcInv, NEW r \in ReplicaId, Recovered(r) \/ SpuriousRecovery(r)
  PROVE  RcInv'
<1>1. rcpc[r] # "none" /\ FinishRecovery(r)
  BY DEF Recovered, SpuriousRecovery
<1>2. PICK v : \/ Adoptable(r, v) = {} /\ RecoveryFails(r)
              \/ /\ Adoptable(r, v) # {}
                 /\ AdoptResponse(r, recoveryResps[r][CHOOSE i \in Adoptable(r, v) : TRUE])
                 /\ Rejoined(r)
  BY <1>1 DEF FinishRecovery, Rejoined
<1>3. CASE RecoveryFails(r)
  BY <1>3, ProcessSteps
<1>4. CASE Adoptable(r, v) # {} /\ ~RecoveryFails(r)
  <2> DEFINE k == CHOOSE i \in Adoptable(r, v) : TRUE
             x == recoveryResps[r][k]
  <2>1. AdoptResponse(r, x) /\ Rejoined(r)
    BY <1>2, <1>4
  <2>2. k \in Adoptable(r, v)
    BY <1>4
  <2>3. /\ k \in DOMAIN recoveryResps[r] /\ x.nonce = nonce(r) /\ x.isPrimary
    BY <2>2 DEF Adoptable, responses
  <2>4. /\ recoveryResps[r] \in Seq(RecoveryResponse)
        /\ \A i \in 1 .. Len(recoveryResps[r]) : ResponseOk(recoveryResps[r][i])
    BY DEF RcInv, MemoryInv, RcTypeInv, MessageInv
  <2>5. k \in 1 .. Len(recoveryResps[r])
    <3> HIDE DEF k
    <3> QED
      BY <2>3, <2>4
  <2>6. x \in RecoveryResponse /\ x \in Received(r) /\ ResponseOk(x)
    <3> HIDE DEF k
    <3> QED
      BY <2>4, <2>5 DEF Received
  <2> HIDE DEF k, x
  <2> QED
    BY <1>1, <2>1, <2>3, <2>6, AdoptKeeps
<1> QED
  BY <1>2, <1>3, <1>4

-----------------------------------------------------------------------------
(***************************************************************************)
(* A backup is started again.                                              *)
(***************************************************************************)
\* It starts with nothing, and follows replica 0 with the others.
LEMMA StartBase ==
  ASSUME RcInv, Rejoins, NEW r \in ReplicaId, Start(r)
  PROVE  /\ BaseInv' /\ NoStartView' /\ OrderInv'
         /\ r # 0 /\ status'[r] = "RECOVERING"
<1>t. /\ TypeOK /\ ThreadInv /\ ViewInv /\ LogInv /\ CommitInv /\ CallInv
      /\ ReplyInv /\ OrderInv /\ NoStartView
  BY DEF RcInv, BaseInv, MemoryInv, SafetyInv, TypeInv
<1>r. r # 0 /\ Input(r).recovering = {TRUE}
  BY DEF Rejoins, Start
<1>1. /\ status' = [status EXCEPT ![r] = "RECOVERING"]
      /\ proc' = [proc EXCEPT ![r] = "starting"]
      /\ priId' = [priId EXCEPT ![r] = 0] /\ viewNum' = [viewNum EXCEPT ![r] = 0]
      /\ opNum' = [opNum EXCEPT ![r] = 0]
      /\ commitNum' = [commitNum EXCEPT ![r] = 0]
      /\ opLog' = [opLog EXCEPT ![r] = EmptyLog]
      /\ kvMap' = [kvMap EXCEPT ![r] = EmptyKv]
      /\ repMutex' = [repMutex EXCEPT ![r] = "free"]
      /\ prepReqQ' = [prepReqQ EXCEPT ![r] = <<>>]
      /\ cpc' = [cpc EXCEPT ![r] = "idle"] /\ creq' = [creq EXCEPT ![r] = Nil]
      /\ ppc' = [ppc EXCEPT ![r] = "idle"] /\ ppInfo' = [ppInfo EXCEPT ![r] = Nil]
      /\ repClient' = [repClient EXCEPT ![r] = Nil]
  BY <1>r DEF Start
<1>2. /\ waitMap' = [waitMap EXCEPT ![r] = [n \in OpInt |-> 0]]
      /\ todo' = [todo EXCEPT ![r] = [t \in Caller |-> {}]]
      /\ UNCHANGED <<replies, repListener, lost, resent, spurious>>
  BY DEF Start
<1>3. peers' = [peers EXCEPT ![r] = OtherReplicas(r)]
  BY ClusterAssumption DEF Start
<1>4. /\ hbInfo' = [hbInfo EXCEPT ![r] = [viewNum |-> 0, commitNum |-> 0]]
      /\ 0 \in 0 .. MaxOp /\ [viewNum |-> 0, commitNum |-> 0] \in CommitInfo
  BY BoundAssumption DEF Start, CommitInfo
<1>5. /\ EmptyLog \in OpLog /\ DOMAIN EmptyLog.entries = {}
      /\ EmptyLog.opNums = <<>> /\ EmptyKv \in KvMap
      /\ [n \in OpInt |-> 0] \in [OpInt -> Nat]
      /\ [t \in Caller |-> {}] \in [Caller -> SUBSET ReplicaId]
      /\ OtherReplicas(r) \in SUBSET ReplicaId
  BY EmptyLogType DEF EmptyLog, EmptyKv, KvMap, OtherReplicas
<1>6. TypeOK'
  <2>1. /\ priId' \in [ReplicaId -> ReplicaId]
        /\ status' \in [ReplicaId -> Status]
        /\ viewNum' \in [ReplicaId -> Nat]
        /\ opNum' \in [ReplicaId -> 0 .. MaxOp]
        /\ commitNum' \in [ReplicaId -> 0 .. MaxOp]
        /\ opLog' \in [ReplicaId -> OpLog]
        /\ kvMap' \in [ReplicaId -> KvMap]
        /\ peers' \in [ReplicaId -> SUBSET ReplicaId]
    BY <1>t, <1>1, <1>3, <1>4, <1>5, ZeroIsReplica DEF TypeOK, Status
  <2>2. /\ repMutex' \in [ReplicaId -> {"free", "t1", "hbt", "ppit"}]
        /\ prepReqQ' \in [ReplicaId -> Seq(PrepInfo)]
        /\ waitMap' \in [ReplicaId -> [OpInt -> Nat]]
        /\ cpc' \in [ReplicaId -> {"idle", "enter", "prepare", "wait",
                                   "reached", "commit"}]
        /\ creq' \in [ReplicaId -> ClientOp \cup {Nil}]
        /\ hbInfo' \in [ReplicaId -> CommitInfo]
    <3>1. <<>> \in Seq(PrepInfo)
      OBVIOUS
    <3> QED
      BY <1>t, <1>1, <1>2, <1>4, <1>5, <3>1 DEF TypeOK
  <2>3. /\ ppc' \in [ReplicaId -> {"idle", "checked", "logged"}]
        /\ ppInfo' \in [ReplicaId -> PrepInfo \cup {Nil}]
        /\ todo' \in [ReplicaId -> [Caller -> SUBSET ReplicaId]]
        /\ repClient' \in [ReplicaId -> Call \cup {Nil}]
        /\ proc' \in [ReplicaId -> ProcState]
    BY <1>t, <1>1, <1>2, <1>5 DEF TypeOK, ProcState
  <2> QED
    BY <1>t, <1>2, <2>1, <2>2, <2>3 DEF TypeOK
<1>7. \A s \in ReplicaId : s # r =>
        /\ opLog'[s] = opLog[s] /\ opNum'[s] = opNum[s]
        /\ commitNum'[s] = commitNum[s] /\ status'[s] = status[s]
        /\ priId'[s] = priId[s] /\ viewNum'[s] = viewNum[s]
        /\ prepReqQ'[s] = prepReqQ[s] /\ cpc'[s] = cpc[s] /\ creq'[s] = creq[s]
        /\ ppc'[s] = ppc[s] /\ ppInfo'[s] = ppInfo[s] /\ todo'[s] = todo[s]
        /\ hbInfo'[s] = hbInfo[s] /\ peers'[s] = peers[s]
  BY <1>t, <1>1, <1>2, <1>3, <1>4 DEF TypeOK
<1>8. /\ opLog'[r] = EmptyLog /\ opNum'[r] = 0 /\ commitNum'[r] = 0
      /\ status'[r] = "RECOVERING" /\ priId'[r] = 0 /\ viewNum'[r] = 0
      /\ prepReqQ'[r] = <<>> /\ cpc'[r] = "idle" /\ ppc'[r] = "idle"
      /\ hbInfo'[r].commitNum = 0 /\ peers'[r] = OtherReplicas(r)
  BY <1>t, <1>1, <1>2, <1>3, <1>4 DEF TypeOK
<1>9. todo'[r]["ppit"] = {}
  BY <1>t, <1>2 DEF TypeOK, Caller
<1>10. /\ opLog'[0] = opLog[0] /\ commitNum'[0] = commitNum[0]
       /\ commitNum[0] \in Nat
       /\ \A n, op : Logs(0, n, op)' <=> Logs(0, n, op)
  BY <1>7, <1>r, <1>t, ZeroIsReplica DEF TypeOK, Logs
<1>11. ThreadInv' /\ ViewInv' /\ CallInv'
  BY <1>r, <1>t, <1>7, <1>8, <1>9 DEF ThreadInv, ViewInv, CallInv
<1>12. LogInv'
  <2>1. LogAt(r)' /\ ClientAt(r)' /\ PrepAt(r)'
    <3>1. 1 .. 0 = {} /\ Len(<<>>) = 0
      OBVIOUS
    <3> QED
      BY <1>5, <1>8, <3>1 DEF LogAt, ClientAt, PrepAt
  <2>2. \A s \in ReplicaId : s # r => LogAt(s)' /\ ClientAt(s)' /\ PrepAt(s)'
    BY <1>t, <1>7, <1>10 DEF LogInv, LogAt, ClientAt, PrepAt
  <2> QED
    BY <2>1, <2>2 DEF LogInv
<1>13. CommitInv'
  BY <1>t, <1>2, <1>7, <1>8, <1>10 DEF CommitInv
<1>14. ReplyInv'
  BY <1>t, <1>2, <1>10 DEF ReplyInv
<1>15. OrderInv'
  BY <1>t, <1>5, <1>7, <1>8 DEF OrderInv
<1>16. NoStartView'
  <2>1. viewStartInfoMap' =
          [viewStartInfoMap EXCEPT ![r] = [v \in View |-> Nil]]
    BY DEF Start, ClearMaps
  <2> QED
    BY <1>t, <2>1 DEF NoStartView
<1> QED
  BY <1>r, <1>6, <1>8, <1>11, <1>12, <1>13, <1>14, <1>15, <1>16
  DEF BaseInv, SafetyInv, TypeInv

\* What it held it will hold again: it has not begun to recover.
LEMMA StartKeeps ==
  ASSUME RcInv, Rejoins, NEW r \in ReplicaId, Start(r)
  PROVE  RcInv'
<1>t. /\ TypeOK /\ LogInv /\ RcTypeInv /\ RecoveringInv /\ MessageInv
      /\ RcCountInv /\ RcReachedInv
  BY DEF RcInv, BaseInv, MemoryInv, SafetyInv, TypeInv
<1>1. BaseInv' /\ NoStartView' /\ OrderInv' /\ r # 0 /\ status'[r] = "RECOVERING"
  BY StartBase
<1>2. \E f : status' = [status EXCEPT ![r] = f]
  BY DEF Start
<1>3. /\ opNum' = [opNum EXCEPT ![r] = 0]
      /\ opLog' = [opLog EXCEPT ![r] = EmptyLog]
      /\ commitNum' = [commitNum EXCEPT ![r] = 0]
      /\ prepReqQ' = [prepReqQ EXCEPT ![r] = <<>>]
      /\ waitMap' = [waitMap EXCEPT ![r] = [n \in OpInt |-> 0]]
      /\ cpc' = [cpc EXCEPT ![r] = "idle"] /\ ppc' = [ppc EXCEPT ![r] = "idle"]
      /\ todo' = [todo EXCEPT ![r] = [t \in Caller |-> {}]]
      /\ vpc' = [vpc EXCEPT ![r] = "none"] /\ rcpc' = [rcpc EXCEPT ![r] = "none"]
      /\ recoveryReqQ' = [recoveryReqQ EXCEPT ![r] = <<>>]
      /\ prrt' = [prrt EXCEPT ![r] = "idle"] /\ inHand' = [inHand EXCEPT ![r] = Nil]
      /\ recoveryResps' = [recoveryResps EXCEPT ![r] = <<>>]
      /\ UNCHANGED <<resent, spurious, nonces>>
  BY DEF Start
<1>4. \A s \in ReplicaId : s # r =>
        /\ opNum'[s] = opNum[s] /\ opLog'[s] = opLog[s]
        /\ commitNum'[s] = commitNum[s]
        /\ prepReqQ'[s] = prepReqQ[s] /\ waitMap'[s] = waitMap[s]
        /\ cpc'[s] = cpc[s] /\ ppc'[s] = ppc[s] /\ todo'[s] = todo[s]
        /\ status'[s] = status[s]
  BY <1>t, <1>3, <1>2 DEF TypeOK
<1>5. \A s \in ReplicaId : s # r =>
        /\ rcpc'[s] = rcpc[s]
        /\ recoveryReqQ'[s] = recoveryReqQ[s] /\ prrt'[s] = prrt[s]
        /\ inHand'[s] = inHand[s] /\ recoveryResps'[s] = recoveryResps[s]
  BY <1>t, <1>3 DEF RcTypeInv
<1>6. /\ opNum'[r] = 0 /\ prepReqQ'[r] = <<>> /\ ppc'[r] = "idle"
      /\ rcpc'[r] = "none"
      /\ recoveryReqQ'[r] = <<>> /\ recoveryResps'[r] = <<>> /\ prrt'[r] = "idle"
  BY <1>t, <1>3 DEF TypeOK, RcTypeInv
<1>7. RcTypeInv'
  <2>1. /\ recoveryReqQ' \in [ReplicaId -> Seq(RecoveryRequest)]
        /\ recoveryResps' \in [ReplicaId -> Seq(RecoveryResponse)]
    <3>1. <<>> \in Seq(RecoveryRequest) /\ <<>> \in Seq(RecoveryResponse)
      OBVIOUS
    <3> QED
      BY <1>t, <1>3, <3>1 DEF RcTypeInv
  <2>2. /\ DOMAIN vpc' = ReplicaId
        /\ rcpc' \in [ReplicaId -> {"none", "request", "wait"}]
        /\ prrt' \in [ReplicaId -> {"idle", "popped", "respond", "ended"}]
        /\ inHand' \in [ReplicaId -> RecoveryRequest \cup RecoveryResponse \cup {Nil}]
    BY <1>t, <1>3 DEF RcTypeInv
  <2>3. \A s \in ReplicaId :
          /\ prrt'[s] = "popped" => inHand'[s] \in RecoveryRequest
          /\ prrt'[s] = "respond" => inHand'[s] \in RecoveryResponse
    BY <1>t, <1>5, <1>6 DEF RcTypeInv
  <2> QED
    BY <1>t, <1>3, <2>1, <2>2, <2>3 DEF RcTypeInv
<1>8. RecoveringInv'
  BY <1>t, <1>1, <1>3, <1>4, <1>5, <1>6 DEF RecoveringInv
<1>9. /\ opNum'[0] = opNum[0] /\ commitNum'[0] = commitNum[0]
      /\ cpc'[0] = cpc[0] /\ waitMap'[0] = waitMap[0]
      /\ opNum[0] \in Nat /\ commitNum[0] \in Nat
      /\ \A n, op : Logs(0, n, op) => Logs(0, n, op)'
  BY <1>t, <1>1, <1>4, ZeroIsReplica DEF TypeOK, Logs
<1>10. DistinctNonces' => DistinctNonces
  BY <1>3 DEF DistinctNonces
<1>11. /\ \A q : RequestOk(q) => RequestOk(q)'
       /\ \A x \in RecoveryResponse : ResponseOk(x) => ResponseOk(x)'
  <2>1. \A q : RequestOk(q) => RequestOk(q)'
    BY <1>3 DEF RequestOk, Used
  <2>2. ASSUME NEW x \in RecoveryResponse, ResponseOk(x) PROVE ResponseOk(x)'
    <3>1. Used(x.to) \subseteq Used(x.to)'
      BY <1>3 DEF Used
    <3>2. /\ opNum[0] <= opNum'[0] /\ opNum'[0] \in Nat
          /\ commitNum[0] <= commitNum'[0] /\ commitNum'[0] \in Nat
      BY <1>9
    <3> QED
      BY <1>9, <2>2, <3>1, <3>2, ResponseStays DEF RcInv
  <2> QED
    BY <2>1, <2>2
<1>12. MessageInv'
  <2>1. \A s \in ReplicaId : s # r =>
          /\ \A i \in 1 .. Len(recoveryReqQ[s]) : recoveryReqQ[s][i] \in RecoveryRequest
          /\ prrt[s] = "popped" => inHand[s] \in RecoveryRequest
          /\ prrt[s] = "respond" => inHand[s] \in RecoveryResponse
          /\ \A i \in 1 .. Len(recoveryResps[s]) :
               recoveryResps[s][i] \in RecoveryResponse
    BY <1>t DEF RcTypeInv
  <2>2. ASSUME NEW s \in ReplicaId, s # r
        PROVE  /\ \A i \in 1 .. Len(recoveryReqQ'[s]) : RequestOk(recoveryReqQ[s][i])'
               /\ prrt'[s] = "popped" => RequestOk(inHand[s])'
               /\ prrt'[s] = "respond" => ResponseOk(inHand[s])'
               /\ \A i \in 1 .. Len(recoveryResps'[s]) :
                    recoveryResps'[s][i].to = s /\ ResponseOk(recoveryResps[s][i])'
    BY <1>t, <1>5, <1>11, <2>1, <2>2 DEF MessageInv
  <2> QED
    BY <1>5, <1>6, <2>2 DEF MessageInv
<1>13. ASSUME NEW n \in Nat
       PROVE  /\ Counted(n) \cup Lost(n) \subseteq Counted(n)' \cup Lost(n)'
              /\ Holders(n) \cup Lost(n) \subseteq Holders(n)' \cup Lost(n)'
  <2>1. \A s \in ReplicaId : s # r =>
          /\ s \in Holders(n) <=> s \in Holders(n)'
          /\ s \in Counted(n) <=> s \in Counted(n)'
    BY <1>4 DEF Holders, Counted, Owing
  <2>2. \A s : OnItsWay(s)' \subseteq OnItsWay(s)
    BY <1>5, <1>6 DEF OnItsWay
  <2>3. ASSUME NEW s \in Lost(n), s # r PROVE s \in Lost(n)'
    <3>1. s \in ReplicaId /\ status[s] = "RECOVERING" /\ n <= opNum[0] /\ WillHold(s, n)
      BY <2>3 DEF Lost
    <3>2. Received(s)' = Received(s) /\ rcpc'[s] = rcpc[s]
      BY <1>5, <2>3, <3>1 DEF Received
    <3>3. WillHold(s, n)'
      BY <1>3, <2>2, <3>1, <3>2 DEF WillHold, Covers, nonce
    <3> QED
      BY <1>4, <1>9, <2>3, <3>1, <3>3 DEF Lost
  <2>4. ASSUME r \in Holders(n) \cup Lost(n) PROVE r \in Lost(n)'
    <3>1. n <= opNum[0]
      <4>1. CASE r \in Lost(n)
        BY <4>1 DEF Lost
      <4>2. CASE r \in Holders(n) /\ n # 0
        <5>1. n \in DOMAIN opLog[r].entries
          BY <1>t, <4>2 DEF Holders, LogInv, LogAt, TypeOK
        <5>2. n \in DOMAIN opLog[0].entries
          BY <1>t, <5>1 DEF LogInv, LogAt, Logs, hasEntry
        <5>3. n \in 1 .. opNum[0]
          BY <1>t, <5>2, ZeroIsReplica DEF LogInv, LogAt
        <5> QED
          BY <1>9, <5>3
      <4>3. CASE n = 0
        BY <1>9, <4>3
      <4> QED
        BY <2>4, <4>1, <4>2, <4>3
    <3>2. WillHold(r, n)'
      BY <1>6 DEF WillHold, Covers
    <3> QED
      BY <1>1, <1>9, <3>1, <3>2 DEF Lost
  <2>5. /\ Counted(n) \subseteq Holders(n) /\ Holders(n) \subseteq ReplicaId
        /\ Lost(n) \subseteq ReplicaId
    BY DEF Counted, Holders, Lost
  <2> QED
    BY <2>1, <2>3, <2>4, <2>5
<1>14. RcCountInv' /\ RcReachedInv'
  BY <1>t, <1>3, <1>9, <1>10, <1>13, CountsGo
<1> QED
  BY <1>1, <1>7, <1>8, <1>12, <1>14 DEF RcInv, MemoryInv

-----------------------------------------------------------------------------
(***************************************************************************)
(* Every step, and the theorems.                                           *)
(***************************************************************************)
\* As long as nobody enters changeView, nothing of a view change happens.
LEMMA NoVcStep ==
  ASSUME RcInv, NoViewChange, NoViewChange', VcNext
  PROVE  Next /\ UNCHANGED vcVars
<1>t. /\ TypeOK /\ ViewInv /\ LogInv /\ NoStartView
      /\ repListener \in [ReplicaId -> CommitMsg \cup {Nil}]
      /\ \A r \in ReplicaId : vpc[r] = "none" /\ vpc'[r] = "none"
      /\ DOMAIN vpc = ReplicaId
  BY DEF RcInv, BaseInv, MemoryInv, SafetyInv, TypeInv, TypeOK, NoViewChange, RcTypeInv
<1>1. SUFFICES ASSUME NEW r \in ReplicaId,
                      VcStep(r) \/ SpuriousVcWakeup(r) \/ VcTimedOut(r)
               PROVE  FALSE
  BY DEF VcNext
<1>2. CASE changeView(r)
  <2>1. viewNum[r] = 0 /\ 1 \in View
    BY <1>2, <1>t, ViewAssumption DEF changeView, ViewInv, View
  <2>2. viewStartInfoMap[r][viewNum[r] + 1] = Nil
    BY <1>t, <2>1 DEF NoStartView
  <2>3. vpc' = [vpc EXCEPT ![r] = "startViewChange"]
    BY <1>2, <2>2 DEF changeView
  <2> QED
    BY <1>t, <2>3
<1>3. CASE processDoViewChange(r) \/ processStartView(r)
  <2>1. repListener[r] # Nil /\ repListener[r].thread = "vc"
    BY <1>3 DEF processDoViewChange, processStartView
  <2> QED
    BY <1>t, <2>1 DEF CommitMsg, Caller
<1>4. CASE AssertPrimaryFails(r)
  BY <1>4, <1>t DEF AssertPrimaryFails, isPrimary, ViewInv, LogInv, ClientAt
<1>5. CASE \/ \E b \in ReplicaId :
                \/ invokeStartViewChange(r, b) \/ invokeDoViewChange(r, b)
                \/ DoViewChangeFails(r, b) \/ invokeStartView(r, b)
                \/ vcCallFails(r, b)
           \/ CountOwnRequest(r) \/ RequestsArrived(r) \/ CandidateIsSelf(r)
           \/ InfosArrived(r) \/ ViewArrived(r) \/ EndStartView(r)
           \/ SpuriousVcWakeup(r) \/ VcTimedOut(r)
  BY <1>5, <1>t DEF invokeStartViewChange, invokeDoViewChange, DoViewChangeFails,
                    invokeStartView, vcCallFails, CountOwnRequest,
                    RequestsArrived, CandidateIsSelf, InfosArrived, ViewArrived,
                    EndStartView, SpuriousVcWakeup, VcTimedOut
<1> QED
  BY <1>1, <1>2, <1>3, <1>4, <1>5 DEF VcStep

\* Every step outside view changes keeps the invariant.
LEMMA RcStepKeeps ==
  ASSUME Rejoins, RcInv, NoViewChange, NoViewChange', [RcNext]_everyVar
  PROVE  RcInv'
<1>1. CASE VcNext /\ UNCHANGED rcVars
  <2>1. Next /\ UNCHANGED vcVars
    BY <1>1, NoVcStep
  <2> QED
    BY <1>1, <2>1, NextKeeps
<1>2. ASSUME NEW r \in ReplicaId, CrashToRestart(r) \/ RecoveryTimedOut(r) \/ Listen(r)
      PROVE  RcInv'
  BY <1>2, ProcessSteps
<1>3. ASSUME NEW r \in ReplicaId, Start(r) PROVE RcInv'
  BY <1>3, StartKeeps
<1>4. ASSUME NEW r \in ReplicaId,
             \/ recover(r) \/ AwaitResponses(r)
             \/ \E b \in ReplicaId :
                  invokeRecoveryRequest(r, b) \/ RecoveryRequestFails(r, b)
      PROVE  RcInv'
  BY <1>4, RecoverStep, AskSteps
<1>5. ASSUME NEW r \in ReplicaId, PopRecoveryReq(r) PROVE RcInv'
  BY <1>5, PopStep
<1>6. ASSUME NEW r \in ReplicaId, MakeResponse(r) PROVE RcInv'
  BY <1>6, MakeStep
<1>7. ASSUME NEW r \in ReplicaId, NEW b \in ReplicaId,
             invokeRecoveryResponse(r, b) \/ RecoveryResponseFails(r, b)
      PROVE  RcInv'
  BY <1>7, RespondSteps
<1>8. ASSUME NEW r \in ReplicaId, Recovered(r) \/ SpuriousRecovery(r) PROVE RcInv'
  BY <1>8, FinishSteps
<1>9. CASE UNCHANGED everyVar
  <2>1. UNCHANGED vars /\ UNCHANGED <<vcVars, rcVars>>
    BY <1>9 DEF everyVar, allVars
  <2> QED
    BY <2>1, NextKeeps
<1> QED
  BY <1>1, <1>2, <1>3, <1>4, <1>5, <1>6, <1>7, <1>8, <1>9 DEF RcNext, RcStep

\* The invariant holds as long as nobody enters changeView.
LEMMA RecoveryInvariant ==
  ASSUME Rejoins
  PROVE  RcSpec /\ []NoViewChange => []RcInv
<1>1. RcInit => RcInv
  BY RcInitInv
<1>2. RcInv /\ NoViewChange /\ NoViewChange' /\ [RcNext]_everyVar => RcInv'
  BY RcStepKeeps
<1> QED
  BY <1>1, <1>2, PTL DEF RcSpec

\* A backup that is started again does not take a quorum away from what a
\* client was told is done: the log it adopts covers what it had responded to,
\* as long as no replica uses a nonce twice and no view change begins, for every
\* number of replicas, restarts, operations and lost calls.
THEOREM AcksRegained ==
  ASSUME Rejoins
  PROVE  RcSpec /\ []NoViewChange => []AckedInQuorum
<1>1. ASSUME RcInv, CountsHold, DistinctNonces, \A r \in ReplicaId : status[r] = "NORMAL",
             NEW x \in replies, x.err = "NONE"
      PROVE  Cardinality({r \in ReplicaId : Logs(r, x.opNum, x.op)}) >= N \div 2 + 1
  <2> DEFINE c == commitNum[0]
             H == Holders(c) \cup Lost(c)
             L == {r \in ReplicaId : Logs(r, x.opNum, x.op)}
  <2>a. TypeOK /\ SafetyInv /\ ReplyInv
    BY <1>1 DEF RcInv, BaseInv, SafetyInv, TypeInv
  <2>b. /\ opNum \in [ReplicaId -> 0 .. MaxOp]
        /\ commitNum \in [ReplicaId -> 0 .. MaxOp]
        /\ replies \in SUBSET Reply
    BY <2>a DEF TypeOK
  <2>c. x \in Reply
    BY <1>1, <2>b
  <2>0. /\ SafetyInv /\ ReplyInv /\ x.opNum \in OpInt
        /\ opNum \in [ReplicaId -> 0 .. MaxOp] /\ c \in 0 .. MaxOp
    BY <2>a, <2>b, <2>c, ZeroIsReplica DEF Reply
  <2>1. x.opNum <= c /\ Logs(0, x.opNum, x.op)
    BY <1>1, <2>0 DEF ReplyInv
  <2>2. Majority(H)
    BY <1>1, <2>0 DEF RcInv, RcReachedInv, Agreed
  <2>3. Lost(c) = {}
    BY <1>1 DEF Lost
  <2>4. ASSUME NEW s \in Holders(c) PROVE s \in L
    <3>1. s \in ReplicaId /\ x.opNum <= opNum[s]
      BY <2>0, <2>1, BoundAssumption DEF Holders, OpInt
    <3>2. /\ hasEntry(opLog[s], x.opNum)
          /\ Logs(0, x.opNum, opLog[s].entries[x.opNum].op)
      BY <2>0, <3>1, HoldersLog
    <3> QED
      BY <2>1, <3>1, <3>2 DEF Logs
  <2>5. H \in SUBSET ReplicaId /\ L \in SUBSET ReplicaId /\ H \subseteq L
    BY <2>3, <2>4 DEF Holders
  <2> HIDE DEF H, L
  <2>6. /\ Cardinality(H) <= Cardinality(L)
        /\ Cardinality(H) \in Nat /\ Cardinality(L) \in Nat
        /\ N \div 2 + 1 \in Nat
    BY <2>5, CardinalityGrows, ReplicasFinite, SizeAssumption
  <2>7. Cardinality(L) >= N \div 2 + 1
    BY <2>2, <2>6 DEF Majority
  <2> QED
    BY <2>7 DEF L
<1>2. RcInv => AckedInQuorum
  BY <1>1 DEF AckedInQuorum
<1> QED
  BY <1>2, RecoveryInvariant, PTL

\* As long as no view change begins, a replica that has recovered follows the
\* primary of the others, and where both have committed a number they have the
\* same entry: whatever it missed while it was down, however often it was
\* started, and even if it used a nonce twice.
THEOREM RecoveredAgree ==
  ASSUME Rejoins
  PROVE  RcSpec /\ []NoViewChange => []RejoinedAgrees
<1>1. ASSUME RcInv, NEW r \in ReplicaId, NEW s \in ReplicaId, NEW n \in OpInt,
             isCommitted(opLog[r], n), isCommitted(opLog[s], n)
      PROVE  opLog[r].entries[n] = opLog[s].entries[n]
  <2> DEFINE e == opLog[r].entries[n]
             f == opLog[s].entries[n]
  <2>0. /\ LogInv /\ OrderInv /\ opLog[r] \in OpLog /\ opLog[s] \in OpLog
        /\ n \in DOMAIN opLog[r].entries /\ n \in DOMAIN opLog[s].entries
    BY <1>1 DEF RcInv, BaseInv, MemoryInv, SafetyInv, TypeInv, TypeOK, isCommitted,
                hasEntry
  <2>1. e \in LogEntry /\ f \in LogEntry /\ e.committed /\ f.committed
    BY <1>1, <2>0, OpLogParts DEF isCommitted
  <2>2. e.op = f.op
    BY <2>0 DEF LogInv, LogAt, Logs
  <2>3. e.opNum = n /\ f.opNum = n
    BY <2>0 DEF OrderInv
  <2> HIDE DEF e, f
  <2>4. e = f
    BY <2>1, <2>2, <2>3 DEF LogEntry
  <2> QED
    BY <2>4 DEF e, f
<1>2. RcInv => RejoinedAgrees
  BY <1>1 DEF RejoinedAgrees, RcInv, BaseInv, SafetyInv, ViewInv
<1> QED
  BY <1>2, RecoveryInvariant, PTL
=============================================================================
