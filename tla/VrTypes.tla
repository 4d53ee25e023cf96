------------------------------ MODULE VrTypes ------------------------------
(***************************************************************************)
(* The vocabulary shared by every module of the replica server: replica    *)
(* identifiers, statuses, operations and log entries (server/vrTypes.x),   *)
(* the quorum arithmetic (server/vrCommon.cc) and the up-calls that apply  *)
(* an operation to the key-value map (server/kvMemStore.cc).               *)
(***************************************************************************)
EXTENDS Integers, Sequences, FiniteSets

CONSTANTS
  N,          \* number of end points listed in the configuration file
  Key,        \* keys of the key-value store
  Val,        \* values of the key-value store
  NoVal,      \* "no such key"; also the value field of a DELETE operation
  ClientOp,   \* the operations clients issue, a subset of Op
  MaxOp       \* bound: the largest operation number a model explores

\* Operations as the replicator sees them: one KvPair and one OpType.
Op == [opType : {"UPDATE"}, key : Key, val : Val]
        \cup [opType : {"DELETE"}, key : Key, val : {NoVal}]

ASSUME SizeAssumption == N \in Nat \ {0}
ASSUME BoundAssumption == MaxOp \in Nat
ASSUME OpAssumption == NoVal \notin Val /\ ClientOp \subseteq Op

ReplicaId == 0 .. N - 1
OpInt == 1 .. MaxOp
Status == {"NORMAL", "VIEW_CHANGE", "RECOVERING"}
LogEntry == [op : ClientOp, opNum : OpInt, committed : BOOLEAN]

\* The _replicas map of replica r after bootStrap: every end point but its own.
OtherReplicas(r) == ReplicaId \ {r}

\* Mutant: half of the configured replicas instead of a majority.
HalfCnt(replicas) == (Cardinality(replicas) + 1) \div 2

\* getMajorityCnt: the quorum size a replica computes from the number of
\* entries in its _replicas map, which does not include the replica itself.
getMajorityCnt(replicas) == (Cardinality(replicas) + 1) \div 2 + 1

-----------------------------------------------------------------------------
\* The key-value map, with NoVal where unordered_map has no entry.
KvMap == [Key -> Val \cup {NoVal}]
EmptyKv == [k \in Key |-> NoVal]

\* updateCb / deleteCb, that is setInt / removeInt: removing an absent key is
\* a no-op.
applyOp(kv, op) == [kv EXCEPT ![op.key] = op.val]
=============================================================================
