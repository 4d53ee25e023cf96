--------------------------- MODULE MCVsReplicator ---------------------------
(* Instances of VsReplicator for TLC. *)
EXTENDS VsReplicator, TLC

\* Heartbeats of every replica, or of none.
AllReplicas == ReplicaId
NoReplica == {}

\* An update per key and value, where keys and values are symmetric; these
\* and the removal of each key.
Updates == {[opType |-> "UPDATE", key |-> k, val |-> v] : k \in Key, v \in Val}
Deletes == {[opType |-> "DELETE", key |-> k, val |-> NoVal] : k \in Key}
UpdatesAndDeletes == Updates \cup Deletes
KeySymmetry == Permutations(Key)
ValueSymmetry == Permutations(Val)
MCKey == {"a"}
MCVal == {"v1"}

\* A single operation, where the values play no part.
OneOp == {[opType |-> "UPDATE", key |-> "a", val |-> "v1"]}
=============================================================================
