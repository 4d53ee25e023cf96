-------------------------- MODULE ReplicatedStore --------------------------
(***************************************************************************)
(* What replication promises: one history of committed operations, which   *)
(* only grows, and on every replica the store that results from applying a *)
(* prefix of that history in order.                                        *)
(***************************************************************************)
EXTENDS VrTypes

VARIABLES
  history,   \* the committed operations
  applied,   \* how many of them each replica has applied
  store      \* each replica's key-value map

storeVars == <<history, applied, store>>

StoreInit ==
  /\ history = <<>>
  /\ applied = [r \in ReplicaId |-> 0]
  /\ store = [r \in ReplicaId |-> EmptyKv]

CommitOp(op) ==
  /\ history' = Append(history, op)
  /\ UNCHANGED <<applied, store>>

Apply(r) ==
  /\ applied[r] < Len(history)
  /\ applied' = [applied EXCEPT ![r] = @ + 1]
  /\ store' = [store EXCEPT ![r] = applyOp(@, history[applied[r] + 1])]
  /\ UNCHANGED history

StoreNext ==
  \/ \E op \in ClientOp : CommitOp(op)
  \/ \E r \in ReplicaId : Apply(r)

StoreSpec == StoreInit /\ [][StoreNext]_storeVars
=============================================================================
