------------------------ MODULE MCViewChangeHandler ------------------------
(* Instances of ViewChangeHandler for TLC. *)
EXTENDS ViewChangeHandler

\* Heartbeats of every replica, or of none.
AllReplicas == ReplicaId
NoReplica == {}

MCKey == {"a"}
MCVal == {"v1", "v2"}
Set(v) == [opType |-> "UPDATE", key |-> "a", val |-> v]
OneOp == {Set("v1")}
TwoOps == {Set("v1"), Set("v2")}

\* Nothing or one operation applied everywhere before the run starts.
NoneCommitted == <<>>
OneCommitted == <<Set("v1")>>

Requested ==
  \E r \in ReplicaId : cpc[r] # "idle" \/ opNum[r] > Len(Committed)

\* Bound: nobody crashes, and there is an operation in flight and one view
\* change without faults, or there are two view changes with a timeout and one
\* other fault ...
OneTrouble ==
  /\ \A r \in ReplicaId : proc[r] # "down"
  /\ lost + resent + spurious <= 1
  /\ Requested => /\ lost + resent + spurious + vcTimeouts = 0
                  /\ \A r \in ReplicaId : viewNum[r] <= 1

\* ... or the first primary crashes, at any step, there is no other fault, and
\* one view change: a second one begins only after a primary has acted, as no
\* wait times out.
PrimaryCrashes ==
  /\ lost + resent + spurious + vcTimeouts = 0
  /\ \A r \in ReplicaId : viewNum[r] <= 1
  /\ \A r \in OtherReplicas(0) : proc[r] # "down"

OneTroubleOrCrash == OneTrouble \/ PrimaryCrashes
=============================================================================
