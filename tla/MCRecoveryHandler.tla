------------------------- MODULE MCRecoveryHandler -------------------------
(* Instances of RecoveryHandler for TLC. *)
EXTENDS RecoveryHandler

\* Heartbeats of every replica, or of none.
AllReplicas == ReplicaId
NoReplica == {}

MCKey == {"a"}
MCVal == {"v1"}
Set(v) == [opType |-> "UPDATE", key |-> "a", val |-> v]
OneOp == {Set("v1")}
OneCommitted == <<Set("v1")>>

\* The file of replica r: the end points of the cluster in the same order, its
\* own one as localhost, and two lines that have no effect.
Port(r) == <<"5000", "5001", "5002">>[r + 1]
Host(r) == <<"h0", "h1", "h2">>[r + 1]
MCCfgFile ==
  [r \in ReplicaId |->
     <<[key |-> "#", val |-> ""],
       [key |-> "ClientPort", val |-> "4000"],
       [key |-> "ReplicationPort", val |-> Port(r)],
       [key |-> "", val |-> ""],
       [key |-> "EndPoints",
        val |-> [i \in 1 .. N |->
                   [ip |-> IF i = r + 1 THEN "localhost" ELSE Host(i - 1),
                    port |-> Port(i - 1)]]],
       [key |-> "Recovering", val |-> "true"]>>]
GarbageFlag == BOOLEAN
NeverFlag == {FALSE}

\* Bound: a replica is started once, with a fault of its recovery or a flag that
\* happens to be true, or twice, the second time with neither and without a
\* timeout.  The first nonce is 1, since nonces are only compared.
OneFaultOrTwoStarts ==
  \A r \in Restarting :
    /\ nonces[r] # <<>> => nonces[r][1] = 1
    /\ rcFaults = <<>> \/ (~initFlag[r] /\ started[r] < 2)
    /\ started[r] = 2 => ~initFlag[r] /\ proc[r] # "aborted"
=============================================================================
