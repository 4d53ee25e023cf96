---------------------------- MODULE Configurator ----------------------------
(***************************************************************************)
(* The configuration of a server process (server/configurator.cc): the     *)
(* file is read line by line into a UserInput, from which bootStrap takes  *)
(* the replica's own id, the end points of the others and the flag that    *)
(* start() is given.  A line is its key with the value already split: what *)
(* matters here is which keys are there, in which order and how often.     *)
(***************************************************************************)
EXTENDS Integers, Sequences, FiniteSets, SequencesExt

LocalIp == {"localhost", "127.0.0.1"}
UINT_MAX == -1

\* A UserInput before the file is read.  No constructor sets recovering, which
\* therefore holds whatever the memory held: the set of values it may have.
EmptyInput ==
  [clientPort |-> "", replicationPort |-> "", endPoints |-> <<>>,
   recovering |-> BOOLEAN, valid |-> TRUE]

\* Mutant: the value "true" is compared with another spelling.
IgnoresRecovering(uip, line) ==
  CASE line.key = "ClientPort" -> [uip EXCEPT !.clientPort = line.val]
    [] line.key = "ReplicationPort" -> [uip EXCEPT !.replicationPort = line.val]
    [] line.key = "EndPoints" -> [uip EXCEPT !.endPoints = @ \o line.val]
    [] OTHER -> uip

\* parseLine: a line that is blank or a comment has no effect, one that is not
\* "key = val", has an unknown key or a malformed end point throws; end points
\* are added to those of an earlier line; "Recovering" knows only "true".
parseLine(uip, line) ==
  CASE ~uip.valid \/ line.key \in {"", "#"} -> uip
    [] line.key = "ClientPort" -> [uip EXCEPT !.clientPort = line.val]
    [] line.key = "ReplicationPort" -> [uip EXCEPT !.replicationPort = line.val]
    [] line.key = "EndPoints" -> [uip EXCEPT !.endPoints = @ \o line.val]
    [] line.key = "Recovering" ->
         IF line.val = "true" THEN [uip EXCEPT !.recovering = {TRUE}] ELSE uip
    [] OTHER -> [uip EXCEPT !.valid = FALSE]

\* parse; validate() is empty.
parse(file) == FoldLeft(parseLine, EmptyInput, file)

isOwn(uip, i) ==
  uip.endPoints[i].ip \in LocalIp
    /\ uip.endPoints[i].port = uip.replicationPort

\* _replicaId: the position, counted from 0, of the last end point that is the
\* process itself.
replicaId(uip) ==
  LET own == {i \in DOMAIN uip.endPoints : isOwn(uip, i)}
  IN  IF own = {} THEN UINT_MAX
      ELSE (CHOOSE i \in own : \A j \in own : j <= i) - 1

\* The keys of _replicas: the positions of all end points that are not.
replicas(uip) ==
  {i - 1 : i \in {j \in DOMAIN uip.endPoints : ~isOwn(uip, j)}}

\* bootStrap gets to start() if parse did not throw and no assertion failed.
boots(uip) ==
  /\ uip.valid
  /\ uip.clientPort # ""
  /\ uip.replicationPort # ""
  /\ replicaId(uip) # UINT_MAX
=============================================================================
