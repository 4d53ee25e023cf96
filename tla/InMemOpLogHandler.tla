------------------------- MODULE InMemOpLogHandler -------------------------
(***************************************************************************)
(* The in-memory operation log (server/inMemOpLogHandler.cc): a hash map   *)
(* from operation number to entry, and the vector of operation numbers in  *)
(* the order they were appended.  The vector may name a number twice: an   *)
(* append of a number that is already logged replaces the entry in the map *)
(* and pushes the number once more.                                        *)
(***************************************************************************)
EXTENDS VrTypes

OpLog == [opNums : Seq(OpInt),
          entries : UNION {[D -> LogEntry] : D \in SUBSET OpInt}]
EmptyLog == [opNums |-> <<>>, entries |-> [n \in {} |-> n]]

\* appendUpdate / appendDelete: a new entry is never committed.
append(log, op, n) ==
  [opNums  |-> Append(log.opNums, n),
   entries |-> [m \in DOMAIN log.entries \cup {n} |->
                  IF m = n
                  THEN [op |-> op, opNum |-> n, committed |-> FALSE]
                  ELSE log.entries[m]]]

logSize(log) == Cardinality(DOMAIN log.entries)

\* getLog / setLog: the vector of entries in the order of opNums, and the log
\* rebuilt from such a vector.
getLog(log) == [i \in 1 .. Len(log.opNums) |-> log.entries[log.opNums[i]]]

setLog(vec) ==
  LET opNums == [i \in 1 .. Len(vec) |-> vec[i].opNum]
  IN  [opNums |-> opNums,
       entries |-> [n \in {opNums[i] : i \in 1 .. Len(vec)} |->
                      vec[CHOOSE i \in 1 .. Len(vec) :
                            /\ opNums[i] = n
                            /\ \A j \in i + 1 .. Len(vec) : opNums[j] # n]]]

hasEntry(log, n) == n \in DOMAIN log.entries

\* Mutant: commit does not mark the entry.
NoCommitMark(log, n) == log

\* Mutant: only the entry committed last carries the mark.
LastCommitMark(log, n) ==
  [log EXCEPT !.entries = [m \in DOMAIN log.entries |->
                             [log.entries[m] EXCEPT !.committed = (m = n)]]]

\* commit: marks an existing entry (the caller asserts that it exists).
commit(log, n) ==
  [opNums  |-> log.opNums,
   entries |-> [m \in DOMAIN log.entries |->
                  IF m = n
                  THEN [op |-> log.entries[m].op, opNum |-> log.entries[m].opNum,
                        committed |-> TRUE]
                  ELSE log.entries[m]]]

\* getLogEntry(n).committed, under the assertion that entry n exists.
isCommitted(log, n) == hasEntry(log, n) /\ log.entries[n].committed
=============================================================================
