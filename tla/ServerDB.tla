------------------------------ MODULE ServerDB ------------------------------
(***************************************************************************)
(* The persistent store (server/serverdb.cc, server/sqlstmt.cc): a table   *)
(* of keys and values in an SQLite file.  Every call of the SQLite         *)
(* interface may fail, and the process may crash between any two of them.  *)
(* A call that fails throws and leaves the transaction to the next one.    *)
(*                                                                         *)
(* The server is built with this store but does not use it; what is        *)
(* modelled is any sequence of calls of its interface by one thread.       *)
(***************************************************************************)
EXTENDS SQLite

CONSTANTS
  Key,     \* the keys, as sequences of characters
  Value    \* the values

\* A key is a path: it spells no column, and fits into quotes and patterns.
ASSUME ServerDBAssumption ==
  \A k \in Key :
    /\ k \in Seq(STRING) /\ Len(k) > 0 /\ k[1] = "/"
    /\ \A i \in 1 .. Len(k) : k[i] \notin {"'", "\"", "%"}

\* The calls.
Operation == [op : {"create", "set", "remove", "list", "hasKey", "get"},
              key : Key \cup {<<>>}, val : Value \cup {Nil}]

\* "none" is no call, no value and no set of rows.
ASSUME NilAssumption ==
  Nil \notin Operation \cup Value /\ \A S \in SUBSET Key : S # Nil

VARIABLES
  call,    \* the operation that runs, [op, key, val], or Nil
  prog,    \* the statements it has yet to execute
  found,   \* the rows it has read
  res,     \* the last answer, [ok, keys]
  acked,   \* what the store may hold for each key, Nil if nothing, by the calls
           \* that have returned and those that a crash has cut off
  torn     \* whether create ever failed or was interrupted

callVars == <<call, prog, found, res>>
vars == <<dbVars, callVars, acked, torn>>

Init ==
  /\ exists = FALSE /\ disk = NewFile
  /\ conn = "none" /\ autocommit = TRUE /\ txn = Nil /\ stmt = Nil
  /\ call = Nil /\ prog = <<>> /\ found = {}
  /\ res = [ok |-> FALSE, keys |-> {}]
  /\ acked = [k \in Key |-> {Nil}]
  /\ torn = FALSE

-----------------------------------------------------------------------------
dirDepth(path) == Cardinality({i \in 1 .. Len(path) : path[i] = "/"})

\* LIKE does not tell A from a, and takes an underscore of the pattern for any
\* character.
Lower(c) == IF c = "A" THEN "a" ELSE c
LIKE(key, path) ==
  /\ Len(key) > Len(path) /\ key[Len(path) + 1] = "/"
  /\ \A i \in 1 .. Len(path) : path[i] = "_" \/ Lower(path[i]) = Lower(key[i])

\* Mutant: the depth of the children is that of the directory.
WrongDepth(path) ==
  {k \in DOMAIN Content.rows : LIKE(k, path) /\ dirDepth(k) = dirDepth(path)}

\* The rows of the query of list.
selectList(path) ==
  {k \in DOMAIN Content.rows :
     LIKE(k, path) /\ dirDepth(k) = dirDepth(path) + 1}

\* The rows of the query of every other operation.
selectKey(path) == {path} \cap DOMAIN Content.rows

-----------------------------------------------------------------------------
\* The operation is over, with an answer or with an exception.
Answer(ok, keys) ==
  /\ res' = [ok |-> ok, keys |-> keys]
  /\ call' = Nil /\ prog' = <<>> /\ found' = {}

\* The operations that change a row.
IsUpdate(c) == c # Nil /\ c.op \in {"set", "remove"}

\* The process ends: the connection and its transaction are gone.  Nobody is
\* told whether a COMMIT of the operation that runs has reached the file.
Dies ==
  /\ conn' = "none" /\ Autocommit /\ stmt' = Nil
  /\ call' = Nil /\ prog' = <<>> /\ found' = {}
  /\ torn' = (torn \/ (call # Nil /\ call.op = "create"))
  /\ acked' = IF IsUpdate(call)
              THEN [acked EXCEPT ![call.key] = @ \cup {call.val}] ELSE acked
  /\ UNCHANGED <<exists, disk, res>>

statement(s, key, val) == [sql |-> s, key |-> key, val |-> val]

\* Mutant: the transaction is not committed.
NeverCommits(s) == <<statement("BEGIN", Nil, Nil), s>>

inTransaction(s) ==
  <<statement("BEGIN", Nil, Nil), s, statement("COMMIT", Nil, Nil)>>

\* access(file, F_OK) fails with ENOENT.
NoFile == ~exists

\* open: a file that is not there is created and set up; one that is there is
\* taken as it is.
open ==
  /\ conn = "none"
  /\ \/ /\ sqlite3_open_v2(NoFile)
        /\ IF NoFile
           THEN /\ call' = [op |-> "create", key |-> <<>>, val |-> Nil]
                /\ prog' = inTransaction(statement("CREATE", Nil, Nil))
           ELSE UNCHANGED <<call, prog>>
        /\ UNCHANGED <<found, res, acked, torn>>
     \/ Dies      \* assert(false)

\* close: the assertion fails if a statement is left.
close ==
  /\ conn = "open" /\ call = Nil
  /\ IF stmt = Nil
     THEN sqlite3_close /\ UNCHANGED <<callVars, acked, torn>>
     ELSE Dies

\* An operation begins with a query: hasKey in set and remove.
Call(op, key, val) ==
  /\ conn = "open" /\ call = Nil
  /\ call' = [op |-> op, key |-> key, val |-> val]
  /\ sqlite3_prepare_v2(IF op = "list" THEN selectList(key) ELSE selectKey(key))
  /\ res' = [ok |-> FALSE, keys |-> {}]
  /\ UNCHANGED <<prog, found, acked, torn>>

\* The constructor of SQLStmt throws: no statement, no answer.
CallThrows ==
  /\ conn = "open" /\ call = Nil
  /\ res' = [ok |-> FALSE, keys |-> {}]
  /\ UNCHANGED <<dbVars, call, prog, found, acked, torn>>

\* What set and remove do once hasKey has answered.
updateOf(c, has) ==
  IF c.op = "remove" THEN statement("DELETE", c.key, Nil)
  ELSE statement(IF has THEN "UPDATE" ELSE "INSERT", c.key, c.val)

\* SQLStmt::step and what the operation makes of it.
step ==
  /\ stmt # Nil
  /\ \/ \E f \in sqlite3_step :
          LET row == f.code = SQLITE_ROW
          IN  \/ /\ call.op = "list" /\ row
                 /\ found' = found \cup {f.row}
                 /\ stmt' = stmt \ {f.row}
                 /\ UNCHANGED <<exists, disk, conn, autocommit, txn, call, prog, res>>
              \/ /\ call.op = "list" /\ ~row
                 /\ sqlite3_finalize
                 /\ Answer(TRUE, found)
              \/ /\ call.op \in {"hasKey", "get"} \/ (call.op = "remove" /\ ~row)
                 /\ sqlite3_finalize
                 /\ Answer(row, {})
              \/ /\ call.op = "set" \/ (call.op = "remove" /\ row)
                 /\ sqlite3_finalize
                 /\ prog' = inTransaction(updateOf(call, row))
                 /\ UNCHANGED <<call, found, res>>
     \/ sqlite3_finalize /\ Answer(FALSE, {})    \* dbthrow
  /\ UNCHANGED <<acked, torn>>

\* The next statement is executed.
sqlexec ==
  /\ prog # <<>>
  /\ sqlite3_exec(Head(prog))
  /\ prog' = Tail(prog)
  /\ UNCHANGED <<call, found, res, acked, torn>>

\* The operation returns after its last statement; from now on the caller may
\* rely on it.
Returns ==
  /\ call # Nil /\ stmt = Nil /\ prog = <<>>
  /\ Answer(TRUE, {})
  /\ acked' = IF IsUpdate(call)
              THEN [acked EXCEPT ![call.key] = {call.val}] ELSE acked
  /\ UNCHANGED <<dbVars, torn>>

\* Mutant: an error of an update is reported and the next statement executed.
CarriesOn ==
  /\ prog # <<>>
  /\ IF call.op = "create"
     THEN Dies
     ELSE /\ execError(Head(prog))
          /\ prog' = Tail(prog)
          /\ UNCHANGED <<call, found, res, acked, torn>>

\* A statement that fails: sqlexec throws, and nobody rolls back.  From create
\* it throws through the constructor, and there is no object; the connection
\* is never closed, and stands for one more reason of later failures.
sqlexecThrows ==
  /\ prog # <<>>
  /\ IF call.op = "create"
     THEN Dies
     ELSE execError(Head(prog)) /\ Answer(FALSE, {}) /\ UNCHANGED <<acked, torn>>

Crash == conn = "open" /\ Dies

Next ==
  \/ open \/ close \/ step \/ sqlexec \/ Returns \/ sqlexecThrows \/ Crash
  \/ \E op \in {"hasKey", "get", "remove", "list"}, k \in Key :
       Call(op, k, Nil)
  \/ \E k \in Key, v \in Value : Call("set", k, v)
  \/ CallThrows

Spec == Init /\ [][Next]_vars

-----------------------------------------------------------------------------
(***************************************************************************)
(* Properties.                                                             *)
(***************************************************************************)

\* The file has the value w for a key, or nothing if w is Nil.  A value that
\* spells a column may have become another one in an UPDATE.
Holds(key, w) ==
  IF w = Nil THEN key \notin DOMAIN disk.rows
  ELSE /\ key \in DOMAIN disk.rows
       /\ w \in DOMAIN Column \/ disk.rows[key] = w

\* For every key the file holds what the last set or remove that returned has
\* left, unless a later one was running when the process ended, or still runs:
\* of these each may have taken effect.  One that threw has not, and never will,
\* although its transaction is left open for the next one to meet.
Durable ==
  \A k \in Key :
    \E w \in acked[k] \cup (IF IsUpdate(call) /\ call.key = k
                           THEN {call.val} ELSE {}) :
      Holds(k, w)

\* A file without its table is used only if setting it up failed or was
\* interrupted; open never repairs it.
TableOrTorn ==
  conn = "open" /\ call = Nil => disk.table \/ torn

\* A key directly below a path.
IsChild(key, path) ==
  /\ Len(key) > Len(path) + 1
  /\ SubSeq(key, 1, Len(path) + 1) = Append(path, "/")
  /\ \A i \in Len(path) + 2 .. Len(key) : key[i] # "/"

\* The answer of list has every key directly below the path that is visible
\* when it is given, however many rows it took; what else it has is as deep.
ListsChildren ==
  [][call # Nil /\ call.op = "list" /\ call' = Nil /\ res'.ok /\ conn' = "open" =>
       /\ {k \in DOMAIN Content.rows : IsChild(k, call.key)} \subseteq res'.keys
       /\ \A k \in res'.keys : dirDepth(k) = dirDepth(call.key) + 1]_vars
=============================================================================
