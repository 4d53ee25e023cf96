------------------------------- MODULE SQLite -------------------------------
(***************************************************************************)
(* The part of the SQLite interface (server/sqlite3.h) that ServerDB and   *)
(* SQLStmt use, on one connection to one database file with one table.     *)
(* Every call may fail, as its result codes say; what a failed call leaves *)
(* behind is what the interface promises and no more.                      *)
(*                                                                         *)
(* Keys are sequences of characters, because LIKE looks at them.  A value  *)
(* has no double quote in it, which would end the word it stands in.       *)
(***************************************************************************)
EXTENDS Integers, Sequences, FiniteSets

CONSTANTS
  Nil,      \* "none"
  Column    \* the column a value spells, for the values that spell one

\* In any mix of cases: key, value, depth, and rowid with its other names.
ASSUME ColumnAssumption ==
  \A v \in DOMAIN Column : Column[v] \in {"key", "value", "depth", "rowid"}

VARIABLES
  exists,      \* whether there is a file
  disk,        \* what it holds, [table, rows]
  conn,        \* the connection: "none" or "open"
  autocommit,  \* sqlite3_get_autocommit: no transaction is open
  txn,         \* what the open transaction would commit, or Nil
  stmt         \* the rows a prepared statement has left, or Nil if there is none

dbVars == <<exists, disk, conn, autocommit, txn, stmt>>

NoRows == [k \in {} |-> Nil]
NewFile == [table |-> FALSE, rows |-> NoRows]

\* The result codes of a step that is no error.
SQLITE_ROW == "SQLITE_ROW"
SQLITE_DONE == "SQLITE_DONE"

\* What the connection sees: its own transaction before the file.
Content == IF autocommit THEN disk ELSE txn

\* The transaction ends.
Autocommit == autocommit' = TRUE /\ txn' = Nil

\* sqlite3_open_v2 with SQLITE_OPEN_READWRITE, and SQLITE_OPEN_CREATE if flag:
\* an error if there is no file and none may be created.
sqlite3_open_v2(flag) ==
  /\ exists \/ flag
  /\ conn' = "open" /\ Autocommit /\ stmt' = Nil
  /\ exists' = TRUE
  /\ disk' = IF exists THEN disk ELSE NewFile

\* sqlite3_close: busy if a statement is not finalized; rolls back.
sqlite3_close ==
  /\ stmt = Nil
  /\ conn' = "none" /\ Autocommit
  /\ UNCHANGED <<exists, disk, stmt>>

\* The depth column of a key: its slashes.
depthOf(key) == Cardinality({i \in 1 .. Len(key) : key[i] = "/"})

\* A word in double quotes that spells a column of the table it is about is the
\* column; any other is the string.
Evaluated(val, key) ==
  IF val \notin DOMAIN Column THEN val
  ELSE CASE Column[val] = "value" -> Content.rows[key]
         [] Column[val] = "key" -> key
         [] Column[val] = "depth" -> depthOf(key)
         [] Column[val] = "rowid" -> "the number of the row"

\* The content after a statement.
Applied(s, c) ==
  CASE s.sql = "CREATE" -> [c EXCEPT !.table = TRUE]
    [] s.sql = "INSERT" ->
         [c EXCEPT !.rows = [k \in DOMAIN @ \cup {s.key} |->
                               IF k = s.key THEN s.val ELSE @[k]]]
    [] s.sql = "UPDATE" -> [c EXCEPT !.rows[s.key] = Evaluated(s.val, s.key)]
    [] s.sql = "DELETE" ->
         [c EXCEPT !.rows = [k \in DOMAIN @ \ {s.key} |-> @[k]]]

\* Whether a statement can be executed: transactions do not nest, and the
\* table must be there, or must not.
Executable(s) ==
  CASE s.sql = "BEGIN" -> autocommit
    [] s.sql = "COMMIT" -> ~autocommit
    [] s.sql = "CREATE" -> ~Content.table
    [] s.sql = "INSERT" -> Content.table /\ s.key \notin DOMAIN Content.rows
    [] OTHER -> Content.table

\* sqlite3_exec returns SQLITE_OK.
sqlite3_exec(s) ==
  /\ Executable(s)
  /\ CASE s.sql = "BEGIN" -> autocommit' = FALSE /\ txn' = disk /\ UNCHANGED disk
       [] s.sql = "COMMIT" -> disk' = txn /\ Autocommit
       [] OTHER -> /\ IF autocommit
                      THEN disk' = Applied(s, disk) /\ UNCHANGED txn
                      ELSE txn' = Applied(s, txn) /\ UNCHANGED disk
                   /\ UNCHANGED autocommit
  /\ UNCHANGED <<exists, conn, stmt>>

\* sqlite3_exec returns an error.  Some errors roll a transaction back, and
\* only sqlite3_get_autocommit tells; the others leave it open.
execError(s) ==
  /\ UNCHANGED <<autocommit, txn>> \/ (Executable(s) /\ Autocommit)
  /\ UNCHANGED <<exists, disk, conn, stmt>>

\* sqlite3_prepare_v2 of a SELECT with these rows as its result.
sqlite3_prepare_v2(rows) ==
  /\ Content.table
  /\ stmt' = rows
  /\ UNCHANGED <<exists, disk, conn, autocommit, txn>>

\* What sqlite3_step may return when it does not fail: a row, or none is left.
sqlite3_step ==
  IF stmt = {} THEN {[code |-> SQLITE_DONE, row |-> Nil]}
  ELSE {[code |-> SQLITE_ROW, row |-> r] : r \in stmt}

\* sqlite3_finalize, in the destructor of SQLStmt.
sqlite3_finalize ==
  /\ stmt' = Nil
  /\ UNCHANGED <<exists, disk, conn, autocommit, txn>>
=============================================================================
