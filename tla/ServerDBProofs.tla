--------------------------- MODULE ServerDBProofs ---------------------------
(***************************************************************************)
(* Proofs about the persistent store, for every set of keys and values and *)
(* any sequence of calls, failures and crashes.                            *)
(*                                                                         *)
(* Durable is not inductive: what a COMMIT writes was put together two     *)
(* statements earlier.  The invariant says what the transaction holds at   *)
(* each statement of an operation, and what the query before it has told   *)
(* about the key; of a transaction that a failed operation left open it    *)
(* says only that there is one, which keeps every later BEGIN from being   *)
(* executed.  And it tells more of the file: until COMMIT it is as if the  *)
(* operation had not begun, and from then on, returned or not, as if it    *)
(* had returned.                                                           *)
(*                                                                         *)
(* ListInv follows the rows of list, whose pattern finds more than the     *)
(* children: ChildMatches shows that it leaves none of them out.           *)
(***************************************************************************)
EXTENDS ServerDB, FiniteSetTheorems, TLAPS

IsContent(c) ==
  /\ c.table \in BOOLEAN /\ DOMAIN c.rows \subseteq Key
  /\ c = [table |-> c.table, rows |-> c.rows]

\* A connection has a file; without one nothing is open or running, and before
\* the first file nothing is stored.
ConnInv ==
  /\ exists \in BOOLEAN /\ autocommit \in BOOLEAN /\ torn \in BOOLEAN
  /\ IsContent(disk)
  /\ ~autocommit => IsContent(txn)
  /\ conn \in {"none", "open"}
  /\ conn = "open" => exists
  /\ conn = "none" => autocommit /\ call = Nil
  /\ ~exists => disk = NewFile
  /\ acked \in [Key -> SUBSET (Value \cup {Nil})]
  /\ call \in Operation \cup {Nil}
  /\ call # Nil =>
       /\ call.op # "create" => call.key \in Key
       /\ call.op = "set" => call.val \in Value
       /\ call.op = "remove" => call.val = Nil
  /\ stmt \in (SUBSET Key) \cup {Nil}

Update == {"set", "remove"}
BeginStmt == statement("BEGIN", Nil, Nil)
CommitStmt == statement("COMMIT", Nil, Nil)

\* The statement is the one for the key as the file has it.
Fits(u) ==
  /\ call.op = "create" => u = statement("CREATE", Nil, Nil)
  /\ call.op = "set" =>
       u = statement(IF call.key \in DOMAIN disk.rows THEN "UPDATE" ELSE "INSERT",
                     call.key, call.val)
  /\ call.op = "remove" => u = statement("DELETE", call.key, Nil)

\* What the transaction holds once the statement is executed.
Ready ==
  /\ call.op = "create" => txn.table /\ txn.rows = disk.rows
  /\ call.op \in Update => txn.table = disk.table
  /\ call.op = "set" =>
       /\ DOMAIN txn.rows = DOMAIN disk.rows \cup {call.key}
       /\ \A k \in DOMAIN disk.rows : k # call.key => txn.rows[k] = disk.rows[k]
       /\ call.val \in DOMAIN Column \/ txn.rows[call.key] = call.val
  /\ call.op = "remove" =>
       /\ DOMAIN txn.rows = DOMAIN disk.rows \ {call.key}
       /\ \A k \in DOMAIN txn.rows : txn.rows[k] = disk.rows[k]

\* The operation is about to execute BEGIN, the statement in between, COMMIT.
\* Before BEGIN the query may have read a transaction that was left open.
AtBegin(u) == prog = inTransaction(u) /\ (autocommit => Fits(u))
AtUpdate(u) == prog = <<u, CommitStmt>> /\ ~autocommit /\ Fits(u) /\ txn = disk
AtCommit == prog = <<CommitStmt>> /\ ~autocommit /\ Ready
\* Everything is executed, and the operation is about to return.
AtReturn == prog = <<>> /\ (call.op = "create" => disk.table)

\* Where an operation is between its query and its last statement.
ProgInv ==
  /\ call = Nil => stmt = Nil /\ prog = <<>>
  /\ call # Nil /\ stmt # Nil =>
       /\ prog = <<>> /\ call.op # "create"
       /\ call.op \in Update => stmt = selectKey(call.key)
  /\ call # Nil /\ stmt = Nil =>
       /\ call.op \in {"create"} \cup Update
       /\ (\E u : AtBegin(u)) \/ (\E u : AtUpdate(u)) \/ AtCommit \/ AtReturn

\* Only create works on a file without a table, unless one was interrupted.
TableInv ==
  exists => disk.table \/ torn \/ (call # Nil /\ call.op = "create")

\* COMMIT of the operation that runs has been executed.
Written == IsUpdate(call) /\ stmt = Nil /\ prog = <<>>

\* The file holds one of the values it may hold by what has ended.
Settled(k) == \E w \in acked[k] : Holds(k, w)

KeptInv ==
  \A k \in Key :
    IF Written /\ k = call.key THEN Holds(k, call.val) ELSE Settled(k)

StoreInv == ConnInv /\ ProgInv /\ TableInv /\ KeptInv

\* A step that leaves the file alone, and is not the one that begins or ends the
\* time between COMMIT and the return.
LEMMA KeptSame ==
  ASSUME KeptInv, ~Written, ~Written', UNCHANGED <<disk, acked>>
  PROVE  KeptInv'
BY DEF KeptInv, Settled, Holds

-----------------------------------------------------------------------------
\* The database file is new and empty, and main is yet to open it.
LEMMA InitStore == Init => StoreInv
<1> SUFFICES ASSUME Init PROVE StoreInv
  OBVIOUS
<1>1. IsContent(NewFile) /\ NewFile.rows = NoRows
  BY DEF IsContent, NewFile, NoRows
<1>2. ConnInv /\ ProgInv /\ TableInv
  BY <1>1 DEF Init, ConnInv, ProgInv, TableInv
<1>3. KeptInv
  <2>1. disk.rows = NoRows /\ DOMAIN NoRows = {}
    BY <1>1 DEF Init, NoRows
  <2>2. \A k \in Key : acked[k] = {Nil} /\ Holds(k, Nil)
    BY <2>1 DEF Init, Holds
  <2> QED
    BY <2>2 DEF Init, KeptInv, Settled, Written, IsUpdate
<1> QED
  BY <1>2, <1>3 DEF StoreInv

\* What is known when the process ends, at any time.
LEMMA DiesStore == StoreInv /\ Dies => StoreInv'
<1> SUFFICES ASSUME StoreInv, Dies PROVE StoreInv'
  OBVIOUS
<1>1. /\ conn' = "none" /\ autocommit' = TRUE /\ stmt' = Nil /\ call' = Nil
      /\ prog' = <<>> /\ UNCHANGED <<exists, disk>>
      /\ torn' = (torn \/ (call # Nil /\ call.op = "create"))
      /\ acked' = IF IsUpdate(call)
                  THEN [acked EXCEPT ![call.key] = @ \cup {call.val}] ELSE acked
  BY DEF Dies, Autocommit
<1>2. acked \in [Key -> SUBSET (Value \cup {Nil})]
  BY DEF StoreInv, ConnInv
<1>3. IsUpdate(call) => call.key \in Key /\ call.val \in Value \cup {Nil}
  BY DEF IsUpdate, StoreInv, ConnInv
<1>4. acked' \in [Key -> SUBSET (Value \cup {Nil})]
  BY <1>1, <1>2, <1>3
<1>5. ConnInv' /\ ProgInv' /\ TableInv'
  BY <1>1, <1>4 DEF StoreInv, ConnInv, ProgInv, TableInv, IsContent
<1>6. ASSUME NEW k \in Key PROVE Settled(k)'
  <2>1. acked[k] \subseteq acked'[k]
    BY <1>1, <1>2, <1>3
  <2>2. CASE Written /\ k = call.key
    <3>1. call.val \in acked'[k] /\ Holds(k, call.val)
      BY <1>1, <1>2, <2>2 DEF Written, StoreInv, KeptInv
    <3> QED
      BY <1>1, <3>1 DEF Settled, Holds
  <2>3. CASE ~ (Written /\ k = call.key)
    <3>1. Settled(k)
      BY <2>3 DEF StoreInv, KeptInv
    <3> QED
      BY <1>1, <2>1, <3>1 DEF Settled, Holds
  <2> QED
    BY <2>2, <2>3
<1>7. KeptInv'
  BY <1>1, <1>6 DEF KeptInv, Written, IsUpdate
<1> QED
  BY <1>5, <1>7 DEF StoreInv

\* The first and the remaining statements of an operation's program.
LEMMA Programs ==
  /\ prog = <<>> => ~ \E u : AtBegin(u) \/ AtUpdate(u) \/ AtCommit
  /\ \A u : AtBegin(u) => /\ prog # <<>>
                          /\ Head(prog) = BeginStmt
                          /\ Tail(prog) = <<u, CommitStmt>>
                          /\ Tail(prog) # <<>>
  /\ \A u : AtUpdate(u) => /\ prog # <<>>
                           /\ Head(prog) = u
                           /\ Tail(prog) = <<CommitStmt>>
                           /\ Tail(prog) # <<>>
  /\ AtCommit => /\ prog # <<>>
                 /\ Head(prog) = CommitStmt
                 /\ Tail(prog) = <<>>
<1>1. \A x, y, z : /\ <<x, y, z>> # <<>> /\ <<x, y>> # <<>> /\ <<x>> # <<>>
                   /\ Head(<<x, y, z>>) = x /\ Tail(<<x, y, z>>) = <<y, z>>
                   /\ Head(<<x, y>>) = x /\ Tail(<<x, y>>) = <<y>>
                   /\ Head(<<x>>) = x /\ Tail(<<x>>) = <<>>
  OBVIOUS
<1>2. ASSUME NEW u, AtBegin(u)
      PROVE  /\ prog # <<>> /\ Head(prog) = BeginStmt
             /\ Tail(prog) = <<u, CommitStmt>> /\ Tail(prog) # <<>>
  BY <1>1, <1>2 DEF AtBegin, inTransaction, BeginStmt, CommitStmt
<1>3. ASSUME NEW u, AtUpdate(u)
      PROVE  /\ prog # <<>> /\ Head(prog) = u
             /\ Tail(prog) = <<CommitStmt>> /\ Tail(prog) # <<>>
  BY <1>1, <1>3 DEF AtUpdate
<1>4. AtCommit => prog # <<>> /\ Head(prog) = CommitStmt /\ Tail(prog) = <<>>
  BY <1>1 DEF AtCommit
<1> QED
  BY <1>2, <1>3, <1>4

\* A new file has only the program of create; another is taken as it is.
LEMMA OpenStore == StoreInv /\ open => StoreInv'
<1> SUFFICES ASSUME StoreInv, open, ~Dies PROVE StoreInv'
  BY DiesStore
<1>1. conn = "none" /\ call = Nil /\ autocommit /\ stmt = Nil /\ prog = <<>>
  BY DEF StoreInv, ConnInv, ProgInv, open
<1>2. /\ conn' = "open" /\ autocommit' = TRUE /\ stmt' = Nil /\ exists' = TRUE
      /\ UNCHANGED <<acked, torn>>
  BY DEF open, sqlite3_open_v2, Autocommit
<1>3. CASE exists
  <2>1. UNCHANGED <<disk, call, prog>>
    BY <1>3 DEF open, sqlite3_open_v2, NoFile
  <2>2. KeptInv'
    BY <1>1, <1>2, <2>1, KeptSame DEF StoreInv, Written, IsUpdate
  <2> QED
    BY <1>1, <1>2, <1>3, <2>1, <2>2
    DEF StoreInv, ConnInv, ProgInv, TableInv, IsContent
<1>4. CASE ~exists
  <2> DEFINE c == [op |-> "create", key |-> <<>>, val |-> Nil]
             u == statement("CREATE", Nil, Nil)
  <2>1. call' = c /\ prog' = inTransaction(u) /\ disk' = NewFile
    BY <1>4 DEF open, sqlite3_open_v2, NoFile
  <2>2. c \in Operation /\ c # Nil /\ c.op = "create"
    BY NilAssumption DEF Operation
  <2>3. disk = NewFile
    BY <1>4 DEF StoreInv, ConnInv
  <2>4. AtBegin(u)'
    BY <2>1, <2>2 DEF AtBegin, Fits
  <2> HIDE DEF c, u
  <2>5. ConnInv'
    BY <1>2, <2>1, <2>2, <2>3 DEF StoreInv, ConnInv, IsContent
  <2>6. ProgInv'
    BY <1>2, <2>1, <2>2, <2>4 DEF ProgInv
  <2>7. TableInv'
    BY <1>2, <2>1, <2>2, <2>3 DEF StoreInv, TableInv
  <2>8. KeptInv'
    BY <1>1, <1>2, <2>1, <2>2, <2>3, KeptSame DEF StoreInv, Written, IsUpdate
  <2> QED
    BY <2>5, <2>6, <2>7, <2>8 DEF StoreInv
<1> QED
  BY <1>3, <1>4 DEF StoreInv, ConnInv

\* The query of a call is answered from what the connection sees.
LEMMA CallStore ==
  ASSUME StoreInv, NEW op \in {"hasKey", "get", "remove", "list", "set"},
         NEW k \in Key, NEW v, IF op = "set" THEN v \in Value ELSE v = Nil,
         Call(op, k, v)
  PROVE  StoreInv'
<1> DEFINE c == [op |-> op, key |-> k, val |-> v]
<1>1. /\ call' = c
      /\ stmt' = IF op = "list" THEN selectList(k) ELSE selectKey(k)
      /\ conn = "open" /\ call = Nil
      /\ UNCHANGED <<exists, disk, conn, autocommit, txn, prog, acked, torn>>
  BY DEF Call, sqlite3_prepare_v2
<1>2. c \in Operation /\ c # Nil /\ c.op = op /\ c.key = k /\ c.val = v
  BY NilAssumption DEF Operation
<1>3. IsContent(Content)
  BY DEF StoreInv, ConnInv, Content
<1>4. selectList(k) \subseteq Key /\ selectKey(k) \subseteq Key
  BY <1>3 DEF selectList, selectKey, IsContent
<1>5. stmt' # Nil /\ stmt' \in SUBSET Key
  BY <1>1, <1>4, NilAssumption
<1>6. selectKey(k)' = selectKey(k)
  BY <1>1 DEF selectKey, Content
<1> HIDE DEF c
<1>7. ConnInv'
  BY <1>1, <1>2, <1>5 DEF StoreInv, ConnInv, IsContent
<1>8. ProgInv'
  <2>1. prog' = <<>> /\ (op # "list" => stmt' = selectKey(k)')
    BY <1>1, <1>6 DEF StoreInv, ProgInv
  <2> QED
    BY <1>1, <1>2, <1>5, <2>1 DEF ProgInv, Update
<1>9. TableInv' /\ KeptInv'
  BY <1>1, <1>5, KeptSame DEF StoreInv, TableInv, Written, IsUpdate
<1> QED
  BY <1>7, <1>8, <1>9 DEF StoreInv

\* The operation is over without COMMIT, and the file is as it was.
LEMMA AnswerStore ==
  ASSUME StoreInv, NEW ok, NEW keys, Answer(ok, keys), stmt' = Nil,
         call # Nil, call.op # "create", ~Written,
         IsContent(txn)' \/ autocommit',
         autocommit' \in BOOLEAN,
         UNCHANGED <<exists, disk, conn, acked, torn>>
  PROVE  StoreInv'
<1>1. call' = Nil /\ prog' = <<>> /\ conn = "open"
  BY DEF Answer, StoreInv, ConnInv
<1>2. KeptInv'
  BY <1>1, KeptSame DEF StoreInv, Written, IsUpdate
<1> QED
  BY <1>1, <1>2 DEF StoreInv, ConnInv, ProgInv, TableInv, IsContent

\* The operation returns: what the file holds is now promised.
LEMMA ReturnStore == StoreInv /\ Returns => StoreInv'
<1> SUFFICES ASSUME StoreInv, Returns PROVE StoreInv'
  OBVIOUS
<1>1. /\ call # Nil /\ stmt = Nil /\ prog = <<>> /\ conn = "open"
      /\ call' = Nil /\ prog' = <<>>
      /\ UNCHANGED <<exists, disk, conn, autocommit, txn, stmt, torn>>
      /\ acked' = IF IsUpdate(call)
                  THEN [acked EXCEPT ![call.key] = {call.val}] ELSE acked
  BY DEF Returns, Answer, dbVars, StoreInv, ConnInv
<1>2. acked \in [Key -> SUBSET (Value \cup {Nil})]
  BY DEF StoreInv, ConnInv
<1>3. IsUpdate(call) => call.key \in Key /\ call.val \in Value \cup {Nil}
  BY DEF IsUpdate, StoreInv, ConnInv
<1>4. acked' \in [Key -> SUBSET (Value \cup {Nil})]
  BY <1>1, <1>2, <1>3
<1>5. AtReturn /\ call.op \in {"create"} \cup Update
  BY <1>1, Programs DEF StoreInv, ProgInv
<1>6. ConnInv' /\ ProgInv' /\ TableInv'
  BY <1>1, <1>4, <1>5 DEF StoreInv, ConnInv, ProgInv, TableInv, AtReturn, IsContent
<1>7. ASSUME NEW k \in Key PROVE Settled(k)'
  <2>1. CASE IsUpdate(call) /\ k = call.key
    <3>1. call.val \in acked'[k] /\ Holds(k, call.val)
      BY <1>1, <1>2, <2>1 DEF Written, StoreInv, KeptInv
    <3> QED
      BY <1>1, <3>1 DEF Settled, Holds
  <2>2. CASE ~ (IsUpdate(call) /\ k = call.key)
    <3>1. Settled(k) /\ acked'[k] = acked[k]
      BY <1>1, <1>2, <2>2 DEF Written, StoreInv, KeptInv
    <3> QED
      BY <1>1, <3>1 DEF Settled, Holds
  <2> QED
    BY <2>1, <2>2
<1>8. KeptInv'
  BY <1>1, <1>7 DEF KeptInv, Written, IsUpdate
<1> QED
  BY <1>6, <1>8 DEF StoreInv

\* A row is read, or the query is over and its answer starts the update.
LEMMA StepStore == StoreInv /\ step => StoreInv'
<1> SUFFICES ASSUME StoreInv, step PROVE StoreInv'
  OBVIOUS
<1>1. /\ stmt # Nil /\ stmt \in SUBSET Key /\ call # Nil /\ call \in Operation
      /\ call.op # "create" /\ conn = "open" /\ prog = <<>>
      /\ UNCHANGED <<exists, disk, conn, autocommit, txn, acked, torn>>
  BY DEF step, sqlite3_finalize, StoreInv, ConnInv, ProgInv
<1>2. ASSUME NEW ok, NEW keys, Answer(ok, keys), sqlite3_finalize PROVE StoreInv'
  BY <1>1, <1>2, AnswerStore
  DEF sqlite3_finalize, StoreInv, ConnInv, IsContent, Written
<1>3. ASSUME NEW f, call.op = "list", stmt' = stmt \ {f}, UNCHANGED <<call, prog>>
      PROVE  StoreInv'
  <2>1. stmt' \in SUBSET Key /\ stmt' # Nil
    BY <1>1, <1>3, NilAssumption
  <2>2. KeptInv'
    BY <1>1, <1>3, <2>1, KeptSame DEF StoreInv, Written
  <2> QED
    BY <1>1, <1>3, <2>1, <2>2 DEF StoreInv, ConnInv, ProgInv, TableInv,
                                  IsContent, Update
<1>4. ASSUME NEW f \in sqlite3_step, call.op \in Update, sqlite3_finalize,
             prog' = inTransaction(updateOf(call, f.code = SQLITE_ROW)),
             UNCHANGED call,
             call.op = "remove" => f.code = SQLITE_ROW
      PROVE  StoreInv'
  <2> DEFINE u == updateOf(call, f.code = SQLITE_ROW)
  <2>1. stmt = selectKey(call.key)
    BY <1>1, <1>4 DEF StoreInv, ProgInv
  <2>2. (f.code = SQLITE_ROW) <=> stmt # {}
    BY <1>4 DEF sqlite3_step, SQLITE_ROW, SQLITE_DONE
  <2>3. autocommit => ((f.code = SQLITE_ROW) <=> call.key \in DOMAIN disk.rows)
    BY <2>1, <2>2 DEF selectKey, Content
  <2>4. autocommit => Fits(u)
    BY <1>4, <2>3 DEF Fits, updateOf, Update
  <2>5. AtBegin(u)'
    BY <1>1, <1>4, <2>4 DEF AtBegin, Fits
  <2> HIDE DEF u
  <2>6. stmt' = Nil
    BY <1>4 DEF sqlite3_finalize
  <2>7. ProgInv'
    BY <1>1, <1>4, <2>5, <2>6 DEF ProgInv
  <2>8. ~Written'
    BY <1>4 DEF Written, inTransaction
  <2>9. KeptInv'
    BY <1>1, <2>8, KeptSame DEF StoreInv, Written
  <2> QED
    BY <1>1, <1>4, <2>6, <2>7, <2>9 DEF StoreInv, ConnInv, TableInv, IsContent
<1> QED
  <2>1. ASSUME NEW f \in sqlite3_step,
               call.op = "set" \/ (call.op = "remove" /\ f.code = SQLITE_ROW),
               sqlite3_finalize,
               prog' = inTransaction(updateOf(call, f.code = SQLITE_ROW)),
               UNCHANGED <<call, found, res>>
        PROVE  StoreInv'
    BY <1>4, <2>1 DEF Update
  <2> QED
    BY <1>2, <1>3, <2>1 DEF step

\* The statement between BEGIN and COMMIT.
LEMMA UpdateStore ==
  ASSUME StoreInv, NEW u, AtUpdate(u), call # Nil,
         call.op \in {"create"} \cup Update,
         Executable(u), txn' = Applied(u, txn),
         UNCHANGED <<exists, disk, conn, autocommit, stmt, call, acked, torn>>
  PROVE  Ready' /\ IsContent(txn)'
<1>1. /\ txn = disk /\ ~autocommit /\ Fits(u) /\ IsContent(disk)
      /\ Content = txn
  BY DEF AtUpdate, StoreInv, ConnInv, Content
<1>2. CASE call.op = "create"
  <2>1. u.sql = "CREATE"
    BY <1>1, <1>2 DEF Fits, statement
  <2>2. txn' = [txn EXCEPT !.table = TRUE]
    BY <2>1 DEF Applied
  <2>3. txn' = [table |-> TRUE, rows |-> disk.rows]
    BY <1>1, <2>2 DEF IsContent
  <2>4. txn'.table = TRUE /\ txn'.rows = disk.rows
    BY <2>3
  <2>5. Ready'
    BY <1>2, <2>4 DEF Ready, Update
  <2>6. DOMAIN disk.rows \subseteq Key
    BY <1>1 DEF IsContent
  <2>7. IsContent(txn)'
    BY <2>3, <2>4, <2>6 DEF IsContent
  <2> QED
    BY <2>5, <2>7
<1>3. CASE call.op = "remove"
  <2>1. u.sql = "DELETE" /\ u.key = call.key
    BY <1>1, <1>3 DEF Fits, statement
  <2> DEFINE rows == [k \in DOMAIN disk.rows \ {call.key} |-> disk.rows[k]]
  <2>2. txn' = [table |-> disk.table, rows |-> rows]
    BY <1>1, <2>1 DEF Applied, IsContent
  <2>3. /\ DOMAIN rows = DOMAIN disk.rows \ {call.key}
        /\ \A k \in DOMAIN rows : rows[k] = disk.rows[k]
    OBVIOUS
  <2> HIDE DEF rows
  <2> QED
    BY <1>1, <1>3, <2>2, <2>3 DEF Ready, IsContent, Update
<1>4. CASE call.op = "set"
  <2>1. call.key \in Key
    BY <1>4 DEF StoreInv, ConnInv
  <2>2. u.key = call.key /\ u.val = call.val
    BY <1>1, <1>4 DEF Fits, statement
  <2>3. \E rows : /\ txn' = [table |-> disk.table, rows |-> rows]
                  /\ DOMAIN rows = DOMAIN disk.rows \cup {call.key}
                  /\ \A k \in DOMAIN disk.rows :
                       k # call.key => rows[k] = disk.rows[k]
                  /\ call.val \in DOMAIN Column \/ rows[call.key] = call.val
    <3>1. CASE call.key \in DOMAIN disk.rows
      <4>1. u.sql = "UPDATE"
        BY <1>1, <1>4, <3>1 DEF Fits, statement
      <4> DEFINE e == Evaluated(call.val, call.key)
                 rows == [disk.rows EXCEPT ![call.key] = e]
      <4>2. txn' = [txn EXCEPT !.rows[u.key] = Evaluated(u.val, u.key)]
        BY <4>1 DEF Applied
      <4>3. call.val \in DOMAIN Column \/ e = call.val
        BY DEF Evaluated
      <4> HIDE DEF e
      <4>4. txn' = [table |-> disk.table, rows |-> rows]
        BY <1>1, <2>2, <4>2 DEF IsContent, e
      <4>5. /\ DOMAIN rows = DOMAIN disk.rows \cup {call.key}
            /\ \A k \in DOMAIN disk.rows : k # call.key => rows[k] = disk.rows[k]
            /\ rows[call.key] = e
        BY <3>1
      <4> HIDE DEF rows
      <4> QED
        BY <4>3, <4>4, <4>5
    <3>2. CASE call.key \notin DOMAIN disk.rows
      <4>1. u.sql = "INSERT"
        BY <1>1, <1>4, <3>2 DEF Fits, statement
      <4> DEFINE rows == [k \in DOMAIN disk.rows \cup {call.key} |->
                            IF k = call.key THEN call.val ELSE disk.rows[k]]
      <4>2. txn' = [table |-> disk.table, rows |-> rows]
        BY <1>1, <2>2, <4>1 DEF Applied, IsContent
      <4>3. /\ DOMAIN rows = DOMAIN disk.rows \cup {call.key}
            /\ \A k \in DOMAIN disk.rows : k # call.key => rows[k] = disk.rows[k]
            /\ rows[call.key] = call.val
        OBVIOUS
      <4> HIDE DEF rows
      <4> QED
        BY <4>2, <4>3
    <3> QED BY <3>1, <3>2
  <2> QED
    BY <1>1, <1>4, <2>1, <2>3 DEF Ready, IsContent, Update
<1> QED
  BY <1>2, <1>3, <1>4 DEF Update

\* BEGIN, the statement and COMMIT each take the operation one step on; COMMIT
\* writes what the operation is about to return.
LEMMA ExecStore == StoreInv /\ sqlexec => StoreInv'
<1> SUFFICES ASSUME StoreInv, sqlexec PROVE StoreInv'
  OBVIOUS
<1>1. /\ call # Nil /\ stmt = Nil /\ stmt' = Nil /\ conn = "open" /\ exists
      /\ call \in Operation /\ call.op \in {"create"} \cup Update
      /\ UNCHANGED <<exists, conn, torn>>
  BY DEF StoreInv, ConnInv, ProgInv, sqlexec, sqlite3_exec
<1>2. IsContent(disk) /\ KeptInv /\ ConnInv /\ TableInv /\ prog # <<>>
  BY DEF StoreInv, ConnInv, sqlexec
<1>3. ASSUME NEW u, AtBegin(u) PROVE StoreInv'
  <2>1. Head(prog) = BeginStmt /\ Tail(prog) = <<u, CommitStmt>> /\ Tail(prog) # <<>>
    BY <1>3, Programs
  <2>2. sqlite3_exec(BeginStmt) /\ BeginStmt.sql = "BEGIN"
    BY <2>1 DEF sqlexec, BeginStmt, statement
  <2>3. /\ autocommit /\ autocommit' = FALSE /\ txn' = disk
        /\ UNCHANGED disk
    BY <2>2 DEF sqlite3_exec, Executable
  <2>4. prog' = <<u, CommitStmt>> /\ UNCHANGED <<call, acked>>
    BY <2>1 DEF sqlexec
  <2>5. AtUpdate(u)'
    BY <1>3, <2>3, <2>4 DEF AtBegin, AtUpdate, Fits, CommitStmt, statement
  <2>6. ProgInv'
    BY <1>1, <2>4, <2>5 DEF ProgInv
  <2>7. KeptInv'
    <3>1. prog' # <<>>
      BY <2>4
    <3> QED
      BY <1>2, <2>3, <2>4, <3>1, KeptSame DEF Written
  <2> QED
    BY <1>1, <1>2, <2>3, <2>4, <2>6, <2>7 DEF StoreInv, ConnInv, TableInv, IsContent
<1>4. ASSUME NEW u, AtUpdate(u) PROVE StoreInv'
  <2>1. Head(prog) = u /\ Tail(prog) = <<CommitStmt>> /\ Tail(prog) # <<>>
    BY <1>4, Programs
  <2>2. sqlite3_exec(u) /\ ~autocommit /\ Fits(u)
    BY <1>4, <2>1 DEF sqlexec, AtUpdate
  <2>3. u.sql \notin {"BEGIN", "COMMIT"}
    BY <1>1, <2>2 DEF Fits, statement, Update
  <2>4. Executable(u) /\ txn' = Applied(u, txn) /\ UNCHANGED <<disk, autocommit>>
    BY <2>2, <2>3 DEF sqlite3_exec
  <2>5. prog' = <<CommitStmt>> /\ UNCHANGED <<call, acked>>
    BY <2>1 DEF sqlexec
  <2>6. Ready' /\ IsContent(txn)'
    BY <1>1, <1>4, <2>4, <2>5, UpdateStore
  <2>7. AtCommit'
    BY <2>2, <2>4, <2>5, <2>6 DEF AtCommit, CommitStmt, statement
  <2>8. ProgInv'
    BY <1>1, <2>5, <2>7 DEF ProgInv
  <2>9. KeptInv'
    <3>1. prog' # <<>>
      BY <2>5
    <3> QED
      BY <1>2, <2>4, <2>5, <3>1, KeptSame DEF Written
  <2> QED
    BY <1>1, <1>2, <2>4, <2>5, <2>6, <2>8, <2>9
    DEF StoreInv, ConnInv, TableInv, IsContent
<1>5. ASSUME AtCommit PROVE StoreInv'
  <2>1. Head(prog) = CommitStmt /\ Tail(prog) = <<>> /\ Ready /\ ~autocommit
    BY <1>5, Programs DEF AtCommit
  <2>2. sqlite3_exec(CommitStmt) /\ CommitStmt.sql = "COMMIT"
    BY <2>1 DEF sqlexec, CommitStmt, statement
  <2>3. disk' = txn /\ autocommit' = TRUE
    BY <2>2 DEF sqlite3_exec, Autocommit
  <2>4. prog' = <<>> /\ UNCHANGED <<call, acked>>
    BY <2>1 DEF sqlexec
  <2>5. IsContent(txn)
    BY <1>2, <2>1 DEF ConnInv
  <2>6. KeptInv'
    <3>0. \A k \in Key : Settled(k)
      BY <1>2, <2>1, <1>5, Programs DEF KeptInv, Written
    <3>1. CASE call.op = "create"
      <4>1. disk'.rows = disk.rows /\ ~Written'
        BY <2>1, <2>3, <2>4, <3>1 DEF Ready, Written, IsUpdate
      <4> QED
        BY <2>4, <3>0, <4>1 DEF KeptInv, Settled, Holds
    <3>2. CASE call.op \in Update
      <4>1. Written' /\ call' = call /\ acked' = acked
        BY <1>1, <2>4, <3>2 DEF Written, IsUpdate, Update
      <4>2. Holds(call.key, call.val)'
        <5>1. CASE call.op = "set"
          <6>1. call.val # Nil
            BY <1>1, <1>2, <5>1, NilAssumption DEF ConnInv
          <6> QED
            BY <2>1, <2>3, <4>1, <5>1, <6>1 DEF Ready, Holds
        <5>2. CASE call.op = "remove"
          <6>1. call.val = Nil
            BY <1>1, <1>2, <5>2 DEF ConnInv
          <6> QED
            BY <2>1, <2>3, <4>1, <5>2, <6>1 DEF Ready, Holds
        <5> QED
          BY <3>2, <5>1, <5>2 DEF Update
      <4>3. ASSUME NEW k \in Key, k # call.key PROVE Settled(k)'
        <5>1. /\ k \in DOMAIN disk'.rows <=> k \in DOMAIN disk.rows
              /\ k \in DOMAIN disk.rows => disk'.rows[k] = disk.rows[k]
          BY <2>1, <2>3, <3>2, <4>3 DEF Ready, Update
        <5> QED
          BY <3>0, <4>1, <4>3, <5>1 DEF Settled, Holds
      <4> QED
        BY <4>1, <4>2, <4>3 DEF KeptInv
    <3> QED
      BY <1>1, <3>1, <3>2
  <2>7. TableInv'
    BY <1>1, <1>2, <2>1, <2>3, <2>4 DEF TableInv, Ready, Update
  <2>8. ConnInv'
    BY <1>1, <1>2, <2>3, <2>4, <2>5 DEF ConnInv, IsContent
  <2>9. AtReturn'
    BY <2>1, <2>3, <2>4 DEF AtReturn, Ready
  <2>10. ProgInv'
    BY <1>1, <2>4, <2>9 DEF ProgInv
  <2> QED
    BY <2>6, <2>7, <2>8, <2>10 DEF StoreInv
<1> QED
  BY <1>1, <1>2, <1>3, <1>4, <1>5 DEF StoreInv, ProgInv, AtReturn

\* A statement that fails leaves the file alone.
LEMMA ThrowsStore == StoreInv /\ sqlexecThrows => StoreInv'
<1> SUFFICES ASSUME StoreInv, sqlexecThrows, ~Dies PROVE StoreInv'
  BY DiesStore
<1>1. call # Nil /\ call.op # "create" /\ stmt = Nil
  <2>1. call.op # "create" /\ prog # <<>>
    BY DEF sqlexecThrows
  <2> QED
    BY <2>1 DEF StoreInv, ProgInv
<1>2. /\ Answer(FALSE, {}) /\ stmt' = Nil
      /\ UNCHANGED <<autocommit, txn>> \/ autocommit' = TRUE
      /\ UNCHANGED <<exists, disk, conn, acked, torn>>
  BY <1>1 DEF sqlexecThrows, execError, Autocommit
<1>4. ~Written
  BY DEF sqlexecThrows, Written
<1>3. autocommit' \in BOOLEAN /\ (IsContent(txn)' \/ autocommit')
  <2>1. autocommit \in BOOLEAN /\ (IsContent(txn) \/ autocommit)
    BY DEF StoreInv, ConnInv
  <2>2. CASE UNCHANGED <<autocommit, txn>>
    BY <2>1, <2>2 DEF IsContent
  <2> QED
    BY <1>2, <2>2
<1> QED
  BY <1>1, <1>2, <1>3, <1>4, AnswerStore

\* The store invariant holds in every state: whatever fails and wherever the
\* process ends, the connection, main and the file agree.
LEMMA StoreInvariant == Spec => []StoreInv
<1>1. ASSUME StoreInv, [Next]_vars PROVE StoreInv'
  <2>1. CASE UNCHANGED <<dbVars, call, prog, acked, torn>>
    BY <1>1, <2>1 DEF dbVars, StoreInv, ConnInv, ProgInv, TableInv, KeptInv,
                      Written, Settled, Holds, IsContent, AtBegin, AtUpdate,
                      AtCommit, AtReturn, Fits, Ready, selectKey, Content
  <2>2. CASE close
    <3>1. CASE sqlite3_close
      <4>1. /\ conn' = "none" /\ autocommit' = TRUE /\ call = Nil
            /\ UNCHANGED <<exists, disk, stmt, call, prog, acked, torn>>
        BY <1>1, <2>2, <3>1
        DEF close, sqlite3_close, Autocommit, callVars, StoreInv, ProgInv
      <4>2. KeptInv'
        BY <1>1, <4>1, KeptSame DEF StoreInv, Written, IsUpdate
      <4> QED
        BY <1>1, <4>1, <4>2 DEF StoreInv, ConnInv, ProgInv, TableInv, IsContent
    <3> QED
      BY <1>1, <2>2, <3>1, DiesStore DEF close
  <2>3. ASSUME NEW op \in {"hasKey", "get", "remove", "list"}, NEW k \in Key,
               Call(op, k, Nil)
        PROVE  StoreInv'
    BY <1>1, <2>3, CallStore
  <2>4. ASSUME NEW k \in Key, NEW v \in Value, Call("set", k, v) PROVE StoreInv'
    BY <1>1, <2>4, CallStore
  <2>5. CASE CallThrows \/ UNCHANGED vars
    BY <2>1, <2>5 DEF CallThrows, vars, callVars
  <2> QED
    BY <1>1, <2>2, <2>3, <2>4, <2>5, OpenStore, StepStore, ExecStore,
       ReturnStore, ThrowsStore, DiesStore DEF Next, Crash
<1> QED
  BY <1>1, InitStore, PTL DEF Spec

\* Whatever calls of SQLite fail and whenever the process crashes, the file holds
\* for each key what the last set or remove that returned left there, or what one
\* that a crash has cut off since would have; sqlexec never commits the leftovers
\* of an operation that threw.
THEOREM StoreDurable == Spec => []Durable
<1>1. StoreInv => Durable
  BY DEF StoreInv, KeptInv, Settled, Durable, Written
<1> QED
  BY <1>1, StoreInvariant, PTL

\* The store works on a file without its table only if create was interrupted.
THEOREM StoreHasTable == Spec => []TableOrTorn
<1>1. StoreInv => TableOrTorn
  BY DEF StoreInv, ConnInv, TableInv, TableOrTorn
<1> QED
  BY <1>1, StoreInvariant, PTL

-----------------------------------------------------------------------------
(***************************************************************************)
(* What list answers.                                                      *)
(***************************************************************************)

\* A key directly below another one matches the pattern of list, and is one
\* slash deeper.
LEMMA ChildMatches ==
  ASSUME NEW k \in Key, NEW path \in Key, IsChild(k, path)
  PROVE  LIKE(k, path) /\ dirDepth(k) = dirDepth(path) + 1
<1> DEFINE n == Len(path)
           Slashes == {i \in 1 .. Len(path) : path[i] = "/"}
<1>1. /\ k \in Seq(STRING) /\ path \in Seq(STRING)
      /\ n \in Nat /\ Len(k) \in Nat /\ Len(k) > n + 1
  <2>1. k \in Seq(STRING) /\ path \in Seq(STRING)
    BY ServerDBAssumption, Zenon
  <2> QED
    BY <2>1 DEF IsChild
<1>2. \A i \in 1 .. n + 1 : k[i] = Append(path, "/")[i]
  <2>1. ASSUME NEW i \in 1 .. n + 1 PROVE SubSeq(k, 1, n + 1)[i] = k[i]
    BY <1>1
  <2> QED
    BY <2>1 DEF IsChild
<1>3. /\ \A i \in 1 .. n : k[i] = path[i]
      /\ k[n + 1] = "/"
  BY <1>1, <1>2
<1>4. LIKE(k, path)
  <2>1. \A i \in 1 .. Len(path) : Lower(path[i]) = Lower(k[i])
    BY <1>3
  <2>2. Len(k) > Len(path) /\ k[Len(path) + 1] = "/"
    BY <1>1, <1>3
  <2> HIDE DEF n, Slashes
  <2> QED
    BY <2>1, <2>2, Zenon DEF LIKE
<1>5. \A i \in n + 2 .. Len(k) : k[i] # "/"
  BY DEF IsChild
<1>6. {i \in 1 .. Len(k) : k[i] = "/"} = Slashes \cup {n + 1}
  BY <1>1, <1>3, <1>5
<1>7. IsFiniteSet(Slashes) /\ n + 1 \notin Slashes
  <2>1. IsFiniteSet(1 .. n)
    BY <1>1, FS_Interval
  <2>2. Slashes \in SUBSET (1 .. n)
    OBVIOUS
  <2>3. IsFiniteSet(Slashes)
    BY <2>1, <2>2, FS_Subset
  <2>4. n + 1 \notin 1 .. n
    BY <1>1
  <2> QED
    BY <2>2, <2>3, <2>4
<1>8. Cardinality(Slashes \cup {n + 1}) = Cardinality(Slashes) + 1
  BY <1>7, FS_AddElement
<1> QED
  BY <1>4, <1>6, <1>8 DEF dirDepth

\* The rows that list has read and those it has left are what the connection
\* sees, which no call changes meanwhile.
ListInv ==
  /\ call = Nil => found = {}
  /\ call # Nil /\ call.op = "list" =>
       stmt # Nil /\ found \cup stmt = selectList(call.key)

\* Only the query of list fills found, a row at a time, and a new call begins
\* with none: every action keeps what ListInv says.
LEMMA ListKeeps == StoreInv /\ ListInv /\ [Next]_vars => ListInv'
<1> SUFFICES ASSUME StoreInv, ListInv, [Next]_vars PROVE ListInv'
  OBVIOUS
<1>1. ASSUME call' = Nil, found' = {} PROVE ListInv'
  BY <1>1 DEF ListInv
<1>2. CASE UNCHANGED vars
  BY <1>2 DEF vars, dbVars, callVars, ListInv, selectList, Content
<1>3. CASE open
  <2>1. call = Nil /\ found = {}
    BY <1>3 DEF open, StoreInv, ConnInv, ListInv
  <2>2. found' = {} /\ (call' = Nil \/ call'.op = "create")
    BY <1>3, <2>1 DEF open, Dies
  <2> QED
    BY <2>2 DEF ListInv
<1>4. CASE close
  BY <1>1, <1>4 DEF close, Dies, callVars, ListInv
<1>5. ASSUME NEW op, NEW k \in Key, NEW v, Call(op, k, v) PROVE ListInv'
  <2>1. /\ found = {} /\ UNCHANGED <<found, disk, autocommit, txn>>
        /\ call' = [op |-> op, key |-> k, val |-> v]
    BY <1>5 DEF Call, sqlite3_prepare_v2, ListInv
  <2>2. CASE op = "list"
    <3>1. stmt' = selectList(k) /\ UNCHANGED selectList(k)
      BY <1>5, <2>1, <2>2 DEF Call, sqlite3_prepare_v2, selectList, Content
    <3>2. stmt' \in SUBSET Key
      <4>1. DOMAIN Content.rows \subseteq Key
        BY DEF StoreInv, ConnInv, IsContent, Content
      <4> QED
        BY <3>1, <4>1 DEF selectList
    <3> QED
      BY <2>1, <3>1, <3>2, NilAssumption DEF ListInv
  <2> QED
    BY <2>1, <2>2 DEF ListInv
<1>6. CASE CallThrows
  BY <1>6 DEF CallThrows, ListInv, dbVars
<1>7. CASE step
  <2>0. stmt # Nil /\ call # Nil /\ stmt \in SUBSET Key
    BY <1>7 DEF step, StoreInv, ConnInv, ProgInv
  <2>1. ASSUME NEW f \in sqlite3_step, call.op = "list", f.code = SQLITE_ROW,
               found' = found \cup {f.row}, stmt' = stmt \ {f.row},
               UNCHANGED <<disk, autocommit, txn, call>>
        PROVE  ListInv'
    <3>1. f.row \in stmt
      BY <2>1 DEF sqlite3_step, SQLITE_ROW, SQLITE_DONE
    <3>2. stmt' # Nil
      BY <2>0, <2>1, NilAssumption
    <3> QED
      BY <2>0, <2>1, <3>1, <3>2 DEF ListInv, selectList, Content
  <2>2. ASSUME NEW ok, NEW keys, Answer(ok, keys) PROVE ListInv'
    BY <1>1, <2>2 DEF Answer
  <2>3. ASSUME call.op # "list", UNCHANGED call PROVE ListInv'
    BY <2>0, <2>3 DEF ListInv
  <2> QED
    BY <1>7, <2>1, <2>2, <2>3 DEF step
<1>8. CASE sqlexec \/ Returns \/ sqlexecThrows
  <2>1. call # Nil /\ call.op # "list"
    BY <1>8 DEF sqlexec, Returns, sqlexecThrows, StoreInv, ProgInv, ListInv,
                Update
  <2>2. call' = call \/ (call' = Nil /\ found' = {})
    BY <1>8 DEF sqlexec, Returns, sqlexecThrows, Answer, Dies
  <2> QED
    BY <2>1, <2>2 DEF ListInv
<1>9. CASE Crash
  BY <1>1, <1>9 DEF Crash, Dies
<1> QED
  BY <1>2, <1>3, <1>4, <1>5, <1>6, <1>7, <1>8, <1>9 DEF Next

\* list tells every key directly below a path that the connection sees when it
\* answers, and nothing of another depth, for every set of keys: the pattern
\* finds more than the children, the depth column leaves no child out.
THEOREM NoChildMissed == Spec => ListsChildren
<1> DEFINE Answers == call # Nil /\ call.op = "list" /\ call' = Nil /\ res'.ok
                      /\ conn' = "open"
           Told ==
             /\ {k \in DOMAIN Content.rows : IsChild(k, call.key)} \subseteq res'.keys
             /\ \A k \in res'.keys : dirDepth(k) = dirDepth(call.key) + 1
<1>1. Init => ListInv
  BY DEF Init, ListInv
<1>2. StoreInv /\ ListInv /\ [Next]_vars => [Answers => Told]_vars
  <2> SUFFICES ASSUME StoreInv, ListInv, Next, Answers PROVE Told
    OBVIOUS
  <2>0. /\ stmt # Nil /\ prog = <<>> /\ conn = "open" /\ call.key \in Key
        /\ found \cup stmt = selectList(call.key)
    BY DEF StoreInv, ConnInv, ProgInv, ListInv, Update
  <2>1. step
    BY <2>0 DEF Next, open, close, sqlexec, Returns, sqlexecThrows, Crash, Dies, Call,
                CallThrows
  <2>2. PICK f \in sqlite3_step : f.code # SQLITE_ROW /\ res'.keys = found
    BY <2>1 DEF step, Answer
  <2>3. res'.keys = selectList(call.key)
    <3>1. stmt = {}
      BY <2>2 DEF sqlite3_step
    <3> QED
      BY <2>0, <2>2, <3>1
  <2>4. DOMAIN Content.rows \subseteq Key
    BY DEF StoreInv, ConnInv, IsContent, Content
  <2>5. \A k \in DOMAIN Content.rows :
          IsChild(k, call.key) => k \in selectList(call.key)
    BY <2>0, <2>4, ChildMatches DEF selectList
  <2> QED
    BY <2>3, <2>5 DEF selectList
<1>3. Spec => []StoreInv
  BY StoreInvariant
<1> QED
  BY <1>1, <1>2, <1>3, ListKeeps, PTL DEF Spec, ListsChildren
=============================================================================
