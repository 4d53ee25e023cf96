------------------------------- MODULE Locks -------------------------------
(***************************************************************************)
(* Who waits for whom.  The five threads of each replica take recursive    *)
(* mutexes and make synchronous calls, some of them while they hold a      *)
(* mutex; a call waits until t2 of the callee has run the handler.  This   *)
(* module keeps the order in which every thread takes and releases its     *)
(* mutexes and makes its calls, and leaves the data out.  Whether a wait   *)
(* for a quorum is notified or times out, and which replica becomes the    *)
(* primary of a view, is left open: it admits every order of the code, and *)
(* more, so that a cycle of waits it does not have the code does not have  *)
(* either.                                                                 *)
(*                                                                         *)
(* A program is the sequence of instructions a thread has yet to execute.  *)
(* A mutex that is taken and released with nothing in between that waits   *)
(* is passed in one instruction; the mutexes of queues, wait maps and the  *)
(* replica state are all of that kind, and left out.  So are two that are  *)
(* held while their holder waits, because they add no circle.  changeView  *)
(* keeps rMutex of a response across updateNewView.  processDoViewChange   *)
(* and processStartView, which want it, pass _viewChangeMutex just before; *)
(* updateNewView holds that too, so a handler that stops at either waits   *)
(* for the same thread.  recover keeps _recoveryRespMutex across its       *)
(* callbacks, where it can wait for kvMemMutex only; if the holder of that,*)
(* t1, waits too, then for the _repMutex of recover, which is a circle     *)
(* already, to which processRecoveryResponse could only add a tail.        *)
(***************************************************************************)
EXTENDS Integers, Sequences, FiniteSets

CONSTANTS
  N,           \* number of replicas
  Nil,         \* "none"
  Updating,    \* bound: replicas whose clients write
  Beating,     \* bound: replicas whose heartbeats a model explores
  Changing,    \* bound: replicas that change the view
  Recovering,  \* bound: replicas that may start by recovering, one of them
  MaxView,     \* bound: the largest view number a model explores
  MaxLost,     \* bound: calls that fail although the callee is up
  MaxStart     \* bound: programs started by a client or by hbt

ASSUME LocksAssumption ==
  /\ N \in Nat \ {0}
  /\ Updating \cup Beating \cup Changing \cup Recovering \subseteq 0 .. N - 1
  /\ {MaxView, MaxLost, MaxStart} \subseteq Nat

Replica == 0 .. N - 1
ThreadName == {"t1", "t2", "hbt", "ppit", "prrt"}
Thread == Replica \X ThreadName
Mutex == {"kvMem", "rep", "viewChange", "repClient", "vcClient",
          "recoveryClient"}

ASSUME NilAssumption ==
  Nil \notin Replica /\ Nil \notin ThreadName /\ Nil \notin Thread

VARIABLES
  prog,     \* what each thread has yet to do
  holder,   \* the thread of the replica that holds the mutex, or Nil
  serving,  \* the thread whose call t2 serves, or Nil
  status, priId, viewNum,
  prepReqQ, recoveryReqQ,  \* prepares queued, and who asked to recover
  alive,
  lost,     \* calls lost so far
  starts    \* programs started so far

vars == <<prog, holder, serving, status, priId, viewNum, prepReqQ,
          recoveryReqQ, alive, lost, starts>>

Init ==
  /\ prog = [t \in Thread |-> <<>>]
  /\ holder = [r \in Replica |-> [m \in Mutex |-> Nil]]
  /\ serving = [r \in Replica |-> Nil]
  /\ \E r \in Recovering \cup {Nil} :
       status = [s \in Replica |-> IF s = r THEN "RECOVERING" ELSE "NORMAL"]
  /\ priId = [r \in Replica |-> 0]
  /\ viewNum = [r \in Replica |-> 0]
  /\ prepReqQ = [r \in Replica |-> 0]
  /\ recoveryReqQ = [r \in Replica |-> <<>>]
  /\ alive = [r \in Replica |-> TRUE]
  /\ lost = 0
  /\ starts = 0

isPrimary(r) == priId[r] = r
Others(r) == Replica \ {r}

-----------------------------------------------------------------------------
(***************************************************************************)
(* Instructions.                                                           *)
(***************************************************************************)
Lock(m) == <<[op |-> "lock", m |-> m, asserts |-> FALSE]>>
\* ... and assert(isPrimary()) behind it.
LockAsPrimary(m) == <<[op |-> "lock", m |-> m, asserts |-> TRUE]>>
Unlock(m) == <<[op |-> "unlock", m |-> m]>>
Pass(m) == <<[op |-> "pass", m |-> m]>>

\* body only if the status is NORMAL.
IfNormal(body) == <<[op |-> "ifNormal", body |-> body]>>

\* Calls of handler h at the replicas in the set, in any order, each under the
\* mutex m of the clients; Nil stands for the replica taken for the primary.
Invoke(h, m, to) ==
  IF to = {} THEN <<>>
  ELSE <<[op |-> "invoke", h |-> h, m |-> m, to |-> to, b |-> Nil]>>

\* Assignments to the replica state.
NextView == <<[op |-> "nextView"]>>
SetPri(p) == <<[op |-> "setPri", to |-> p]>>
SetNormal(p) == <<[op |-> "setNormal", to |-> p]>>

\* One of several continuations.
Either(progs) == <<[op |-> "either", progs |-> progs]>>

\* Up-calls into the key-value store, or none.
Callbacks == Either({<<>>, Pass("kvMem")})

-----------------------------------------------------------------------------
(***************************************************************************)
(* The programs of the threads.                                            *)
(***************************************************************************)

\* Mutant: _repMutex is released only when the operation was committed.
LeakyUpdate(r) ==
  LockAsPrimary("kvMem") \o LockAsPrimary("rep")
    \o IfNormal(Invoke("prepare", "repClient", Others(r))
                  \o Either({<<>>, Invoke("commit", "repClient", Others(r))
                                     \o Unlock("rep")}))
    \o Unlock("kvMem")

\* t1, a write: KvMemStore::set or remove, replicateUpdate or replicateDelete,
\* and replicate, which throws if the status is not NORMAL or the quorum is
\* not reached in time.
clientUpdate(r) ==
  LockAsPrimary("kvMem") \o LockAsPrimary("rep")
    \o IfNormal(Invoke("prepare", "repClient", Others(r))
                  \o Either({<<>>, Invoke("commit", "repClient", Others(r))}))
    \o Unlock("rep") \o Unlock("kvMem")

\* hbt of a primary.
heartBeat(r) == Invoke("commit", "repClient", Others(r))

\* updateNewView with p as primary.
updateNewView(r, p) ==
  Lock("viewChange") \o Callbacks \o SetNormal(p)
    \o (IF p = r THEN Invoke("startView", "vcClient", Others(r)) ELSE <<>>)
    \o Unlock("viewChange")

\* updateNewView as a backup of another replica.
backup(r) == {updateNewView(r, p) : p \in Others(r)}

\* The DoViewChange loop ends with candidate c, or with the replica itself; then
\* the wait is over, or times out.
offer(r) ==
  {Invoke("doViewChange", "vcClient", {c}) \o SetPri(c)
     \o Either(backup(r) \cup {<<>>}) : c \in Others(r)}
  \cup {SetPri(r) \o Either({updateNewView(r, r), <<>>})}

\* The view is asked for, and offered if enough replicas ask for it.
request(r) ==
  Invoke("startViewChange", "vcClient", Others(r))
    \o Either({<<>>} \cup {Pass("viewChange") \o o : o \in offer(r)})

\* hbt in changeView: a StartView is there already, or it asks for the view.
changeView(r) ==
  Lock("rep") \o NextView \o Pass("viewChange")
    \o Either(backup(r) \cup {request(r)}) \o Unlock("rep")

\* hbt in recover, with the primary it finds.
recover(r) ==
  Lock("rep") \o Invoke("recoveryRequest", "recoveryClient", Others(r))
    \o Callbacks \o Either({SetNormal(p) : p \in Others(r)}) \o Unlock("rep")

\* ppit.
processPrepInfo ==
  Lock("rep") \o Invoke("prepareOk", "repClient", {Nil}) \o Unlock("rep")

\* prrt.
processRecoveryReqInt(to) ==
  Pass("rep") \o Invoke("recoveryResponse", "recoveryClient", {to})

\* Mutant: the handler takes the lock of the replicator, as processCommit does.
LockingHandler == Pass("rep")

\* t2: processPrepareOk and processStartViewChange take no lock that another
\* thread holds while it waits.
processPrepareOk == <<>>
processStartViewChange == <<>>

\* t2 of b: the handler of call h of replica r.
Handler(b, h, r) ==
  LET stale == viewNum[b] > viewNum[r] \/ status[b] = "RECOVERING"
  IN  CASE h = "commit" /\ status[b] = "NORMAL" ->
             Lock("rep") \o Callbacks \o Unlock("rep")
        [] h \in {"doViewChange", "startView"} /\ ~stale -> Pass("viewChange")
        [] h = "prepareOk" -> processPrepareOk
        [] h = "startViewChange" -> processStartViewChange
        [] OTHER -> <<>>

-----------------------------------------------------------------------------
(***************************************************************************)
(* Starting a program.                                                     *)
(***************************************************************************)
Idle(r, n) == alive[r] /\ prog[<<r, n>>] = <<>>

Begin(r, n, program) ==
  /\ Idle(r, n)
  /\ starts < MaxStart
  /\ starts' = starts + 1
  /\ prog' = [prog EXCEPT ![<<r, n>>] = program]
  /\ UNCHANGED <<holder, serving, status, priId, viewNum, prepReqQ,
                 recoveryReqQ, alive, lost>>

\* t1 looks at the role before it takes a lock.  Reads take kvMemMutex alone,
\* and never wait for another lock with it.
ClientUpdate(r) ==
  r \in Updating /\ isPrimary(r) /\ Begin(r, "t1", clientUpdate(r))

HeartBeat(r) ==
  /\ r \in Beating /\ isPrimary(r) /\ status[r] = "NORMAL"
  /\ Begin(r, "hbt", heartBeat(r))

ChangeView(r) ==
  /\ r \in Changing /\ viewNum[r] < MaxView
  /\ status[r] = "VIEW_CHANGE" \/ (status[r] = "NORMAL" /\ ~isPrimary(r))
  /\ Begin(r, "hbt", changeView(r))

Recover(r) == status[r] = "RECOVERING" /\ Begin(r, "hbt", recover(r))

\* ppit drops a prepare of another view, or if role or status do not fit.
PopPrepInfo(r) ==
  /\ Idle(r, "ppit")
  /\ prepReqQ[r] > 0
  /\ prepReqQ' = [prepReqQ EXCEPT ![r] = @ - 1]
  /\ \/ /\ ~isPrimary(r) /\ status[r] = "NORMAL"
        /\ prog' = [prog EXCEPT ![<<r, "ppit">>] = processPrepInfo]
     \/ UNCHANGED prog
  /\ UNCHANGED <<holder, serving, status, priId, viewNum, recoveryReqQ, alive,
                 lost, starts>>

PopRecoveryReq(r) ==
  /\ Idle(r, "prrt")
  /\ recoveryReqQ[r] # <<>>
  /\ status[r] = "NORMAL"
  /\ recoveryReqQ' = [recoveryReqQ EXCEPT ![r] = Tail(@)]
  /\ prog' = [prog EXCEPT ![<<r, "prrt">>] =
                processRecoveryReqInt(Head(recoveryReqQ[r]))]
  /\ UNCHANGED <<holder, serving, status, priId, viewNum, prepReqQ, alive,
                 lost, starts>>

-----------------------------------------------------------------------------
(***************************************************************************)
(* Executing an instruction of thread t.                                   *)
(***************************************************************************)
NextIs(t, op) == prog[t] # <<>> /\ Head(prog[t]).op = op

\* The program of t when its call is over.
Returned(t) ==
  LET i == Head(prog[t])
  IN  Invoke(i.h, i.m, i.to \ {i.b}) \o Tail(prog[t])

EndCall(t) ==
  /\ holder' = [holder EXCEPT ![t[1]][Head(prog[t]).m] = Nil]
  /\ prog' = [prog EXCEPT ![t] = Returned(t)]

Then(t, rest) == prog' = [prog EXCEPT ![t] = rest \o Tail(@)]
Free(t, m) == holder[t[1]][m] \in {Nil, t[2]}
StateVars == <<status, priId, viewNum>>
QueueVars == <<prepReqQ, recoveryReqQ>>

\* t2 of r serves a call whose caller is still there.
Serves(r, t) == serving[r] = t /\ t # Nil /\ alive[t[1]]

\* A failed assertion ends the process, and with it the call it was serving.
Dies(r) ==
  /\ alive' = [alive EXCEPT ![r] = FALSE]
  /\ holder' = [s \in Replica |-> [m \in Mutex |->
                   IF \/ s = r
                      \/ \E n \in ThreadName : /\ Serves(r, <<s, n>>)
                                              /\ Head(prog[<<s, n>>]).m = m
                   THEN Nil ELSE holder[s][m]]]
  /\ serving' = [serving EXCEPT ![r] = Nil]
  /\ prog' = [u \in Thread |-> IF u[1] = r THEN <<>>
                               ELSE IF Serves(r, u) THEN Returned(u)
                               ELSE prog[u]]

Acquire(t) ==
  LET r == t[1]
      i == Head(prog[t])
  IN  /\ NextIs(t, "lock")
      /\ Free(t, i.m)
      /\ IF i.asserts /\ ~isPrimary(r)
         THEN Dies(r)
         ELSE /\ holder' = [holder EXCEPT ![r][i.m] = t[2]]
              /\ Then(t, <<>>)
              /\ UNCHANGED <<serving, alive>>
      /\ UNCHANGED <<StateVars, QueueVars, lost, starts>>

Release(t) ==
  /\ NextIs(t, "unlock")
  /\ holder' = [holder EXCEPT ![t[1]][Head(prog[t]).m] = Nil]
  /\ Then(t, <<>>)
  /\ UNCHANGED <<serving, StateVars, QueueVars, alive, lost, starts>>

PassThrough(t) ==
  /\ NextIs(t, "pass")
  /\ Free(t, Head(prog[t]).m)
  /\ Then(t, <<>>)
  /\ UNCHANGED <<holder, serving, StateVars, QueueVars, alive, lost, starts>>

GoOn(t) ==
  /\ NextIs(t, "either")
  /\ \E p \in Head(prog[t]).progs : Then(t, p)
  /\ UNCHANGED <<holder, serving, StateVars, QueueVars, alive, lost, starts>>

CheckNormal(t) ==
  /\ NextIs(t, "ifNormal")
  /\ Then(t, IF status[t[1]] = "NORMAL" THEN Head(prog[t]).body ELSE <<>>)
  /\ UNCHANGED <<holder, serving, StateVars, QueueVars, alive, lost, starts>>

\* The calls of a broadcast are made by threads of their own, one at a time
\* because each holds the mutex of the clients, in any order.
NextCall(t) ==
  LET i == Head(prog[t])
  IN  /\ NextIs(t, "invoke")
      /\ Free(t, i.m)
      /\ \E b \in i.to : Then(t, <<[i EXCEPT !.op = "call", !.b = b]>>)
      /\ holder' = [holder EXCEPT ![t[1]][i.m] = t[2]]
      /\ UNCHANGED <<serving, StateVars, QueueVars, alive, lost, starts>>

Callee(t) == IF Head(prog[t]).b = Nil THEN priId[t[1]] ELSE Head(prog[t]).b

\* What the handler of call h of r does at b before it waits for a lock.
Effect(b, h, r) ==
  /\ prepReqQ' = IF h = "prepare" /\ status[b] = "NORMAL"
                 THEN [prepReqQ EXCEPT ![b] = @ + 1] ELSE prepReqQ
  /\ recoveryReqQ' = IF h = "recoveryRequest" /\ status[b] = "NORMAL"
                     THEN [recoveryReqQ EXCEPT ![b] = Append(@, r)]
                     ELSE recoveryReqQ
  /\ status' = IF h = "startView" /\ viewNum[b] <= viewNum[r]
                                  /\ status[b] # "RECOVERING"
               THEN [status EXCEPT ![b] = "VIEW_CHANGE"] ELSE status

\* A call fails, or t2 of the callee takes it when it is idle; one whose
\* handler does not wait returns at once.
MakeCall(t) ==
  LET b == Callee(t)
      h == Head(prog[t]).h
  IN  /\ NextIs(t, "call")
      /\ \/ /\ \/ (b = t[1] \/ ~alive[b]) /\ UNCHANGED lost
               \/ lost < MaxLost /\ lost' = lost + 1
            /\ EndCall(t)
            /\ UNCHANGED <<serving, status, QueueVars>>
         \/ /\ b # t[1] /\ alive[b] /\ serving[b] = Nil
            /\ Effect(b, h, t[1])
            /\ IF Handler(b, h, t[1]) = <<>>
               THEN EndCall(t) /\ UNCHANGED serving
               ELSE /\ serving' = [serving EXCEPT ![b] = t]
                    /\ prog' =
                         [prog EXCEPT
                            ![<<b, "t2">>] = Handler(b, h, t[1]),
                            ![t] = <<[Head(@) EXCEPT !.op = "called"]>> \o Tail(@)]
                    /\ UNCHANGED holder
            /\ UNCHANGED lost
      /\ UNCHANGED <<priId, viewNum, alive, starts>>

Return(b) ==
  LET t == serving[b]
  IN  /\ serving[b] # Nil
      /\ Idle(b, "t2")
      /\ serving' = [serving EXCEPT ![b] = Nil]
      /\ IF alive[t[1]] THEN EndCall(t) ELSE UNCHANGED <<holder, prog>>
      /\ UNCHANGED <<StateVars, QueueVars, alive, lost, starts>>

Assign(t) ==
  LET r == t[1]
      i == Head(prog[t])
  IN  /\ \/ /\ NextIs(t, "nextView")
            /\ viewNum' = [viewNum EXCEPT ![r] = @ + 1]
            /\ status' = [status EXCEPT ![r] = "VIEW_CHANGE"]
            /\ UNCHANGED priId
         \/ /\ NextIs(t, "setPri")
            /\ priId' = [priId EXCEPT ![r] = i.to]
            /\ UNCHANGED <<status, viewNum>>
         \/ /\ NextIs(t, "setNormal")
            /\ priId' = [priId EXCEPT ![r] = i.to]
            /\ status' = [status EXCEPT ![r] = "NORMAL"]
            /\ UNCHANGED viewNum
      /\ Then(t, <<>>)
      /\ UNCHANGED <<holder, serving, QueueVars, alive, lost, starts>>

-----------------------------------------------------------------------------
Step(t) ==
  \/ Acquire(t) \/ Release(t) \/ PassThrough(t) \/ GoOn(t)
  \/ CheckNormal(t) \/ NextCall(t) \/ MakeCall(t) \/ Assign(t)

Next ==
  \/ \E t \in Thread : Step(t)
  \/ \E r \in Replica :
       \/ Return(r) \/ PopPrepInfo(r) \/ PopRecoveryReq(r)
       \/ ClientUpdate(r) \/ HeartBeat(r) \/ ChangeView(r) \/ Recover(r)

Spec == Init /\ [][Next]_vars

-----------------------------------------------------------------------------
(***************************************************************************)
(* Properties.                                                             *)
(***************************************************************************)

\* The thread that t cannot go on without, or Nil.
WaitsFor(t) ==
  IF prog[t] = <<>> THEN Nil
  ELSE LET i == Head(prog[t])
       IN  CASE i.op \in {"lock", "pass", "invoke"} /\ ~Free(t, i.m)
                  -> <<t[1], holder[t[1]][i.m]>>
             [] \/ i.op = "called"
                \/ /\ i.op = "call" /\ Callee(t) # t[1]
                   /\ alive[Callee(t)] /\ serving[Callee(t)] # Nil
                  -> <<Callee(t), "t2">>
             [] OTHER -> Nil

\* The threads that wait for themselves, directly or through others.
Deadlocked ==
  LET next == [t \in Thread |-> WaitsFor(t)]
      waiting == {t \in Thread : next[t] # Nil}
      after(t) == LET c[n \in 1 .. Cardinality(waiting)] ==
                        IF n = 1 THEN next[t]
                        ELSE IF c[n - 1] \in waiting THEN next[c[n - 1]]
                                                     ELSE Nil
                  IN  {c[n] : n \in 1 .. Cardinality(waiting)}
  IN  {t \in waiting : t \in after(t)}

\* t1 holds kvMemMutex and waits for _repMutex, whose holder calls back into
\* the key-value store.
Inversion(r) ==
  /\ <<r, "t1">> \in Deadlocked
  /\ holder[r]["kvMem"] = "t1"
  /\ WaitsFor(WaitsFor(<<r, "t1">>)) = <<r, "t1">>

\* As long as no view change has begun, replication, heartbeats and recovery
\* never wait for each other in a circle, although they call each other under
\* _repMutex and share the connections; only a client's write at a recovering
\* replica that takes itself for the primary may.
NormalCaseNeverDeadlocks ==
  (\A r \in Replica : viewNum[r] = 0) /\ Deadlocked # {}
    => \E r \in Recovering : Inversion(r)

\* With view changes there are three kinds of circles, and no other: the one
\* of kvMemMutex and _repMutex; a processCommit that waits for _repMutex; and
\* two replicas that broadcast their StartViews to each other.
KnownDeadlocks ==
  Deadlocked # {} =>
    \/ \E r \in Replica : Inversion(r)
    \/ \E r \in Replica :
         <<r, "t2">> \in Deadlocked /\ NextIs(<<r, "t2">>, "lock")
    \/ Cardinality({r \in Replica : holder[r]["viewChange"] # Nil}) > 1

\* A thread never hangs because a lock was left behind or a call forgotten:
\* whoever waits, waits for a thread that has something left to do, if only to
\* return.
NobodyWaitsForIdle ==
  \A t \in Thread : LET u == WaitsFor(t) IN
    u # Nil => prog[u] # <<>> \/ (u[2] = "t2" /\ serving[u[1]] # Nil)
=============================================================================
