---------------------------- MODULE LocksProofs ----------------------------
(***************************************************************************)
(* Theorems about who waits for whom, for any number of replicas, clients, *)
(* views and lost calls.                                                   *)
(*                                                                         *)
(* The inductive invariant LocksInv says of every thread which stage of    *)
(* its program it is in, and which mutexes it holds there: what is left of *)
(* the program alone does not tell, and what is held alone does not say    *)
(* that it will be released.  A stage is a sequence of instructions of the *)
(* frame between two locks, followed by what releases them.  Only the      *)
(* first instruction of a frame can be a call that has begun.  t2 works    *)
(* for a call that waits for it.                                           *)
(*                                                                         *)
(* A thread of a circle waits for a thread of the circle, and somebody in  *)
(* the circle waits for it: Deadlocked is closed both ways.  From there it *)
(* is a matter of what each thread can wait for, and hold, in its stage.   *)
(*                                                                         *)
(* As long as no view change has begun, QuietInv adds that only replica 0  *)
(* writes and sends heartbeats, so that its own t2 never works, and that   *)
(* one replica at most takes another one than 0 for the primary.           *)
(***************************************************************************)
EXTENDS Locks, SequenceTheorems, FiniteSetTheorems, WellFoundedInduction, TLAPS

-----------------------------------------------------------------------------
(***************************************************************************)
(* What a thread may yet do, and what it holds meanwhile.                  *)
(***************************************************************************)
CallOp == {"invoke", "call", "called"}

\* The calls of handler h, under mutex m, of replica r: one that is being made
\* is made to one of the replicas that are left.
Call(r, h, m) ==
  {i \in [op : CallOp, h : {h}, m : {m}, to : SUBSET Others(r),
          b : Others(r) \cup {Nil}] :
     IF i.op = "invoke" THEN i.b = Nil ELSE i.b \in i.to}

\* The call of PrepareOk goes to the replica taken for the primary, and its
\* handler does not wait.
OkCall == [op : {"invoke", "call"}, h : {"prepareOk"}, m : {"repClient"},
           to : {{Nil}}, b : {Nil}]

\* Between the locks of a write.
UpdateBody(r) ==
  {<<>>, Invoke("commit", "repClient", Others(r)),
   Invoke("prepare", "repClient", Others(r))
     \o Either({<<>>, Invoke("commit", "repClient", Others(r))})}
InUpdate(r) ==
  Call(r, "prepare", "repClient") \cup Call(r, "commit", "repClient")
    \cup [op : {"either"}, progs : SUBSET UpdateBody(r)]
    \cup [op : {"ifNormal"}, body : UpdateBody(r)]

\* Between the locks of a view change.
ChangeBody(r) ==
  {<<>>, Pass("kvMem"), updateNewView(r, r), request(r)} \cup backup(r)
    \cup {Pass("viewChange") \o o : o \in offer(r)}
InChange(r) ==
  [op : {"pass"}, m : {"kvMem", "viewChange"}]
    \cup [op : {"lock"}, m : {"viewChange"}, asserts : {FALSE}]
    \cup [op : {"unlock"}, m : {"viewChange"}]
    \cup [op : {"setPri", "setNormal"}, to : Replica]
    \cup [op : {"either"}, progs : SUBSET ChangeBody(r)]
    \cup Call(r, "startViewChange", "vcClient")
    \cup Call(r, "doViewChange", "vcClient") \cup Call(r, "startView", "vcClient")

\* Between the locks of a recovery, up to the adoption of a primary.
InRecover(r) ==
  Call(r, "recoveryRequest", "recoveryClient") \cup [op : {"pass"}, m : {"kvMem"}]
    \cup [op : {"either"}, progs : {{<<>>, Pass("kvMem")}}]
Adopt(r) == Either({SetNormal(p) : p \in Others(r)})

\* Between the locks of processCommit.
InCommit == [op : {"pass"}, m : {"kvMem"}]
              \cup [op : {"either"}, progs : {{<<>>, Pass("kvMem")}}]
processCommit == Lock("rep") \o Callbacks \o Unlock("rep")

\* The mutex of the clients that a thread with program s holds.
ClientOf(s) ==
  IF s # <<>> /\ Head(s).op \in {"call", "called"} THEN {Head(s).m} ELSE {}

\* Only the first instruction is a call that has begun; and _viewChangeMutex is
\* released after it was taken.
Tidy(f) == \A i \in 2 .. Len(f) : f[i].op \notin {"call", "called"}
Fresh(X) ==
  {p \in Seq(X) : \A i \in 1 .. Len(p) : p[i].op \notin {"call", "called"}}
Paired(f) ==
  \A i \in 1 .. Len(f) : f[i].op = "lock" =>
    \E j \in i + 1 .. Len(f) : f[j].op = "unlock"
Unlocks(f) == \E i \in 1 .. Len(f) : f[i].op = "unlock"

\* A thread with program s that holds the mutexes h, at replica r.
T1Stage(r, s, h) ==
  \/ s = <<>> /\ h = {}
  \/ s = clientUpdate(r) /\ h = {}
  \/ s = Tail(clientUpdate(r)) /\ h = {"kvMem"}
  \/ \E f \in Seq(InUpdate(r)) :
       /\ Tidy(f) /\ s = f \o (Unlock("rep") \o Unlock("kvMem"))
       /\ h = {"kvMem", "rep"} \cup ClientOf(s)
  \/ s = Unlock("kvMem") /\ h = {"kvMem"}

PpitStage(s, h) ==
  \/ s = <<>> /\ h = {}
  \/ s = processPrepInfo /\ h = {}
  \/ \E f \in Seq(OkCall) :
       Tidy(f) /\ s = f \o Unlock("rep") /\ h = {"rep"} \cup ClientOf(s)

PrrtStage(r, s, h) ==
  \/ s = <<>> /\ h = {}
  \/ \E to \in Others(r) : s = processRecoveryReqInt(to) /\ h = {}
  \/ /\ s \in Seq(Call(r, "recoveryResponse", "recoveryClient"))
     /\ Len(s) = 1 /\ h = ClientOf(s)

T2Stage(s, h) ==
  \/ s = <<>> /\ h = {}
  \/ s = Pass("viewChange") /\ h = {}
  \/ s = processCommit /\ h = {}
  \/ \E f \in Seq(InCommit) : s = f \o Unlock("rep") /\ h = {"rep"}

\* hbt of a replica that is RECOVERING.
RecoverStage(r, s, h) ==
  \/ s = <<>> /\ h = {}
  \/ s = recover(r) /\ h = {}
  \/ \E f \in Seq(InRecover(r)) :
       /\ Tidy(f) /\ s = f \o (Adopt(r) \o Unlock("rep"))
       /\ h = {"rep"} \cup ClientOf(s)
  \/ \E p \in Others(r) : s = SetNormal(p) \o Unlock("rep") /\ h = {"rep"}

\* hbt of a replica that is not; v is its view.
HbtStage(r, s, h, v) ==
  \/ s = <<>> /\ h = {}
  \/ s \in Seq(Call(r, "commit", "repClient")) /\ Len(s) = 1 /\ h = ClientOf(s)
  \/ s = changeView(r) /\ h = {}
  \/ s = Tail(changeView(r)) /\ h = {"rep"}
  \/ s = Unlock("rep") /\ h = {"rep"}
  \/ /\ v > 0
     /\ \E f \in Seq(InChange(r)) :
          /\ Tidy(f) /\ Paired(f) /\ s = f \o Unlock("rep")
          /\ {"rep"} \cup ClientOf(s) \subseteq h
          /\ h \subseteq {"rep", "viewChange"} \cup ClientOf(s)
          /\ "viewChange" \in h => Unlocks(f)

\* While a replica is RECOVERING only t1 and hbt have anything to do.
Stage(t, s, h, rec, v) ==
  \/ t[2] = "t1" /\ T1Stage(t[1], s, h)
  \/ t[2] = "hbt" /\ rec /\ RecoverStage(t[1], s, h)
  \/ t[2] = "hbt" /\ ~rec /\ HbtStage(t[1], s, h, v)
  \/ t[2] \in {"ppit", "prrt", "t2"} /\ s = <<>> /\ h = {}
  \/ t[2] = "ppit" /\ ~rec /\ PpitStage(s, h)
  \/ t[2] = "prrt" /\ ~rec /\ PrrtStage(t[1], s, h)
  \/ t[2] = "t2" /\ ~rec /\ T2Stage(s, h)

Held(t) == {m \in Mutex : holder[t[1]][m] = t[2]}
Recovers(r) == status[r] = "RECOVERING"

LockTypes ==
  /\ DOMAIN prog = Thread
  /\ holder \in [Replica -> [Mutex -> ThreadName \cup {Nil}]]
  /\ serving \in [Replica -> Thread \cup {Nil}]
  /\ status \in [Replica -> {"NORMAL", "VIEW_CHANGE", "RECOVERING"}]
  /\ priId \in [Replica -> Replica]
  /\ viewNum \in [Replica -> Nat]
  /\ alive \in [Replica -> BOOLEAN]
  /\ prepReqQ \in [Replica -> Nat]
  /\ DOMAIN recoveryReqQ = Replica
  /\ \A r \in Replica : recoveryReqQ[r] \in Seq(Others(r))

StageInv ==
  \A t \in Thread : Stage(t, prog[t], Held(t), Recovers(t[1]), viewNum[t[1]])

\* A dead process does nothing; t2 works for a call that waits for it.
ServeInv ==
  /\ \A t \in Thread : ~alive[t[1]] => prog[t] = <<>>
  /\ \A b \in Replica :
       /\ serving[b] = Nil => prog[<<b, "t2">>] = <<>>
       /\ serving[b] # Nil => alive[b]
  /\ \A b \in Replica, t \in Thread :
       serving[b] = t /\ alive[t[1]] =>
         NextIs(t, "called") /\ Head(prog[t]).b = b
  /\ \A t \in Thread : NextIs(t, "called") => serving[Head(prog[t]).b] = t

LocksInv == LockTypes /\ StageInv /\ ServeInv

-----------------------------------------------------------------------------
(***************************************************************************)
(* Sequences.                                                              *)
(***************************************************************************)

\* A program that starts with a frame starts with the first instruction of the frame.
LEMMA FrontStep ==
  ASSUME NEW S, NEW f \in Seq(S), f # <<>>, NEW T, NEW c \in Seq(T)
  PROVE  /\ f \o c # <<>>
         /\ Head(f \o c) = Head(f) /\ Head(f) \in S
         /\ Tail(f) \in Seq(S) /\ Tail(f \o c) = Tail(f) \o c
<1> DEFINE U == S \cup T
<1>1. f \in Seq(U) /\ c \in Seq(U) /\ Len(f) > 0
  OBVIOUS
<1>2. /\ f \o c \in Seq(U) /\ Len(f \o c) = Len(f) + Len(c)
      /\ \A i \in 1 .. Len(f) + Len(c) :
           (f \o c)[i] = IF i <= Len(f) THEN f[i] ELSE c[i - Len(f)]
  BY <1>1, ConcatProperties
<1>3. f \o c # <<>> /\ Head(f \o c) = Head(f) /\ Head(f) \in S
  BY <1>1, <1>2
<1>4. /\ Tail(f) \in Seq(S) /\ Tail(f) \in Seq(U) /\ Len(Tail(f)) = Len(f) - 1
      /\ \A i \in 1 .. Len(Tail(f)) : Tail(f)[i] = f[i + 1]
  BY <1>1
<1>5. /\ Tail(f \o c) \in Seq(U) /\ Len(Tail(f \o c)) = Len(f) + Len(c) - 1
      /\ \A i \in 1 .. Len(Tail(f \o c)) : Tail(f \o c)[i] = (f \o c)[i + 1]
  BY <1>2, <1>3
<1>6. /\ Tail(f) \o c \in Seq(U) /\ Len(Tail(f) \o c) = Len(f) - 1 + Len(c)
      /\ \A i \in 1 .. Len(f) - 1 + Len(c) :
           (Tail(f) \o c)[i] = IF i <= Len(f) - 1 THEN Tail(f)[i]
                               ELSE c[i - (Len(f) - 1)]
  BY <1>1, <1>4, ConcatProperties
<1>7. Tail(f \o c) = Tail(f) \o c
  <2>1. \A i \in 1 .. Len(f) - 1 + Len(c) : Tail(f \o c)[i] = (Tail(f) \o c)[i]
    BY <1>1, <1>2, <1>4, <1>5, <1>6
  <2> QED
    BY <1>5, <1>6, <2>1, SeqEqual
<1> QED
  BY <1>3, <1>4, <1>7

\* Sequences that start with one instruction.
LEMMA First ==
  ASSUME NEW S, NEW c \in Seq(S), NEW a
  PROVE  <<a>> \o c # <<>> /\ Head(<<a>> \o c) = a /\ Tail(<<a>> \o c) = c
<1> DEFINE U == S \cup {a}
<1>1. c \in Seq(U) /\ <<a>> \in Seq(U)
  OBVIOUS
<1> QED
  BY <1>1

\* The parts of a program may be put together in any order.
LEMMA Assoc ==
  ASSUME NEW U
  PROVE  \A x, y, z \in Seq(U) : (x \o y) \o z = x \o (y \o z)
<1> TAKE x, y, z \in Seq(U)
<1> QED
  BY ConcatAssociative

\* Reading a program from the front.
LEMMA Rightwards ==
  ASSUME NEW U, NEW a \in Seq(U), NEW b \in Seq(U), NEW c \in Seq(U),
         NEW d \in Seq(U)
  PROVE  /\ a \o b \o c \o d = a \o (b \o (c \o d))
         /\ c \o d \in Seq(U) /\ b \o (c \o d) \in Seq(U)
<1>1. a \o b \in Seq(U)
  BY ConcatProperties
<1>2. c \o d \in Seq(U)
  BY ConcatProperties
<1>3. b \o (c \o d) \in Seq(U)
  BY <1>2, ConcatProperties
<1>4. (a \o b) \o c \o d = (a \o b) \o (c \o d)
  BY ONLY <1>1, c \in Seq(U), d \in Seq(U), Assoc
<1>5. (a \o b) \o (c \o d) = a \o (b \o (c \o d))
  BY ONLY <1>2, a \in Seq(U), b \in Seq(U), Assoc
<1> QED
  BY <1>2, <1>3, <1>4, <1>5

\* ... and of the five parts of recover.
LEMMA RightwardsFive ==
  ASSUME NEW U, NEW a \in Seq(U), NEW b \in Seq(U), NEW c \in Seq(U),
         NEW d \in Seq(U), NEW e \in Seq(U)
  PROVE  /\ a \o b \o c \o d \o e = a \o (b \o (c \o (d \o e)))
         /\ d \o e \in Seq(U) /\ c \o (d \o e) \in Seq(U)
         /\ b \o (c \o (d \o e)) \in Seq(U)
<1>1. d \o e \in Seq(U)
  BY ConcatProperties
<1>2. a \o b \o c \in Seq(U)
  BY ConcatProperties
<1>3. (a \o b \o c) \o d \o e = (a \o b \o c) \o (d \o e)
  BY ONLY <1>2, d \in Seq(U), e \in Seq(U), Assoc, SMTT(60)
<1>4. /\ a \o b \o c \o (d \o e) = a \o (b \o (c \o (d \o e)))
      /\ c \o (d \o e) \in Seq(U) /\ b \o (c \o (d \o e)) \in Seq(U)
  <2>1. \A x \in Seq(U) : (a \o b) \o c \o x = (a \o b) \o (c \o x)
    <3>1. a \o b \in Seq(U)
      BY ConcatProperties
    <3>2. TAKE x \in Seq(U)
    <3> QED
      BY ONLY <3>1, <3>2, c \in Seq(U), Assoc, SMTT(60)
  <2>2. \A x \in Seq(U) : (a \o b) \o x = a \o (b \o x)
    <3> TAKE x \in Seq(U)
    <3> QED
      BY ConcatAssociative, SMTT(60)
  <2>3. c \o (d \o e) \in Seq(U)
    BY <1>1, ConcatProperties
  <2>4. b \o (c \o (d \o e)) \in Seq(U)
    BY <2>3, ConcatProperties
  <2>5. (a \o b) \o c \o (d \o e) = (a \o b) \o (c \o (d \o e))
    BY ONLY <1>1, <2>1
  <2>6. (a \o b) \o (c \o (d \o e)) = a \o (b \o (c \o (d \o e)))
    BY ONLY <2>3, <2>2
  <2> QED
    BY ONLY <2>3, <2>4, <2>5, <2>6
<1> QED
  BY <1>1, <1>3, <1>4

\* An empty frame in front of a program leaves the program as it is.
LEMMA EmptyFront ==
  ASSUME NEW T, NEW c \in Seq(T)
  PROVE  <<>> \o c = c
BY ConcatEmptySeq

-----------------------------------------------------------------------------
(***************************************************************************)
(* The programs.                                                           *)
(***************************************************************************)

\* No call is made to Nil, except the PrepareOk to whoever is the primary.
LEMMA ReplicaNotNil == Nil \notin Replica /\ \A r \in Replica : Nil \notin Others(r)
BY NilAssumption DEF Others

\* A broadcast is a call that has not begun.
LEMMA InvokeTyped ==
  ASSUME NEW r \in Replica, NEW h, NEW m, NEW to \in SUBSET Others(r)
  PROVE  /\ Invoke(h, m, to) \in Seq(Call(r, h, m))
         /\ Tidy(Invoke(h, m, to)) /\ Paired(Invoke(h, m, to))
         /\ Len(Invoke(h, m, to)) <= 1
<1> DEFINE i == [op |-> "invoke", h |-> h, m |-> m, to |-> to, b |-> Nil]
<1>1. i \in Call(r, h, m) /\ i.op = "invoke"
  BY DEF Call, CallOp
<1>2. CASE to = {}
  BY <1>2 DEF Invoke, Tidy, Paired
<1>3. CASE to # {}
  <2>1. Invoke(h, m, to) = <<i>>
    BY <1>3 DEF Invoke
  <2> QED
    BY <1>1, <2>1 DEF Tidy, Paired
<1> QED
  BY <1>2, <1>3

\* Putting programs together.
LEMMA ConcatTidy ==
  ASSUME NEW S, NEW f \in Seq(S), NEW g \in Seq(S), Tidy(f),
         \A i \in 1 .. Len(g) : g[i].op \notin {"call", "called"}
  PROVE  f \o g \in Seq(S) /\ Tidy(f \o g)
<1>1. /\ f \o g \in Seq(S) /\ Len(f \o g) = Len(f) + Len(g)
      /\ \A i \in 1 .. Len(f) + Len(g) :
           (f \o g)[i] = IF i <= Len(f) THEN f[i] ELSE g[i - Len(f)]
  BY ConcatProperties
<1>2. ASSUME NEW i \in 2 .. Len(f) + Len(g)
      PROVE  (f \o g)[i].op \notin {"call", "called"}
  <2>1. CASE i <= Len(f)
    BY <1>1, <2>1 DEF Tidy
  <2>2. CASE i > Len(f)
    BY <1>1, <2>2
  <2> QED
    BY <2>1, <2>2
<1> QED
  BY <1>1, <1>2 DEF Tidy

\* A program that has not started holds no call that has begun.
LEMMA FreshTidy ==
  ASSUME NEW X, NEW p \in Fresh(X)
  PROVE  p \in Seq(X) /\ Tidy(p) /\ ClientOf(p) = {}
<1>1. p \in Seq(X) /\ \A i \in 1 .. Len(p) : p[i].op \notin {"call", "called"}
  BY DEF Fresh
<1>2. p # <<>> => 1 \in 1 .. Len(p) /\ Head(p) = p[1]
  BY <1>1
<1>3. 2 .. Len(p) \subseteq 1 .. Len(p)
  BY <1>1
<1> QED
  BY <1>1, <1>2, <1>3 DEF Tidy, ClientOf

\* With a fresh frame in front a thread holds no mutex of the clients.
LEMMA FreshFront ==
  ASSUME NEW X, NEW f \in Fresh(X), NEW T, NEW c \in Seq(T), c # <<>>,
         Head(c).op \notin {"call", "called"}
  PROVE  ClientOf(f \o c) = {} /\ <<>> \o (f \o c) = f \o c
<1>1. f \in Seq(X) /\ ClientOf(f) = {}
  BY FreshTidy
<1>2. CASE f = <<>>
  <2>1. f \o c = c
    BY <1>2, EmptyFront
  <2> QED
    BY <2>1, EmptyFront DEF ClientOf
<1>3. CASE f # <<>>
  <2>1. f \o c # <<>> /\ Head(f \o c) = Head(f)
    BY <1>1, <1>3, FrontStep
  <2>2. f \o c \in Seq(X \cup T)
    <3>1. f \in Seq(X \cup T) /\ c \in Seq(X \cup T)
      BY <1>1
    <3> QED
      BY <3>1, ConcatProperties
  <2>3. <<>> \o (f \o c) = f \o c
    BY <2>2, EmptyFront
  <2> QED
    BY <1>1, <1>3, <2>1, <2>3 DEF ClientOf
<1> QED
  BY <1>2, <1>3

\* Two programs that have not started, one after the other, have not started either.
LEMMA ConcatFresh ==
  ASSUME NEW X, NEW f \in Fresh(X), NEW g \in Fresh(X)
  PROVE  f \o g \in Fresh(X)
<1>1. f \in Seq(X) /\ g \in Seq(X)
  BY DEF Fresh
<1>2. /\ f \o g \in Seq(X) /\ Len(f \o g) = Len(f) + Len(g)
      /\ \A i \in 1 .. Len(f) + Len(g) :
           (f \o g)[i] = IF i <= Len(f) THEN f[i] ELSE g[i - Len(f)]
  BY <1>1, ConcatProperties
<1>3. ASSUME NEW i \in 1 .. Len(f) + Len(g)
      PROVE  (f \o g)[i].op \notin {"call", "called"}
  <2>1. CASE i <= Len(f)
    BY <1>1, <1>2, <2>1 DEF Fresh
  <2>2. CASE i > Len(f)
    BY <1>1, <1>2, <2>2 DEF Fresh
  <2> QED
    BY <2>1, <2>2
<1> QED
  BY <1>2, <1>3 DEF Fresh

\* An instruction other than a call that has begun is a fresh program.
LEMMA OneFresh ==
  ASSUME NEW X, NEW x \in X, x.op \notin {"call", "called"}
  PROVE  <<x>> \in Fresh(X)
BY DEF Fresh

\* So is the empty one.
LEMMA NoneFresh == ASSUME NEW X PROVE <<>> \in Fresh(X)
BY DEF Fresh

\* A broadcast is fresh until its first call begins.
LEMMA InvokeFresh ==
  ASSUME NEW r \in Replica, NEW h, NEW m, NEW to \in SUBSET Others(r), NEW X,
         Call(r, h, m) \subseteq X
  PROVE  Invoke(h, m, to) \in Fresh(X)
<1> DEFINE i == [op |-> "invoke", h |-> h, m |-> m, to |-> to, b |-> Nil]
<1>1. i \in Call(r, h, m) /\ i.op = "invoke"
  BY DEF Call, CallOp
<1>2. CASE to = {}
  BY <1>2, NoneFresh DEF Invoke
<1>3. CASE to # {}
  <2>1. Invoke(h, m, to) = <<i>>
    BY <1>3 DEF Invoke
  <2> HIDE DEF i
  <2> QED
    BY <1>1, <2>1, OneFresh
<1> QED
  BY <1>2, <1>3

\* Programs that release _viewChangeMutex if they take it do so one after the other.
LEMMA ConcatPaired ==
  ASSUME NEW S, NEW f \in Seq(S), NEW g \in Seq(S), Paired(f), Paired(g)
  PROVE  Paired(f \o g) /\ (Unlocks(f) \/ Unlocks(g) => Unlocks(f \o g))
<1>1. /\ f \o g \in Seq(S) /\ Len(f \o g) = Len(f) + Len(g)
      /\ \A i \in 1 .. Len(f) + Len(g) :
           (f \o g)[i] = IF i <= Len(f) THEN f[i] ELSE g[i - Len(f)]
  BY ConcatProperties
<1>2. ASSUME NEW i \in 1 .. Len(f) + Len(g), (f \o g)[i].op = "lock"
      PROVE  \E j \in i + 1 .. Len(f) + Len(g) : (f \o g)[j].op = "unlock"
  <2>1. CASE i <= Len(f)
    <3>1. PICK j \in i + 1 .. Len(f) : f[j].op = "unlock"
      BY <1>1, <1>2, <2>1 DEF Paired
    <3> QED
      BY <1>1, <3>1
  <2>2. CASE i > Len(f)
    <3>1. PICK j \in i - Len(f) + 1 .. Len(g) : g[j].op = "unlock"
      BY <1>1, <1>2, <2>2 DEF Paired
    <3>2. j + Len(f) \in i + 1 .. Len(f) + Len(g)
      BY <3>1
    <3>3. (f \o g)[j + Len(f)] = g[j]
      BY <1>1, <1>2, <2>2, <3>1, <3>2
    <3> QED
      BY <3>1, <3>2, <3>3
  <2> QED
    BY <2>1, <2>2
<1>3. ASSUME Unlocks(f) PROVE Unlocks(f \o g)
  <2>1. PICK i \in 1 .. Len(f) : f[i].op = "unlock"
    BY <1>3 DEF Unlocks
  <2> QED
    BY <1>1, <2>1 DEF Unlocks
<1>4. ASSUME Unlocks(g) PROVE Unlocks(f \o g)
  <2>1. PICK i \in 1 .. Len(g) : g[i].op = "unlock"
    BY <1>4 DEF Unlocks
  <2>2. i + Len(f) \in 1 .. Len(f) + Len(g) /\ (f \o g)[i + Len(f)] = g[i]
    BY <1>1, <2>1
  <2> QED
    BY <1>1, <2>1, <2>2 DEF Unlocks
<1> QED
  BY <1>1, <1>2, <1>3, <1>4 DEF Paired

\* A frame: what is left of the instructions f between two fixed parts of a
\* program, of which c is the second, is replaced from the front by p.
LEMMA FrameNext ==
  ASSUME NEW X, NEW f \in Seq(X), f # <<>>, Tidy(f),
         NEW T, NEW c \in Seq(T), c # <<>>, Head(c).op \notin {"call", "called"},
         NEW p \in Seq(X), Tidy(p)
  PROVE  /\ p \o Tail(f) \in Seq(X) /\ Tidy(p \o Tail(f))
         /\ p \o Tail(f \o c) = (p \o Tail(f)) \o c
         /\ ClientOf((p \o Tail(f)) \o c) = ClientOf(p)
<1> DEFINE g == p \o Tail(f)
<1>1. Tail(f) \in Seq(X) /\ g \in Seq(X) /\ p \o Tail(f \o c) = g \o c
  <2>1. Tail(f) \in Seq(X) /\ Tail(f \o c) = Tail(f) \o c
    BY FrontStep
  <2>2. p \o Tail(f) \in Seq(X)
    BY <2>1
  <2> DEFINE U == X \cup T
  <2>3. Tail(f) \in Seq(U) /\ c \in Seq(U) /\ p \in Seq(U)
    BY <2>1
  <2>4. p \o (Tail(f) \o c) = (p \o Tail(f)) \o c
    BY <2>3, ConcatAssociative
  <2> QED
    BY <2>1, <2>2, <2>4
<1>2. \A i \in 1 .. Len(Tail(f)) : Tail(f)[i].op \notin {"call", "called"}
  <2>1. ASSUME NEW i \in 1 .. Len(Tail(f))
        PROVE  Tail(f)[i] = f[i + 1] /\ i + 1 \in 2 .. Len(f)
    OBVIOUS
  <2> QED
    BY <2>1 DEF Tidy
<1>3. Tidy(g)
  BY <1>1, <1>2, ConcatTidy
<1>4. ClientOf(g \o c) = ClientOf(p)
  <2>1. CASE p # <<>>
    <3>1. g # <<>> /\ Head(g) = Head(p)
      BY <1>1, <2>1, FrontStep
    <3>2. g \o c # <<>> /\ Head(g \o c) = Head(g)
      BY <1>1, <3>1, FrontStep
    <3> QED
      BY <2>1, <3>1, <3>2 DEF ClientOf
  <2>2. CASE p = <<>>
    <3>1. g = Tail(f)
      BY <1>1, <2>2, EmptyFront
    <3>2. CASE g # <<>>
      <4>1. g \o c # <<>> /\ Head(g \o c) = Head(g)
        BY <1>1, <3>2, FrontStep
      <4>2. Head(g) = Tail(f)[1] /\ 1 \in 1 .. Len(Tail(f))
        BY <1>1, <3>1, <3>2
      <4> QED
        BY <1>2, <2>2, <4>1, <4>2 DEF ClientOf
    <3>3. CASE g = <<>>
      <4>1. g \o c = c
        BY <3>3, EmptyFront
      <4> QED
        BY <2>2, <4>1 DEF ClientOf
    <3> QED
      BY <3>2, <3>3
  <2> QED
    BY <2>1, <2>2
<1> QED
  BY <1>1, <1>3, <1>4

-----------------------------------------------------------------------------
(***************************************************************************)
(* How a thread goes on.                                                   *)
(***************************************************************************)

\* A thread that holds h executes instruction i: p takes the place of i, and the
\* thread then holds k.
Move(i, h, p, k) ==
  \/ i.op = "lock" /\ p = <<>> /\ k = h \cup {i.m}
  \/ i.op = "unlock" /\ p = <<>> /\ k = h \ {i.m}
  \/ i.op \in {"pass", "setPri"} /\ p = <<>> /\ k = h
  \/ i.op = "either" /\ p \in i.progs /\ k = h
  \/ i.op = "ifNormal" /\ p \in {i.body, <<>>} /\ k = h
  \/ /\ i.op = "invoke" /\ k = h \cup {i.m}
     /\ \E b \in i.to : p = <<[i EXCEPT !.op = "call", !.b = b]>>
  \/ /\ i.op = "call" /\ i.h # "prepareOk" /\ k = h
     /\ p = <<[i EXCEPT !.op = "called"]>>
  \/ /\ i.op \in {"call", "called"} /\ k = h \ {i.m}
     /\ p = Invoke(i.h, i.m, i.to \ {i.b})

\* What an instruction other than a call does.
LEMMA MoveCases ==
  ASSUME NEW i, NEW h, NEW p, NEW k, Move(i, h, p, k)
  PROVE  /\ i.op = "lock" => p = <<>> /\ k = h \cup {i.m}
         /\ i.op = "unlock" => p = <<>> /\ k = h \ {i.m}
         /\ i.op \in {"pass", "setPri"} => p = <<>> /\ k = h
         /\ i.op = "either" => p \in i.progs /\ k = h
         /\ i.op = "ifNormal" => p \in {i.body, <<>>} /\ k = h
BY DEF Move

\* What the steps of a call do: it begins under the mutex of the clients, is taken by
\* the callee, and ends; what is left of it is the rest of the broadcast.
LEMMA CallMove ==
  ASSUME NEW r \in Replica, NEW h, NEW m, NEW i \in Call(r, h, m),
         NEW g, NEW p, NEW k, Move(i, g, p, k)
  PROVE  /\ p \in Seq(Call(r, h, m)) /\ Tidy(p) /\ Len(p) <= 1 /\ Paired(p)
         /\ i.m = m
         /\ i.op = "invoke" => k = g \cup {m} /\ ClientOf(p) = {m}
         /\ i.op # "invoke" => \/ k = g /\ ClientOf(p) = {m}
                               \/ k = g \ {m} /\ ClientOf(p) = {}
<1>1. /\ i \in [op : CallOp, h : {h}, m : {m}, to : SUBSET Others(r),
                b : Others(r) \cup {Nil}]
      /\ i.op \in {"invoke", "call", "called"} /\ i.m = m /\ i.h = h
      /\ i.to \in SUBSET Others(r) /\ i.op # "invoke" => i.b \in i.to
  BY DEF Call, CallOp
<1>2. CASE i.op = "invoke"
  <2>1. PICK b \in i.to : p = <<[i EXCEPT !.op = "call", !.b = b]>>
    BY <1>2 DEF Move
  <2> DEFINE j == [i EXCEPT !.op = "call", !.b = b]
  <2>2. j \in Call(r, h, m) /\ j.op = "call" /\ j.m = m
    BY <1>1 DEF Call, CallOp
  <2>3. k = g \cup {m}
    BY <1>1, <1>2 DEF Move
  <2>4. p = <<j>>
    BY <2>1
  <2> HIDE DEF j
  <2>5. Tidy(<<j>>) /\ Paired(<<j>>) /\ ClientOf(<<j>>) = {m} /\ <<j>> \in Seq(Call(r, h, m))
    BY <2>2 DEF Tidy, Paired, ClientOf
  <2> QED
    BY <1>1, <1>2, <2>3, <2>4, <2>5
<1>3. CASE k = g /\ p = <<[i EXCEPT !.op = "called"]>> /\ i.op = "call"
  <2> DEFINE j == [i EXCEPT !.op = "called"]
  <2>2. j \in Call(r, h, m) /\ j.op = "called" /\ j.m = m
    BY <1>1, <1>3 DEF Call, CallOp
  <2> HIDE DEF j
  <2> QED
    BY <1>1, <1>3, <2>2 DEF Tidy, Paired, ClientOf, j
<1>4. CASE /\ i.op \in {"call", "called"} /\ k = g \ {m}
           /\ p = Invoke(h, m, i.to \ {i.b})
  <2>1. p = <<>> \/ (p # <<>> /\ Head(p).op = "invoke")
    BY <1>4 DEF Invoke
  <2>2. ClientOf(p) = {}
    BY <2>1 DEF ClientOf
  <2> QED
    BY <1>1, <1>4, <2>2, InvokeTyped
<1> QED
  BY <1>1, <1>2, <1>3, <1>4 DEF Move

-----------------------------------------------------------------------------
(***************************************************************************)
(* t1.                                                                     *)
(***************************************************************************)

\* The continuations of a write are fresh.
LEMMA UpdateBodyFresh ==
  ASSUME NEW r \in Replica, NEW p \in UpdateBody(r)
  PROVE  p \in Fresh(InUpdate(r))
<1> DEFINE X == InUpdate(r)
           e == [op |-> "either",
                 progs |-> {<<>>, Invoke("commit", "repClient", Others(r))}]
<1>1. Invoke("commit", "repClient", Others(r)) \in Fresh(X)
  BY InvokeFresh DEF InUpdate
<1>2. Invoke("prepare", "repClient", Others(r)) \in Fresh(X)
  BY InvokeFresh DEF InUpdate
<1>3. e \in X
  BY DEF InUpdate, UpdateBody
<1>4. <<e>> \in Fresh(X)
  <2>1. e.op = "either"
    OBVIOUS
  <2> HIDE DEF e, X
  <2> QED
    BY <1>3, <2>1, OneFresh
<1>5. Invoke("prepare", "repClient", Others(r)) \o <<e>> \in Fresh(X)
  BY <1>2, <1>4, ConcatFresh
<1> QED
  BY <1>1, <1>5, NoneFresh DEF UpdateBody, Either

\* A write takes kvMemMutex and _repMutex, calls the others, and releases both.
LEMMA ClientUpdateShape ==
  ASSUME NEW r \in Replica
  PROVE  LET c == Unlock("rep") \o Unlock("kvMem")
             s == clientUpdate(r)
         IN  /\ s # <<>> /\ Head(s) = [op |-> "lock", m |-> "kvMem", asserts |-> TRUE]
             /\ Tail(s) # <<>>
             /\ Head(Tail(s)) = [op |-> "lock", m |-> "rep", asserts |-> TRUE]
             /\ \E f \in Fresh(InUpdate(r)) : Tail(Tail(s)) = f \o c
<1> DEFINE b == Invoke("prepare", "repClient", Others(r))
                  \o Either({<<>>, Invoke("commit", "repClient", Others(r))})
           i == [op |-> "ifNormal", body |-> b]
           l1 == [op |-> "lock", m |-> "kvMem", asserts |-> TRUE]
           l2 == [op |-> "lock", m |-> "rep", asserts |-> TRUE]
           u1 == [op |-> "unlock", m |-> "rep"]
           u2 == [op |-> "unlock", m |-> "kvMem"]
<1>1. i \in InUpdate(r) /\ i.op = "ifNormal"
  <2>1. b \in UpdateBody(r)
    BY DEF UpdateBody
  <2> HIDE DEF b
  <2> QED
    BY <2>1 DEF InUpdate
<1>2. clientUpdate(r) = <<l1>> \o <<l2>> \o <<i>> \o <<u1>> \o <<u2>>
  BY DEF clientUpdate, LockAsPrimary, IfNormal, Unlock
<1>3. Unlock("rep") \o Unlock("kvMem") = <<u1>> \o <<u2>>
  BY DEF Unlock
<1> HIDE DEF i, l1, l2, u1, u2, b
<1>4. <<i>> \in Fresh(InUpdate(r))
  BY <1>1, OneFresh
<1> DEFINE U == {l1, l2, i, u1, u2}
<1>5. /\ <<l1>> \in Seq(U) /\ <<l2>> \in Seq(U) /\ <<i>> \in Seq(U)
      /\ <<u1>> \in Seq(U) /\ <<u2>> \in Seq(U)
  OBVIOUS
<1> HIDE DEF U
<1> DEFINE c2 == <<i>> \o (<<u1>> \o <<u2>>)
           c1 == <<l2>> \o c2
<1>6. clientUpdate(r) = <<l1>> \o c1 /\ c1 \in Seq(U) /\ c2 \in Seq(U)
  BY <1>2, <1>5, RightwardsFive
<1> HIDE DEF c1, c2
<1>7. /\ clientUpdate(r) # <<>> /\ Head(clientUpdate(r)) = l1
      /\ Tail(clientUpdate(r)) = c1
  BY <1>6, First
<1>8. <<l2>> \o c2 # <<>> /\ Head(<<l2>> \o c2) = l2 /\ Tail(<<l2>> \o c2) = c2
  BY <1>6, First
<1>9. c1 # <<>> /\ Head(c1) = l2 /\ Tail(c1) = <<i>> \o (Unlock("rep") \o Unlock("kvMem"))
  BY <1>3, <1>8 DEF c1, c2
<1> QED
  BY <1>4, <1>7, <1>9 DEF l1, l2

\* An instruction of t1 leads from a stage of a write to the next one.
LEMMA T1Next ==
  ASSUME NEW r \in Replica, NEW s, NEW h, NEW p, NEW k,
         T1Stage(r, s, h), s # <<>>, Move(Head(s), h, p, k)
  PROVE  T1Stage(r, p \o Tail(s), k)
<1> DEFINE c == Unlock("rep") \o Unlock("kvMem")
           X == InUpdate(r)
           u1 == [op |-> "unlock", m |-> "rep"]
           u2 == [op |-> "unlock", m |-> "kvMem"]
           T == {u1, u2}
<1>1. /\ c \in Seq(T) /\ c # <<>> /\ Head(c) = u1 /\ Tail(c) = Unlock("kvMem")
  <2>1. c = <<u1>> \o <<u2>> /\ u1 \in T /\ u2 \in T
    BY DEF Unlock
  <2> HIDE DEF u1, u2, T, c
  <2>2. <<u1>> \in Seq(T) /\ <<u2>> \in Seq(T)
    BY <2>1
  <2>3. c \in Seq(T) /\ c # <<>> /\ Head(c) = u1 /\ Tail(c) = <<u2>>
    BY <2>1, <2>2, First, ConcatProperties
  <2> QED
    BY <2>3 DEF u2, Unlock
<1>2. /\ Head(c).op = "unlock" /\ Head(c).m = "rep"
      /\ Head(c).op \notin {"call", "called"}
  <2>1. u1.op = "unlock" /\ u1.m = "rep"
    OBVIOUS
  <2> HIDE DEF u1
  <2> QED
    BY <1>1, <2>1
<1> HIDE DEF c, T, X, u1, u2
<1>3. CASE s = clientUpdate(r) /\ h = {}
  <2>1. p = <<>> /\ k = {"kvMem"}
    BY <1>3, ClientUpdateShape, MoveCases
  <2> QED
    BY <1>3, <2>1, ClientUpdateShape DEF T1Stage
<1>4. CASE s = Tail(clientUpdate(r)) /\ h = {"kvMem"}
  <2>1. p = <<>> /\ k = {"kvMem", "rep"}
    BY <1>4, ClientUpdateShape, MoveCases
  <2>2. PICK f \in Fresh(X) : Tail(s) = f \o c
    BY <1>4, ClientUpdateShape DEF c, X
  <2>3. ClientOf(f \o c) = {} /\ p \o Tail(s) = f \o c
    BY <1>1, <1>2, <2>1, <2>2, FreshFront
  <2>4. f \in Seq(X) /\ Tidy(f)
    BY FreshTidy
  <2> QED
    BY <2>1, <2>3, <2>4 DEF T1Stage, c, X
<1>5. ASSUME NEW f \in Seq(X), Tidy(f), s = f \o c,
             h = {"kvMem", "rep"} \cup ClientOf(s)
      PROVE  T1Stage(r, p \o Tail(s), k)
  <2>1. CASE f = <<>>
    <3>1. s = c
      BY <1>1, <1>5, <2>1, EmptyFront
    <3>2. h = {"kvMem", "rep"}
      BY <1>1, <1>2, <1>5, <3>1 DEF ClientOf
    <3>3. p = <<>> /\ k = {"kvMem"} /\ Tail(s) = Unlock("kvMem")
      BY <1>1, <1>2, <3>1, <3>2, MoveCases
    <3> QED
      BY <3>3 DEF T1Stage, Unlock
  <2>2. CASE f # <<>>
    <3> DEFINE i == Head(s)
    <3>1. i \in X /\ i = Head(f) /\ s # <<>>
      BY <1>1, <1>5, <2>2, FrontStep
    <3>2. ASSUME p \in Seq(X), Tidy(p), k = {"kvMem", "rep"} \cup ClientOf(p)
          PROVE  T1Stage(r, p \o Tail(s), k)
      <4> DEFINE g == p \o Tail(f)
      <4>1. /\ c \in Seq(T) /\ c # <<>> /\ Head(c).op \notin {"call", "called"}
            /\ f \in Seq(X) /\ f # <<>> /\ Tidy(f) /\ p \in Seq(X) /\ Tidy(p)
        BY <1>1, <1>2, <1>5, <2>2, <3>2
      <4>2. /\ g \in Seq(X) /\ Tidy(g) /\ p \o Tail(f \o c) = g \o c
            /\ ClientOf(g \o c) = ClientOf(p)
        BY ONLY <4>1, FrameNext
      <4> QED
        BY <1>5, <3>2, <4>2 DEF T1Stage, c, X
    <3>3. ASSUME NEW hh \in {"prepare", "commit"}, i \in Call(r, hh, "repClient")
          PROVE  T1Stage(r, p \o Tail(s), k)
      <4>1. /\ p \in Seq(Call(r, hh, "repClient")) /\ Tidy(p) /\ i.m = "repClient"
            /\ i.op = "invoke" => k = h \cup {"repClient"} /\ ClientOf(p) = {"repClient"}
            /\ i.op # "invoke" => \/ k = h /\ ClientOf(p) = {"repClient"}
                                  \/ k = h \ {"repClient"} /\ ClientOf(p) = {}
        BY <3>3, CallMove
      <4>2. p \in Seq(X) /\ Tidy(p)
        BY <4>1 DEF InUpdate, X
      <4>3. i.op \in {"invoke", "call", "called"}
        BY <3>3 DEF Call, CallOp
      <4>4. k = {"kvMem", "rep"} \cup ClientOf(p)
        BY <1>5, <3>1, <4>1, <4>3 DEF ClientOf
      <4> QED
        BY <3>2, <4>2, <4>4
    <3>4. CASE i.op \in {"either", "ifNormal"} /\ p \in UpdateBody(r) /\ k = h
      <4>1. p \in Seq(X) /\ Tidy(p) /\ ClientOf(p) = {}
        BY <3>4, UpdateBodyFresh, FreshTidy DEF X
      <4>2. k = {"kvMem", "rep"}
        BY <1>5, <3>4 DEF ClientOf
      <4> QED
        BY <3>2, <4>1, <4>2
    <3>5. CASE i \in [op : {"either"}, progs : SUBSET UpdateBody(r)]
      BY <3>4, <3>5, MoveCases
    <3>6. CASE i \in [op : {"ifNormal"}, body : UpdateBody(r)]
      <4>1. <<>> \in UpdateBody(r)
        BY DEF UpdateBody
      <4> QED
        BY <3>4, <3>6, <4>1, MoveCases
    <3> QED
      BY <3>1, <3>3, <3>5, <3>6 DEF InUpdate, X
  <2> QED
    BY <2>1, <2>2
<1>6. CASE s = Unlock("kvMem") /\ h = {"kvMem"}
  <2>1. s # <<>> /\ Head(s) = [op |-> "unlock", m |-> "kvMem"] /\ Tail(s) = <<>>
    BY <1>6 DEF Unlock
  <2>2. p = <<>> /\ k = {}
    BY <1>6, <2>1, MoveCases
  <2> QED
    BY <2>1, <2>2 DEF T1Stage
<1> QED
  BY <1>3, <1>4, <1>5, <1>6 DEF T1Stage, c, X

-----------------------------------------------------------------------------
(***************************************************************************)
(* ppit, prrt and t2.                                                      *)
(***************************************************************************)

\* An instruction of ppit leads from a stage of its PrepareOk to the next one.
LEMMA PpitNext ==
  ASSUME NEW s, NEW h, NEW p, NEW k,
         PpitStage(s, h), s # <<>>, Move(Head(s), h, p, k)
  PROVE  PpitStage(p \o Tail(s), k)
<1> DEFINE c == Unlock("rep")
           U == {[op |-> "unlock", m |-> "rep"]}
           i0 == [op |-> "invoke", h |-> "prepareOk", m |-> "repClient",
                  to |-> {Nil}, b |-> Nil]
           l0 == [op |-> "lock", m |-> "rep", asserts |-> FALSE]
<1>1. /\ c \in Seq(U) /\ c # <<>> /\ Head(c) = [op |-> "unlock", m |-> "rep"]
      /\ Head(c).op \notin {"call", "called"} /\ Tail(c) = <<>>
  BY DEF Unlock
<1> HIDE DEF c, U
<1>2. CASE s = processPrepInfo /\ h = {}
  <2>1. processPrepInfo = <<l0>> \o <<i0>> \o c
    BY DEF processPrepInfo, Lock, Invoke, c
  <2>2. i0 \in OkCall /\ i0.op = "invoke"
    BY DEF OkCall
  <2> HIDE DEF i0
  <2>3. <<i0>> \in Fresh(OkCall)
    BY <2>2, OneFresh
  <2>4. processPrepInfo = <<l0>> \o (<<i0>> \o c) /\ <<i0>> \o c \in Seq(U \cup {i0, l0})
    <3> DEFINE V == U \cup {i0, l0}
    <3>1. <<l0>> \in Seq(V) /\ <<i0>> \in Seq(V) /\ c \in Seq(V)
      BY <1>1
    <3> HIDE DEF V, l0, U, c
    <3>2. <<i0>> \o c \in Seq(V)
      BY <3>1, ConcatProperties
    <3> QED
      BY <2>1, <3>1, <3>2, Assoc DEF V
  <2>5. Head(s) = l0 /\ Tail(s) = <<i0>> \o c
    BY <1>2, <2>4, First
  <2>6. p = <<>> /\ k = {"rep"}
    BY <1>2, <2>5, MoveCases
  <2>7. p \o Tail(s) = <<i0>> \o c
    BY <2>4, <2>5, <2>6, EmptyFront
  <2>8. ClientOf(<<i0>> \o c) = {}
    BY <1>1, <2>2, First DEF ClientOf
  <2> QED
    BY <2>3, <2>6, <2>7, <2>8, FreshTidy DEF PpitStage, c
<1>3. ASSUME NEW f \in Seq(OkCall), Tidy(f), s = f \o c, h = {"rep"} \cup ClientOf(s)
      PROVE  PpitStage(p \o Tail(s), k)
  <2>1. CASE f = <<>>
    <3>1. s = c
      BY <1>1, <1>3, <2>1, EmptyFront
    <3>2. h = {"rep"}
      BY <1>1, <1>3, <3>1 DEF ClientOf
    <3>3. p = <<>> /\ k = {} /\ Tail(s) = <<>>
      BY <1>1, <3>1, <3>2, MoveCases
    <3> QED
      BY <3>3 DEF PpitStage
  <2>2. CASE f # <<>>
    <3> DEFINE i == Head(s)
    <3>1. i \in OkCall /\ s # <<>>
      BY <1>1, <1>3, <2>2, FrontStep
    <3>2. ASSUME p \in Seq(OkCall), Tidy(p), k = {"rep"} \cup ClientOf(p)
          PROVE  PpitStage(p \o Tail(s), k)
      <4> DEFINE g == p \o Tail(f)
      <4>1. /\ g \in Seq(OkCall) /\ Tidy(g) /\ p \o Tail(f \o c) = g \o c
            /\ ClientOf(g \o c) = ClientOf(p)
        BY <1>1, <1>3, <2>2, <3>2, FrameNext
      <4> QED
        BY <1>3, <3>2, <4>1 DEF PpitStage, c
    <3>3. /\ i.op \in {"invoke", "call"} /\ i.h = "prepareOk" /\ i.m = "repClient"
          /\ i.to = {Nil} /\ i.b = Nil
      BY <3>1 DEF OkCall
    <3>4. CASE i.op = "invoke"
      <4> DEFINE j == [i EXCEPT !.op = "call", !.b = Nil]
      <4>1. p = <<j>> /\ k = h \cup {"repClient"} /\ ClientOf(s) = {}
        BY <3>1, <3>3, <3>4 DEF Move, ClientOf
      <4>2. j \in OkCall /\ j.op = "call" /\ j.m = "repClient"
        BY <3>1, <3>4 DEF OkCall
      <4> HIDE DEF j
      <4>3. p \in Seq(OkCall) /\ Tidy(p) /\ ClientOf(p) = {"repClient"}
        BY <4>1, <4>2 DEF Tidy, ClientOf
      <4> QED
        BY <1>3, <3>2, <4>1, <4>3
    <3>5. CASE i.op = "call"
      <4>1. p = <<>> /\ k = h \ {"repClient"} /\ ClientOf(s) = {"repClient"}
        BY <3>1, <3>3, <3>5 DEF Move, ClientOf, Invoke
      <4>2. p \in Seq(OkCall) /\ Tidy(p) /\ ClientOf(p) = {}
        BY <4>1 DEF Tidy, ClientOf
      <4> QED
        BY <1>3, <3>2, <4>1, <4>2
    <3> QED
      BY <3>3, <3>4, <3>5
  <2> QED
    BY <2>1, <2>2
<1> QED
  BY <1>2, <1>3 DEF PpitStage, c

\* A sequence of one element.
LEMMA One ==
  ASSUME NEW X, NEW s \in Seq(X), Len(s) = 1
  PROVE  Head(s) \in X /\ Tail(s) = <<>> /\ s # <<>>
<1>1. s # <<>>
  OBVIOUS
<1>2. Head(s) \in X
  BY <1>1
<1>3. Tail(s) \in Seq(X) /\ Len(Tail(s)) = 0
  BY <1>1
<1>4. Tail(s) = <<>>
  BY <1>3, EmptySeq
<1> QED
  BY <1>1, <1>2, <1>4

\* A thread that makes one broadcast.
LEMMA OneCallNext ==
  ASSUME NEW r \in Replica, NEW hh, NEW m, NEW s \in Seq(Call(r, hh, m)), Len(s) = 1,
         NEW h, h = ClientOf(s), NEW p, NEW k, Move(Head(s), h, p, k)
  PROVE  /\ p \o Tail(s) = p /\ p \in Seq(Call(r, hh, m)) /\ k = ClientOf(p)
         /\ p = <<>> \/ Len(p) = 1
<1> DEFINE i == Head(s)
<1>1. i \in Call(r, hh, m) /\ Tail(s) = <<>> /\ s # <<>>
  BY One
<1>2. i.op \in {"invoke", "call", "called"}
  BY <1>1 DEF Call, CallOp
<1> HIDE DEF i
<1>3. /\ p \in Seq(Call(r, hh, m)) /\ Len(p) <= 1 /\ i.m = m
      /\ i.op = "invoke" => k = h \cup {m} /\ ClientOf(p) = {m}
      /\ i.op # "invoke" => \/ k = h /\ ClientOf(p) = {m}
                            \/ k = h \ {m} /\ ClientOf(p) = {}
  BY <1>1, CallMove DEF i
<1>4. h = IF i.op = "invoke" THEN {} ELSE {m}
  BY <1>1, <1>2, <1>3 DEF ClientOf, i
<1>5. k = ClientOf(p)
  BY <1>3, <1>4
<1>6. p \o Tail(s) = p
  BY <1>1, <1>3, ConcatEmptySeq
<1>7. p = <<>> \/ Len(p) = 1
  BY <1>3
<1> QED
  BY <1>3, <1>5, <1>6, <1>7

\* An instruction of prrt leads from a stage of a RecoveryResponse to the next one.
LEMMA PrrtNext ==
  ASSUME NEW r \in Replica, NEW s, NEW h, NEW p, NEW k,
         PrrtStage(r, s, h), s # <<>>, Move(Head(s), h, p, k)
  PROVE  PrrtStage(r, p \o Tail(s), k)
<1> DEFINE C == Call(r, "recoveryResponse", "recoveryClient")
<1>1. ASSUME NEW to \in Others(r), s = processRecoveryReqInt(to), h = {}
      PROVE  PrrtStage(r, p \o Tail(s), k)
  <2> DEFINE q == Invoke("recoveryResponse", "recoveryClient", {to})
  <2>1. q \in Fresh(C) /\ Len(q) = 1
    BY InvokeFresh DEF Invoke
  <2>2. q \in Seq(C) /\ ClientOf(q) = {}
    BY <2>1, FreshTidy
  <2> HIDE DEF q, C
  <2>3. s = <<[op |-> "pass", m |-> "rep"]>> \o q
    BY <1>1 DEF processRecoveryReqInt, Pass, q
  <2>4. Head(s) = [op |-> "pass", m |-> "rep"] /\ Tail(s) = q
    BY <2>2, <2>3, First
  <2>5. p = <<>> /\ k = {}
    BY <1>1, <2>4, MoveCases
  <2>6. p \o Tail(s) = q
    BY <2>2, <2>4, <2>5, EmptyFront
  <2> QED
    BY <2>1, <2>2, <2>5, <2>6 DEF PrrtStage, C
<1>2. CASE s \in Seq(C) /\ Len(s) = 1 /\ h = ClientOf(s)
  <2>1. /\ p \o Tail(s) = p /\ p \in Seq(C) /\ k = ClientOf(p)
        /\ p = <<>> \/ Len(p) = 1
    BY <1>2, OneCallNext
  <2>2. p = <<>> => ClientOf(p) = {}
    BY DEF ClientOf
  <2> QED
    BY <2>1, <2>2 DEF PrrtStage
<1> QED
  BY <1>1, <1>2 DEF PrrtStage

\* Up-calls into the key-value store pass kvMemMutex, or are none.
LEMMA CallbacksFresh ==
  ASSUME NEW X, [op : {"pass"}, m : {"kvMem"}] \subseteq X,
         NEW q \in {<<>>, Pass("kvMem")}
  PROVE  q \in Fresh(X)
<1> DEFINE i == [op |-> "pass", m |-> "kvMem"]
<1>1. i \in X /\ i.op = "pass" /\ Pass("kvMem") = <<i>>
  BY DEF Pass
<1> HIDE DEF i
<1> QED
  BY <1>1, OneFresh, NoneFresh

\* An instruction of t2 leads from a stage of its handler to the next one.
LEMMA T2Next ==
  ASSUME NEW s, NEW h, NEW p, NEW k,
         T2Stage(s, h), s # <<>>, Move(Head(s), h, p, k)
  PROVE  T2Stage(p \o Tail(s), k)
<1> DEFINE c == Unlock("rep")
           U == {[op |-> "unlock", m |-> "rep"]}
           X == InCommit
           e == [op |-> "either", progs |-> {<<>>, Pass("kvMem")}]
           l0 == [op |-> "lock", m |-> "rep", asserts |-> FALSE]
<1>1. /\ c \in Seq(U) /\ c # <<>> /\ Head(c) = [op |-> "unlock", m |-> "rep"]
      /\ Head(c).op \notin {"call", "called"} /\ Tail(c) = <<>>
  BY DEF Unlock
<1>2. \A i \in X : i.op \in {"pass", "either"}
  BY DEF InCommit
<1>3. \A q \in {<<>>, Pass("kvMem")} : q \in Seq(X) /\ Tidy(q)
  BY CallbacksFresh, FreshTidy DEF InCommit
<1>4. \A f \in Seq(X) : Tidy(f)
  <2>1. ASSUME NEW f \in Seq(X), NEW i \in 2 .. Len(f)
        PROVE  f[i].op \notin {"call", "called"}
    <3>1. f[i] \in X
      OBVIOUS
    <3> QED
      BY <1>2, <3>1
  <2> QED
    BY <2>1 DEF Tidy
<1>5. e \in X
  BY DEF InCommit
<1>6. processCommit = <<l0>> \o <<e>> \o c
  BY DEF processCommit, Callbacks, Either, Lock
<1> HIDE DEF c, U, X, e
<1>7. CASE s = Pass("viewChange") /\ h = {}
  <2>1. /\ s # <<>> /\ Head(s) = [op |-> "pass", m |-> "viewChange"]
        /\ Tail(s) = <<>>
    BY <1>7 DEF Pass
  <2>2. p = <<>> /\ k = {}
    BY <1>7, <2>1, MoveCases
  <2> QED
    BY <2>1, <2>2 DEF T2Stage
<1>8. CASE s = processCommit /\ h = {}
  <2> DEFINE V == U \cup {e, l0}
  <2>1. <<l0>> \in Seq(V) /\ <<e>> \in Seq(V) /\ c \in Seq(V)
    BY <1>1
  <2> HIDE DEF V, l0
  <2>2. <<e>> \o c \in Seq(V)
    BY <2>1, ConcatProperties
  <2>3. s = <<l0>> \o (<<e>> \o c)
    BY <1>6, <1>8, <2>1, Assoc
  <2>4. Head(s) = l0 /\ Tail(s) = <<e>> \o c
    BY <2>2, <2>3, First
  <2>5. l0.op = "lock" /\ l0.m = "rep"
    BY DEF l0
  <2>6. p = <<>> /\ k = {"rep"}
    BY <1>8, <2>4, <2>5, MoveCases
  <2>7. p \o Tail(s) = <<e>> \o c
    BY <2>2, <2>4, <2>6, EmptyFront
  <2>8. <<e>> \in Seq(X)
    BY <1>5
  <2> QED
    BY <2>6, <2>7, <2>8 DEF T2Stage, c, X
<1>9. ASSUME NEW f \in Seq(X), s = f \o c, h = {"rep"}
      PROVE  T2Stage(p \o Tail(s), k)
  <2>1. CASE f = <<>>
    <3>1. s = c
      BY <1>1, <1>9, <2>1, EmptyFront
    <3>2. p = <<>> /\ k = {} /\ Tail(s) = <<>>
      BY <1>1, <1>9, <3>1, MoveCases
    <3> QED
      BY <3>2 DEF T2Stage
  <2>2. CASE f # <<>>
    <3> DEFINE i == Head(s)
    <3>1. i \in X
      BY <1>1, <1>9, <2>2, FrontStep
    <3>2. p \in {<<>>, Pass("kvMem")} /\ k = h
      <4>1. CASE i.op = "pass"
        BY <4>1, MoveCases
      <4>2. CASE i.op = "either"
        <5>1. i.progs = {<<>>, Pass("kvMem")}
          BY <3>1, <4>2 DEF InCommit, X
        <5> QED
          BY <4>2, <5>1, MoveCases
      <4> QED
        BY <1>2, <3>1, <4>1, <4>2
    <3>3. /\ c \in Seq(U) /\ c # <<>> /\ Head(c).op \notin {"call", "called"}
          /\ f \in Seq(X) /\ f # <<>> /\ Tidy(f) /\ p \in Seq(X) /\ Tidy(p)
      BY <1>1, <1>3, <1>4, <1>9, <2>2, <3>2
    <3>4. p \o Tail(f) \in Seq(X) /\ p \o Tail(f \o c) = (p \o Tail(f)) \o c
      BY ONLY <3>3, FrameNext
    <3> QED
      BY <1>9, <3>2, <3>4 DEF T2Stage, c, X
  <2> QED
    BY <2>1, <2>2
<1> QED
  BY <1>7, <1>8, <1>9 DEF T2Stage, c, X

-----------------------------------------------------------------------------
(***************************************************************************)
(* hbt.                                                                    *)
(***************************************************************************)

\* recover takes _repMutex, asks the others, may call back, adopts a primary and
\* releases the mutex.
LEMMA RecoverShape ==
  ASSUME NEW r \in Replica
  PROVE  LET s == recover(r)
         IN  /\ s # <<>> /\ Head(s) = [op |-> "lock", m |-> "rep", asserts |-> FALSE]
             /\ \E f \in Fresh(InRecover(r)) :
                  Tail(s) = f \o (Adopt(r) \o Unlock("rep"))
<1> DEFINE l0 == [op |-> "lock", m |-> "rep", asserts |-> FALSE]
           q == Invoke("recoveryRequest", "recoveryClient", Others(r))
           e == [op |-> "either", progs |-> {<<>>, Pass("kvMem")}]
           a == [op |-> "either", progs |-> {SetNormal(p) : p \in Others(r)}]
           u == [op |-> "unlock", m |-> "rep"]
           X == InRecover(r)
           U == X \cup {l0, a, u}
<1>1. q \in Fresh(X)
  BY InvokeFresh DEF InRecover
<1>2. e \in X /\ e.op = "either"
  BY DEF InRecover
<1>3. recover(r) = <<l0>> \o q \o <<e>> \o <<a>> \o <<u>>
  BY DEF recover, Lock, Callbacks, Either, Unlock
<1>4. Adopt(r) \o Unlock("rep") = <<a>> \o <<u>>
  BY DEF Adopt, Either, Unlock
<1> HIDE DEF l0, q, e, a, u, X
<1>5. <<e>> \in Fresh(X) /\ q \in Seq(X) /\ <<e>> \in Seq(X)
  BY <1>1, <1>2, OneFresh DEF Fresh
<1>6. q \o <<e>> \in Fresh(X)
  BY <1>1, <1>5, ConcatFresh
<1>7. /\ <<l0>> \in Seq(U) /\ q \in Seq(U) /\ <<e>> \in Seq(U)
      /\ <<a>> \in Seq(U) /\ <<u>> \in Seq(U)
  BY <1>2, <1>5
<1> HIDE DEF U
<1> DEFINE au == <<a>> \o <<u>>
           c == q \o (<<e>> \o au)
<1>8. /\ <<l0>> \o q \o <<e>> \o <<a>> \o <<u>> = <<l0>> \o c
      /\ au \in Seq(U) /\ c \in Seq(U)
  BY <1>7, RightwardsFive
<1>9. c = (q \o <<e>>) \o au
  <2>1. au \in Seq(U)
    BY <1>8
  <2> HIDE DEF au
  <2> QED
    BY <1>7, <2>1, Assoc
<1> HIDE DEF c, au
<1>10. /\ <<l0>> \o c # <<>> /\ Head(<<l0>> \o c) = l0 /\ Tail(<<l0>> \o c) = c
  BY <1>8, First
<1>11. Tail(recover(r)) = (q \o <<e>>) \o (Adopt(r) \o Unlock("rep"))
  BY <1>3, <1>4, <1>8, <1>9, <1>10 DEF au
<1> QED
  BY <1>3, <1>6, <1>8, <1>10, <1>11 DEF l0, X

\* An instruction of hbt leads from a stage of a recovery to the next one.
LEMMA RecoverNext ==
  ASSUME NEW r \in Replica, NEW s, NEW h, NEW p, NEW k,
         RecoverStage(r, s, h), s # <<>>, Move(Head(s), h, p, k)
  PROVE  RecoverStage(r, p \o Tail(s), k)
<1> DEFINE a == [op |-> "either", progs |-> {SetNormal(q) : q \in Others(r)}]
           u == [op |-> "unlock", m |-> "rep"]
           c == Adopt(r) \o Unlock("rep")
           U == {a, u}
           X == InRecover(r)
<1>1. /\ c \in Seq(U) /\ c # <<>> /\ Head(c) = a /\ Tail(c) = Unlock("rep")
      /\ Head(c).op \notin {"call", "called"}
  <2>1. c = <<a>> \o <<u>> /\ Unlock("rep") = <<u>> /\ a.op = "either"
    BY DEF Adopt, Either, Unlock
  <2> HIDE DEF a, u, c
  <2>2. <<a>> \in Seq(U) /\ <<u>> \in Seq(U)
    OBVIOUS
  <2> HIDE DEF U
  <2> QED
    BY <2>1, <2>2, First, ConcatProperties
<1>2. a.op = "either" /\ a.progs = {SetNormal(q) : q \in Others(r)}
  OBVIOUS
<1> HIDE DEF a, u, U, X, c
<1>3. CASE s = recover(r) /\ h = {}
  <2>1. p = <<>> /\ k = {"rep"}
    BY <1>3, RecoverShape, MoveCases
  <2>2. PICK f \in Fresh(X) : Tail(s) = f \o c
    BY <1>3, RecoverShape DEF c, X
  <2>3. ClientOf(f \o c) = {} /\ p \o Tail(s) = f \o c
    BY <1>1, <2>1, <2>2, FreshFront
  <2>4. f \in Seq(X) /\ Tidy(f)
    BY FreshTidy
  <2> QED
    BY <2>1, <2>3, <2>4 DEF RecoverStage, c, X
<1>4. ASSUME NEW f \in Seq(X), Tidy(f), s = f \o c, h = {"rep"} \cup ClientOf(s)
      PROVE  RecoverStage(r, p \o Tail(s), k)
  <2>1. CASE f = <<>>
    <3>1. s = c
      BY <1>1, <1>4, <2>1, EmptyFront
    <3>2. h = {"rep"} /\ Head(s) = a /\ Tail(s) = Unlock("rep")
      BY <1>1, <1>4, <3>1 DEF ClientOf
    <3>3. p \in {SetNormal(q) : q \in Others(r)} /\ k = {"rep"}
      BY <1>2, <3>2, MoveCases
    <3> QED
      BY <3>2, <3>3 DEF RecoverStage
  <2>2. CASE f # <<>>
    <3> DEFINE i == Head(s)
    <3>1. i \in X /\ i = Head(f) /\ s # <<>>
      BY <1>1, <1>4, <2>2, FrontStep
    <3>2. ASSUME p \in Seq(X), Tidy(p), k = {"rep"} \cup ClientOf(p)
          PROVE  RecoverStage(r, p \o Tail(s), k)
      <4> DEFINE g == p \o Tail(f)
      <4>1. /\ c \in Seq(U) /\ c # <<>> /\ Head(c).op \notin {"call", "called"}
            /\ f \in Seq(X) /\ f # <<>> /\ Tidy(f) /\ p \in Seq(X) /\ Tidy(p)
        BY <1>1, <1>4, <2>2, <3>2
      <4>2. /\ g \in Seq(X) /\ Tidy(g) /\ p \o Tail(f \o c) = g \o c
            /\ ClientOf(g \o c) = ClientOf(p)
        BY ONLY <4>1, FrameNext
      <4> QED
        BY <1>4, <3>2, <4>2 DEF RecoverStage, c, X
    <3>3. CASE i \in Call(r, "recoveryRequest", "recoveryClient")
      <4>1. /\ p \in Seq(Call(r, "recoveryRequest", "recoveryClient")) /\ Tidy(p)
            /\ i.m = "recoveryClient"
            /\ i.op = "invoke" => k = h \cup {"recoveryClient"} /\ ClientOf(p) = {"recoveryClient"}
            /\ i.op # "invoke" => \/ k = h /\ ClientOf(p) = {"recoveryClient"}
                                  \/ k = h \ {"recoveryClient"} /\ ClientOf(p) = {}
        BY <3>3, CallMove
      <4>2. p \in Seq(X) /\ Tidy(p)
        BY <4>1 DEF InRecover, X
      <4>3. i.op \in {"invoke", "call", "called"}
        BY <3>3 DEF Call, CallOp
      <4>4. k = {"rep"} \cup ClientOf(p)
        BY <1>4, <3>1, <4>1, <4>3 DEF ClientOf
      <4> QED
        BY <3>2, <4>2, <4>4
    <3>4. ASSUME i.op \in {"pass", "either"}, p \in {<<>>, Pass("kvMem")}, k = h
          PROVE  RecoverStage(r, p \o Tail(s), k)
      <4>1. p \in Fresh(X)
        BY <3>4, CallbacksFresh DEF InRecover, X
      <4>2. k = {"rep"}
        BY <1>4, <3>4 DEF ClientOf
      <4> QED
        BY <3>2, <4>1, <4>2, FreshTidy
    <3>5. CASE i \in [op : {"pass"}, m : {"kvMem"}]
      BY <3>4, <3>5, MoveCases
    <3>6. CASE i \in [op : {"either"}, progs : {{<<>>, Pass("kvMem")}}]
      BY <3>4, <3>6, MoveCases
    <3> QED
      BY <3>1, <3>3, <3>5, <3>6 DEF InRecover, X
  <2> QED
    BY <2>1, <2>2
<1>5. ASSUME NEW q \in Others(r), s = SetNormal(q) \o Unlock("rep")
      PROVE  FALSE
  <2> DEFINE n == [op |-> "setNormal", to |-> q]
  <2>1. SetNormal(q) = <<n>> /\ Unlock("rep") = <<u>> /\ n.op = "setNormal"
    BY DEF SetNormal, Unlock, u
  <2> HIDE DEF n
  <2>2. Head(s) = n
    BY <1>5, <2>1, First
  <2> QED
    BY <2>1, <2>2 DEF Move
<1> QED
  BY <1>3, <1>4, <1>5 DEF RecoverStage, c, X

\* A recovered replica has nothing left to do but to release _repMutex.
LEMMA RecoverDone ==
  ASSUME NEW r \in Replica, NEW s, NEW h, RecoverStage(r, s, h), s # <<>>,
         Head(s).op = "setNormal", NEW v
  PROVE  HbtStage(r, <<>> \o Tail(s), h, v) /\ Head(s).to \in Others(r)
<1> DEFINE u == [op |-> "unlock", m |-> "rep"]
           c == Adopt(r) \o Unlock("rep")
           X == InRecover(r)
           a == [op |-> "either", progs |-> {SetNormal(q) : q \in Others(r)}]
<1>1. c \in Seq({a, u}) /\ c # <<>> /\ Head(c).op = "either"
  <2>1. c = <<a>> \o <<u>> /\ a.op = "either"
    BY DEF Adopt, Either, Unlock
  <2> HIDE DEF a, u, c
  <2>2. <<a>> \in Seq({a, u}) /\ <<u>> \in Seq({a, u})
    OBVIOUS
  <2> QED
    BY <2>1, <2>2, First, ConcatProperties
<1>2. \A i \in X : i.op # "setNormal"
  BY DEF InRecover, Call, CallOp
<1>3. s # recover(r)
  BY RecoverShape
<1>4. ASSUME NEW f \in Seq(X), s = f \o c
      PROVE  FALSE
  <2> HIDE DEF c, X, a, u
  <2>1. f = <<>> => s = c
    BY <1>1, <1>4, EmptyFront
  <2>2. f # <<>> => Head(s) \in X
    BY <1>1, <1>4, FrontStep
  <2> QED
    BY <1>1, <1>2, <2>1, <2>2
<1>5. PICK q \in Others(r) : s = SetNormal(q) \o Unlock("rep") /\ h = {"rep"}
  BY <1>3, <1>4 DEF RecoverStage
<1>6. Head(s) = [op |-> "setNormal", to |-> q] /\ Tail(s) = Unlock("rep")
  <2> DEFINE n == [op |-> "setNormal", to |-> q]
  <2>1. SetNormal(q) = <<n>> /\ Unlock("rep") = <<u>> /\ <<u>> \in Seq({u})
    BY DEF SetNormal, Unlock
  <2> HIDE DEF n, u
  <2>2. Head(s) = n /\ Tail(s) = <<u>>
    BY <1>5, <2>1, First
  <2> QED
    BY <2>1, <2>2 DEF n
<1>7. <<>> \o Unlock("rep") = Unlock("rep")
  BY DEF Unlock
<1> QED
  BY <1>5, <1>6, <1>7 DEF HbtStage

\* The bodies of a view change hold no call that has begun, and release
\* _viewChangeMutex if they take it.
LEMMA ConcatSound ==
  ASSUME NEW X, NEW f \in Fresh(X), NEW g \in Fresh(X), Paired(f), Paired(g)
  PROVE  f \o g \in Fresh(X) /\ Paired(f \o g)
<1>1. f \in Seq(X) /\ g \in Seq(X)
  BY FreshTidy
<1> QED
  BY <1>1, ConcatFresh, ConcatPaired

\* So does a single instruction that does not take it.
LEMMA OneSound ==
  ASSUME NEW X, NEW x \in X, x.op \notin {"call", "called", "lock"}
  PROVE  <<x>> \in Fresh(X) /\ Paired(<<x>>)
BY OneFresh DEF Paired

\* ... and a broadcast of the view change.
LEMMA InvokeSound ==
  ASSUME NEW r \in Replica, NEW to \in SUBSET Others(r),
         NEW hh \in {"startViewChange", "doViewChange", "startView"}
  PROVE  /\ Invoke(hh, "vcClient", to) \in Fresh(InChange(r))
         /\ Paired(Invoke(hh, "vcClient", to))
<1>1. Call(r, hh, "vcClient") \subseteq InChange(r)
  BY DEF InChange
<1> QED
  BY <1>1, InvokeFresh, InvokeTyped

\* ... and a choice between such bodies.
LEMMA EitherSound ==
  ASSUME NEW r \in Replica, NEW progs \in SUBSET ChangeBody(r)
  PROVE  Either(progs) \in Fresh(InChange(r)) /\ Paired(Either(progs))
<1> DEFINE e == [op |-> "either", progs |-> progs]
<1>1. e \in InChange(r) /\ e.op = "either" /\ Either(progs) = <<e>>
  BY DEF InChange, Either
<1> HIDE DEF e
<1> QED
  BY <1>1, OneSound

\* The single steps of a view change are fresh, and those that neither take nor
\* release _viewChangeMutex are paired.
LEMMA StepsSound ==
  ASSUME NEW r \in Replica, NEW p \in Replica, NEW m \in {"kvMem", "viewChange"}
  PROVE  /\ Pass(m) \in Fresh(InChange(r)) /\ Paired(Pass(m))
         /\ SetPri(p) \in Fresh(InChange(r)) /\ Paired(SetPri(p))
         /\ SetNormal(p) \in Fresh(InChange(r))
         /\ Lock("viewChange") \in Fresh(InChange(r))
         /\ Unlock("viewChange") \in Fresh(InChange(r))
         /\ Callbacks \in Fresh(InChange(r))
         /\ <<>> \in Fresh(InChange(r)) /\ Paired(<<>>)
<1> DEFINE X == InChange(r)
           i1 == [op |-> "pass", m |-> m]
           i2 == [op |-> "setPri", to |-> p]
           i3 == [op |-> "setNormal", to |-> p]
           i4 == [op |-> "lock", m |-> "viewChange", asserts |-> FALSE]
           i5 == [op |-> "unlock", m |-> "viewChange"]
<1>1. i1 \in X /\ i1.op = "pass"
  BY DEF InChange
<1>2. i2 \in X /\ i2.op = "setPri"
  BY DEF InChange
<1>3. i3 \in X /\ i3.op = "setNormal"
  BY DEF InChange
<1>4. i4 \in X /\ i4.op = "lock"
  BY DEF InChange
<1>5. i5 \in X /\ i5.op = "unlock"
  BY DEF InChange
<1>6. /\ Pass(m) = <<i1>> /\ SetPri(p) = <<i2>> /\ SetNormal(p) = <<i3>>
      /\ Lock("viewChange") = <<i4>> /\ Unlock("viewChange") = <<i5>>
  BY DEF Pass, SetPri, SetNormal, Lock, Unlock
<1>7. Callbacks \in Fresh(X)
  BY EitherSound DEF Callbacks, ChangeBody
<1>8. <<>> \in Fresh(X) /\ Paired(<<>>)
  BY NoneFresh DEF Paired
<1> HIDE DEF i1, i2, i3, i4, i5, X
<1>9. <<i1>> \in Fresh(X) /\ Paired(<<i1>>)
  BY <1>1, OneSound
<1>10. <<i2>> \in Fresh(X) /\ Paired(<<i2>>)
  BY <1>2, OneSound
<1>11. <<i3>> \in Fresh(X)
  BY <1>3, OneFresh
<1>12. <<i4>> \in Fresh(X)
  BY <1>4, OneFresh
<1>13. <<i5>> \in Fresh(X)
  BY <1>5, OneFresh
<1> QED
  BY <1>6, <1>7, <1>8, <1>9, <1>10, <1>11, <1>12, <1>13 DEF X

\* updateNewView releases _viewChangeMutex when it is done.
LEMMA UpdateNewViewSound ==
  ASSUME NEW r \in Replica, NEW p \in Replica
  PROVE  updateNewView(r, p) \in Fresh(InChange(r)) /\ Paired(updateNewView(r, p))
<1> DEFINE X == InChange(r)
           l == Lock("viewChange")
           u == Unlock("viewChange")
           q == IF p = r THEN Invoke("startView", "vcClient", Others(r)) ELSE <<>>
           f == l \o Callbacks \o SetNormal(p) \o q
<1>1. /\ l \in Fresh(X) /\ u \in Fresh(X) /\ Callbacks \in Fresh(X)
      /\ SetNormal(p) \in Fresh(X) /\ <<>> \in Fresh(X)
  BY StepsSound
<1>2. q \in Fresh(X)
  BY <1>1, InvokeSound
<1>3. updateNewView(r, p) = f \o u
  BY DEF updateNewView
<1> HIDE DEF X, l, u, q
<1>4. f \in Fresh(X)
  <2>1. l \o Callbacks \in Fresh(X)
    BY <1>1, ConcatFresh
  <2>2. l \o Callbacks \o SetNormal(p) \in Fresh(X)
    BY <1>1, <2>1, ConcatFresh
  <2> QED
    BY <1>2, <2>2, ConcatFresh
<1> HIDE DEF f
<1>5. f \o u \in Fresh(X)
  BY <1>1, <1>4, ConcatFresh
<1>6. f \in Seq(X) /\ u \in Seq(X)
  BY <1>1, <1>4, FreshTidy
<1>7. /\ Len(f \o u) = Len(f) + Len(u)
      /\ \A i \in 1 .. Len(f) + Len(u) :
           (f \o u)[i] = IF i <= Len(f) THEN f[i] ELSE u[i - Len(f)]
  BY <1>6, ConcatProperties
<1>8. Len(u) = 1 /\ u[1].op = "unlock"
  BY DEF u, Unlock
<1>9. Len(f) \in Nat
  BY <1>6
<1>10. (f \o u)[Len(f) + 1].op = "unlock"
  BY <1>7, <1>8, <1>9
<1>11. Paired(f \o u)
  <2>1. ASSUME NEW i \in 1 .. Len(f) + 1, (f \o u)[i].op = "lock"
        PROVE  Len(f) + 1 \in i + 1 .. Len(f) + 1
    <3>1. i # Len(f) + 1
      BY <1>10, <2>1
    <3> QED
      BY <1>9, <3>1
  <2> QED
    BY <1>7, <1>8, <1>10, <2>1 DEF Paired
<1> QED
  BY <1>3, <1>5, <1>11 DEF X

\* Every body of a view change is fresh, and paired.
LEMMA ChangeBodySound ==
  ASSUME NEW r \in Replica, NEW p \in ChangeBody(r)
  PROVE  p \in Fresh(InChange(r)) /\ Paired(p)
<1> DEFINE X == InChange(r)
           Sound(q) == q \in Fresh(X) /\ Paired(q)
           B == ChangeBody(r)
<1>1. /\ Sound(Pass("kvMem")) /\ Sound(Pass("viewChange")) /\ Sound(<<>>)
      /\ \A q \in Replica : Sound(SetPri(q))
  BY StepsSound
<1>2. \A q \in Replica : Sound(updateNewView(r, q))
  BY UpdateNewViewSound
<1>3. \A progs \in SUBSET B : Sound(Either(progs))
  BY EitherSound
<1>4. /\ Sound(Invoke("startViewChange", "vcClient", Others(r)))
      /\ \A c \in Others(r) : Sound(Invoke("doViewChange", "vcClient", {c}))
  BY InvokeSound
<1>5. \A f, g : Sound(f) /\ Sound(g) => Sound(f \o g)
  BY ConcatSound
<1>6. Others(r) \subseteq Replica
  BY DEF Others
<1>7. /\ backup(r) \cup {<<>>} \subseteq B /\ {updateNewView(r, r), <<>>} \subseteq B
      /\ {<<>>} \cup {Pass("viewChange") \o o : o \in offer(r)} \subseteq B
  BY DEF ChangeBody
<1> HIDE DEF X, B, Sound
<1>8. \A o \in offer(r) : Sound(o)
  <2>1. ASSUME NEW c \in Others(r)
        PROVE  Sound(Invoke("doViewChange", "vcClient", {c}) \o SetPri(c)
                       \o Either(backup(r) \cup {<<>>}))
    <3>1. Sound(Invoke("doViewChange", "vcClient", {c}) \o SetPri(c))
      BY <1>1, <1>4, <1>5, <1>6
    <3> QED
      BY <1>3, <1>5, <1>7, <3>1
  <2>2. Sound(SetPri(r) \o Either({updateNewView(r, r), <<>>}))
    BY <1>1, <1>3, <1>5, <1>7
  <2> QED
    BY <2>1, <2>2 DEF offer
<1>9. \A o \in offer(r) : Sound(Pass("viewChange") \o o)
  BY <1>1, <1>5, <1>8
<1>10. Sound(request(r))
  BY <1>3, <1>4, <1>5, <1>7 DEF request
<1>11. \A q \in backup(r) : Sound(q)
  BY <1>2, <1>6 DEF backup
<1>12. Sound(p)
  BY <1>1, <1>2, <1>9, <1>10, <1>11 DEF ChangeBody
<1> QED
  BY <1>12 DEF Sound, X

\* changeView takes _repMutex, moves to the next view, changes it, and releases the
\* mutex.
LEMMA ChangeViewShape ==
  ASSUME NEW r \in Replica
  PROVE  LET s == changeView(r)
         IN  /\ s # <<>> /\ Head(s) = [op |-> "lock", m |-> "rep", asserts |-> FALSE]
             /\ Tail(s) # <<>> /\ Head(Tail(s)) = [op |-> "nextView"]
             /\ \E f \in Fresh(InChange(r)) :
                  Paired(f) /\ Tail(Tail(s)) = f \o Unlock("rep")
             /\ <<>> \o Tail(s) = Tail(s)
<1> DEFINE l0 == [op |-> "lock", m |-> "rep", asserts |-> FALSE]
           n == [op |-> "nextView"]
           a == [op |-> "pass", m |-> "viewChange"]
           progs == backup(r) \cup {request(r)}
           e == [op |-> "either", progs |-> progs]
           u == [op |-> "unlock", m |-> "rep"]
           U == {l0, n, a, e, u}
           X == InChange(r)
<1>1. changeView(r) = <<l0>> \o <<n>> \o <<a>> \o <<e>> \o <<u>>
  BY DEF changeView, Lock, NextView, Pass, Either, Unlock
<1>2. progs \in SUBSET ChangeBody(r)
  BY DEF ChangeBody
<1> HIDE DEF progs
<1>3. <<a>> \in Fresh(X) /\ Paired(<<a>>) /\ <<e>> \in Fresh(X) /\ Paired(<<e>>)
  <2>1. Pass("viewChange") \in Fresh(X) /\ Paired(Pass("viewChange"))
    BY StepsSound DEF Replica
  <2>2. Either(progs) \in Fresh(X) /\ Paired(Either(progs))
    BY <1>2, EitherSound
  <2> QED
    BY <2>1, <2>2 DEF Pass, Either
<1>4. <<a>> \o <<e>> \in Fresh(X) /\ Paired(<<a>> \o <<e>>)
  BY <1>3, ConcatSound
<1>5. Unlock("rep") = <<u>>
  BY DEF Unlock
<1> HIDE DEF l0, n, a, e, u, X
<1>6. /\ <<l0>> \in Seq(U) /\ <<n>> \in Seq(U) /\ <<a>> \in Seq(U)
      /\ <<e>> \in Seq(U) /\ <<u>> \in Seq(U)
  OBVIOUS
<1> HIDE DEF U
<1> DEFINE c2 == <<a>> \o (<<e>> \o <<u>>)
           c1 == <<n>> \o c2
<1>7. changeView(r) = <<l0>> \o c1 /\ c1 \in Seq(U) /\ c2 \in Seq(U)
  BY <1>1, <1>6, RightwardsFive
<1>8. c2 = (<<a>> \o <<e>>) \o <<u>>
  BY <1>6, Assoc
<1> HIDE DEF c2
<1>9. c1 # <<>> /\ Head(c1) = n /\ Tail(c1) = c2
  BY <1>7, First
<1> HIDE DEF c1
<1>10. <<l0>> \o c1 # <<>> /\ Head(<<l0>> \o c1) = l0 /\ Tail(<<l0>> \o c1) = c1
  BY <1>7, First
<1>11. <<>> \o c1 = c1
  BY <1>7, EmptyFront
<1> QED
  BY <1>4, <1>5, <1>7, <1>8, <1>9, <1>10, <1>11 DEF l0, n, X

\* Taking the first instruction out.
LEMMA PairedTail ==
  ASSUME NEW X, NEW f \in Seq(X), f # <<>>, Paired(f)
  PROVE  /\ Tail(f) \in Seq(X) /\ Paired(Tail(f))
         /\ Head(f).op = "lock" => Unlocks(Tail(f))
         /\ Unlocks(f) /\ Head(f).op # "unlock" => Unlocks(Tail(f))
<1>1. /\ Tail(f) \in Seq(X) /\ Len(f) \in Nat \ {0} /\ Len(Tail(f)) = Len(f) - 1
      /\ \A i \in 1 .. Len(f) - 1 : Tail(f)[i] = f[i + 1]
      /\ Head(f) = f[1]
  OBVIOUS
<1>2. ASSUME NEW i \in 1 .. Len(f) - 1, Tail(f)[i].op = "lock"
      PROVE  \E j \in i + 1 .. Len(f) - 1 : Tail(f)[j].op = "unlock"
  <2>1. i + 1 \in 1 .. Len(f) /\ f[i + 1].op = "lock"
    BY <1>1, <1>2
  <2>2. PICK j \in i + 1 + 1 .. Len(f) : f[j].op = "unlock"
    BY <2>1 DEF Paired
  <2>3. j - 1 \in i + 1 .. Len(f) - 1 /\ j - 1 + 1 = j
    BY <1>1, <2>2
  <2>4. Tail(f)[j - 1] = f[j]
    BY <1>1, <2>3
  <2> QED
    BY <2>2, <2>3, <2>4
<1>3. ASSUME NEW j \in 2 .. Len(f), f[j].op = "unlock" PROVE Unlocks(Tail(f))
  <2>1. j - 1 \in 1 .. Len(f) - 1 /\ j - 1 + 1 = j
    BY <1>1
  <2>2. Tail(f)[j - 1] = f[j]
    BY <1>1, <2>1
  <2> QED
    BY <1>1, <1>3, <2>1, <2>2 DEF Unlocks
<1>4. ASSUME Head(f).op = "lock" PROVE Unlocks(Tail(f))
  <2>1. PICK j \in 1 + 1 .. Len(f) : f[j].op = "unlock"
    BY <1>1, <1>4 DEF Paired
  <2> QED
    BY <1>3, <2>1
<1>5. ASSUME Unlocks(f), Head(f).op # "unlock" PROVE Unlocks(Tail(f))
  <2>1. PICK j \in 1 .. Len(f) : f[j].op = "unlock"
    BY <1>5 DEF Unlocks
  <2>2. j \in 2 .. Len(f)
    BY <1>1, <1>5, <2>1
  <2> QED
    BY <1>3, <2>1, <2>2
<1> QED
  BY <1>1, <1>2, <1>4, <1>5 DEF Paired

\* An instruction of hbt, the one to the next view apart, leads from a stage of a
\* heartbeat or of a view change to the next one.
LEMMA HbtNext ==
  ASSUME NEW r \in Replica, NEW s, NEW h, NEW p, NEW k, NEW v,
         HbtStage(r, s, h, v), s # <<>>,
         \/ Move(Head(s), h, p, k)
         \/ Head(s).op = "setNormal" /\ p = <<>> /\ k = h
  PROVE  HbtStage(r, p \o Tail(s), k, v)
<1> DEFINE c == Unlock("rep")
           U == {[op |-> "unlock", m |-> "rep"]}
           X == InChange(r)
           C == Call(r, "commit", "repClient")
<1>1. /\ c \in Seq(U) /\ c # <<>> /\ Head(c) = [op |-> "unlock", m |-> "rep"]
      /\ Head(c).op \notin {"call", "called"} /\ Tail(c) = <<>>
  BY DEF Unlock
<1>2. Move(Head(s), h, p, k) \/ Head(s).op = "setNormal"
  OBVIOUS
<1> HIDE DEF c, U, X, C
<1>3. CASE s \in Seq(C) /\ Len(s) = 1 /\ h = ClientOf(s)
  <2>1. Head(s).op \in {"invoke", "call", "called"}
    <3>1. Head(s) \in C
      BY <1>3, One
    <3> QED
      BY <3>1 DEF C, Call, CallOp
  <2>2. /\ p \o Tail(s) = p /\ p \in Seq(C) /\ k = ClientOf(p)
        /\ p = <<>> \/ Len(p) = 1
    BY <1>2, <1>3, <2>1, OneCallNext DEF C
  <2>3. p = <<>> => ClientOf(p) = {}
    BY DEF ClientOf
  <2> QED
    BY <2>2, <2>3 DEF HbtStage, C
<1>4. CASE s = changeView(r) /\ h = {}
  <2>1. Head(s).op = "lock" /\ Head(s).m = "rep"
    BY <1>4, ChangeViewShape
  <2>2. p = <<>> /\ k = {"rep"}
    BY <1>2, <1>4, <2>1, MoveCases
  <2>3. <<>> \o Tail(s) = Tail(s)
    BY <1>4, ChangeViewShape
  <2> QED
    BY <1>4, <2>2, <2>3 DEF HbtStage
<1>5. CASE s = Tail(changeView(r)) /\ h = {"rep"}
  <2>1. Head(s) = [op |-> "nextView"]
    BY <1>5, ChangeViewShape
  <2>2. Head(s).op = "nextView"
    BY <2>1
  <2> QED
    BY <1>2, <2>2 DEF Move
<1>6. CASE s = c /\ h = {"rep"}
  <2>1. p = <<>> /\ k = {} /\ Tail(s) = <<>>
    BY <1>1, <1>2, <1>6, MoveCases
  <2> QED
    BY <2>1 DEF HbtStage
<1>7. ASSUME NEW f \in Seq(X), v > 0, Tidy(f), Paired(f), s = f \o c,
             {"rep"} \cup ClientOf(s) \subseteq h,
             h \subseteq {"rep", "viewChange"} \cup ClientOf(s),
             "viewChange" \in h => Unlocks(f)
      PROVE  HbtStage(r, p \o Tail(s), k, v)
  <2>1. CASE f = <<>>
    <3>1. s = c
      BY <1>1, <1>7, <2>1, EmptyFront
    <3>2. ~ Unlocks(f)
      BY <2>1 DEF Unlocks
    <3>3. h = {"rep"}
      BY <1>1, <1>7, <3>1, <3>2 DEF ClientOf
    <3> QED
      BY <1>6, <3>1, <3>3
  <2>2. CASE f # <<>>
    <3> DEFINE i == Head(s)
    <3>1. i \in X /\ i = Head(f) /\ s # <<>>
      BY <1>1, <1>7, <2>2, FrontStep
    <3>2. ASSUME p \in Seq(X), Tidy(p), Paired(p), {"rep"} \cup ClientOf(p) \subseteq k,
                 k \subseteq {"rep", "viewChange"} \cup ClientOf(p),
                 "viewChange" \in k => Unlocks(Tail(f))
          PROVE  HbtStage(r, p \o Tail(s), k, v)
      <4> DEFINE g == p \o Tail(f)
      <4>1. /\ c \in Seq(U) /\ c # <<>> /\ Head(c).op \notin {"call", "called"}
            /\ f \in Seq(X) /\ f # <<>> /\ Tidy(f) /\ p \in Seq(X) /\ Tidy(p)
        BY <1>1, <1>7, <2>2, <3>2
      <4>2. /\ g \in Seq(X) /\ Tidy(g) /\ p \o Tail(f \o c) = g \o c
            /\ ClientOf(g \o c) = ClientOf(p)
        BY ONLY <4>1, FrameNext
      <4>3. Tail(f) \in Seq(X) /\ Paired(Tail(f))
        BY <1>7, <2>2, PairedTail
      <4>4. Paired(g) /\ (Unlocks(Tail(f)) => Unlocks(g))
        BY <3>2, <4>3, ConcatPaired
      <4> QED
        BY <1>7, <3>2, <4>2, <4>4 DEF HbtStage, c, X
    <3>3. ASSUME NEW hh \in {"startViewChange", "doViewChange", "startView"},
                 i \in Call(r, hh, "vcClient")
          PROVE  HbtStage(r, p \o Tail(s), k, v)
      <4>1. i.op \in {"invoke", "call", "called"}
        BY <3>3 DEF Call, CallOp
      <4>2. /\ p \in Seq(Call(r, hh, "vcClient")) /\ Tidy(p) /\ Paired(p)
            /\ i.m = "vcClient"
            /\ i.op = "invoke" => k = h \cup {"vcClient"} /\ ClientOf(p) = {"vcClient"}
            /\ i.op # "invoke" => \/ k = h /\ ClientOf(p) = {"vcClient"}
                                  \/ k = h \ {"vcClient"} /\ ClientOf(p) = {}
        BY <1>2, <3>3, <4>1, CallMove
      <4>3. p \in Seq(X)
        <5>1. Call(r, hh, "vcClient") \subseteq X
          BY DEF InChange, X
        <5> QED
          BY <4>2, <5>1
      <4>4. ClientOf(s) = IF i.op = "invoke" THEN {} ELSE {"vcClient"}
        BY <3>1, <4>1, <4>2 DEF ClientOf
      <4>5. "viewChange" \in h => Unlocks(Tail(f))
        BY <1>7, <2>2, <3>1, <4>1, PairedTail
      <4>6. {"rep"} \cup ClientOf(p) \subseteq k /\ k \subseteq {"rep", "viewChange"} \cup ClientOf(p)
        BY <1>7, <4>1, <4>2, <4>4
      <4>7. "viewChange" \in k => "viewChange" \in h
        BY <4>1, <4>2
      <4> QED
        BY <3>2, <4>2, <4>3, <4>5, <4>6, <4>7
    <3>4. ASSUME i.op \in {"pass", "either", "setPri", "setNormal"},
                 p \in ChangeBody(r), k = h
          PROVE  HbtStage(r, p \o Tail(s), k, v)
      <4>1. p \in Fresh(X) /\ Paired(p)
        BY <3>4, ChangeBodySound DEF X
      <4>2. p \in Seq(X) /\ Tidy(p) /\ ClientOf(p) = {} /\ ClientOf(s) = {}
        BY <3>4, <4>1, FreshTidy DEF ClientOf
      <4>3. "viewChange" \in h => Unlocks(Tail(f))
        BY <1>7, <2>2, <3>1, <3>4, PairedTail
      <4> QED
        BY <1>7, <3>2, <3>4, <4>1, <4>2, <4>3
    <3>5. <<>> \in ChangeBody(r)
      BY DEF ChangeBody
    <3>6. CASE i \in [op : {"pass"}, m : {"kvMem", "viewChange"}]
      BY <1>2, <3>4, <3>5, <3>6, MoveCases
    <3>7. CASE i \in [op : {"setPri", "setNormal"}, to : Replica]
      <4>1. i.op \in {"setPri", "setNormal"}
        BY <3>7
      <4>2. CASE Move(i, h, p, k)
        <5>1. i.op # "setNormal"
          BY <4>2 DEF Move
        <5>2. p = <<>> /\ k = h
          BY <4>1, <4>2, <5>1, MoveCases
        <5> QED
          BY <3>4, <3>5, <4>1, <5>2
      <4>3. CASE p = <<>> /\ k = h
        BY <3>4, <3>5, <4>1, <4>3
      <4> QED
        BY <4>2, <4>3
    <3>8. CASE i \in [op : {"either"}, progs : SUBSET ChangeBody(r)]
      BY <1>2, <3>4, <3>8, MoveCases
    <3>9. CASE i \in [op : {"lock"}, m : {"viewChange"}, asserts : {FALSE}]
      <4>1. p = <<>> /\ k = h \cup {"viewChange"} /\ ClientOf(s) = {}
        BY <1>2, <3>9, MoveCases DEF ClientOf
      <4>2. p \in Seq(X) /\ Tidy(p) /\ Paired(p) /\ ClientOf(p) = {}
        BY <4>1 DEF Tidy, Paired, ClientOf
      <4>3. Unlocks(Tail(f))
        BY <1>7, <2>2, <3>1, <3>9, PairedTail
      <4> QED
        BY <1>7, <3>2, <4>1, <4>2, <4>3
    <3>10. CASE i \in [op : {"unlock"}, m : {"viewChange"}]
      <4>1. p = <<>> /\ k = h \ {"viewChange"} /\ ClientOf(s) = {}
        BY <1>2, <3>10, MoveCases DEF ClientOf
      <4>2. p \in Seq(X) /\ Tidy(p) /\ Paired(p) /\ ClientOf(p) = {}
        BY <4>1 DEF Tidy, Paired, ClientOf
      <4> QED
        BY <1>7, <3>2, <4>1, <4>2
    <3> QED
      BY <3>1, <3>3, <3>6, <3>7, <3>8, <3>9, <3>10 DEF InChange, X
  <2> QED
    BY <2>1, <2>2
<1> QED
  BY <1>3, <1>4, <1>5, <1>6, <1>7 DEF HbtStage, c, X, C

\* hbt of a replica that gives up on its primary.
LEMMA HbtNextView ==
  ASSUME NEW r \in Replica, NEW s, NEW h, NEW v \in Nat,
         HbtStage(r, s, h, v), s # <<>>, Head(s).op = "nextView"
  PROVE  HbtStage(r, <<>> \o Tail(s), h, v + 1)
<1> DEFINE c == Unlock("rep")
           U == {[op |-> "unlock", m |-> "rep"]}
           X == InChange(r)
<1>1. /\ c \in Seq(U) /\ c # <<>> /\ Head(c).op \notin {"call", "called", "nextView"}
  BY DEF Unlock
<1>2. \A i \in X : i.op # "nextView"
  BY DEF InChange, Call, CallOp
<1> HIDE DEF c, U, X
<1>3. ~ (s \in Seq(Call(r, "commit", "repClient")) /\ Len(s) = 1)
  <2>1. \A i \in Call(r, "commit", "repClient") : i.op # "nextView"
    BY DEF Call, CallOp
  <2> QED
    BY <2>1, One
<1>4. s # changeView(r)
  BY ChangeViewShape
<1>5. ASSUME NEW f \in Seq(X), s = f \o c PROVE FALSE
  <2>1. f = <<>> => s = c
    BY <1>1, <1>5, EmptyFront
  <2>2. f # <<>> => Head(s) \in X
    BY <1>1, <1>5, FrontStep
  <2> QED
    BY <1>1, <1>2, <2>1, <2>2
<1>6. s # c
  BY <1>1
<1>7. s = Tail(changeView(r)) /\ h = {"rep"}
  BY <1>3, <1>4, <1>5, <1>6 DEF HbtStage, c, X
<1>8. PICK f \in Fresh(X) : Paired(f) /\ Tail(s) = f \o c
  BY <1>7, ChangeViewShape DEF c, X
<1>9. ClientOf(f \o c) = {} /\ <<>> \o (f \o c) = f \o c
  BY <1>1, FreshFront
<1>10. f \in Seq(X) /\ Tidy(f)
  BY FreshTidy
<1>11. <<>> \o Tail(s) = f \o c /\ h = {"rep"} /\ v + 1 > 0
  BY <1>7, <1>8, <1>9
<1> HIDE <1>7, <1>8
<1> QED
  BY <1>8, <1>9, <1>10, <1>11 DEF HbtStage, c, X

-----------------------------------------------------------------------------
(***************************************************************************)
(* What a thread does next, and what it holds then.                        *)
(***************************************************************************)
ClientMutex == {"repClient", "vcClient", "recoveryClient"}

\* The locks a thread waits for.
LockFits(n, i, h) ==
  \/ n = "t1" /\ i.m = "kvMem" /\ h = {}
  \/ n = "t1" /\ i.m = "rep" /\ h = {"kvMem"}
  \/ n \in {"hbt", "ppit", "t2"} /\ i.m = "rep" /\ h = {} /\ ~i.asserts
  \/ n = "hbt" /\ i.m = "viewChange" /\ "rep" \in h /\ ~i.asserts

PassFits(n, i, h) ==
  \/ n \in {"hbt", "t2"} /\ i.m = "kvMem" /\ "rep" \in h
  \/ n = "prrt" /\ i.m = "rep" /\ h = {}
  \/ n = "hbt" /\ i.m = "viewChange" /\ "rep" \in h
  \/ n = "t2" /\ i.m = "viewChange" /\ h = {}

CallFits(r, n, i, h, rec, v) ==
  /\ i.m \in h <=> i.op # "invoke"
  /\ \/ /\ n = "t1" /\ {"kvMem", "rep"} \subseteq h
        /\ \E a \in {"prepare", "commit"} : i \in Call(r, a, "repClient")
     \/ n = "ppit" /\ ~rec /\ "rep" \in h /\ i \in OkCall
     \/ n = "prrt" /\ ~rec /\ i \in Call(r, "recoveryResponse", "recoveryClient")
     \/ /\ n = "hbt" /\ ~rec /\ h \subseteq {"repClient"}
        /\ i \in Call(r, "commit", "repClient")
     \/ /\ n = "hbt" /\ rec /\ "rep" \in h
        /\ i \in Call(r, "recoveryRequest", "recoveryClient")
     \/ /\ n = "hbt" /\ ~rec /\ v > 0 /\ "rep" \in h
        /\ \E a \in {"startViewChange", "doViewChange", "startView"} :
             i \in Call(r, a, "vcClient")

Fits(r, n, i, h, rec, v) ==
  /\ "kvMem" \in h => n = "t1"
  /\ "rep" \in h => n # "prrt"
  /\ "viewChange" \in h => n = "hbt" /\ ~rec /\ v > 0
  /\ \A m \in h \cap ClientMutex : i.op \in {"call", "called"} /\ i.m = m
  /\ i.op = "lock" => LockFits(n, i, h)
  /\ i.op = "pass" => PassFits(n, i, h)
  /\ i.op \in CallOp => CallFits(r, n, i, h, rec, v)
  /\ i.op = "unlock" => i.m \in h \/ (i.m = "viewChange" /\ n = "hbt")
  /\ i.op \in {"setPri", "setNormal"} => n = "hbt" /\ i.to \in Replica
  /\ i.op \in {"setPri", "nextView"} => n = "hbt" /\ ~rec
  /\ v = 0 /\ n = "hbt" /\ ~rec =>
       \/ i.op \in CallOp /\ i.h = "commit"
       \/ i.op = "lock" /\ i.m = "rep"
       \/ i.op \in {"nextView", "unlock"}
  /\ i.op \in {"lock", "unlock", "pass", "either", "ifNormal", "setPri",
               "setNormal", "nextView"} \cup CallOp

\* The call of a frame.
LEMMA CallHead ==
  ASSUME NEW r, NEW hh, NEW m, NEW i \in Call(r, hh, m)
  PROVE  /\ i.op \in CallOp /\ i.h = hh /\ i.m = m
         /\ i.op # "lock" /\ i.op # "pass" /\ i.op # "unlock" /\ i.op # "nextView"
         /\ i.op \notin {"setPri", "setNormal"}
BY DEF Call, CallOp

\* The next instruction of a write fits what t1 holds.
LEMMA T1Fits ==
  ASSUME NEW r \in Replica, NEW s, NEW h, T1Stage(r, s, h), s # <<>>, NEW rec, NEW v
  PROVE  Fits(r, "t1", Head(s), h, rec, v)
<1> DEFINE i == Head(s)
           c == Unlock("rep") \o Unlock("kvMem")
           u1 == [op |-> "unlock", m |-> "rep"]
           u2 == [op |-> "unlock", m |-> "kvMem"]
           T == {u1, u2}
           X == InUpdate(r)
<1>1. /\ c \in Seq(T) /\ c # <<>> /\ Head(c) = u1
  <2>1. c = <<u1>> \o <<u2>> /\ u1 \in T /\ u2 \in T
    BY DEF Unlock
  <2> HIDE DEF u1, u2, T, c
  <2>2. <<u1>> \in Seq(T) /\ <<u2>> \in Seq(T)
    BY <2>1
  <2> QED
    BY <2>1, <2>2, First, ConcatProperties
<1>2. CASE s = clientUpdate(r) /\ h = {}
  <2>1. i.op = "lock" /\ i.m = "kvMem"
    BY <1>2, ClientUpdateShape
  <2> QED
    BY <1>2, <2>1 DEF Fits, LockFits, CallOp
<1>3. CASE s = Tail(clientUpdate(r)) /\ h = {"kvMem"}
  <2>1. i.op = "lock" /\ i.m = "rep"
    BY <1>3, ClientUpdateShape
  <2> QED
    BY <1>3, <2>1 DEF Fits, LockFits, CallOp, ClientMutex
<1>4. ASSUME NEW f \in Seq(X), s = f \o c, h = {"kvMem", "rep"} \cup ClientOf(s)
      PROVE  Fits(r, "t1", i, h, rec, v)
  <2> HIDE DEF X, T, c
  <2>1. CASE f = <<>>
    <3>1. i = u1
      BY <1>1, <1>4, <2>1, EmptyFront
    <3>2. i.op = "unlock" /\ i.m = "rep"
      BY <3>1
    <3>3. h = {"kvMem", "rep"}
      BY <1>4, <3>2 DEF ClientOf
    <3> QED
      BY <3>2, <3>3 DEF Fits, CallOp, ClientMutex
  <2>2. CASE f # <<>>
    <3>1. i \in X /\ s # <<>>
      BY <1>1, <1>4, <2>2, FrontStep
    <3>2. ASSUME NEW a \in {"prepare", "commit"}, i \in Call(r, a, "repClient")
          PROVE  Fits(r, "t1", i, h, rec, v)
      <4>1. /\ i.op \in CallOp /\ i.m = "repClient"
            /\ i.op \notin {"lock", "pass", "unlock", "nextView", "setPri", "setNormal"}
        BY <3>2, CallHead
      <4>2. h = IF i.op = "invoke" THEN {"kvMem", "rep"} ELSE {"kvMem", "rep", "repClient"}
        BY <1>4, <3>1, <4>1 DEF ClientOf, CallOp
      <4>3. CallFits(r, "t1", i, h, rec, v)
        BY <3>2, <4>1, <4>2 DEF CallFits
      <4> QED
        BY <4>1, <4>2, <4>3 DEF Fits, ClientMutex, CallOp
    <3>3. CASE i.op \in {"either", "ifNormal"}
      <4>1. h = {"kvMem", "rep"}
        BY <1>4, <3>3 DEF ClientOf
      <4> QED
        BY <3>3, <4>1 DEF Fits, ClientMutex, CallOp
    <3> QED
      BY <3>1, <3>2, <3>3 DEF InUpdate, X
  <2> QED
    BY <2>1, <2>2
<1>5. CASE s = Unlock("kvMem") /\ h = {"kvMem"}
  <2>1. i.op = "unlock" /\ i.m = "kvMem"
    BY <1>5 DEF Unlock
  <2> QED
    BY <1>5, <2>1 DEF Fits, CallOp, ClientMutex
<1> QED
  BY <1>2, <1>3, <1>4, <1>5 DEF T1Stage

\* The next instruction of ppit fits what it holds.
LEMMA PpitFits ==
  ASSUME NEW r \in Replica, NEW s, NEW h, PpitStage(s, h), s # <<>>, NEW v
  PROVE  Fits(r, "ppit", Head(s), h, FALSE, v)
<1> DEFINE i == Head(s)
           c == Unlock("rep")
           U == {[op |-> "unlock", m |-> "rep"]}
<1>1. /\ c \in Seq(U) /\ c # <<>> /\ Head(c).op = "unlock" /\ Head(c).m = "rep"
  BY DEF Unlock
<1>2. CASE s = processPrepInfo /\ h = {}
  <2> DEFINE l0 == [op |-> "lock", m |-> "rep", asserts |-> FALSE]
             i0 == [op |-> "invoke", h |-> "prepareOk", m |-> "repClient",
                    to |-> {Nil}, b |-> Nil]
             u0 == [op |-> "unlock", m |-> "rep"]
             V == {i0, l0, u0}
  <2>1. processPrepInfo = <<l0>> \o <<i0>> \o <<u0>>
    BY DEF processPrepInfo, Lock, Invoke, Unlock
  <2>2. l0.op = "lock" /\ l0.m = "rep" /\ ~l0.asserts
    OBVIOUS
  <2>3. <<l0>> \in Seq(V) /\ <<i0>> \in Seq(V) /\ <<u0>> \in Seq(V)
    OBVIOUS
  <2> HIDE DEF l0, i0, u0, V
  <2>4. <<i0>> \o <<u0>> \in Seq(V)
    BY <2>3, ConcatProperties
  <2>5. i = l0
    BY <1>2, <2>1, <2>3, <2>4, Assoc, First
  <2> QED
    BY <1>2, <2>2, <2>5 DEF Fits, LockFits, CallOp
<1>3. ASSUME NEW f \in Seq(OkCall), s = f \o c, h = {"rep"} \cup ClientOf(s)
      PROVE  Fits(r, "ppit", i, h, FALSE, v)
  <2> HIDE DEF c, U
  <2>1. CASE f = <<>>
    <3>1. i.op = "unlock" /\ i.m = "rep"
      BY <1>1, <1>3, <2>1, EmptyFront
    <3>2. h = {"rep"}
      BY <1>3, <3>1 DEF ClientOf
    <3> QED
      BY <3>1, <3>2 DEF Fits, CallOp, ClientMutex
  <2>2. CASE f # <<>>
    <3>1. i \in OkCall /\ s # <<>>
      BY <1>1, <1>3, <2>2, FrontStep
    <3>2. i.op \in {"invoke", "call"} /\ i.m = "repClient"
      BY <3>1 DEF OkCall
    <3>3. h = IF i.op = "invoke" THEN {"rep"} ELSE {"rep", "repClient"}
      BY <1>3, <3>1, <3>2 DEF ClientOf
    <3>4. CallFits(r, "ppit", i, h, FALSE, v)
      BY <3>1, <3>2, <3>3 DEF CallFits
    <3> QED
      BY <3>2, <3>3, <3>4 DEF Fits, CallOp, ClientMutex
  <2> QED
    BY <2>1, <2>2
<1> QED
  BY <1>2, <1>3 DEF PpitStage

\* A broadcast that is made with no other mutex.
LEMMA OneCallFits ==
  ASSUME NEW r, NEW a, NEW m \in ClientMutex, NEW s \in Seq(Call(r, a, m)), Len(s) = 1
  PROVE  /\ Head(s) \in Call(r, a, m) /\ Head(s).op \in CallOp
         /\ Head(s).h = a /\ Head(s).m = m
         /\ ClientOf(s) = IF Head(s).op = "invoke" THEN {} ELSE {m}
<1>1. Head(s) \in Call(r, a, m) /\ s # <<>>
  BY One
<1>2. Head(s).op \in CallOp /\ Head(s).h = a /\ Head(s).m = m
  BY <1>1, CallHead
<1> QED
  BY <1>1, <1>2 DEF ClientOf, CallOp

\* The next instruction of prrt fits what it holds.
LEMMA PrrtFits ==
  ASSUME NEW r \in Replica, NEW s, NEW h, PrrtStage(r, s, h), s # <<>>, NEW v
  PROVE  Fits(r, "prrt", Head(s), h, FALSE, v)
<1> DEFINE i == Head(s)
           C == Call(r, "recoveryResponse", "recoveryClient")
<1>1. ASSUME NEW to \in Others(r), s = processRecoveryReqInt(to), h = {}
      PROVE  Fits(r, "prrt", i, h, FALSE, v)
  <2> DEFINE q == Invoke("recoveryResponse", "recoveryClient", {to})
             j == [op |-> "pass", m |-> "rep"]
  <2>1. q \in Seq(C)
    BY InvokeTyped
  <2>2. s = <<j>> \o q /\ j.op = "pass" /\ j.m = "rep"
    BY <1>1 DEF processRecoveryReqInt, Pass
  <2> HIDE DEF q, C, j
  <2>3. i = j
    BY <2>1, <2>2, First
  <2> QED
    BY <1>1, <2>2, <2>3 DEF Fits, PassFits, CallOp
<1>2. CASE s \in Seq(C) /\ Len(s) = 1 /\ h = ClientOf(s)
  <2>1. /\ i \in C /\ i.op \in CallOp /\ i.m = "recoveryClient"
        /\ h = IF i.op = "invoke" THEN {} ELSE {"recoveryClient"}
    BY <1>2, OneCallFits DEF ClientMutex
  <2>2. CallFits(r, "prrt", i, h, FALSE, v)
    BY <2>1 DEF CallFits
  <2> QED
    BY <2>1, <2>2 DEF Fits, ClientMutex, CallOp
<1> QED
  BY <1>1, <1>2 DEF PrrtStage

\* The next instruction of a handler fits what t2 holds.
LEMMA T2Fits ==
  ASSUME NEW r \in Replica, NEW s, NEW h, T2Stage(s, h), s # <<>>, NEW rec, NEW v
  PROVE  Fits(r, "t2", Head(s), h, rec, v)
<1> DEFINE i == Head(s)
           c == Unlock("rep")
           U == {[op |-> "unlock", m |-> "rep"]}
<1>1. /\ c \in Seq(U) /\ c # <<>> /\ Head(c).op = "unlock" /\ Head(c).m = "rep"
  BY DEF Unlock
<1>2. CASE s = Pass("viewChange") /\ h = {}
  <2>1. i.op = "pass" /\ i.m = "viewChange"
    BY <1>2 DEF Pass
  <2> QED
    BY <1>2, <2>1 DEF Fits, PassFits, CallOp
<1>3. CASE s = processCommit /\ h = {}
  <2> DEFINE l0 == [op |-> "lock", m |-> "rep", asserts |-> FALSE]
             e == [op |-> "either", progs |-> {<<>>, Pass("kvMem")}]
             u0 == [op |-> "unlock", m |-> "rep"]
             V == {e, l0, u0}
  <2>1. processCommit = <<l0>> \o <<e>> \o <<u0>>
    BY DEF processCommit, Lock, Callbacks, Either, Unlock
  <2>2. l0.op = "lock" /\ l0.m = "rep" /\ ~l0.asserts
    OBVIOUS
  <2>3. <<l0>> \in Seq(V) /\ <<e>> \in Seq(V) /\ <<u0>> \in Seq(V)
    OBVIOUS
  <2> HIDE DEF l0, e, u0, V
  <2>4. <<e>> \o <<u0>> \in Seq(V)
    BY <2>3, ConcatProperties
  <2>5. i = l0
    BY <1>3, <2>1, <2>3, <2>4, Assoc, First
  <2> QED
    BY <1>3, <2>2, <2>5 DEF Fits, LockFits, CallOp
<1>4. ASSUME NEW f \in Seq(InCommit), s = f \o c, h = {"rep"}
      PROVE  Fits(r, "t2", i, h, rec, v)
  <2> HIDE DEF c, U
  <2>1. CASE f = <<>>
    <3>1. i.op = "unlock" /\ i.m = "rep"
      BY <1>1, <1>4, <2>1, EmptyFront
    <3> QED
      BY <1>4, <3>1 DEF Fits, CallOp, ClientMutex
  <2>2. CASE f # <<>>
    <3>1. i \in InCommit
      BY <1>1, <1>4, <2>2, FrontStep
    <3>2. (i.op = "pass" /\ i.m = "kvMem") \/ i.op = "either"
      BY <3>1 DEF InCommit
    <3> QED
      BY <1>4, <3>2 DEF Fits, PassFits, CallOp, ClientMutex
  <2> QED
    BY <2>1, <2>2
<1> QED
  BY <1>2, <1>3, <1>4 DEF T2Stage

\* The next instruction of a recovery fits what hbt holds.
LEMMA RecoverFits ==
  ASSUME NEW r \in Replica, NEW s, NEW h, RecoverStage(r, s, h), s # <<>>, NEW v
  PROVE  Fits(r, "hbt", Head(s), h, TRUE, v)
<1> DEFINE i == Head(s)
           a == [op |-> "either", progs |-> {SetNormal(q) : q \in Others(r)}]
           u == [op |-> "unlock", m |-> "rep"]
           c == Adopt(r) \o Unlock("rep")
           U == {a, u}
           X == InRecover(r)
<1>1. c \in Seq(U) /\ c # <<>> /\ Head(c).op = "either"
  <2>1. c = <<a>> \o <<u>> /\ a.op = "either"
    BY DEF Adopt, Either, Unlock
  <2> HIDE DEF a, u, c
  <2>2. <<a>> \in Seq(U) /\ <<u>> \in Seq(U)
    OBVIOUS
  <2> HIDE DEF U
  <2> QED
    BY <2>1, <2>2, First, ConcatProperties
<1> HIDE DEF a, U, X, c
<1>2. CASE s = recover(r) /\ h = {}
  <2>1. i.op = "lock" /\ i.m = "rep" /\ ~i.asserts
    BY <1>2, RecoverShape
  <2> QED
    BY <1>2, <2>1 DEF Fits, LockFits, CallOp
<1>3. ASSUME NEW f \in Seq(X), s = f \o c, h = {"rep"} \cup ClientOf(s)
      PROVE  Fits(r, "hbt", i, h, TRUE, v)
  <2>1. CASE i.op = "either"
    <3>1. h = {"rep"}
      BY <1>3, <2>1 DEF ClientOf
    <3> QED
      BY <2>1, <3>1 DEF Fits, CallOp, ClientMutex
  <2>2. CASE f = <<>>
    BY <1>1, <1>3, <2>1, <2>2, EmptyFront
  <2>3. CASE f # <<>>
    <3>1. i \in X /\ s # <<>>
      BY <1>1, <1>3, <2>3, FrontStep
    <3>2. CASE i \in Call(r, "recoveryRequest", "recoveryClient")
      <4>1. /\ i.op \in CallOp /\ i.m = "recoveryClient"
            /\ i.op \notin {"lock", "pass", "unlock", "nextView", "setPri", "setNormal"}
        BY <3>2, CallHead
      <4>2. h = IF i.op = "invoke" THEN {"rep"} ELSE {"rep", "recoveryClient"}
        BY <1>3, <3>1, <4>1 DEF ClientOf, CallOp
      <4>3. CallFits(r, "hbt", i, h, TRUE, v)
        BY <3>2, <4>1, <4>2 DEF CallFits
      <4> QED
        BY <4>1, <4>2, <4>3 DEF Fits, ClientMutex, CallOp
    <3>3. CASE i.op = "pass" /\ i.m = "kvMem"
      <4>1. h = {"rep"}
        BY <1>3, <3>3 DEF ClientOf
      <4> QED
        BY <3>3, <4>1 DEF Fits, PassFits, CallOp, ClientMutex
    <3> QED
      BY <2>1, <3>1, <3>2, <3>3 DEF InRecover, X
  <2> QED
    BY <2>2, <2>3
<1>4. ASSUME NEW q \in Others(r), s = SetNormal(q) \o Unlock("rep"), h = {"rep"}
      PROVE  Fits(r, "hbt", i, h, TRUE, v)
  <2> DEFINE n == [op |-> "setNormal", to |-> q]
  <2>1. /\ SetNormal(q) = <<n>> /\ Unlock("rep") = <<u>> /\ <<u>> \in Seq({u})
        /\ n.op = "setNormal" /\ n.to = q
    BY DEF SetNormal, Unlock
  <2> HIDE DEF n, u
  <2>2. i = n
    BY <1>4, <2>1, First
  <2> QED
    BY <1>4, <2>1, <2>2 DEF Fits, CallOp, ClientMutex, Others
<1> QED
  BY <1>2, <1>3, <1>4 DEF RecoverStage, c, X

\* The next instruction of a heartbeat or of a view change fits what hbt holds.
LEMMA HbtFits ==
  ASSUME NEW r \in Replica, NEW s, NEW h, NEW v, HbtStage(r, s, h, v), s # <<>>
  PROVE  Fits(r, "hbt", Head(s), h, FALSE, v)
<1> DEFINE i == Head(s)
           c == Unlock("rep")
           U == {[op |-> "unlock", m |-> "rep"]}
           X == InChange(r)
           C == Call(r, "commit", "repClient")
<1>1. c \in Seq(U) /\ c # <<>> /\ Head(c).op = "unlock" /\ Head(c).m = "rep"
  BY DEF Unlock
<1> HIDE DEF c, U, X, C
<1>2. CASE s \in Seq(C) /\ Len(s) = 1 /\ h = ClientOf(s)
  <2>1. /\ i \in C /\ i.op \in CallOp /\ i.m = "repClient" /\ i.h = "commit"
        /\ h = IF i.op = "invoke" THEN {} ELSE {"repClient"}
    BY <1>2, OneCallFits DEF ClientMutex, C
  <2>2. CallFits(r, "hbt", i, h, FALSE, v)
    BY <2>1 DEF CallFits, C
  <2> QED
    BY <2>1, <2>2 DEF Fits, ClientMutex, CallOp
<1>3. CASE s = changeView(r) /\ h = {}
  <2>1. i.op = "lock" /\ i.m = "rep" /\ ~i.asserts
    BY <1>3, ChangeViewShape
  <2> QED
    BY <1>3, <2>1 DEF Fits, LockFits, CallOp
<1>4. CASE s = Tail(changeView(r)) /\ h = {"rep"}
  <2>1. i.op = "nextView"
    BY <1>4, ChangeViewShape
  <2> QED
    BY <1>4, <2>1 DEF Fits, CallOp, ClientMutex
<1>5. CASE i.op = "unlock" /\ i.m = "rep" /\ h = {"rep"}
  BY <1>5 DEF Fits, CallOp, ClientMutex
<1>6. ASSUME NEW f \in Seq(X), v > 0, s = f \o c,
             {"rep"} \cup ClientOf(s) \subseteq h,
             h \subseteq {"rep", "viewChange"} \cup ClientOf(s),
             "viewChange" \in h => Unlocks(f)
      PROVE  Fits(r, "hbt", i, h, FALSE, v)
  <2>1. CASE f = <<>>
    <3>1. i.op = "unlock" /\ i.m = "rep"
      BY <1>1, <1>6, <2>1, EmptyFront
    <3>2. ~Unlocks(f) /\ ClientOf(s) = {}
      BY <2>1, <3>1 DEF ClientOf, Unlocks
    <3>3. h = {"rep"}
      BY <1>6, <3>2
    <3> QED
      BY <1>5, <3>1, <3>3
  <2>2. CASE f # <<>>
    <3>1. i \in X /\ s # <<>>
      BY <1>1, <1>6, <2>2, FrontStep
    <3>2. v # 0 /\ v > 0
      BY <1>6
    <3>3. ASSUME NEW a \in {"startViewChange", "doViewChange", "startView"},
                 i \in Call(r, a, "vcClient")
          PROVE  Fits(r, "hbt", i, h, FALSE, v)
      <4>1. /\ i.op \in CallOp /\ i.m = "vcClient"
            /\ i.op \notin {"lock", "pass", "unlock", "nextView", "setPri", "setNormal"}
        BY <3>3, CallHead
      <4>2. /\ "rep" \in h /\ h \subseteq {"rep", "viewChange", "vcClient"}
            /\ i.m \in h <=> i.op # "invoke"
        BY <1>6, <3>1, <4>1 DEF ClientOf, CallOp
      <4>3. CallFits(r, "hbt", i, h, FALSE, v)
        BY <1>6, <3>3, <4>2 DEF CallFits
      <4>4. \A m \in h \cap ClientMutex : i.op \in {"call", "called"} /\ i.m = m
        BY <4>1, <4>2 DEF ClientMutex, CallOp
      <4>5. "kvMem" \notin h
        BY <4>2
      <4> QED
        BY ONLY <3>2, <4>1, <4>2, <4>3, <4>4, <4>5 DEF Fits, CallOp
    <3>4. CASE i.op \notin CallOp
      <4>1. "rep" \in h /\ h \subseteq {"rep", "viewChange"}
        BY <1>6, <3>4 DEF ClientOf, CallOp
      <4>2. /\ h \cap ClientMutex = {} /\ "kvMem" \notin h
        BY <4>1 DEF ClientMutex
      <4>3. \/ i \in [op : {"pass"}, m : {"kvMem", "viewChange"}]
            \/ i \in [op : {"lock"}, m : {"viewChange"}, asserts : {FALSE}]
            \/ i \in [op : {"unlock"}, m : {"viewChange"}]
            \/ i \in [op : {"setPri", "setNormal"}, to : Replica]
            \/ i \in [op : {"either"}, progs : SUBSET ChangeBody(r)]
        <5>1. /\ i \notin Call(r, "startViewChange", "vcClient")
              /\ i \notin Call(r, "doViewChange", "vcClient")
              /\ i \notin Call(r, "startView", "vcClient")
          BY <3>4 DEF Call
        <5> QED
          BY <3>1, <5>1 DEF InChange, X
      <4>4. \/ i.op = "pass" /\ i.m \in {"kvMem", "viewChange"}
            \/ i.op = "lock" /\ i.m = "viewChange" /\ ~i.asserts
            \/ i.op = "unlock" /\ i.m = "viewChange"
            \/ i.op \in {"setPri", "setNormal"} /\ i.to \in Replica
            \/ i.op = "either"
        BY <4>3
      <4> QED
        BY ONLY <3>2, <3>4, <4>1, <4>2, <4>4 DEF Fits, LockFits, PassFits, CallOp
    <3>5. i.op \in CallOp =>
            \E a \in {"startViewChange", "doViewChange", "startView"} :
              i \in Call(r, a, "vcClient")
      BY <3>1 DEF InChange, X, CallOp
    <3> QED
      BY <3>3, <3>4, <3>5
  <2> QED
    BY <2>1, <2>2
<1>7. s = c => i.op = "unlock" /\ i.m = "rep"
  BY <1>1
<1> QED
  BY <1>2, <1>3, <1>4, <1>5, <1>6, <1>7 DEF HbtStage, c, X, C

\* A thread that has nothing to do holds nothing.
LEMMA EmptyStage ==
  ASSUME NEW r \in Replica, NEW s, s = <<>>, NEW h, NEW v
  PROVE  /\ T1Stage(r, s, h) => h = {}
         /\ PpitStage(s, h) => h = {}
         /\ PrrtStage(r, s, h) => h = {}
         /\ T2Stage(s, h) => h = {}
         /\ RecoverStage(r, s, h) => h = {}
         /\ HbtStage(r, s, h, v) => h = {}
<1>1. ASSUME NEW S, NEW f \in Seq(S), NEW T, NEW c \in Seq(T), c # <<>>
      PROVE  f \o c # <<>>
  <2>1. f = <<>> => f \o c = c
    BY EmptyFront
  <2>2. f # <<>> => f \o c # <<>>
    BY <1>1, FrontStep
  <2> QED
    BY <1>1, <2>1, <2>2
<1>2. \A m : Unlock(m) # <<>> /\ Unlock(m) \in Seq({[op |-> "unlock", m |-> m]})
  BY DEF Unlock
<1>3. \A m : Pass(m) # <<>> /\ Pass(m) \in Seq({[op |-> "pass", m |-> m]})
  BY DEF Pass
<1>4. \A q : SetNormal(q) \in Seq({[op |-> "setNormal", to |-> q]})
  BY DEF SetNormal
<1>5. Unlock("rep") \o Unlock("kvMem") # <<>>
  BY <1>1, <1>2
<1>6. Adopt(r) \o Unlock("rep") # <<>>
  <2>1. Adopt(r) \in Seq({[op |-> "either", progs |-> {SetNormal(p) : p \in Others(r)}]})
    BY DEF Adopt, Either
  <2> QED
    BY <1>1, <1>2, <2>1
<1>7. T1Stage(r, s, h) => h = {}
  <2>1. Unlock("rep") \o Unlock("kvMem") \in
          Seq({[op |-> "unlock", m |-> "rep"], [op |-> "unlock", m |-> "kvMem"]})
    BY DEF Unlock
  <2>2. \A f \in Seq(InUpdate(r)) : f \o (Unlock("rep") \o Unlock("kvMem")) # <<>>
    BY <1>1, <1>5, <2>1
  <2> QED
    BY <1>2, <2>2, ClientUpdateShape DEF T1Stage
<1>8. PpitStage(s, h) => h = {}
  <2>1. \A f \in Seq(OkCall) : f \o Unlock("rep") # <<>>
    BY <1>1, <1>2
  <2>2. processPrepInfo # <<>>
    <3> DEFINE l0 == [op |-> "lock", m |-> "rep", asserts |-> FALSE]
               i0 == [op |-> "invoke", h |-> "prepareOk", m |-> "repClient",
                      to |-> {Nil}, b |-> Nil]
    <3>1. processPrepInfo = <<l0>> \o <<i0>> \o Unlock("rep")
      BY DEF processPrepInfo, Lock, Invoke
    <3>2. <<l0>> \o <<i0>> \in Seq({l0, i0})
      <4> HIDE DEF l0, i0
      <4> QED
        OBVIOUS
    <3> HIDE DEF l0, i0
    <3> QED
      BY <1>1, <1>2, <3>1, <3>2
  <2> QED
    BY <2>1, <2>2 DEF PpitStage
<1>9. PrrtStage(r, s, h) => h = {}
  <2>1. \A to \in Others(r) : processRecoveryReqInt(to) # <<>>
    <3> TAKE to \in Others(r)
    <3> DEFINE q == Invoke("recoveryResponse", "recoveryClient", {to})
    <3>1. q \in Seq(Call(r, "recoveryResponse", "recoveryClient")) /\ q # <<>>
      BY InvokeTyped DEF Invoke
    <3> HIDE DEF q
    <3>2. Pass("rep") \o q # <<>>
      BY <1>1, <1>3, <3>1
    <3> QED
      BY <3>2 DEF processRecoveryReqInt, q
  <2>2. Len(s) # 1
    OBVIOUS
  <2> QED
    BY <2>1, <2>2 DEF PrrtStage
<1>10. T2Stage(s, h) => h = {}
  <2>1. \A f \in Seq(InCommit) : f \o Unlock("rep") # <<>>
    BY <1>1, <1>2
  <2> QED
    BY <2>1 DEF T2Stage, processCommit, Lock, Callbacks, Either, Unlock
<1>11. RecoverStage(r, s, h) => h = {}
  <2>1. Adopt(r) \o Unlock("rep") \in
          Seq({[op |-> "either", progs |-> {SetNormal(p) : p \in Others(r)}],
               [op |-> "unlock", m |-> "rep"]})
    BY DEF Adopt, Either, Unlock
  <2>2. \A f \in Seq(InRecover(r)) : f \o (Adopt(r) \o Unlock("rep")) # <<>>
    BY <1>1, <1>6, <2>1
  <2>3. \A q : SetNormal(q) \o Unlock("rep") # <<>>
    BY <1>1, <1>2, <1>4
  <2> QED
    BY <2>2, <2>3, RecoverShape DEF RecoverStage
<1>12. HbtStage(r, s, h, v) => h = {}
  <2>1. \A f \in Seq(InChange(r)) : f \o Unlock("rep") # <<>>
    BY <1>1, <1>2
  <2>2. Len(s) # 1
    OBVIOUS
  <2> QED
    BY <1>2, <2>1, <2>2, ChangeViewShape DEF HbtStage
<1> QED
  BY <1>7, <1>8, <1>9, <1>10, <1>11, <1>12

\* Every thread.
LEMMA StageFits ==
  ASSUME NEW t \in Thread, NEW s, NEW h, NEW rec \in BOOLEAN, NEW v,
         Stage(t, s, h, rec, v)
  PROVE  /\ s = <<>> => h = {}
         /\ s # <<>> => /\ Fits(t[1], t[2], Head(s), h, rec, v)
                        /\ rec => t[2] \in {"t1", "hbt"}
<1>1. t[1] \in Replica /\ t[2] \in ThreadName
  BY DEF Thread
<1>2. s = <<>> => h = {}
  BY <1>1, EmptyStage DEF Stage
<1>3. ASSUME s # <<>> PROVE Fits(t[1], t[2], Head(s), h, rec, v)
  BY <1>1, <1>3, T1Fits, PpitFits, PrrtFits, T2Fits, RecoverFits, HbtFits
     DEF Stage, ThreadName
<1>4. s # <<>> /\ rec => t[2] \in {"t1", "hbt"}
  BY <1>1 DEF Stage, ThreadName
<1> QED
  BY <1>2, <1>3, <1>4

\* A thread with nothing to do, and nothing in its hands, is in a stage.
LEMMA StageIdle ==
  ASSUME NEW t \in Thread, NEW rec \in BOOLEAN, NEW v
  PROVE  Stage(t, <<>>, {}, rec, v)
<1>1. t[2] \in ThreadName
  BY DEF Thread
<1> QED
  BY <1>1 DEF Stage, ThreadName, T1Stage, RecoverStage, HbtStage

\* An instruction leads from a stage of its thread to the next one.
LEMMA StageNext ==
  ASSUME NEW t \in Thread, NEW s, NEW h, NEW rec \in BOOLEAN, NEW v, NEW p, NEW k,
         Stage(t, s, h, rec, v), s # <<>>, Move(Head(s), h, p, k)
  PROVE  Stage(t, p \o Tail(s), k, rec, v)
<1>1. t[1] \in Replica /\ t[2] \in ThreadName
  BY DEF Thread
<1>2. CASE t[2] = "t1"
  BY <1>1, <1>2, T1Next DEF Stage
<1>3. CASE t[2] = "hbt" /\ rec
  BY <1>1, <1>3, RecoverNext DEF Stage
<1>4. CASE t[2] = "hbt" /\ ~rec
  BY <1>1, <1>4, HbtNext DEF Stage
<1>5. CASE t[2] = "ppit"
  BY <1>1, <1>5, PpitNext DEF Stage
<1>6. CASE t[2] = "prrt"
  BY <1>1, <1>6, PrrtNext DEF Stage
<1>7. CASE t[2] = "t2"
  BY <1>1, <1>7, T2Next DEF Stage
<1> QED
  BY <1>1, <1>2, <1>3, <1>4, <1>5, <1>6, <1>7 DEF ThreadName

\* SetNormal ends a recovery, with another replica as primary, or a view change.
LEMMA StageSetNormal ==
  ASSUME NEW t \in Thread, NEW s, NEW h, NEW rec \in BOOLEAN, NEW v,
         Stage(t, s, h, rec, v), s # <<>>, Head(s).op = "setNormal"
  PROVE  /\ Stage(t, <<>> \o Tail(s), h, FALSE, v)
         /\ t[2] = "hbt" /\ rec => Head(s).to \in Others(t[1])
<1> DEFINE i == Head(s)
<1>0. Fits(t[1], t[2], i, h, rec, v) /\ i.op = "setNormal"
  BY StageFits
<1>1. t[1] \in Replica /\ t[2] = "hbt"
  <2>1. t[1] \in Replica
    BY DEF Thread
  <2> HIDE DEF i
  <2>2. t[2] = "hbt"
    BY <1>0 DEF Fits
  <2> QED
    BY <2>1, <2>2
<1> HIDE DEF i
<1>2. CASE rec
  BY <1>1, <1>2, RecoverDone DEF Stage
<1>3. CASE ~rec
  BY <1>1, <1>3, HbtNext DEF Stage
<1> QED
  BY <1>2, <1>3

\* Only a hbt that does not recover moves to the next view.
LEMMA StageNextView ==
  ASSUME NEW t \in Thread, NEW s, NEW h, NEW rec \in BOOLEAN, NEW v \in Nat,
         Stage(t, s, h, rec, v), s # <<>>, Head(s).op = "nextView"
  PROVE  ~rec /\ t[2] = "hbt" /\ Stage(t, <<>> \o Tail(s), h, FALSE, v + 1)
<1> DEFINE i == Head(s)
<1>0. Fits(t[1], t[2], i, h, rec, v) /\ i.op = "nextView"
  BY StageFits
<1>1. t[1] \in Replica /\ t[2] = "hbt" /\ ~rec
  <2>1. t[1] \in Replica
    BY DEF Thread
  <2> HIDE DEF i
  <2>2. t[2] = "hbt" /\ ~rec
    BY <1>0 DEF Fits
  <2> QED
    BY <2>1, <2>2
<1> HIDE DEF i
<1> QED
  BY <1>1, HbtNextView DEF Stage

\* Only hbt looks at the view and at the end of a recovery.
LEMMA StageOther ==
  ASSUME NEW t \in Thread, NEW s, NEW h, NEW rec \in BOOLEAN, NEW v, NEW w,
         Stage(t, s, h, rec, v), t[2] # "hbt"
  PROVE  Stage(t, s, h, FALSE, w) /\ Stage(t, s, h, rec, w)
BY DEF Stage

\* Without a mutex of the clients no call is being made.
LEMMA NotCalled ==
  ASSUME NEW t \in Thread, NEW s, NEW h, NEW rec \in BOOLEAN, NEW v,
         Stage(t, s, h, rec, v), s # <<>>
  PROVE  /\ h \cap ClientMutex = {} => Head(s).op \notin {"call", "called"}
         /\ Head(s).op \notin {"call", "called"} => h \cap ClientMutex = {}
         /\ Head(s).op \in {"call", "called"} =>
              Head(s).m \in h /\ h \cap ClientMutex = {Head(s).m}
         /\ Head(s).op \in CallOp => Head(s).m \in ClientMutex
<1> DEFINE i == Head(s)
<1>1. Fits(t[1], t[2], i, h, rec, v)
  BY StageFits
<1> HIDE DEF i
<1>2. i.op \in CallOp => CallFits(t[1], t[2], i, h, rec, v)
  BY <1>1 DEF Fits
<1>3. i.op \in CallOp => i.m \in ClientMutex
  BY <1>2 DEF CallFits, Call, OkCall, ClientMutex
<1>4. i.op \in {"call", "called"} => i.m \in h
  BY <1>2 DEF CallFits, CallOp
<1>5. \A m \in h \cap ClientMutex : i.op \in {"call", "called"} /\ i.m = m
  BY <1>1 DEF Fits
<1> QED
  BY <1>3, <1>4, <1>5 DEF CallOp, i

-----------------------------------------------------------------------------
(***************************************************************************)
(* Taking and releasing a mutex.                                           *)
(***************************************************************************)

\* A thread that takes a free mutex holds it, and nobody else holds more or less.
LEMMA HeldTake ==
  ASSUME LockTypes, NEW t \in Thread, NEW m \in Mutex, Free(t, m),
         holder' = [holder EXCEPT ![t[1]][m] = t[2]]
  PROVE  /\ Held(t)' = Held(t) \cup {m}
         /\ \A w \in Thread : w # t => Held(w)' = Held(w)
         /\ holder' \in [Replica -> [Mutex -> ThreadName \cup {Nil}]]
<1>1. t[1] \in Replica /\ t[2] \in ThreadName /\ t = <<t[1], t[2]>>
  BY DEF Thread
<1>2. holder \in [Replica -> [Mutex -> ThreadName \cup {Nil}]]
  BY DEF LockTypes
<1>3. \A q \in Replica, x \in Mutex :
        holder'[q][x] = IF q = t[1] /\ x = m THEN t[2] ELSE holder[q][x]
  BY <1>1, <1>2
<1>4. Held(t)' = Held(t) \cup {m}
  BY <1>1, <1>3 DEF Held
<1>5. ASSUME NEW w \in Thread, w # t PROVE Held(w)' = Held(w)
  <2>1. w[1] \in Replica /\ w[2] \in ThreadName /\ w = <<w[1], w[2]>>
    BY DEF Thread
  <2>2. w[1] # t[1] \/ w[2] # t[2]
    BY <1>1, <1>5, <2>1
  <2>3. holder[t[1]][m] \in {Nil, t[2]} /\ Nil \notin ThreadName
    BY NilAssumption DEF Free
  <2> QED
    BY <1>1, <1>3, <2>1, <2>2, <2>3 DEF Held
<1> QED
  BY <1>1, <1>2, <1>4, <1>5

\* A thread that releases a mutex only it can hold, holds one less.
LEMMA HeldDrop ==
  ASSUME LockTypes, NEW t \in Thread, NEW m \in Mutex,
         \A w \in Thread : w # t => m \notin Held(w) \/ w[1] # t[1],
         holder' = [holder EXCEPT ![t[1]][m] = Nil]
  PROVE  /\ Held(t)' = Held(t) \ {m}
         /\ \A w \in Thread : w # t => Held(w)' = Held(w)
         /\ holder' \in [Replica -> [Mutex -> ThreadName \cup {Nil}]]
<1>1. t[1] \in Replica /\ t[2] \in ThreadName /\ t = <<t[1], t[2]>>
  BY DEF Thread
<1>2. holder \in [Replica -> [Mutex -> ThreadName \cup {Nil}]]
  BY DEF LockTypes
<1>3. \A q \in Replica, x \in Mutex :
        holder'[q][x] = IF q = t[1] /\ x = m THEN Nil ELSE holder[q][x]
  BY <1>1, <1>2
<1>4. Held(t)' = Held(t) \ {m}
  BY <1>1, <1>3, NilAssumption DEF Held
<1>5. ASSUME NEW w \in Thread, w # t PROVE Held(w)' = Held(w)
  <2>1. w[1] \in Replica /\ w[2] \in ThreadName
    BY DEF Thread
  <2> QED
    BY <1>1, <1>3, <1>5, <2>1, NilAssumption DEF Held
<1> QED
  BY <1>1, <1>2, <1>4, <1>5

\* One thread at most holds a mutex.
LEMMA HeldOnce ==
  ASSUME NEW t \in Thread, NEW w \in Thread, t # w, t[1] = w[1],
         NEW m \in Held(t)
  PROVE  m \notin Held(w) /\ m \in Mutex /\ holder[t[1]][m] = t[2]
<1>1. t = <<t[1], t[2]>> /\ w = <<w[1], w[2]>>
  BY DEF Thread
<1> QED
  BY <1>1 DEF Held

-----------------------------------------------------------------------------
(***************************************************************************)
(* Every step preserves the stages.                                        *)
(***************************************************************************)

\* Whether a replica recovers is a truth value, and its view a number.
LEMMA Bools == LockTypes => \A r \in Replica : Recovers(r) \in BOOLEAN /\ viewNum[r] \in Nat
BY DEF LockTypes, Recovers

\* A step after which every thread has stood still, executed an instruction, or entered
\* a stage, preserves the stages.
LEMMA Stepping ==
  ASSUME LockTypes, StageInv,
         \A r \in Replica : Recovers(r)' = Recovers(r) /\ viewNum'[r] = viewNum[r],
         \A w \in Thread :
           \/ prog'[w] = prog[w] /\ Held(w)' = Held(w)
           \/ /\ prog[w] # <<>>
              /\ \E p : /\ Move(Head(prog[w]), Held(w), p, Held(w)')
                        /\ prog'[w] = p \o Tail(prog[w])
           \/ Stage(w, prog'[w], Held(w)', Recovers(w[1]), viewNum[w[1]])
  PROVE  StageInv'
<1>1. ASSUME NEW w \in Thread
      PROVE  Stage(w, prog'[w], Held(w)', Recovers(w[1])', viewNum'[w[1]])
  <2>1. w[1] \in Replica
    BY DEF Thread
  <2>2. /\ Recovers(w[1]) \in BOOLEAN /\ Recovers(w[1])' = Recovers(w[1])
        /\ viewNum'[w[1]] = viewNum[w[1]]
    BY <2>1, Bools
  <2>3. Stage(w, prog[w], Held(w), Recovers(w[1]), viewNum[w[1]])
    BY DEF StageInv
  <2>4. Stage(w, prog'[w], Held(w)', Recovers(w[1]), viewNum[w[1]])
    <3> DEFINE b == Recovers(w[1])
    <3> HIDE DEF b
    <3>1. CASE prog'[w] = prog[w] /\ Held(w)' = Held(w)
      BY <2>3, <3>1
    <3>2. CASE /\ prog[w] # <<>>
               /\ \E p : /\ Move(Head(prog[w]), Held(w), p, Held(w)')
                         /\ prog'[w] = p \o Tail(prog[w])
      <4>1. PICK p : /\ Move(Head(prog[w]), Held(w), p, Held(w)')
                     /\ prog'[w] = p \o Tail(prog[w])
        BY <3>2
      <4> QED
        BY <2>2, <2>3, <3>2, <4>1, StageNext
    <3> QED
      BY <3>1, <3>2
  <2> QED
    BY <2>2, <2>4
<1> QED
  BY <1>1 DEF StageInv

\* A stage without a mutex of the clients is not a call.
LEMMA NoCallStage ==
  ASSUME NEW t \in Thread, NEW s, NEW h, NEW rec \in BOOLEAN, NEW v,
         Stage(t, s, h, rec, v), h \cap ClientMutex = {}
  PROVE  ~(s # <<>> /\ Head(s).op = "called")
<1>1. SUFFICES ASSUME s # <<>>, Head(s).op = "called" PROVE FALSE
  OBVIOUS
<1> QED
  BY <1>1, NotCalled

\* A thread that holds no mutex of the clients makes no call.
LEMMA NoCall ==
  ASSUME LockTypes, StageInv, NEW t \in Thread
  PROVE  /\ Held(t) \cap ClientMutex = {} =>
              ~NextIs(t, "called") /\ ~NextIs(t, "call")
         /\ prog[t] = <<>> => Held(t) = {}
<1>1. t[1] \in Replica /\ Recovers(t[1]) \in BOOLEAN
  BY Bools DEF Thread
<1>2. Stage(t, prog[t], Held(t), Recovers(t[1]), viewNum[t[1]])
  BY DEF StageInv
<1> QED
  BY <1>1, <1>2, NotCalled, StageFits DEF NextIs

\* The head of a program, seen from the invariant.
LEMMA HeadFits ==
  ASSUME LockTypes, StageInv, NEW t \in Thread, prog[t] # <<>>
  PROVE  /\ t[1] \in Replica /\ t[2] \in ThreadName
         /\ Fits(t[1], t[2], Head(prog[t]), Held(t), Recovers(t[1]), viewNum[t[1]])
         /\ Recovers(t[1]) => t[2] \in {"t1", "hbt"}
         /\ Head(prog[t]).op \in {"call", "called"} =>
              Head(prog[t]).m \in Held(t) /\ Held(t) \cap ClientMutex = {Head(prog[t]).m}
         /\ Head(prog[t]).op \notin {"call", "called"} => Held(t) \cap ClientMutex = {}
         /\ Head(prog[t]).op \in CallOp => Head(prog[t]).m \in ClientMutex
<1>1. t[1] \in Replica /\ t[2] \in ThreadName /\ Recovers(t[1]) \in BOOLEAN
  BY Bools DEF Thread
<1>2. Stage(t, prog[t], Held(t), Recovers(t[1]), viewNum[t[1]])
  BY DEF StageInv
<1> DEFINE s == prog[t]
           h == Held(t)
           rec == Recovers(t[1])
           v == viewNum[t[1]]
<1>3. s # <<>> /\ rec \in BOOLEAN /\ Stage(t, s, h, rec, v)
  BY <1>1, <1>2
<1> HIDE DEF s, h, rec, v
<1>4. /\ Fits(t[1], t[2], Head(s), h, rec, v)
      /\ rec => t[2] \in {"t1", "hbt"}
  BY <1>3, StageFits
<1>5. /\ Head(s).op \in {"call", "called"} =>
           Head(s).m \in h /\ h \cap ClientMutex = {Head(s).m}
      /\ Head(s).op \notin {"call", "called"} => h \cap ClientMutex = {}
      /\ Head(s).op \in CallOp => Head(s).m \in ClientMutex
  BY <1>3, NotCalled
<1> QED
  BY <1>1, <1>4, <1>5 DEF s, h, rec, v

\* Who is called.
LEMMA Called ==
  ASSUME LockTypes, StageInv, NEW t \in Thread, prog[t] # <<>>
  PROVE  /\ Head(prog[t]).op = "called" => Head(prog[t]).b \in Others(t[1])
         /\ Head(prog[t]).op = "call" =>
              \/ Head(prog[t]).b \in Others(t[1])
              \/ Head(prog[t]).b = Nil /\ Head(prog[t]).h = "prepareOk" /\ t[2] = "ppit"
         /\ t[2] = "t2" => Head(prog[t]).op \notin CallOp
<1> DEFINE i == Head(prog[t])
           h == Held(t)
           rec == Recovers(t[1])
           v == viewNum[t[1]]
<1>1. Fits(t[1], t[2], i, h, rec, v)
  BY HeadFits
<1> HIDE DEF i, h, rec, v
<1>2. i.op \in CallOp => CallFits(t[1], t[2], i, h, rec, v)
  BY <1>1 DEF Fits
<1>3. i.op \in CallOp =>
        (\E a, m : i \in Call(t[1], a, m)) \/ (i \in OkCall /\ t[2] = "ppit")
  BY <1>2 DEF CallFits
<1>4. i.op \in {"call", "called"} /\ (\E a, m : i \in Call(t[1], a, m)) => i.b \in Others(t[1])
  BY DEF Call
<1>5. i \in OkCall => i.op # "called" /\ i.b = Nil /\ i.h = "prepareOk"
  BY DEF OkCall
<1>6. i.op \in CallOp => t[2] # "t2"
  BY <1>2 DEF CallFits
<1> QED
  BY <1>3, <1>4, <1>5, <1>6 DEF CallOp, i

\* A step of a thread that neither makes nor ends a call leaves t2 to its calls.
LEMMA ServePlain ==
  ASSUME LockTypes, ServeInv, NEW t \in Thread, NEW q, alive[t[1]],
         t[2] = "t2" => prog[t] # <<>>, ~NextIs(t, "called"),
         prog' = [prog EXCEPT ![t] = q], ~NextIs(t, "called")',
         UNCHANGED <<serving, alive>>
  PROVE  ServeInv'
<1>1. \A w \in Thread : w # t => prog'[w] = prog[w]
  BY DEF LockTypes
<1>2. \A w \in Thread : w # t => NextIs(w, "called")' = NextIs(w, "called")
  BY <1>1 DEF NextIs
<1>3. \A w \in Thread : ~alive'[w[1]] => prog'[w] = <<>>
  BY <1>1 DEF ServeInv, Thread
<1>4. ASSUME NEW b \in Replica
      PROVE  /\ serving'[b] = Nil => prog'[<<b, "t2">>] = <<>>
             /\ serving'[b] # Nil => alive'[b]
  <2>1. <<b, "t2">> \in Thread
    BY DEF Thread, ThreadName
  <2> QED
    BY <1>1, <2>1 DEF ServeInv
<1>6. ASSUME NEW b \in Replica, NEW w \in Thread, serving'[b] = w, alive'[w[1]]
      PROVE  NextIs(w, "called")' /\ Head(prog'[w]).b = b
  BY <1>1, <1>2, <1>6 DEF ServeInv
<1>5. \A w \in Thread : NextIs(w, "called")' => serving'[Head(prog'[w]).b] = w
  BY <1>1, <1>2 DEF ServeInv
<1> QED
  BY <1>3, <1>4, <1>5, <1>6 DEF ServeInv

\* A step of t alone, under the same state: the rest follows.
LEMMA StepAlone ==
  ASSUME LocksInv, NEW t \in Thread, prog[t] # <<>>, NEW p,
         prog' = [prog EXCEPT ![t] = p \o Tail(@)],
         Move(Head(prog[t]), Held(t), p, Held(t)'),
         \A w \in Thread : w # t => Held(w)' = Held(w),
         UNCHANGED <<status, viewNum, alive, recoveryReqQ>>,
         priId' \in [Replica -> Replica], prepReqQ' \in [Replica -> Nat],
         serving' \in [Replica -> Thread \cup {Nil}],
         holder' \in [Replica -> [Mutex -> ThreadName \cup {Nil}]]
  PROVE  /\ LockTypes' /\ StageInv' /\ alive[t[1]]
         /\ \A w \in Thread : w # t => prog'[w] = prog[w]
         /\ /\ ~NextIs(t, "called") /\ Held(t)' \cap ClientMutex = {}
            /\ UNCHANGED serving
            => ServeInv'
<1>1. LockTypes'
  BY DEF LocksInv, LockTypes
<1>2. LockTypes /\ StageInv /\ ServeInv
  BY DEF LocksInv
<1>3. \A w \in Thread : prog'[w] = IF w = t THEN p \o Tail(prog[t]) ELSE prog[w]
  BY <1>2 DEF LockTypes
<1>4. \A r \in Replica : Recovers(r)' = Recovers(r) /\ viewNum'[r] = viewNum[r]
  BY DEF Recovers
<1>5. StageInv'
  <2>1. ASSUME NEW w \in Thread
        PROVE  \/ prog'[w] = prog[w] /\ Held(w)' = Held(w)
               \/ /\ prog[w] # <<>>
                  /\ \E x : /\ Move(Head(prog[w]), Held(w), x, Held(w)')
                            /\ prog'[w] = x \o Tail(prog[w])
    <3>1. CASE w = t
      BY <1>3, <3>1
    <3>2. CASE w # t
      BY <1>3, <3>2
    <3> QED
      BY <3>1, <3>2
  <2> QED
    BY <1>2, <1>4, <2>1, Stepping
<1>6. alive[t[1]]
  BY <1>2 DEF ServeInv
<1>7. ASSUME ~NextIs(t, "called"), Held(t)' \cap ClientMutex = {}, UNCHANGED serving
      PROVE  ServeInv'
  <2>1. ~NextIs(t, "called")'
    <3>1. Stage(t, prog'[t], Held(t)', Recovers(t[1])', viewNum'[t[1]])
      BY <1>5 DEF StageInv
    <3>2. Recovers(t[1])' \in BOOLEAN
      BY DEF Recovers
    <3> DEFINE s == prog'[t]
               h == Held(t)'
               rec == Recovers(t[1])'
               v == viewNum'[t[1]]
    <3>3. Stage(t, s, h, rec, v) /\ rec \in BOOLEAN /\ h \cap ClientMutex = {}
      BY <1>7, <3>1, <3>2
    <3> HIDE DEF s, h, rec, v
    <3>4. ~(s # <<>> /\ Head(s).op = "called")
      BY <3>3, NoCallStage
    <3> QED
      BY ONLY <3>4 DEF NextIs, s
  <2> DEFINE q == p \o Tail(prog[t])
  <2>2. prog' = [prog EXCEPT ![t] = q]
    OBVIOUS
  <2> HIDE DEF q
  <2> QED
    BY <1>2, <1>6, <1>7, <2>1, <2>2, ServePlain
<1> QED
  BY <1>1, <1>3, <1>5, <1>6, <1>7

\* What the next instruction of a thread is about.
LEMMA HeadAbout ==
  ASSUME LockTypes, StageInv, NEW t \in Thread, prog[t] # <<>>, NEW i, i = Head(prog[t])
  PROVE  /\ i.op = "lock" => i.m \in {"kvMem", "rep", "viewChange"}
         /\ i.op \in CallOp => i.m \in ClientMutex
         /\ i.op = "unlock" => i.m \in Held(t) \/ (i.m = "viewChange" /\ t[2] = "hbt")
         /\ i.op \in {"setPri", "setNormal"} => t[2] = "hbt" /\ i.to \in Replica
         /\ i.op = "nextView" => t[2] = "hbt" /\ ~Recovers(t[1])
         /\ "viewChange" \in Held(t) => t[2] = "hbt"
         /\ i.op \in {"call", "called"} =>
              i.m \in Held(t) /\ Held(t) \cap ClientMutex = {i.m}
         /\ i.op \notin {"call", "called"} => Held(t) \cap ClientMutex = {}
<1> DEFINE h == Held(t)
           rec == Recovers(t[1])
           v == viewNum[t[1]]
<1>1. /\ Fits(t[1], t[2], i, h, rec, v)
      /\ i.op \in CallOp => i.m \in ClientMutex
      /\ i.op \in {"call", "called"} => i.m \in h /\ h \cap ClientMutex = {i.m}
      /\ i.op \notin {"call", "called"} => h \cap ClientMutex = {}
  BY HeadFits
<1> HIDE DEF h, rec, v
<1>2. /\ i.op = "lock" => LockFits(t[2], i, h)
      /\ i.op = "unlock" => i.m \in h \/ (i.m = "viewChange" /\ t[2] = "hbt")
      /\ i.op \in {"setPri", "setNormal"} => t[2] = "hbt" /\ i.to \in Replica
      /\ i.op = "nextView" => t[2] = "hbt" /\ ~rec
      /\ "viewChange" \in h => t[2] = "hbt"
  BY <1>1 DEF Fits
<1>3. LockFits(t[2], i, h) => i.m \in {"kvMem", "rep", "viewChange"}
  BY DEF LockFits
<1> QED
  BY <1>1, <1>2, <1>3 DEF h, rec, v

-----------------------------------------------------------------------------
(***************************************************************************)
(* The instructions.                                                       *)
(***************************************************************************)

\* Locking a mutex, without a failed assertion.
LEMMA LockStep ==
  ASSUME LocksInv, NEW t \in Thread, NextIs(t, "lock"), Free(t, Head(prog[t]).m),
         holder' = [holder EXCEPT ![t[1]][Head(prog[t]).m] = t[2]], Then(t, <<>>),
         UNCHANGED <<serving, alive, StateVars, QueueVars>>
  PROVE  LocksInv'
<1> DEFINE i == Head(prog[t])
<1>1. LockTypes /\ StageInv /\ ServeInv /\ prog[t] # <<>> /\ i.op = "lock"
  BY DEF LocksInv, NextIs
<1>2. i.m \in {"kvMem", "rep", "viewChange"} /\ Held(t) \cap ClientMutex = {}
  BY <1>1, HeadAbout
<1>3. i.m \in Mutex /\ i.m \notin ClientMutex
  BY <1>2 DEF Mutex, ClientMutex
<1>4. /\ Held(t)' = Held(t) \cup {i.m}
      /\ \A w \in Thread : w # t => Held(w)' = Held(w)
      /\ holder' \in [Replica -> [Mutex -> ThreadName \cup {Nil}]]
  BY <1>1, <1>3, HeldTake
<1>5. Move(i, Held(t), <<>>, Held(t)')
  BY <1>1, <1>4 DEF Move
<1>6. /\ prog' = [prog EXCEPT ![t] = <<>> \o Tail(@)]
      /\ UNCHANGED <<serving, alive, status, priId, viewNum, prepReqQ, recoveryReqQ>>
      /\ ~NextIs(t, "called")
      /\ priId' \in [Replica -> Replica] /\ prepReqQ' \in [Replica -> Nat]
      /\ serving' \in [Replica -> Thread \cup {Nil}]
  BY <1>1 DEF Then, StateVars, QueueVars, NextIs, LockTypes
<1>7. Held(t)' \cap ClientMutex = {}
  BY <1>2, <1>3, <1>4
<1> HIDE DEF i
<1>8. LockTypes' /\ StageInv' /\ ServeInv'
  BY <1>1, <1>4, <1>5, <1>6, <1>7, StepAlone DEF i
<1> QED
  BY <1>8 DEF LocksInv

\* Unlocking one.
LEMMA ReleaseStep ==
  ASSUME LocksInv, NEW t \in Thread, Release(t)
  PROVE  LocksInv'
<1> DEFINE i == Head(prog[t])
<1>1. LockTypes /\ StageInv /\ ServeInv /\ prog[t] # <<>> /\ i.op = "unlock"
  BY DEF LocksInv, NextIs, Release
<1>2. /\ i.m \in Held(t) \/ (i.m = "viewChange" /\ t[2] = "hbt")
      /\ Held(t) \cap ClientMutex = {}
  BY <1>1, HeadAbout
<1>3. i.m \in Mutex
  BY <1>2 DEF Mutex, Held
<1>4. \A w \in Thread : w # t => i.m \notin Held(w) \/ w[1] # t[1]
  <2>1. SUFFICES ASSUME NEW w \in Thread, w # t, i.m \in Held(w), w[1] = t[1] PROVE FALSE
    OBVIOUS
  <2>2. i.m \notin Held(t)
    BY <2>1, HeldOnce
  <2>3. prog[w] # <<>>
    BY <1>1, <2>1, NoCall
  <2>4. w[2] = "hbt"
    BY <1>1, <1>2, <2>1, <2>2, <2>3, HeadAbout
  <2> QED
    BY <1>2, <2>1, <2>2, <2>4 DEF Thread
<1>5. /\ Held(t)' = Held(t) \ {i.m}
      /\ \A w \in Thread : w # t => Held(w)' = Held(w)
      /\ holder' \in [Replica -> [Mutex -> ThreadName \cup {Nil}]]
  BY <1>1, <1>3, <1>4, HeldDrop DEF Release
<1>6. Move(i, Held(t), <<>>, Held(t)')
  BY <1>1, <1>5 DEF Move
<1>7. /\ prog' = [prog EXCEPT ![t] = <<>> \o Tail(@)]
      /\ UNCHANGED <<serving, alive, status, priId, viewNum, prepReqQ, recoveryReqQ>>
      /\ ~NextIs(t, "called")
      /\ priId' \in [Replica -> Replica] /\ prepReqQ' \in [Replica -> Nat]
      /\ serving' \in [Replica -> Thread \cup {Nil}]
  BY <1>1 DEF Then, StateVars, QueueVars, NextIs, LockTypes, Release
<1>8. Held(t)' \cap ClientMutex = {}
  BY <1>2, <1>5
<1> HIDE DEF i
<1>9. LockTypes' /\ StageInv' /\ ServeInv'
  BY <1>1, <1>5, <1>6, <1>7, <1>8, StepAlone DEF i
<1> QED
  BY <1>9 DEF LocksInv

\* Going on without a change of a lock: passing a mutex, one of several
\* continuations, the look at the status, the choice of a primary.
LEMMA GoOnStep ==
  ASSUME LocksInv, NEW t \in Thread, NEW p, prog[t] # <<>>,
         Head(prog[t]).op \notin {"call", "called"},
         Move(Head(prog[t]), Held(t), p, Held(t)),
         Then(t, p), priId' \in [Replica -> Replica],
         UNCHANGED <<holder, serving, status, viewNum, QueueVars, alive>>
  PROVE  LocksInv'
<1>1. LockTypes /\ StageInv /\ ServeInv
  BY DEF LocksInv
<1>2. \A w \in Thread : Held(w)' = Held(w)
  BY DEF Held
<1>3. Held(t)' \cap ClientMutex = {}
  BY <1>1, <1>2, HeadAbout
<1>4. /\ prog' = [prog EXCEPT ![t] = p \o Tail(@)]
      /\ UNCHANGED <<serving, alive, status, viewNum, prepReqQ, recoveryReqQ>>
      /\ ~NextIs(t, "called") /\ prepReqQ' \in [Replica -> Nat]
      /\ serving' \in [Replica -> Thread \cup {Nil}]
      /\ holder' \in [Replica -> [Mutex -> ThreadName \cup {Nil}]]
  BY <1>1 DEF Then, QueueVars, NextIs, LockTypes
<1>5. LockTypes' /\ StageInv' /\ ServeInv'
  BY <1>1, <1>2, <1>3, <1>4, StepAlone
<1> QED
  BY <1>5 DEF LocksInv

\* Passing a mutex, choosing a continuation and checking the status preserve the
\* invariant.
LEMMA SmallSteps ==
  ASSUME LocksInv, NEW t \in Thread
  PROVE  /\ PassThrough(t) => LocksInv'
         /\ GoOn(t) => LocksInv'
         /\ CheckNormal(t) => LocksInv'
<1> DEFINE i == Head(prog[t])
<1>1. priId \in [Replica -> Replica]
  BY DEF LocksInv, LockTypes
<1>2. ASSUME PassThrough(t) PROVE LocksInv'
  <2>1. Move(i, Held(t), <<>>, Held(t))
    BY <1>2 DEF Move, PassThrough, NextIs
  <2> QED
    BY <1>1, <1>2, <2>1, GoOnStep DEF PassThrough, NextIs, StateVars
<1>3. ASSUME GoOn(t) PROVE LocksInv'
  <2>1. PICK p \in i.progs : Then(t, p)
    BY <1>3 DEF GoOn
  <2>2. Move(i, Held(t), p, Held(t))
    BY <1>3 DEF Move, GoOn, NextIs
  <2> QED
    BY <1>1, <1>3, <2>1, <2>2, GoOnStep DEF GoOn, NextIs, StateVars
<1>4. ASSUME CheckNormal(t) PROVE LocksInv'
  <2> DEFINE p == IF status[t[1]] = "NORMAL" THEN i.body ELSE <<>>
  <2>1. Move(i, Held(t), p, Held(t)) /\ Then(t, p)
    BY <1>4 DEF Move, CheckNormal, NextIs
  <2> HIDE DEF p
  <2> QED
    BY <1>1, <1>4, <2>1, GoOnStep DEF CheckNormal, NextIs, StateVars
<1> QED
  BY <1>2, <1>3, <1>4

\* What follows a call is a sequence, so that the call can be taken off its front.
LEMMA TailFrame ==
  ASSUME NEW X, NEW f \in Seq(X), NEW T, NEW c \in Seq(T), c # <<>>,
         Head(c).op \notin CallOp, NEW s, s = f \o c, Head(s).op \in CallOp
  PROVE  \E S : Tail(s) \in Seq(S)
<1>1. f # <<>>
  BY EmptyFront
<1>2. Tail(s) = Tail(f) \o c /\ Tail(f) \in Seq(X)
  BY <1>1, FrontStep
<1>3. Tail(f) \in Seq(X \cup T) /\ c \in Seq(X \cup T)
  BY <1>2
<1>4. Tail(f) \o c \in Seq(X \cup T)
  BY <1>3, ConcatProperties
<1> QED
  BY <1>2, <1>4

\* The release of a mutex, as a sequence.
LEMMA UnlockSeq ==
  ASSUME NEW m
  PROVE  /\ Unlock(m) \in Seq({[op |-> "unlock", m |-> m]})
         /\ Unlock(m) # <<>> /\ Head(Unlock(m)).op \notin CallOp
BY DEF Unlock, CallOp

\* Two instructions, as a sequence.
LEMMA TwoSeq ==
  ASSUME NEW a, NEW b, NEW x, NEW y, x = <<a>>, y = <<b>>, a.op \notin CallOp
  PROVE  x \o y \in Seq({a, b}) /\ x \o y # <<>> /\ Head(x \o y).op \notin CallOp
<1> DEFINE U == {a, b}
<1>1. x \in Seq(U) /\ y \in Seq(U)
  OBVIOUS
<1> HIDE DEF U
<1>2. x \o y \in Seq(U)
  BY <1>1, ConcatProperties
<1>3. x \o y # <<>> /\ Head(x \o y) = a
  BY <1>1, First
<1> QED
  BY <1>2, <1>3 DEF U

\* What follows a call in a program is a sequence.
LEMMA CallTail ==
  ASSUME NEW t \in Thread, NEW s, NEW h, NEW rec \in BOOLEAN, NEW v,
         Stage(t, s, h, rec, v), s # <<>>, Head(s).op \in CallOp
  PROVE  \E S : Tail(s) \in Seq(S)
<1> DEFINE r == t[1]
<1>1. r \in Replica /\ t[2] \in ThreadName
  BY DEF Thread
<1> HIDE DEF r
<1>2. ASSUME NEW X, s \in Seq(X), Len(s) = 1 PROVE \E S : Tail(s) \in Seq(S)
  BY <1>2
<1>4. ASSUME T1Stage(r, s, h) PROVE \E S : Tail(s) \in Seq(S)
  <2> DEFINE c == Unlock("rep") \o Unlock("kvMem")
             u1 == [op |-> "unlock", m |-> "rep"]
             u2 == [op |-> "unlock", m |-> "kvMem"]
  <2>1. Unlock("rep") = <<u1>> /\ Unlock("kvMem") = <<u2>> /\ u1.op \notin CallOp
    BY DEF Unlock, CallOp
  <2> HIDE DEF u1, u2
  <2>2. c \in Seq({u1, u2}) /\ c # <<>> /\ Head(c).op \notin CallOp
    BY <2>1, TwoSeq
  <2> HIDE DEF c
  <2>3. s # clientUpdate(r) /\ s # Tail(clientUpdate(r)) /\ s # Unlock("kvMem")
    <3>1. Head(clientUpdate(r)).op = "lock" /\ Head(Tail(clientUpdate(r))).op = "lock"
      BY <1>1, ClientUpdateShape
    <3>2. Head(Unlock("kvMem")).op \notin CallOp
      BY UnlockSeq
    <3> QED
      BY <3>1, <3>2 DEF CallOp
  <2>4. PICK f \in Seq(InUpdate(r)) : s = f \o c
    BY <1>4, <2>3 DEF T1Stage, c
  <2> QED
    BY <2>2, <2>4, TailFrame
<1>5. ASSUME PpitStage(s, h) PROVE \E S : Tail(s) \in Seq(S)
  <2>1. s # processPrepInfo
    <3>1. SUFFICES Head(processPrepInfo).op = "lock"
      BY DEF CallOp
    <3> QED
      BY DEF processPrepInfo, Lock, Unlock, Invoke
  <2>2. PICK f \in Seq(OkCall) : s = f \o Unlock("rep")
    BY <1>5, <2>1 DEF PpitStage
  <2> QED
    BY <2>2, UnlockSeq, TailFrame
<1>6. ASSUME PrrtStage(r, s, h) PROVE \E S : Tail(s) \in Seq(S)
  <2>1. ASSUME NEW to, s = processRecoveryReqInt(to), to \in Others(r) PROVE FALSE
    <3>1. SUFFICES Head(processRecoveryReqInt(to)).op = "pass"
      BY <2>1 DEF CallOp
    <3>2. to # Nil /\ {to} # {}
      BY <1>1, <2>1, ReplicaNotNil
    <3> QED
      BY <3>2 DEF processRecoveryReqInt, Pass, Invoke
  <2> QED
    BY <1>2, <1>6, <2>1 DEF PrrtStage
<1>7. ASSUME T2Stage(s, h) PROVE \E S : Tail(s) \in Seq(S)
  <2>1. s # Pass("viewChange")
    BY DEF Pass, CallOp
  <2>2. s # processCommit
    <3>1. SUFFICES Head(processCommit).op = "lock"
      BY DEF CallOp
    <3> QED
      BY DEF processCommit, Lock, Callbacks, Either, Unlock
  <2>3. PICK f \in Seq(InCommit) : s = f \o Unlock("rep")
    BY <1>7, <2>1, <2>2 DEF T2Stage
  <2> QED
    BY <2>3, UnlockSeq, TailFrame
<1>8. ASSUME RecoverStage(r, s, h) PROVE \E S : Tail(s) \in Seq(S)
  <2> DEFINE c == Adopt(r) \o Unlock("rep")
             a == [op |-> "either", progs |-> {SetNormal(p) : p \in Others(r)}]
             u == [op |-> "unlock", m |-> "rep"]
  <2>1. Adopt(r) = <<a>> /\ Unlock("rep") = <<u>> /\ a.op \notin CallOp
    BY DEF Adopt, Either, Unlock, CallOp
  <2> HIDE DEF a, u
  <2>2. c \in Seq({a, u}) /\ c # <<>> /\ Head(c).op \notin CallOp
    BY <2>1, TwoSeq
  <2> HIDE DEF c
  <2>3. s # recover(r)
    BY <1>1, RecoverShape DEF CallOp
  <2>4. ASSUME NEW p, s = SetNormal(p) \o Unlock("rep") PROVE FALSE
    <3> DEFINE n == [op |-> "setNormal", to |-> p]
    <3>1. SetNormal(p) = <<n>> /\ n.op \notin CallOp
      BY DEF SetNormal, CallOp
    <3> HIDE DEF n
    <3> QED
      BY <2>1, <2>4, <3>1, TwoSeq
  <2>5. PICK f \in Seq(InRecover(r)) : s = f \o c
    BY <1>8, <2>3, <2>4 DEF RecoverStage, c
  <2> QED
    BY <2>2, <2>5, TailFrame
<1>9. ASSUME HbtStage(r, s, h, v) PROVE \E S : Tail(s) \in Seq(S)
  <2>1. s # changeView(r) /\ s # Tail(changeView(r)) /\ s # Unlock("rep")
    <3>1. Head(changeView(r)).op = "lock" /\ Head(Tail(changeView(r))).op = "nextView"
      BY <1>1, ChangeViewShape
    <3>2. Head(Unlock("rep")).op \notin CallOp
      BY UnlockSeq
    <3> QED
      BY <3>1, <3>2 DEF CallOp
  <2>2. CASE s \in Seq(Call(r, "commit", "repClient")) /\ Len(s) = 1
    BY <1>2, <2>2
  <2>3. CASE \E f \in Seq(InChange(r)) : s = f \o Unlock("rep")
    BY <2>3, UnlockSeq, TailFrame
  <2> QED
    BY <1>9, <2>1, <2>2, <2>3 DEF HbtStage
<1> QED
  BY <1>4, <1>5, <1>6, <1>7, <1>8, <1>9 DEF Stage, r

\* A call of t takes the place of its invocation.
LEMMA CallAtFront ==
  ASSUME LocksInv, NEW t \in Thread, prog[t] # <<>>, Head(prog[t]).op \in CallOp, NEW j
  PROVE  LET s == <<j>> \o Tail(prog[t]) IN s # <<>> /\ Head(s) = j
<1>1. t[1] \in Replica /\ Recovers(t[1]) \in BOOLEAN
  BY Bools DEF Thread, LocksInv
<1>2. Stage(t, prog[t], Held(t), Recovers(t[1]), viewNum[t[1]])
  BY DEF StageInv, LocksInv
<1>3. PICK S : Tail(prog[t]) \in Seq(S)
  BY <1>1, <1>2, CallTail
<1> DEFINE c == Tail(prog[t])
<1>4. c \in Seq(S)
  BY <1>3
<1> HIDE DEF c
<1>5. <<j>> \o c # <<>> /\ Head(<<j>> \o c) = j
  BY <1>4, First
<1> QED
  BY <1>5 DEF c

-----------------------------------------------------------------------------
(***************************************************************************)
(* Calls.                                                                  *)
(***************************************************************************)

\* A call is one of a broadcast or the PrepareOk of ppit, and is made under a mutex of
\* the clients.
LEMMA CallKind ==
  ASSUME LockTypes, StageInv, NEW t \in Thread, prog[t] # <<>>, NEW i, i = Head(prog[t]),
         i.op \in CallOp
  PROVE  /\ (\E a, m : i \in Call(t[1], a, m)) \/ i \in OkCall
         /\ i.m \in ClientMutex /\ i.m \in Mutex
         /\ \A x : [i EXCEPT !.op = "call", !.b = x].op = "call"
         /\ [i EXCEPT !.op = "called"].op = "called"
         /\ [i EXCEPT !.op = "called"].b = i.b
<1> DEFINE h == Held(t)
           rec == Recovers(t[1])
           v == viewNum[t[1]]
<1>1. Fits(t[1], t[2], i, h, rec, v) /\ i.m \in ClientMutex
  BY HeadFits
<1> HIDE DEF h, rec, v
<1>2. CallFits(t[1], t[2], i, h, rec, v)
  BY <1>1 DEF Fits
<1>3. (\E a, m : i \in Call(t[1], a, m)) \/ i \in OkCall
  BY <1>2 DEF CallFits
<1>4. /\ \A x : [i EXCEPT !.op = "call", !.b = x].op = "call"
      /\ [i EXCEPT !.op = "called"].op = "called"
      /\ [i EXCEPT !.op = "called"].b = i.b
  <2>1. CASE \E a, m : i \in Call(t[1], a, m)
    BY <2>1 DEF Call
  <2>2. CASE i \in OkCall
    BY <2>2 DEF OkCall
  <2> QED
    BY <1>3, <2>1, <2>2
<1> QED
  BY <1>1, <1>3, <1>4 DEF ClientMutex, Mutex

\* A thread of a broadcast takes the mutex of the clients.
LEMMA InvokeStep ==
  ASSUME LocksInv, NEW t \in Thread, NextCall(t)
  PROVE  LocksInv'
<1> DEFINE i == Head(prog[t])
<1>1. LockTypes /\ StageInv /\ ServeInv /\ prog[t] # <<>> /\ i.op = "invoke"
  BY DEF LocksInv, NextIs, NextCall
<1>2. PICK b \in i.to : Then(t, <<[i EXCEPT !.op = "call", !.b = b]>>)
  BY DEF NextCall
<1> DEFINE j == [i EXCEPT !.op = "call", !.b = b]
<1>3. i.m \in Mutex /\ j.op = "call"
  BY <1>1, CallKind DEF CallOp
<1>4. /\ Held(t)' = Held(t) \cup {i.m}
      /\ \A w \in Thread : w # t => Held(w)' = Held(w)
      /\ holder' \in [Replica -> [Mutex -> ThreadName \cup {Nil}]]
  BY <1>1, <1>3, HeldTake DEF NextCall
<1>5. Move(i, Held(t), <<j>>, Held(t)')
  BY <1>1, <1>2, <1>4 DEF Move
<1>6. /\ prog' = [prog EXCEPT ![t] = <<j>> \o Tail(@)]
      /\ UNCHANGED <<serving, alive, status, priId, viewNum, prepReqQ, recoveryReqQ>>
      /\ ~NextIs(t, "called")
      /\ priId' \in [Replica -> Replica] /\ prepReqQ' \in [Replica -> Nat]
      /\ serving' \in [Replica -> Thread \cup {Nil}]
  BY <1>1, <1>2 DEF Then, StateVars, QueueVars, NextIs, LockTypes, NextCall
<1> HIDE DEF i, j
<1>7. LockTypes' /\ StageInv' /\ alive[t[1]]
  BY <1>1, <1>4, <1>5, <1>6, StepAlone DEF i
<1> DEFINE q == <<j>> \o Tail(prog[t])
<1>8. prog' = [prog EXCEPT ![t] = q] /\ prog'[t] = q
  BY <1>1, <1>6 DEF LockTypes
<1>9. q # <<>> /\ Head(q) = j
  BY <1>1, CallAtFront DEF i, CallOp
<1> HIDE DEF q
<1>10. ~NextIs(t, "called")'
  BY <1>3, <1>8, <1>9 DEF NextIs
<1>11. ServeInv'
  BY <1>1, <1>6, <1>7, <1>8, <1>10, ServePlain
<1> QED
  BY <1>7, <1>11 DEF LocksInv

\* The end of a call.
LEMMA EndHeld ==
  ASSUME LocksInv, NEW t \in Thread, prog[t] # <<>>, Head(prog[t]).op \in {"call", "called"},
         EndCall(t)
  PROVE  /\ \A w \in Thread : w # t => Held(w)' = Held(w) /\ prog'[w] = prog[w]
         /\ holder' \in [Replica -> [Mutex -> ThreadName \cup {Nil}]]
         /\ DOMAIN prog' = Thread
         /\ \E p : Move(Head(prog[t]), Held(t), p, Held(t)') /\ prog'[t] = p \o Tail(prog[t])
         /\ Held(t)' \cap ClientMutex = {}
<1> DEFINE i == Head(prog[t])
           p == Invoke(i.h, i.m, i.to \ {i.b})
<1>1. LockTypes /\ StageInv /\ ServeInv
  BY DEF LocksInv
<1>2. i.m \in Held(t) /\ i.m \in Mutex /\ Held(t) \cap ClientMutex = {i.m}
  BY <1>1, HeadAbout DEF Held
<1>3. \A w \in Thread : w # t => i.m \notin Held(w) \/ w[1] # t[1]
  BY <1>2, HeldOnce
<1>4. /\ Held(t)' = Held(t) \ {i.m}
      /\ \A w \in Thread : w # t => Held(w)' = Held(w)
      /\ holder' \in [Replica -> [Mutex -> ThreadName \cup {Nil}]]
  BY <1>1, <1>2, <1>3, HeldDrop DEF EndCall
<1>5. Move(i, Held(t), p, Held(t)')
  BY <1>4 DEF Move
<1>6. /\ DOMAIN prog' = Thread
      /\ \A w \in Thread : prog'[w] = IF w = t THEN p \o Tail(prog[t]) ELSE prog[w]
  BY <1>1 DEF EndCall, Returned, LockTypes
<1>7. Held(t)' \cap ClientMutex = {}
  BY <1>2, <1>4
<1> HIDE DEF p
<1> QED
  BY <1>4, <1>5, <1>6, <1>7

\* The end of a call preserves the stages.
LEMMA EndStages ==
  ASSUME LocksInv, NEW t \in Thread, prog[t] # <<>>, Head(prog[t]).op \in {"call", "called"},
         EndCall(t), LockTypes', viewNum' = viewNum,
         \A r \in Replica : Recovers(r)' = Recovers(r)
  PROVE  StageInv' /\ ~NextIs(t, "called")'
<1>1. LockTypes /\ StageInv
  BY DEF LocksInv
<1>2. /\ \A w \in Thread : w # t => Held(w)' = Held(w) /\ prog'[w] = prog[w]
      /\ \E p : Move(Head(prog[t]), Held(t), p, Held(t)') /\ prog'[t] = p \o Tail(prog[t])
      /\ Held(t)' \cap ClientMutex = {}
  BY EndHeld
<1>3. ASSUME NEW w \in Thread
      PROVE  \/ prog'[w] = prog[w] /\ Held(w)' = Held(w)
             \/ /\ prog[w] # <<>>
                /\ \E x : /\ Move(Head(prog[w]), Held(w), x, Held(w)')
                          /\ prog'[w] = x \o Tail(prog[w])
  BY <1>2
<1>4. StageInv'
  BY <1>1, <1>3, Stepping
<1>5. Stage(t, prog'[t], Held(t)', Recovers(t[1])', viewNum'[t[1]])
  BY <1>4 DEF StageInv
<1>6. Recovers(t[1])' \in BOOLEAN
  BY DEF Recovers
<1> DEFINE s == prog'[t]
           h == Held(t)'
           rec == Recovers(t[1])'
           v == viewNum'[t[1]]
<1>7. Stage(t, s, h, rec, v) /\ rec \in BOOLEAN /\ h \cap ClientMutex = {}
  BY <1>2, <1>5, <1>6
<1> HIDE DEF s, h, rec, v
<1>8. ~(s # <<>> /\ Head(s).op = "called")
  BY <1>7, NoCallStage
<1> QED
  BY <1>4, <1>8 DEF NextIs, s

\* What a handler does before it waits, and when it waits.
LEMMA EffectTypes ==
  ASSUME LocksInv, NEW b \in Replica, NEW r \in Others(b), NEW h, Effect(b, h, r)
  PROVE  /\ status' \in [Replica -> {"NORMAL", "VIEW_CHANGE", "RECOVERING"}]
         /\ prepReqQ' \in [Replica -> Nat]
         /\ DOMAIN recoveryReqQ' = Replica
         /\ \A x \in Replica : recoveryReqQ'[x] \in Seq(Others(x))
         /\ \A x \in Replica : Recovers(x)' = Recovers(x)
<1>1. LockTypes
  BY DEF LocksInv
<1>2. /\ status' \in [Replica -> {"NORMAL", "VIEW_CHANGE", "RECOVERING"}]
      /\ \A x \in Replica : Recovers(x)' = Recovers(x)
  BY <1>1 DEF Effect, LockTypes, Recovers
<1>3. prepReqQ' \in [Replica -> Nat]
  BY <1>1 DEF Effect, LockTypes
<1>4. /\ DOMAIN recoveryReqQ' = Replica
      /\ \A x \in Replica : recoveryReqQ'[x] \in Seq(Others(x))
  <2>1. recoveryReqQ[b] \in Seq(Others(b)) /\ DOMAIN recoveryReqQ = Replica
    BY <1>1 DEF LockTypes
  <2>2. Append(recoveryReqQ[b], r) \in Seq(Others(b))
    BY <2>1
  <2> QED
    BY <1>1, <2>1, <2>2 DEF Effect, LockTypes
<1> QED
  BY <1>2, <1>3, <1>4

\* A handler that waits is processCommit, or passes _viewChangeMutex; a recovering
\* replica runs neither.
LEMMA HandlerWaits ==
  ASSUME LocksInv, NEW b \in Replica, NEW r \in Others(b), NEW h, Handler(b, h, r) # <<>>
  PROVE  /\ Handler(b, h, r) \in {processCommit, Pass("viewChange")}
         /\ ~Recovers(b) /\ h # "prepareOk"
         /\ Handler(b, h, r) = processCommit => h = "commit" /\ status[b] = "NORMAL"
<1> DEFINE stale == viewNum[b] > viewNum[r] \/ status[b] = "RECOVERING"
<1>1. CASE h = "commit" /\ status[b] = "NORMAL"
  BY <1>1 DEF Handler, processCommit, Recovers
<1>2. CASE h \in {"doViewChange", "startView"} /\ ~stale
  <2>1. Handler(b, h, r) = Pass("viewChange")
    BY <1>2 DEF Handler
  <2>2. Pass("viewChange") # processCommit
    <3>1. Head(processCommit).op = "lock"
      BY DEF processCommit, Lock, Callbacks, Either, Unlock
    <3>2. Head(Pass("viewChange")).op = "pass"
      BY DEF Pass
    <3> QED
      BY <3>1, <3>2
  <2> QED
    BY <1>2, <2>1, <2>2 DEF Recovers
<1>3. CASE /\ ~(h = "commit" /\ status[b] = "NORMAL")
           /\ ~(h \in {"doViewChange", "startView"} /\ ~stale)
  <2>1. Handler(b, h, r) = <<>>
    BY <1>3 DEF Handler, processPrepareOk, processStartViewChange
  <2> QED
    BY <2>1
<1> QED
  BY <1>1, <1>2, <1>3

\* A call that fails, or whose handler does not wait.
LEMMA FailStep ==
  ASSUME LocksInv, NEW t \in Thread, NextIs(t, "call"), EndCall(t),
         UNCHANGED <<serving, priId, viewNum, alive>>,
         status' \in [Replica -> {"NORMAL", "VIEW_CHANGE", "RECOVERING"}],
         prepReqQ' \in [Replica -> Nat],
         DOMAIN recoveryReqQ' = Replica,
         \A x \in Replica : recoveryReqQ'[x] \in Seq(Others(x)),
         \A x \in Replica : Recovers(x)' = Recovers(x)
  PROVE  LocksInv'
<1>1. LockTypes /\ StageInv /\ ServeInv
  BY DEF LocksInv
<1>2. prog[t] # <<>> /\ Head(prog[t]).op = "call"
  BY DEF NextIs
<1>3. LockTypes'
  BY <1>1, <1>2, EndHeld DEF LockTypes
<1>4. StageInv' /\ ~NextIs(t, "called")'
  BY <1>2, <1>3, EndStages
<1>5. prog' = [prog EXCEPT ![t] = Returned(t)]
  BY DEF EndCall
<1>6. alive[t[1]] /\ ~NextIs(t, "called")
  BY <1>1, <1>2 DEF ServeInv, NextIs
<1>7. ServeInv'
  BY <1>1, <1>2, <1>4, <1>5, <1>6, ServePlain
<1> QED
  BY <1>3, <1>4, <1>7 DEF LocksInv

\* t2 of b takes the call of t.
LEMMA TakenStep ==
  ASSUME LocksInv, NEW t \in Thread, NextIs(t, "call"), NEW b \in Others(t[1]),
         NEW hh, hh = Head(prog[t]).h, b = Callee(t),
         alive[b], serving[b] = Nil, Effect(b, hh, t[1]), NEW H, H = Handler(b, hh, t[1]),
         H # <<>>, serving' = [serving EXCEPT ![b] = t],
         prog' = [prog EXCEPT ![<<b, "t2">>] = H,
                              ![t] = <<[Head(@) EXCEPT !.op = "called"]>> \o Tail(@)],
         UNCHANGED <<holder, priId, viewNum, alive>>
  PROVE  LocksInv'
<1> DEFINE i == Head(prog[t])
           j == [i EXCEPT !.op = "called"]
           z == <<b, "t2">>
<1>1. LockTypes /\ StageInv /\ ServeInv /\ prog[t] # <<>> /\ i.op = "call"
  BY DEF LocksInv, NextIs
<1>2. t[1] \in Replica /\ b \in Replica /\ t[1] \in Others(b) /\ z \in Thread /\ t # z
  BY DEF Thread, Others, ThreadName
<1>3. /\ H \in {processCommit, Pass("viewChange")} /\ ~Recovers(b) /\ i.h # "prepareOk"
  BY <1>2, HandlerWaits
<1>4. i.b = b /\ j.op = "called" /\ j.b = b
  <2>1. i.b \in Others(t[1])
    BY <1>1, <1>3, Called
  <2>2. i.b # Nil
    BY <1>2, <2>1, ReplicaNotNil
  <2>3. j.op = "called" /\ j.b = i.b
    BY <1>1, CallKind DEF CallOp
  <2> QED
    BY <2>2, <2>3 DEF Callee
<1>5. \A w \in Thread : prog'[w] = IF w = t THEN <<j>> \o Tail(prog[t])
                                   ELSE IF w = z THEN H ELSE prog[w]
  BY <1>1, <1>2 DEF LockTypes
<1>6. \A w \in Thread : Held(w)' = Held(w)
  BY DEF Held
<1>7. \A x \in Replica : Recovers(x)' = Recovers(x) /\ viewNum'[x] = viewNum[x]
  BY <1>2, EffectTypes
<1>8. LockTypes'
  <2>1. DOMAIN prog' = Thread /\ serving' \in [Replica -> Thread \cup {Nil}]
    BY <1>1, <1>2 DEF LockTypes
  <2> QED
    BY <1>1, <1>2, <2>1, EffectTypes DEF LockTypes
<1>9. prog[z] = <<>> /\ Held(z) = {}
  BY <1>1, <1>2, NoCall DEF ServeInv
<1>10. Stage(z, H, {}, Recovers(b), viewNum[b])
  BY <1>3 DEF Stage, T2Stage
<1> HIDE DEF i, j, z
<1>11. Move(i, Held(t), <<j>>, Held(t)')
  BY <1>1, <1>3, <1>6 DEF Move, i, j
<1>12. StageInv'
  <2>1. ASSUME NEW w \in Thread
        PROVE  \/ prog'[w] = prog[w] /\ Held(w)' = Held(w)
               \/ /\ prog[w] # <<>>
                  /\ \E x : /\ Move(Head(prog[w]), Held(w), x, Held(w)')
                            /\ prog'[w] = x \o Tail(prog[w])
               \/ Stage(w, prog'[w], Held(w)', Recovers(w[1]), viewNum[w[1]])
    <3>1. CASE w = t
      BY <1>1, <1>5, <1>11, <3>1 DEF i
    <3>2. CASE w = z
      BY <1>2, <1>5, <1>6, <1>9, <1>10, <3>2 DEF z
    <3>3. CASE w # t /\ w # z
      BY <1>5, <1>6, <3>3
    <3> QED
      BY <3>1, <3>2, <3>3
  <2> QED
    BY <1>1, <1>7, <2>1, Stepping
<1>13. prog'[t] # <<>> /\ Head(prog'[t]) = j
  BY <1>1, <1>5, CallAtFront DEF i, CallOp
<1>14. ~(H # <<>> /\ Head(H).op = "called")
  BY <1>1, <1>2, <1>10, Bools, NoCallStage
<1>15. ServeInv'
  <2>1. \A w \in Thread : ~alive'[w[1]] => prog'[w] = <<>>
    <3>1. alive[t[1]] /\ alive[z[1]]
      BY <1>1 DEF ServeInv, z
    <3>2. \A w \in Thread : ~alive[w[1]] => prog[w] = <<>>
      BY <1>1 DEF ServeInv
    <3>3. alive' = alive
      OBVIOUS
    <3> QED
      BY ONLY <1>5, <3>1, <3>2, <3>3
  <2>2. ASSUME NEW x \in Replica
        PROVE  /\ serving'[x] = Nil => prog'[<<x, "t2">>] = <<>>
               /\ serving'[x] # Nil => alive'[x]
    <3>1. serving'[x] = IF x = b THEN t ELSE serving[x]
      BY <1>1, <1>2 DEF LockTypes
    <3>2. <<x, "t2">> \in Thread /\ (x # b => <<x, "t2">> # z)
      BY DEF Thread, ThreadName, z
    <3>3. prog[<<x, "t2">>] # <<>> => serving[x] # Nil
      BY <1>1 DEF ServeInv
    <3> QED
      <4>1. /\ serving[x] = Nil => prog[<<x, "t2">>] = <<>>
            /\ serving[x] # Nil => alive[x]
        BY <1>1 DEF ServeInv
      <4>2. t # Nil /\ alive' = alive
        BY NilAssumption
      <4>3. x # b => prog'[<<x, "t2">>] = IF <<x, "t2">> = t THEN <<j>> \o Tail(prog[t])
                                          ELSE prog[<<x, "t2">>]
        BY <1>5, <3>2
      <4> QED
        BY ONLY <1>1, <3>1, <3>3, <4>1, <4>2, <4>3, alive[b]
  <2>3. ASSUME NEW x \in Replica, NEW w \in Thread, serving'[x] = w, alive'[w[1]]
        PROVE  NextIs(w, "called")' /\ Head(prog'[w]).b = x
    <3>1. serving'[x] = IF x = b THEN t ELSE serving[x]
      BY <1>1, <1>2 DEF LockTypes
    <3>2. CASE x = b
      <4>1. w = t /\ prog'[w] # <<>> /\ Head(prog'[w]).op = "called" /\ Head(prog'[w]).b = x
        BY <1>4, <1>13, <2>3, <3>1, <3>2
      <4> QED
        BY ONLY <4>1 DEF NextIs
    <3>3. CASE x # b
      <4>1. prog[w] # <<>> /\ Head(prog[w]).op = "called" /\ Head(prog[w]).b = x
        BY <1>1, <2>3, <3>1, <3>3 DEF ServeInv, NextIs
      <4>2. prog'[w] = prog[w]
        BY <1>1, <1>5, <1>9, <4>1 DEF i
      <4> QED
        BY <4>1, <4>2 DEF NextIs
    <3> QED
      BY <3>2, <3>3
  <2>4. ASSUME NEW w \in Thread, NextIs(w, "called")'
        PROVE  serving'[Head(prog'[w]).b] = w
    <3>1. prog'[w] # <<>> /\ Head(prog'[w]).op = "called"
      BY <2>4 DEF NextIs
    <3>2. CASE w = t
      BY <1>1, <1>2, <1>4, <1>13, <3>2 DEF LockTypes, j
    <3>3. CASE w # t
      <4>1. w # z
        BY <1>5, <1>14, <3>1, <3>3
      <4>2. prog'[w] = prog[w]
        BY <1>5, <3>3, <4>1
      <4>3. serving[Head(prog[w]).b] = w /\ Head(prog[w]).b \in Replica
        BY <1>1, <3>1, <4>2, Called DEF ServeInv, NextIs, Others
      <4>4. Head(prog[w]).b # b
        BY <4>3, NilAssumption
      <4> QED
        BY <1>1, <4>2, <4>3, <4>4 DEF LockTypes
    <3> QED
      BY <3>2, <3>3
  <2> QED
    BY <2>1, <2>2, <2>3, <2>4 DEF ServeInv
<1> QED
  BY <1>8, <1>12, <1>15 DEF LocksInv

\* Making a call preserves the invariant, whether it fails, returns at once or is taken.
LEMMA MakeCallStep ==
  ASSUME LocksInv, NEW t \in Thread, MakeCall(t)
  PROVE  LocksInv'
<1> DEFINE b == Callee(t)
           h == Head(prog[t]).h
<1>1. LockTypes /\ StageInv /\ prog[t] # <<>> /\ Head(prog[t]).op = "call" /\ NextIs(t, "call")
  BY DEF LocksInv, NextIs, MakeCall
<1>2. b # t[1] => b \in Others(t[1])
  <2>1. t[1] \in Replica
    BY DEF Thread
  <2> QED
    BY <1>1, <2>1, Called DEF Callee, LockTypes, Others
<1>3. UNCHANGED <<priId, viewNum, alive>>
  BY DEF MakeCall
<1>4. CASE EndCall(t) /\ UNCHANGED <<serving, status, QueueVars>>
  <2>1. /\ status' \in [Replica -> {"NORMAL", "VIEW_CHANGE", "RECOVERING"}]
        /\ prepReqQ' \in [Replica -> Nat]
        /\ DOMAIN recoveryReqQ' = Replica
        /\ \A x \in Replica : recoveryReqQ'[x] \in Seq(Others(x))
    BY <1>1, <1>4 DEF LockTypes, QueueVars
  <2>2. \A x \in Replica : Recovers(x)' = Recovers(x)
    BY <1>4 DEF Recovers
  <2> QED
    BY <1>1, <1>3, <1>4, <2>1, <2>2, FailStep
<1>5. CASE b # t[1] /\ Effect(b, h, t[1]) /\ EndCall(t) /\ UNCHANGED serving
  <2>1. b \in Replica /\ t[1] \in Others(b)
    BY <1>2, <1>5 DEF Thread, Others
  <2> HIDE DEF b, h
  <2>2. /\ status' \in [Replica -> {"NORMAL", "VIEW_CHANGE", "RECOVERING"}]
        /\ prepReqQ' \in [Replica -> Nat]
        /\ DOMAIN recoveryReqQ' = Replica
        /\ \A x \in Replica : recoveryReqQ'[x] \in Seq(Others(x))
        /\ \A x \in Replica : Recovers(x)' = Recovers(x)
    BY <1>5, <2>1, EffectTypes
  <2> QED
    BY <1>1, <1>3, <1>5, <2>2, FailStep
<1>6. CASE /\ b # t[1] /\ alive[b] /\ serving[b] = Nil /\ Effect(b, h, t[1])
           /\ Handler(b, h, t[1]) # <<>>
           /\ serving' = [serving EXCEPT ![b] = t]
           /\ prog' = [prog EXCEPT ![<<b, "t2">>] = Handler(b, h, t[1]),
                        ![t] = <<[Head(@) EXCEPT !.op = "called"]>> \o Tail(@)]
           /\ UNCHANGED holder
  BY <1>1, <1>2, <1>3, <1>6, TakenStep
<1> QED
  BY <1>4, <1>5, <1>6 DEF MakeCall

\* The handler has run: t2 is idle again.
LEMMA ReturnStep ==
  ASSUME LocksInv, NEW b \in Replica, Return(b)
  PROVE  LocksInv'
<1> DEFINE z == <<b, "t2">>
<1>1. LockTypes /\ StageInv /\ ServeInv
  BY DEF LocksInv
<1>0. PICK t \in Thread : t = serving[b]
  BY <1>1 DEF Return, LockTypes
<1>2. t \in Thread /\ t # Nil /\ alive[b] /\ prog[z] = <<>> /\ z \in Thread
  BY <1>0, <1>1 DEF Return, Idle, Thread, ThreadName
<1>3. /\ serving' = [serving EXCEPT ![b] = Nil]
      /\ UNCHANGED <<status, priId, viewNum, prepReqQ, recoveryReqQ, alive>>
      /\ IF alive[t[1]] THEN EndCall(t) ELSE UNCHANGED <<holder, prog>>
  BY <1>0 DEF Return, StateVars, QueueVars
<1> HIDE DEF z
<1>4. \A x \in Replica : serving'[x] = IF x = b THEN Nil ELSE serving[x]
  BY <1>1, <1>3 DEF LockTypes
<1>5. serving' \in [Replica -> Thread \cup {Nil}]
  BY <1>1, <1>3 DEF LockTypes
<1>6. \A x \in Replica : Recovers(x)' = Recovers(x)
  BY <1>3 DEF Recovers
<1>7. serving[b] = t /\ alive' = alive
  BY <1>0, <1>3
<1>8. CASE ~alive[t[1]]
  <2>1. prog' = prog /\ holder' = holder
    BY <1>3, <1>8
  <2>2. LockTypes' /\ StageInv'
    <3>1. LockTypes'
      BY <1>1, <1>3, <1>5, <2>1 DEF LockTypes
    <3>2. \A w \in Thread : Held(w)' = Held(w) /\ prog'[w] = prog[w]
      BY <2>1 DEF Held
    <3>3. StageInv'
      BY <1>1, <1>3, <1>6, <3>2, Stepping
    <3> QED
      BY <3>1, <3>3
  <2>3. prog[t] = <<>>
    BY <1>1, <1>2, <1>8 DEF ServeInv
  <2>4. /\ \A w \in Thread : ~alive[w[1]] => prog[w] = <<>>
        /\ \A x \in Replica : /\ serving[x] = Nil => prog[<<x, "t2">>] = <<>>
                              /\ serving[x] # Nil => alive[x]
        /\ \A x \in Replica, w \in Thread :
             serving[x] = w /\ alive[w[1]] => NextIs(w, "called") /\ Head(prog[w]).b = x
    BY <1>1 DEF ServeInv
  <2>5. ASSUME NEW x \in Replica
        PROVE  /\ serving'[x] = Nil => prog'[<<x, "t2">>] = <<>>
               /\ serving'[x] # Nil => alive'[x]
    BY ONLY x \in Replica, <1>2, <1>4, <1>7, <2>1, <2>4 DEF z
  <2>6. ASSUME NEW w \in Thread PROVE NextIs(w, "called")' = NextIs(w, "called")
    BY <2>1 DEF NextIs
  <2>7. ASSUME NEW x \in Replica, NEW w \in Thread, serving'[x] = w, alive'[w[1]]
        PROVE  NextIs(w, "called")' /\ Head(prog'[w]).b = x
    <3>1. w # Nil
      BY NilAssumption
    <3> QED
      BY <1>4, <1>7, <2>1, <2>4, <2>6, <2>7, <3>1
  <2>8. ASSUME NEW w \in Thread, NextIs(w, "called")' PROVE serving'[Head(prog'[w]).b] = w
    <3>1. NextIs(w, "called") /\ prog[w] # <<>> /\ Head(prog[w]).op = "called"
      BY <2>6, <2>8 DEF NextIs
    <3>2. Head(prog[w]).b \in Replica /\ serving[Head(prog[w]).b] = w
      BY <1>1, <3>1, Called DEF ServeInv, Others
    <3>3. Head(prog[w]).b # b
      BY <1>7, <2>3, <3>1, <3>2
    <3> QED
      BY <1>4, <2>1, <3>2, <3>3
  <2> QED
    BY <1>7, <2>1, <2>2, <2>4, <2>5, <2>7, <2>8 DEF ServeInv, LocksInv
<1>9. CASE alive[t[1]]
  <2>1. EndCall(t)
    BY <1>3, <1>9
  <2>2. prog[t] # <<>> /\ Head(prog[t]).op = "called" /\ Head(prog[t]).b = b
    BY <1>1, <1>2, <1>7, <1>9 DEF ServeInv, NextIs
  <2>3. \A w \in Thread : w # t => prog'[w] = prog[w]
    BY <1>2, <2>1, <2>2, EndHeld
  <2>4. LockTypes'
    BY <1>1, <1>2, <1>3, <1>5, <2>1, <2>2, EndHeld DEF LockTypes
  <2>5. StageInv' /\ ~NextIs(t, "called")'
    BY <1>2, <1>3, <1>6, <2>1, <2>2, <2>4, EndStages
  <2>6. b \in Others(t[1]) /\ t[1] # b
    BY <1>1, <1>2, <2>2, Called DEF Others
  <2>7. ASSUME NEW w \in Thread, w # t PROVE NextIs(w, "called")' = NextIs(w, "called")
    BY <2>3, <2>7 DEF NextIs
  <2>8. \A w \in Thread : ~alive'[w[1]] => prog'[w] = <<>>
    <3>1. \A w \in Thread : ~alive[w[1]] => prog[w] = <<>>
      BY <1>1 DEF ServeInv
    <3> QED
      BY ONLY <1>7, <1>9, <2>3, <3>1
  <2>9. ASSUME NEW x \in Replica
        PROVE  /\ serving'[x] = Nil => prog'[<<x, "t2">>] = <<>>
               /\ serving'[x] # Nil => alive'[x]
    <3>1. /\ serving[x] = Nil => prog[<<x, "t2">>] = <<>>
          /\ serving[x] # Nil => alive[x]
      BY <1>1 DEF ServeInv
    <3>2. <<x, "t2">> \in Thread /\ (<<x, "t2">> = t => x # b)
      BY <2>6 DEF Thread, ThreadName
    <3>3. prog'[<<x, "t2">>] # <<>> /\ serving[x] = Nil => <<x, "t2">> = t
      BY <2>3, <3>1, <3>2
    <3>4. serving[x] = Nil => <<x, "t2">> # t
      BY <2>2, <3>1
    <3>5. x = b => prog'[<<x, "t2">>] = <<>>
      BY <1>2, <2>3, <3>2 DEF z
    <3> QED
      BY ONLY x \in Replica, <1>4, <1>7, <3>1, <3>3, <3>4, <3>5
  <2>10. ASSUME NEW x \in Replica, NEW w \in Thread, serving'[x] = w, alive'[w[1]]
         PROVE  NextIs(w, "called")' /\ Head(prog'[w]).b = x
    <3>1. x # b /\ serving[x] = w
      BY <1>4, <2>10, NilAssumption
    <3>2. NextIs(w, "called") /\ Head(prog[w]).b = x
      BY <1>1, <1>7, <2>10, <3>1 DEF ServeInv
    <3>3. w # t
      BY <2>2, <3>1, <3>2
    <3> QED
      BY <2>3, <2>7, <3>2, <3>3
  <2>11. ASSUME NEW w \in Thread, NextIs(w, "called")' PROVE serving'[Head(prog'[w]).b] = w
    <3>1. w # t /\ NextIs(w, "called") /\ prog'[w] = prog[w]
      BY <2>3, <2>5, <2>7, <2>11
    <3>2. Head(prog[w]).b \in Replica /\ serving[Head(prog[w]).b] = w
      BY <1>1, <3>1, Called DEF ServeInv, Others, NextIs
    <3> QED
      BY <1>4, <1>7, <3>1, <3>2
  <2> QED
    BY <2>4, <2>5, <2>8, <2>9, <2>10, <2>11 DEF ServeInv, LocksInv
<1> QED
  BY <1>8, <1>9

-----------------------------------------------------------------------------
(***************************************************************************)
(* The assignments.                                                        *)
(***************************************************************************)

\* After a step that leaves a thread without a mutex of the clients it makes no call.
LEMMA NoCallAfter ==
  ASSUME StageInv', NEW t \in Thread, Held(t)' \cap ClientMutex = {}
  PROVE  ~NextIs(t, "called")'
<1>1. Stage(t, prog'[t], Held(t)', Recovers(t[1])', viewNum'[t[1]])
  BY DEF StageInv
<1>2. Recovers(t[1])' \in BOOLEAN
  BY DEF Recovers
<1> DEFINE s == prog'[t]
           h == Held(t)'
           rec == Recovers(t[1])'
           v == viewNum'[t[1]]
<1>3. Stage(t, s, h, rec, v) /\ rec \in BOOLEAN /\ h \cap ClientMutex = {}
  BY <1>1, <1>2
<1> HIDE DEF s, h, rec, v
<1>4. ~(s # <<>> /\ Head(s).op = "called")
  BY <1>3, NoCallStage
<1> QED
  BY <1>4 DEF NextIs, s

\* The next view, a new primary and the end of a view change or a recovery preserve
\* the invariant.
LEMMA AssignStep ==
  ASSUME LocksInv, NEW t \in Thread, Assign(t)
  PROVE  LocksInv'
<1> DEFINE r == t[1]
           i == Head(prog[t])
<1>1. LockTypes /\ StageInv /\ ServeInv /\ r \in Replica /\ prog[t] # <<>>
  BY DEF LocksInv, Thread, Assign, NextIs
<1>2. /\ Then(t, <<>>) /\ UNCHANGED <<holder, serving, QueueVars, alive>>
      /\ prog' = [prog EXCEPT ![t] = <<>> \o Tail(prog[t])]
  BY DEF Assign, Then
<1>3. \A w \in Thread : prog'[w] = IF w = t THEN <<>> \o Tail(prog[t]) ELSE prog[w]
  BY <1>1, <1>2 DEF LockTypes
<1>4. \A w \in Thread : Held(w)' = Held(w)
  BY <1>2 DEF Held
<1>5. ASSUME i.op \in {"nextView", "setPri", "setNormal"}
      PROVE  Held(t)' \cap ClientMutex = {} /\ ~NextIs(t, "called")
  BY <1>1, <1>4, <1>5, HeadAbout DEF NextIs
<1>6. alive[r]
  BY <1>1 DEF ServeInv
<1>7. ASSUME i.op \in {"nextView", "setPri", "setNormal"}, LockTypes', StageInv'
      PROVE  LocksInv'
  <2>1. ~NextIs(t, "called")'
    BY <1>5, <1>7, NoCallAfter
  <2>2. ServeInv'
    BY <1>1, <1>2, <1>5, <1>6, <1>7, <2>1, ServePlain
  <2> QED
    BY <1>7, <2>2 DEF LocksInv
<1>8. Stage(t, prog[t], Held(t), Recovers(r), viewNum[r]) /\ Recovers(r) \in BOOLEAN
      /\ viewNum[r] \in Nat
  BY <1>1, Bools DEF StageInv
<1>9. \A w \in Thread : w # t /\ t[2] = "hbt" /\ w[1] = r => w[2] # "hbt"
  BY DEF Thread
<1>10. \A w \in Thread : /\ Stage(w, prog[w], Held(w), Recovers(w[1]), viewNum[w[1]])
                         /\ Recovers(w[1]) \in BOOLEAN /\ w[1] \in Replica
  BY <1>1, Bools DEF StageInv, Thread
<1>11. CASE /\ NextIs(t, "nextView")
            /\ viewNum' = [viewNum EXCEPT ![r] = @ + 1]
            /\ status' = [status EXCEPT ![r] = "VIEW_CHANGE"]
            /\ UNCHANGED priId
  <2>1. i.op = "nextView"
    BY <1>11 DEF NextIs
  <2>2. LockTypes'
    BY <1>1, <1>2, <1>11 DEF LockTypes, QueueVars
  <2>3. \A x \in Replica : viewNum'[x] = IF x = r THEN viewNum[r] + 1 ELSE viewNum[x]
    BY <1>1, <1>11 DEF LockTypes
  <2>4. \A x \in Replica : status'[x] = IF x = r THEN "VIEW_CHANGE" ELSE status[x]
    BY <1>1, <1>11 DEF LockTypes
  <2>5. t[2] = "hbt" /\ ~Recovers(r)
    BY <1>1, <2>1, HeadAbout
  <2>6. \A x \in Replica : Recovers(x)' = Recovers(x)
    BY <2>4, <2>5 DEF Recovers
  <2> DEFINE s == prog[t]
             h == Held(t)
             rec == Recovers(r)
             v == viewNum[r]
  <2>7. Stage(t, <<>> \o Tail(s), h, FALSE, v + 1)
    <3>1. Stage(t, s, h, rec, v) /\ rec \in BOOLEAN /\ v \in Nat /\ s # <<>>
          /\ Head(s).op = "nextView"
      BY <1>1, <1>8, <2>1
    <3> HIDE DEF s, h, rec, v, r, i
    <3> QED
      BY <3>1, StageNextView
  <2>8. ASSUME NEW w \in Thread
        PROVE  Stage(w, prog'[w], Held(w)', Recovers(w[1])', viewNum'[w[1]])
    <3>1. CASE w = t
      <4>1. Recovers(w[1])' = FALSE
        BY <1>1, <2>5, <2>6, <3>1 DEF Recovers
      <4>2. viewNum'[w[1]] = v + 1 /\ prog'[w] = <<>> \o Tail(s) /\ Held(w)' = h
        BY <1>1, <1>3, <1>4, <2>3, <3>1
      <4> QED
        BY <2>7, <3>1, <4>1, <4>2
    <3>2. CASE w # t /\ w[1] = r
      <4>1. Recovers(w[1])' = FALSE /\ Recovers(w[1]) = FALSE
        BY <1>1, <2>5, <2>6, <3>2 DEF Recovers
      <4>2. w[2] # "hbt"
        BY <1>9, <2>5, <3>2
      <4>3. Stage(w, prog[w], Held(w), FALSE, viewNum'[w[1]])
        BY <1>10, <4>1, <4>2, StageOther
      <4>4. prog'[w] = prog[w] /\ Held(w)' = Held(w)
        BY <1>3, <1>4, <3>2
      <4> QED
        BY <4>1, <4>3, <4>4
    <3>3. CASE w[1] # r
      <4>1. /\ prog'[w] = prog[w] /\ Held(w)' = Held(w)
            /\ Recovers(w[1])' = Recovers(w[1]) /\ viewNum'[w[1]] = viewNum[w[1]]
        BY <1>3, <1>4, <1>10, <2>3, <2>6, <3>3
      <4> QED
        BY <1>10, <4>1
    <3> QED
      BY <3>1, <3>2, <3>3
  <2>9. StageInv'
    BY <2>8 DEF StageInv
  <2> QED
    BY <1>7, <2>1, <2>2, <2>9
<1>12. CASE /\ NextIs(t, "setPri") /\ priId' = [priId EXCEPT ![r] = i.to]
            /\ UNCHANGED <<status, viewNum>>
  <2>1. i.op = "setPri"
    BY <1>12 DEF NextIs
  <2>2. i.to \in Replica
    BY <1>1, <2>1, HeadAbout
  <2>3. priId' \in [Replica -> Replica]
    BY <1>1, <1>12, <2>2 DEF LockTypes
  <2>4. Move(i, Held(t), <<>>, Held(t))
    BY <2>1 DEF Move
  <2> QED
    BY <1>1, <1>2, <1>12, <2>1, <2>3, <2>4, GoOnStep
<1>13. CASE /\ NextIs(t, "setNormal") /\ priId' = [priId EXCEPT ![r] = i.to]
            /\ status' = [status EXCEPT ![r] = "NORMAL"]
            /\ UNCHANGED viewNum
  <2>1. i.op = "setNormal"
    BY <1>13 DEF NextIs
  <2>2. i.to \in Replica /\ t[2] = "hbt"
    BY <1>1, <2>1, HeadAbout
  <2>3. LockTypes'
    BY <1>1, <1>2, <1>13, <2>2 DEF LockTypes, QueueVars
  <2>4. \A x \in Replica : status'[x] = IF x = r THEN "NORMAL" ELSE status[x]
    BY <1>1, <1>13 DEF LockTypes
  <2>5. \A x \in Replica : Recovers(x)' = IF x = r THEN FALSE ELSE Recovers(x)
    BY <2>4 DEF Recovers
  <2> DEFINE s == prog[t]
             h == Held(t)
             rec == Recovers(r)
             v == viewNum[r]
  <2>6. Stage(t, <<>> \o Tail(s), h, FALSE, v)
    <3>1. Stage(t, s, h, rec, v) /\ rec \in BOOLEAN /\ v \in Nat /\ s # <<>>
          /\ Head(s).op = "setNormal"
      BY <1>1, <1>8, <2>1
    <3> HIDE DEF s, h, rec, v, r, i
    <3> QED
      BY <3>1, StageSetNormal
  <2>7. ASSUME NEW w \in Thread
        PROVE  Stage(w, prog'[w], Held(w)', Recovers(w[1])', viewNum'[w[1]])
    <3>1. CASE w = t
      <4>1. Recovers(w[1])' = FALSE
        BY <1>1, <2>5, <3>1
      <4>2. viewNum'[w[1]] = v /\ prog'[w] = <<>> \o Tail(s) /\ Held(w)' = h
        BY <1>1, <1>3, <1>4, <1>13, <3>1
      <4> QED
        BY <2>6, <3>1, <4>1, <4>2
    <3>2. CASE w # t /\ w[1] = r
      <4>1. Recovers(w[1])' = FALSE
        BY <1>1, <2>5, <3>2
      <4>2. w[2] # "hbt"
        BY <1>9, <2>2, <3>2
      <4>3. Stage(w, prog[w], Held(w), FALSE, viewNum'[w[1]])
        BY <1>10, <4>2, StageOther
      <4>4. prog'[w] = prog[w] /\ Held(w)' = Held(w)
        BY <1>3, <1>4, <3>2
      <4> QED
        BY <4>1, <4>3, <4>4
    <3>3. CASE w[1] # r
      <4>1. /\ prog'[w] = prog[w] /\ Held(w)' = Held(w)
            /\ Recovers(w[1])' = Recovers(w[1]) /\ viewNum'[w[1]] = viewNum[w[1]]
        BY <1>3, <1>4, <1>10, <1>13, <2>5, <3>3
      <4> QED
        BY <1>10, <4>1
    <3> QED
      BY <3>1, <3>2, <3>3
  <2>8. StageInv'
    BY <2>7 DEF StageInv
  <2> QED
    BY <1>7, <2>1, <2>3, <2>8
<1> QED
  BY <1>11, <1>12, <1>13 DEF Assign

-----------------------------------------------------------------------------
(***************************************************************************)
(* A failed assertion, and the start of a program.                         *)
(***************************************************************************)

\* So does the end of a process, which ends the call it was serving.
LEMMA DieStep ==
  ASSUME LocksInv, NEW r \in Replica, Dies(r), UNCHANGED <<StateVars, QueueVars>>
  PROVE  LocksInv'
<1>1. LockTypes /\ StageInv /\ ServeInv
  BY DEF LocksInv
<1>2. UNCHANGED <<status, priId, viewNum, prepReqQ, recoveryReqQ>>
  BY DEF StateVars, QueueVars
<1>3. /\ \A x \in Replica : alive'[x] = IF x = r THEN FALSE ELSE alive[x]
      /\ \A x \in Replica : serving'[x] = IF x = r THEN Nil ELSE serving[x]
      /\ \A w \in Thread : prog'[w] = IF w[1] = r THEN <<>>
                                      ELSE IF Serves(r, w) THEN Returned(w) ELSE prog[w]
  BY <1>1 DEF Dies, LockTypes
<1>4. \A s \in Replica, m \in Mutex :
        holder'[s][m] = IF \/ s = r
                           \/ \E n \in ThreadName : /\ Serves(r, <<s, n>>)
                                                   /\ Head(prog[<<s, n>>]).m = m
                        THEN Nil ELSE holder[s][m]
  BY DEF Dies
<1>5. LockTypes'
  <2>1. holder' \in [Replica -> [Mutex -> ThreadName \cup {Nil}]]
    <3>1. \A s \in Replica, m \in Mutex : holder[s][m] \in ThreadName \cup {Nil}
      BY <1>1 DEF LockTypes
    <3> QED
      BY <3>1 DEF Dies
  <2>2. DOMAIN prog' = Thread
    BY DEF Dies
  <2>3. serving' \in [Replica -> Thread \cup {Nil}] /\ alive' \in [Replica -> BOOLEAN]
    BY <1>1 DEF Dies, LockTypes
  <2> QED
    BY <1>1, <1>2, <2>1, <2>2, <2>3 DEF LockTypes
<1>6. ASSUME NEW u \in Thread, Serves(r, u), u[1] # r
      PROVE  /\ prog[u] # <<>> /\ Head(prog[u]).op = "called" /\ Head(prog[u]).b = r
             /\ Head(prog[u]).m \in Held(u) /\ Held(u) \cap ClientMutex = {Head(prog[u]).m}
  <2>1. prog[u] # <<>> /\ Head(prog[u]).op = "called" /\ Head(prog[u]).b = r
    BY <1>1, <1>6 DEF Serves, ServeInv, NextIs
  <2> QED
    BY <1>1, <2>1, HeadAbout
<1>7. ASSUME NEW w \in Thread, w[1] = r PROVE Held(w)' = {} /\ prog'[w] = <<>>
  <2>1. w[2] \in ThreadName /\ w[2] # Nil
    BY NilAssumption DEF Thread
  <2> QED
    BY <1>3, <1>4, <1>7, <2>1 DEF Held
<1>8. ASSUME NEW w \in Thread, w[1] # r, ~Serves(r, w)
      PROVE  Held(w)' = Held(w) /\ prog'[w] = prog[w]
  <2>1. w[1] \in Replica /\ w[2] \in ThreadName /\ w[2] # Nil /\ w = <<w[1], w[2]>>
    BY NilAssumption DEF Thread
  <2>2. \A m \in Held(w) : holder'[w[1]][m] = holder[w[1]][m]
    <3>1. SUFFICES ASSUME NEW m \in Held(w), NEW n \in ThreadName,
                          Serves(r, <<w[1], n>>), Head(prog[<<w[1], n>>]).m = m
                   PROVE  FALSE
      BY <1>4, <1>8, <2>1 DEF Held
    <3> DEFINE u == <<w[1], n>>
    <3>2. u \in Thread /\ u[1] = w[1] /\ u # w
      BY <1>8, <2>1, <3>1 DEF Thread
    <3>3. m \in Held(u)
      BY <1>6, <1>8, <3>1, <3>2
    <3> HIDE DEF u
    <3> QED
      BY <3>2, <3>3, HeldOnce
  <2>3. Held(w)' = Held(w)
    BY <1>4, <1>8, <2>1, <2>2 DEF Held
  <2> QED
    BY <1>3, <1>8, <2>3
<1>9. ASSUME NEW u \in Thread, u[1] # r, Serves(r, u)
      PROVE  /\ Held(u)' = Held(u) \ {Head(prog[u]).m} /\ prog'[u] = Returned(u)
  <2>1. u[1] \in Replica /\ u[2] \in ThreadName /\ u[2] # Nil /\ u = <<u[1], u[2]>>
    BY NilAssumption DEF Thread
  <2>2. ASSUME NEW n \in ThreadName, Serves(r, <<u[1], n>>) PROVE <<u[1], n>> = u
    BY <1>9, <2>2 DEF Serves
  <2>3. \A m \in Mutex : holder'[u[1]][m] = IF m = Head(prog[u]).m THEN Nil ELSE holder[u[1]][m]
    <3>1. TAKE m \in Mutex
    <3>2. (\E n \in ThreadName : /\ Serves(r, <<u[1], n>>)
                                 /\ Head(prog[<<u[1], n>>]).m = m)
            <=> m = Head(prog[u]).m
      BY <1>9, <2>1, <2>2
    <3> QED
      BY <1>4, <1>9, <2>1, <3>2
  <2> QED
    BY <1>3, <1>9, <2>1, <2>3 DEF Held
<1>10. \A x \in Replica : Recovers(x)' = Recovers(x) /\ viewNum'[x] = viewNum[x]
  BY <1>2 DEF Recovers
<1>11. StageInv'
  <2>1. ASSUME NEW w \in Thread
        PROVE  \/ prog'[w] = prog[w] /\ Held(w)' = Held(w)
               \/ /\ prog[w] # <<>>
                  /\ \E x : /\ Move(Head(prog[w]), Held(w), x, Held(w)')
                            /\ prog'[w] = x \o Tail(prog[w])
               \/ Stage(w, prog'[w], Held(w)', Recovers(w[1]), viewNum[w[1]])
    <3>1. CASE w[1] = r
      <4>1. Recovers(r) \in BOOLEAN
        BY <1>1, Bools
      <4> QED
        BY <1>7, <3>1, <4>1, StageIdle
    <3>2. CASE w[1] # r /\ ~Serves(r, w)
      BY <1>8, <3>2
    <3>3. CASE w[1] # r /\ Serves(r, w)
      <4> DEFINE i == Head(prog[w])
                 p == Invoke(i.h, i.m, i.to \ {i.b})
      <4>1. prog[w] # <<>> /\ i.op = "called"
        BY <1>6, <3>3
      <4>2. Held(w)' = Held(w) \ {i.m} /\ prog'[w] = p \o Tail(prog[w])
        BY <1>9, <3>3 DEF Returned
      <4>3. Move(i, Held(w), p, Held(w)')
        BY <4>1, <4>2 DEF Move
      <4> HIDE DEF p
      <4> QED
        BY <4>1, <4>2, <4>3
    <3> QED
      BY <3>1, <3>2, <3>3
  <2> QED
    BY <1>1, <1>10, <2>1, Stepping
<1>12. ASSUME NEW u \in Thread, u[1] # r, Serves(r, u) PROVE ~NextIs(u, "called")'
  <2>1. Held(u)' \cap ClientMutex = {}
    BY <1>6, <1>9, <1>12
  <2> QED
    BY <1>11, <2>1, NoCallAfter
<1>13. ASSUME NEW w \in Thread, w[1] # r, ~Serves(r, w)
       PROVE  NextIs(w, "called")' = NextIs(w, "called")
  BY <1>8, <1>13 DEF NextIs
<1>14. ASSUME NEW w \in Thread, ~alive'[w[1]] PROVE prog'[w] = <<>>
  <2>1. w[1] \in Replica
    BY DEF Thread
  <2>2. CASE w[1] = r
    BY <1>7, <2>2
  <2>3. CASE w[1] # r
    <3>1. ~alive[w[1]] /\ ~Serves(r, w)
      BY <1>3, <1>14, <2>1, <2>3 DEF Serves
    <3>2. prog[w] = <<>>
      BY <1>1, <3>1 DEF ServeInv
    <3> QED
      BY <1>8, <2>3, <3>1, <3>2
  <2> QED
    BY <2>2, <2>3
<1>15. ASSUME NEW x \in Replica
       PROVE  /\ serving'[x] = Nil => prog'[<<x, "t2">>] = <<>>
              /\ serving'[x] # Nil => alive'[x]
  <2>1. <<x, "t2">> \in Thread /\ <<x, "t2">>[1] = x
    BY DEF Thread, ThreadName
  <2>2. CASE x = r
    BY <1>3, <1>7, <2>1, <2>2
  <2>3. CASE x # r
    <3>1. serving'[x] = serving[x] /\ alive'[x] = alive[x]
      BY <1>3, <2>3
    <3>2. /\ serving[x] = Nil => prog[<<x, "t2">>] = <<>>
          /\ serving[x] # Nil => alive[x]
      BY <1>1 DEF ServeInv
    <3>3. CASE Serves(r, <<x, "t2">>)
      <4>1. prog[<<x, "t2">>] # <<>> /\ Head(prog[<<x, "t2">>]).op = "called"
        BY <1>6, <2>1, <2>3, <3>3
      <4> QED
        BY <3>1, <3>2, <4>1
    <3>4. CASE ~Serves(r, <<x, "t2">>)
      <4>1. prog'[<<x, "t2">>] = prog[<<x, "t2">>]
        BY <1>8, <2>1, <2>3, <3>4
      <4> QED
        BY <3>1, <3>2, <4>1
    <3> QED
      BY <3>3, <3>4
  <2> QED
    BY <2>2, <2>3
<1>16. ASSUME NEW x \in Replica, NEW w \in Thread, serving'[x] = w, alive'[w[1]]
       PROVE  NextIs(w, "called")' /\ Head(prog'[w]).b = x
  <2>1. w # Nil /\ w[1] \in Replica
    BY NilAssumption DEF Thread
  <2>2. x # r /\ w[1] # r /\ serving[x] = w /\ alive[w[1]]
    BY <1>3, <1>16, <2>1
  <2>3. NextIs(w, "called") /\ Head(prog[w]).b = x
    BY <1>1, <2>2 DEF ServeInv
  <2>4. ~Serves(r, w)
    BY <1>6, <2>2, <2>3
  <2> QED
    BY <1>8, <1>13, <2>2, <2>3, <2>4
<1>17. ASSUME NEW w \in Thread, NextIs(w, "called")' PROVE serving'[Head(prog'[w]).b] = w
  <2>1. w[1] # r
    BY <1>7, <1>17 DEF NextIs
  <2>2. ~Serves(r, w)
    BY <1>12, <1>17, <2>1
  <2>3. NextIs(w, "called") /\ prog'[w] = prog[w]
    BY <1>8, <1>13, <1>17, <2>1, <2>2
  <2>4. Head(prog[w]).b \in Replica /\ serving[Head(prog[w]).b] = w
    BY <1>1, <2>3, Called DEF ServeInv, Others, NextIs
  <2>5. Head(prog[w]).b # r
    <3>1. w # Nil /\ alive[w[1]]
      BY <1>1, <2>3, NilAssumption DEF ServeInv, NextIs
    <3> QED
      BY <2>2, <2>4, <3>1 DEF Serves
  <2> QED
    BY <1>3, <2>3, <2>4, <2>5
<1>18. ServeInv'
  BY <1>14, <1>15, <1>16, <1>17 DEF ServeInv
<1> QED
  BY <1>5, <1>11, <1>18 DEF LocksInv

\* Taking a lock preserves the invariant, whether its assertion holds or not.
LEMMA AcquireStep ==
  ASSUME LocksInv, NEW t \in Thread, Acquire(t)
  PROVE  LocksInv'
<1> DEFINE r == t[1]
           i == Head(prog[t])
<1>1. r \in Replica
  BY DEF Thread
<1>2. CASE Dies(r)
  BY <1>1, <1>2, DieStep DEF Acquire
<1>3. CASE /\ holder' = [holder EXCEPT ![r][i.m] = t[2]] /\ Then(t, <<>>)
           /\ UNCHANGED <<serving, alive>>
  BY <1>3, LockStep DEF Acquire
<1> QED
  BY <1>2, <1>3 DEF Acquire

\* A program that is started preserves the invariant if its first stage is one of its
\* thread.
LEMMA BeginStep ==
  ASSUME LocksInv, NEW r \in Replica, NEW n \in ThreadName, Idle(r, n), n # "t2", NEW q,
         Stage(<<r, n>>, q, {}, Recovers(r), viewNum[r]),
         prog' = [prog EXCEPT ![<<r, n>>] = q],
         UNCHANGED <<holder, serving, status, priId, viewNum, alive>>,
         prepReqQ' \in [Replica -> Nat],
         DOMAIN recoveryReqQ' = Replica,
         \A x \in Replica : recoveryReqQ'[x] \in Seq(Others(x))
  PROVE  LocksInv'
<1> DEFINE t == <<r, n>>
<1>1. LockTypes /\ StageInv /\ ServeInv
  BY DEF LocksInv
<1>2. t \in Thread /\ t[1] = r /\ t[2] = n /\ prog[t] = <<>> /\ alive[r]
  BY DEF Thread, Idle
<1>3. LockTypes'
  BY <1>1, <1>2 DEF LockTypes
<1>4. \A x \in Replica : Recovers(x)' = Recovers(x) /\ viewNum'[x] = viewNum[x]
  BY DEF Recovers
<1>5. \A w \in Thread : Held(w)' = Held(w)
  BY DEF Held
<1>6. Held(t) = {}
  BY <1>1, <1>2, NoCall
<1>7. \A w \in Thread : prog'[w] = IF w = t THEN q ELSE prog[w]
  BY <1>1, <1>2 DEF LockTypes
<1> HIDE DEF t
<1>8. StageInv'
  <2>1. ASSUME NEW w \in Thread
        PROVE  \/ prog'[w] = prog[w] /\ Held(w)' = Held(w)
               \/ Stage(w, prog'[w], Held(w)', Recovers(w[1]), viewNum[w[1]])
    <3>1. CASE w = t
      BY <1>2, <1>5, <1>6, <1>7, <3>1 DEF t
    <3>2. CASE w # t
      BY <1>5, <1>7, <3>2
    <3> QED
      BY <3>1, <3>2
  <2> QED
    BY <1>1, <1>4, <2>1, Stepping
<1>9. ~NextIs(t, "called")'
  <2>1. Held(t)' \cap ClientMutex = {}
    BY <1>2, <1>5, <1>6
  <2> QED
    BY <1>2, <1>8, <2>1, NoCallAfter
<1>10. ServeInv'
  <2>1. ~NextIs(t, "called") /\ prog' = [prog EXCEPT ![t] = q]
    BY <1>2 DEF NextIs, t
  <2> QED
    BY <1>1, <1>2, <1>9, <2>1, ServePlain
<1> QED
  BY <1>3, <1>8, <1>10 DEF LocksInv

\* A step that changes the queues only preserves the invariant.
LEMMA Stutter ==
  ASSUME LocksInv, UNCHANGED <<prog, holder, serving, status, priId, viewNum, alive>>,
         prepReqQ' \in [Replica -> Nat], DOMAIN recoveryReqQ' = Replica,
         \A x \in Replica : recoveryReqQ'[x] \in Seq(Others(x))
  PROVE  LocksInv'
<1>1. LockTypes /\ StageInv /\ ServeInv
  BY DEF LocksInv
<1>2. LockTypes'
  BY <1>1 DEF LockTypes
<1>3. /\ \A w \in Thread : Held(w)' = Held(w) /\ prog'[w] = prog[w]
      /\ \A r \in Replica : Recovers(r)' = Recovers(r) /\ viewNum'[r] = viewNum[r]
  BY DEF Held, Recovers
<1>4. StageInv'
  BY <1>1, <1>3, Stepping
<1>5. \A w \in Thread : NextIs(w, "called")' = NextIs(w, "called")
  BY DEF NextIs
<1>6. ServeInv'
  BY <1>1, <1>5 DEF ServeInv
<1> QED
  BY <1>2, <1>4, <1>6 DEF LocksInv

\* A sequence of at most one element is empty or has one.
LEMMA ShortSeq ==
  ASSUME NEW S, NEW x \in Seq(S), Len(x) <= 1
  PROVE  x = <<>> \/ Len(x) = 1
<1>1. CASE x = <<>>
  BY <1>1
<1>2. CASE x # <<>>
  <2>1. Len(x) \in Nat \ {0}
    BY <1>2, EmptySeq
  <2>2. \A n \in Nat \ {0} : n <= 1 => n = 1
    OBVIOUS
  <2> QED
    BY <2>1, <2>2
<1> QED
  BY <1>1, <1>2

\* The programs that a client, hbt and the two queues start.
LEMMA Starts ==
  ASSUME LocksInv, NEW r \in Replica
  PROVE  /\ ClientUpdate(r) => LocksInv'
         /\ HeartBeat(r) => LocksInv'
         /\ ChangeView(r) => LocksInv'
         /\ Recover(r) => LocksInv'
<1>1. LockTypes
  BY DEF LocksInv
<1>2. ASSUME NEW n \in {"t1", "hbt"}, NEW q, Begin(r, n, q),
             Stage(<<r, n>>, q, {}, Recovers(r), viewNum[r])
      PROVE  LocksInv'
  <2>1. /\ prepReqQ' \in [Replica -> Nat] /\ DOMAIN recoveryReqQ' = Replica
        /\ \A x \in Replica : recoveryReqQ'[x] \in Seq(Others(x))
    BY <1>1, <1>2 DEF Begin, LockTypes
  <2>2. n \in ThreadName /\ n # "t2"
    BY DEF ThreadName
  <2> QED
    BY <1>2, <2>1, <2>2, BeginStep DEF Begin
<1>3. ASSUME ClientUpdate(r) PROVE LocksInv'
  <2>1. Stage(<<r, "t1">>, clientUpdate(r), {}, Recovers(r), viewNum[r])
    BY DEF Stage, T1Stage
  <2> QED
    BY <1>2, <1>3, <2>1 DEF ClientUpdate
<1>4. ASSUME HeartBeat(r) PROVE LocksInv'
  <2> DEFINE q == heartBeat(r)
  <2>1. q \in Seq(Call(r, "commit", "repClient")) /\ Len(q) <= 1 /\ ~Recovers(r)
    BY <1>4, InvokeTyped DEF heartBeat, HeartBeat, Recovers
  <2>2. q = <<>> \/ Head(q).op = "invoke"
    BY DEF heartBeat, Invoke
  <2>3. ClientOf(q) = {}
    BY <2>2 DEF ClientOf
  <2>4. Begin(r, "hbt", q)
    BY <1>4 DEF HeartBeat
  <2> HIDE DEF q
  <2>5. q = <<>> \/ Len(q) = 1
    BY <2>1, ShortSeq
  <2>6. Stage(<<r, "hbt">>, q, {}, Recovers(r), viewNum[r])
    BY <2>1, <2>3, <2>5 DEF Stage, HbtStage
  <2> QED
    BY <1>2, <2>4, <2>6
<1>5. ASSUME ChangeView(r) PROVE LocksInv'
  <2>1. Stage(<<r, "hbt">>, changeView(r), {}, Recovers(r), viewNum[r])
    BY <1>5 DEF Stage, HbtStage, ChangeView, Recovers
  <2> QED
    BY <1>2, <1>5, <2>1 DEF ChangeView
<1>6. ASSUME Recover(r) PROVE LocksInv'
  <2>1. Stage(<<r, "hbt">>, recover(r), {}, Recovers(r), viewNum[r])
    BY <1>6 DEF Stage, RecoverStage, Recover, Recovers
  <2> QED
    BY <1>2, <1>6, <2>1 DEF Recover
<1> QED
  BY <1>3, <1>4, <1>5, <1>6

\* ppit and prrt preserve the invariant when they start on the head of their queues.
LEMMA Pops ==
  ASSUME LocksInv, NEW r \in Replica
  PROVE  /\ PopPrepInfo(r) => LocksInv'
         /\ PopRecoveryReq(r) => LocksInv'
<1>1. LockTypes /\ StageInv /\ ServeInv
  BY DEF LocksInv
<1>2. ASSUME PopPrepInfo(r) PROVE LocksInv'
  <2>1. /\ prepReqQ' \in [Replica -> Nat] /\ DOMAIN recoveryReqQ' = Replica
        /\ \A x \in Replica : recoveryReqQ'[x] \in Seq(Others(x))
        /\ UNCHANGED <<holder, serving, status, priId, viewNum, alive>>
        /\ Idle(r, "ppit")
    BY <1>1, <1>2 DEF PopPrepInfo, LockTypes
  <2>2. ASSUME NEW q, prog' = [prog EXCEPT ![<<r, "ppit">>] = q],
               Stage(<<r, "ppit">>, q, {}, Recovers(r), viewNum[r])
        PROVE  LocksInv'
    BY <2>1, <2>2, BeginStep DEF ThreadName
  <2>3. CASE status[r] = "NORMAL" /\ prog' = [prog EXCEPT ![<<r, "ppit">>] = processPrepInfo]
    <3>1. Stage(<<r, "ppit">>, processPrepInfo, {}, Recovers(r), viewNum[r])
      BY <2>3 DEF Stage, PpitStage, Recovers
    <3> QED
      BY <2>2, <2>3, <3>1
  <2>4. CASE prog' = prog
    BY <2>1, <2>4, Stutter
  <2> QED
    BY <1>2, <2>3, <2>4 DEF PopPrepInfo
<1>3. ASSUME PopRecoveryReq(r) PROVE LocksInv'
  <2> DEFINE x == recoveryReqQ[r]
  <2>1. x \in Seq(Others(r)) /\ x # <<>>
    BY <1>1, <1>3 DEF LockTypes, PopRecoveryReq
  <2>2. Head(x) \in Others(r) /\ Tail(x) \in Seq(Others(r))
    BY <2>1
  <2>3. /\ prepReqQ' \in [Replica -> Nat] /\ DOMAIN recoveryReqQ' = Replica
        /\ \A y \in Replica : recoveryReqQ'[y] \in Seq(Others(y))
        /\ UNCHANGED <<holder, serving, status, priId, viewNum, alive>>
        /\ Idle(r, "prrt")
    BY <1>1, <1>3, <2>2 DEF PopRecoveryReq, LockTypes
  <2> DEFINE q == processRecoveryReqInt(Head(x))
  <2>4. Stage(<<r, "prrt">>, q, {}, Recovers(r), viewNum[r])
    BY <1>3, <2>2 DEF Stage, PrrtStage, PopRecoveryReq, Recovers
  <2>5. prog' = [prog EXCEPT ![<<r, "prrt">>] = q]
    BY <1>3 DEF PopRecoveryReq
  <2> HIDE DEF q
  <2> QED
    BY <2>3, <2>4, <2>5, BeginStep DEF ThreadName
<1> QED
  BY <1>2, <1>3

\* Every replica starts with idle threads and free mutexes.
LEMMA LocksInit == Init => LocksInv
<1>1. SUFFICES ASSUME Init PROVE LocksInv
  OBVIOUS
<1>2. \A t \in Thread : prog[t] = <<>>
  BY <1>1 DEF Init
<1>3. LockTypes
  <2>1. status \in [Replica -> {"NORMAL", "VIEW_CHANGE", "RECOVERING"}]
    BY <1>1 DEF Init
  <2>2. 0 \in Replica
    BY LocksAssumption DEF Replica
  <2>3. \A r \in Replica : <<>> \in Seq(Others(r))
    OBVIOUS
  <2> QED
    BY <1>1, <2>1, <2>2, <2>3 DEF Init, LockTypes
<1>4. StageInv
  <2>1. ASSUME NEW t \in Thread
        PROVE  Stage(t, prog[t], Held(t), Recovers(t[1]), viewNum[t[1]])
    <3>1. t[1] \in Replica /\ t[2] \in ThreadName /\ Recovers(t[1]) \in BOOLEAN
      BY DEF Thread, Recovers
    <3>2. Held(t) = {}
      BY <1>1, <3>1, NilAssumption DEF Held, Init
    <3> QED
      BY <1>2, <3>1, <3>2, StageIdle
  <2> QED
    BY <2>1 DEF StageInv
<1>5. ServeInv
  <2>1. \A r \in Replica : serving[r] = Nil /\ <<r, "t2">> \in Thread
    BY <1>1 DEF Init, Thread, ThreadName
  <2> QED
    BY <1>2, <2>1, NilAssumption DEF ServeInv, NextIs
<1> QED
  BY <1>3, <1>4, <1>5 DEF LocksInv

\* Every step of every thread preserves the invariant.
LEMMA LocksNext == LocksInv /\ [Next]_vars => LocksInv'
<1>1. SUFFICES ASSUME LocksInv, [Next]_vars PROVE LocksInv'
  OBVIOUS
<1>2. ASSUME NEW t \in Thread, Step(t) PROVE LocksInv'
  BY <1>1, <1>2, AcquireStep, ReleaseStep, SmallSteps, InvokeStep, MakeCallStep, AssignStep
     DEF Step
<1>3. ASSUME NEW r \in Replica,
             \/ Return(r) \/ PopPrepInfo(r) \/ PopRecoveryReq(r)
             \/ ClientUpdate(r) \/ HeartBeat(r) \/ ChangeView(r) \/ Recover(r)
      PROVE  LocksInv'
  BY <1>1, <1>3, ReturnStep, Pops, Starts
<1>4. CASE UNCHANGED vars
  BY <1>1, <1>4, Stutter DEF vars, LocksInv, LockTypes
<1> QED
  BY <1>1, <1>2, <1>3, <1>4 DEF Next

\* Every state keeps the stages, and t2 works for a call that waits for it.
THEOREM LocksInvariant == Spec => []LocksInv
BY LocksInit, LocksNext, PTL DEF Spec

-----------------------------------------------------------------------------
(***************************************************************************)
(* Who waits for whom.                                                     *)
(***************************************************************************)

\* Only kvMemMutex, _repMutex and _viewChangeMutex are passed.
LEMMA PassMutex ==
  ASSUME LockTypes, StageInv, NEW t \in Thread, prog[t] # <<>>, Head(prog[t]).op = "pass"
  PROVE  Head(prog[t]).m \in {"kvMem", "rep", "viewChange"}
<1> DEFINE i == Head(prog[t])
           h == Held(t)
           rec == Recovers(t[1])
           v == viewNum[t[1]]
<1>1. Fits(t[1], t[2], i, h, rec, v) /\ i.op = "pass"
  BY HeadFits
<1> HIDE DEF i, h, rec, v
<1>2. PassFits(t[2], i, h)
  BY <1>1 DEF Fits
<1>3. i.m \in {"kvMem", "rep", "viewChange"}
  BY <1>2 DEF PassFits
<1> QED
  BY <1>3 DEF i

\* Either t waits for the holder of a mutex, or t2 serves the call of t, or t2 of
\* the callee is busy.
LEMMA Waits ==
  ASSUME LocksInv, NEW t \in Thread, WaitsFor(t) # Nil, NEW u, u = WaitsFor(t),
         NEW i, i = Head(prog[t])
  PROVE  /\ prog[t] # <<>> /\ u \in Thread
         /\ \/ /\ i.op \in {"lock", "pass", "invoke"}
               /\ i.m \in Held(u) /\ i.m \in Mutex /\ u[1] = t[1] /\ u # t
               /\ i.m \notin Held(t)
            \/ /\ i.op = "called" /\ i.b \in Others(t[1]) /\ u = <<i.b, "t2">>
               /\ serving[i.b] = t
            \/ /\ i.op = "call" /\ Callee(t) \in Others(t[1]) /\ u = <<Callee(t), "t2">>
               /\ alive[Callee(t)] /\ serving[Callee(t)] # Nil
<1>1. LockTypes /\ StageInv /\ ServeInv /\ t[1] \in Replica /\ t[2] \in ThreadName
  BY DEF LocksInv, Thread
<1>2. prog[t] # <<>>
  BY DEF WaitsFor
<1>3. CASE i.op \in {"lock", "pass", "invoke"} /\ ~Free(t, i.m)
  <2>1. u = <<t[1], holder[t[1]][i.m]>>
    BY <1>2, <1>3 DEF WaitsFor
  <2>2. i.m \in Mutex
    BY <1>1, <1>2, <1>3, HeadAbout, PassMutex DEF Mutex, CallOp, ClientMutex
  <2>3. holder[t[1]][i.m] \in ThreadName /\ holder[t[1]][i.m] # t[2]
    BY <1>1, <1>3, <2>2 DEF Free, LockTypes
  <2>4. u \in Thread /\ u[1] = t[1] /\ u # t /\ i.m \in Held(u) /\ i.m \notin Held(t)
    BY <1>1, <2>1, <2>2, <2>3 DEF Thread, Held
  <2> QED
    BY <1>2, <1>3, <2>2, <2>4
<1>4. CASE i.op = "called"
  <2>1. i.b \in Others(t[1]) /\ i.b # Nil
    BY <1>1, <1>2, <1>4, Called, ReplicaNotNil
  <2>2. u = <<i.b, "t2">>
    BY <1>2, <1>4, <2>1 DEF WaitsFor, Callee
  <2>3. serving[i.b] = t
    BY <1>1, <1>2, <1>4 DEF ServeInv, NextIs
  <2> QED
    BY <1>2, <1>4, <2>1, <2>2, <2>3 DEF Thread, ThreadName, Others
<1>5. CASE /\ i.op = "call" /\ Callee(t) # t[1]
           /\ alive[Callee(t)] /\ serving[Callee(t)] # Nil
  <2>1. Callee(t) \in Others(t[1])
    BY <1>1, <1>2, <1>5, Called DEF Callee, LockTypes, Others
  <2>2. u = <<Callee(t), "t2">>
    BY <1>2, <1>5 DEF WaitsFor
  <2> QED
    BY <1>2, <1>5, <2>1, <2>2 DEF Thread, ThreadName, Others
<1> QED
  BY <1>2, <1>3, <1>4, <1>5 DEF WaitsFor

\* A thread never hangs because a lock was left behind or a call was forgotten:
\* whoever waits, waits for a thread that has something left to do.
THEOREM NobodyWaits == Spec => []NobodyWaitsForIdle
<1>1. LocksInv => NobodyWaitsForIdle
  <2>1. SUFFICES ASSUME LocksInv, NEW t \in Thread, WaitsFor(t) # Nil,
                        NEW u, u = WaitsFor(t)
                 PROVE  prog[u] # <<>> \/ (u[2] = "t2" /\ serving[u[1]] # Nil)
    BY DEF NobodyWaitsForIdle
  <2> DEFINE i == Head(prog[t])
  <2>2. LockTypes /\ StageInv
    BY <2>1 DEF LocksInv
  <2>3. \A w \in Thread : Held(w) # {} => prog[w] # <<>>
    BY <2>2, NoCall
  <2>4. t # Nil
    BY NilAssumption
  <2> QED
    BY <2>1, <2>3, <2>4, Waits
<1> QED
  BY <1>1, LocksInvariant, PTL

-----------------------------------------------------------------------------
(***************************************************************************)
(* Circles of waits.                                                       *)
(***************************************************************************)

\* A nonempty set of natural numbers has a least element.
LEMMA LeastElement ==
  ASSUME NEW T \in SUBSET Nat, T # {}
  PROVE  \E m \in T : \A n \in T : m <= n
<1>1. IsWellFoundedOn(OpToRel(<, Nat), Nat)
  BY NatLessThanWellFounded
<1>2. \E m \in T : \A n \in T : ~ (<<n, m>> \in OpToRel(<, Nat))
  BY <1>1, WFMin
<1>3. \E m \in T : \A n \in T : ~ (n < m)
  BY <1>2 DEF OpToRel
<1>4. ASSUME NEW m \in T, \A n \in T : ~ (n < m) PROVE \A n \in T : m <= n
  BY <1>4
<1> QED
  BY <1>3, <1>4

\* The threads that wait, and the threads behind t, up to the k-th.
Waiting == {t \in Thread : WaitsFor(t) # Nil}
Behind(f, t, k) ==
  f = [n \in 1 .. k |-> IF n = 1 THEN WaitsFor(t)
                        ELSE IF f[n - 1] \in Waiting THEN WaitsFor(f[n - 1])
                        ELSE Nil]

\* Whom a thread waits for, directly or through others, in k steps.
LEMMA BehindExists == \A t \in Thread, k \in Nat : \E f : Behind(f, t, k)
<1> SUFFICES ASSUME NEW t \in Thread PROVE \A k \in Nat : \E f : Behind(f, t, k)
  OBVIOUS
<1> DEFINE G(x) == IF x \in Waiting THEN WaitsFor(x) ELSE Nil
           a == WaitsFor(t)
<1> HIDE DEF G, a
<1>1. \A f, k : Behind(f, t, k) <=> f = [n \in 1 .. k |-> IF n = 1 THEN a ELSE G(f[n - 1])]
  BY DEF Behind, G, a
<1> DEFINE T == {k \in Nat : ~ \E f : Behind(f, t, k)}
<1>2. SUFFICES ASSUME T # {} PROVE FALSE
  OBVIOUS
<1>3. T \in SUBSET Nat
  OBVIOUS
<1>4. PICK m \in T : \A n \in T : m <= n
  BY <1>2, <1>3, LeastElement
<1>5. CASE m \in {0, 1}
  <2> DEFINE f == [n \in 1 .. m |-> a]
  <2>1. f = [n \in 1 .. m |-> IF n = 1 THEN a ELSE G(f[n - 1])]
    BY <1>5
  <2> QED
    BY <1>1, <1>4, <2>1
<1>6. CASE m \notin {0, 1}
  <2>1. m - 1 \in Nat \ {0} /\ m - 1 \notin T /\ m \in Nat
    BY <1>4, <1>6
  <2>2. PICK f : Behind(f, t, m - 1)
    BY <2>1
  <2> DEFINE g == [n \in 1 .. m |-> IF n = m THEN G(f[m - 1]) ELSE f[n]]
  <2>3. f = [n \in 1 .. m - 1 |-> IF n = 1 THEN a ELSE G(f[n - 1])]
    BY <1>1, <2>2
  <2>4. \A n \in 1 .. m : g[n] = IF n = 1 THEN a ELSE G(g[n - 1])
    <3>1. TAKE n \in 1 .. m
    <3>2. CASE n = m
      <4>1. g[n - 1] = f[m - 1]
        BY <2>1, <3>2
      <4> QED
        BY <1>6, <3>2, <4>1
    <3>3. CASE n # m
      <4>1. n \in 1 .. m - 1 /\ g[n] = f[n]
        BY <2>1, <3>3
      <4>2. n # 1 => g[n - 1] = f[n - 1]
        BY <2>1, <4>1
      <4>3. f[n] = IF n = 1 THEN a ELSE G(f[n - 1])
        BY <2>3, <4>1
      <4> QED
        BY <4>1, <4>2, <4>3
    <3> QED
      BY <3>2, <3>3
  <2>5. g = [n \in 1 .. m |-> IF n = 1 THEN a ELSE G(g[n - 1])]
    BY <2>4
  <2> QED
    BY <1>1, <1>4, <2>5
<1> QED
  BY <1>5, <1>6

\* ... is determined: a thread waits for one other at a time.
LEMMA BehindUnique ==
  ASSUME NEW t, NEW k \in Nat, NEW f, NEW g, Behind(f, t, k), Behind(g, t, k)
  PROVE  f = g
<1> DEFINE G(x) == IF x \in Waiting THEN WaitsFor(x) ELSE Nil
           a == WaitsFor(t)
<1> HIDE DEF G, a
<1>1. /\ f = [n \in 1 .. k |-> IF n = 1 THEN a ELSE G(f[n - 1])]
      /\ g = [n \in 1 .. k |-> IF n = 1 THEN a ELSE G(g[n - 1])]
  BY DEF Behind, G, a
<1> DEFINE T == {n \in 1 .. k : f[n] # g[n]}
<1>2. CASE T # {}
  <2>1. T \in SUBSET Nat
    OBVIOUS
  <2>2. PICK m \in T : \A n \in T : m <= n
    BY <1>2, <2>1, LeastElement
  <2>3. m # 1
    BY <1>1, <2>2
  <2>4. m - 1 \in 1 .. k /\ m - 1 \notin T
    BY <2>2, <2>3
  <2>5. f[m] = G(f[m - 1]) /\ g[m] = G(g[m - 1])
    BY <1>1, <2>2, <2>3
  <2> QED
    BY <2>2, <2>4, <2>5
<1>3. CASE T = {}
  <2>1. \A n \in 1 .. k : f[n] = g[n]
    BY <1>3
  <2> QED
    BY <1>1, <2>1
<1> QED
  BY <1>2, <1>3

\* The threads are finitely many.
LEMMA WaitingFinite == Cardinality(Waiting) \in Nat
<1>1. IsFiniteSet(Replica)
  BY LocksAssumption, FS_Interval DEF Replica
<1>2. IsFiniteSet(ThreadName)
  <2>1. IsFiniteSet({"t1", "t2", "hbt", "ppit", "prrt"})
    <3>1. IsFiniteSet({"t1"})
      BY FS_Singleton
    <3>2. IsFiniteSet({"t1"} \cup {"t2"})
      BY <3>1, FS_AddElement
    <3>3. IsFiniteSet(({"t1"} \cup {"t2"}) \cup {"hbt"})
      BY <3>2, FS_AddElement
    <3>4. IsFiniteSet((({"t1"} \cup {"t2"}) \cup {"hbt"}) \cup {"ppit"})
      BY <3>3, FS_AddElement
    <3>5. IsFiniteSet(((({"t1"} \cup {"t2"}) \cup {"hbt"}) \cup {"ppit"}) \cup {"prrt"})
      BY <3>4, FS_AddElement
    <3>6. {"t1", "t2", "hbt", "ppit", "prrt"}
            = ((({"t1"} \cup {"t2"}) \cup {"hbt"}) \cup {"ppit"}) \cup {"prrt"}
      OBVIOUS
    <3> QED
      BY <3>5, <3>6
  <2> QED
    BY <2>1 DEF ThreadName
<1>3. IsFiniteSet(Thread)
  BY <1>1, <1>2, FS_Product DEF Thread
<1>4. IsFiniteSet(Waiting)
  BY <1>3, FS_Subset DEF Waiting
<1> QED
  BY <1>4, FS_CardinalityType

\* A thread is deadlocked if it is among those it waits for.
LEMMA InCircle ==
  ASSUME NEW t
  PROVE  t \in Deadlocked <=>
           /\ t \in Waiting
           /\ \E f, n : /\ n \in 1 .. Cardinality(Waiting)
                        /\ Behind(f, t, Cardinality(Waiting)) /\ f[n] = t
<1> DEFINE k == Cardinality(Waiting)
           next == [u \in Thread |-> WaitsFor(u)]
           W == {u \in Thread : next[u] # Nil}
           Eq(f, u, j) == f = [n \in 1 .. j |-> IF n = 1 THEN next[u]
                                             ELSE IF f[n - 1] \in W THEN next[f[n - 1]]
                                             ELSE Nil]
           c(u) == CHOOSE f : Eq(f, u, Cardinality(W))
<1>1. W = Waiting
  BY DEF Waiting
<1>2. Deadlocked = {u \in W : u \in {c(u)[n] : n \in 1 .. Cardinality(W)}}
  BY DEF Deadlocked
<1>3. \A u \in Thread : \A f : Eq(f, u, k) <=> Behind(f, u, k)
  BY DEF Behind, Waiting
<1>4. \A u \in Thread : Behind(c(u), u, k)
  <2>1. \A u \in Thread : \E f : Behind(f, u, k)
    BY BehindExists, WaitingFinite
  <2> QED
    BY <1>1, <1>3, <2>1
<1> QED
  <2>1. \A f : t \in Waiting /\ Behind(f, t, k) => f = c(t)
    BY <1>4, WaitingFinite, BehindUnique DEF Waiting
  <2>2. t \in Deadlocked <=> t \in Waiting /\ \E n \in 1 .. k : c(t)[n] = t
    BY <1>1, <1>2
  <2>3. t \in Waiting => Behind(c(t), t, k)
    BY <1>4 DEF Waiting
  <2> HIDE DEF c, next, W, Eq
  <2> QED
    BY <2>1, <2>2, <2>3

\* Who is in a circle waits for a thread of the circle, and a thread of the circle
\* waits for it.
LEMMA Circle ==
  ASSUME NEW t \in Deadlocked
  PROVE  /\ t \in Thread /\ WaitsFor(t) # Nil
         /\ WaitsFor(t) \in Deadlocked
<1> DEFINE k == Cardinality(Waiting)
<1>1. t \in Waiting /\ t \in Thread /\ WaitsFor(t) # Nil
  BY InCircle DEF Waiting
<1>2. PICK f, n : n \in 1 .. k /\ Behind(f, t, k) /\ f[n] = t
  BY InCircle
<1>3. k \in Nat /\ n \in Nat /\ n >= 1 /\ n <= k
  BY <1>2, WaitingFinite
<1> DEFINE G(x) == IF x \in Waiting THEN WaitsFor(x) ELSE Nil
           s == WaitsFor(t)
<1>4. f = [i \in 1 .. k |-> IF i = 1 THEN s ELSE G(f[i - 1])]
  BY <1>2 DEF Behind
<1>5. Nil \notin Waiting
  BY NilAssumption DEF Waiting
<1>6. G(t) = s
  BY <1>1
<1>7. \A x : G(x) # Nil => x \in Waiting
  OBVIOUS
<1> HIDE DEF G, k, s
<1>8. \A i \in 1 .. n : f[i] \in Waiting
  <2> DEFINE T == {j \in Nat : j < n /\ f[n - j] \notin Waiting}
  <2>1. ASSUME T # {} PROVE FALSE
    <3>1. T \in SUBSET Nat
      OBVIOUS
    <3>2. PICK m \in T : \A j \in T : m <= j
      BY <2>1, <3>1, LeastElement
    <3>3. m # 0
      BY <1>1, <1>2, <1>3, <3>2
    <3>4. m - 1 \in Nat /\ m - 1 \notin T /\ m - 1 < n
      BY <1>3, <3>2, <3>3
    <3>5. f[n - (m - 1)] \in Waiting
      BY <3>4
    <3>6. n - (m - 1) \in 1 .. k /\ n - (m - 1) # 1 /\ (n - (m - 1)) - 1 = n - m
      BY <1>3, <3>2, <3>3
    <3>7. f[n - (m - 1)] = G(f[n - m])
      BY <1>4, <3>6
    <3>8. f[n - m] \in Waiting
      BY <1>5, <1>7, <3>5, <3>7
    <3> QED
      BY <3>2, <3>8
  <2>2. ASSUME NEW i \in 1 .. n PROVE f[i] \in Waiting
    <3>1. n - i \in Nat /\ n - i < n /\ n - (n - i) = i
      BY <1>3
    <3>2. n - i \notin T
      BY <2>1
    <3> QED
      BY <3>1, <3>2
  <2> QED
    BY <2>2
<1>9. s \in Waiting /\ s \in Thread
  BY <1>3, <1>4, <1>8 DEF Waiting
<1>10. PICK g : Behind(g, s, k)
  BY <1>3, <1>9, BehindExists
<1>11. g = [i \in 1 .. k |-> IF i = 1 THEN G(s) ELSE G(g[i - 1])]
  BY <1>9, <1>10 DEF Behind, G
<1>12. \A i \in 1 .. n : g[i] = G(f[i])
  <2> DEFINE T == {i \in 1 .. n : g[i] # G(f[i])}
  <2>1. SUFFICES ASSUME T # {} PROVE FALSE
    OBVIOUS
  <2>2. T \in SUBSET Nat
    BY <1>3
  <2>3. PICK m \in T : \A j \in T : m <= j
    BY <2>1, <2>2, LeastElement
  <2>4. m \in 1 .. k /\ m \in 1 .. n
    BY <1>3, <2>3
  <2>5. m # 1
    BY <1>3, <1>4, <1>11, <2>3, <2>4
  <2>6. m - 1 \in 1 .. n /\ m - 1 \notin T
    BY <1>3, <2>3, <2>4, <2>5
  <2>7. g[m - 1] = G(f[m - 1])
    BY <2>6
  <2>8. f[m] = G(f[m - 1]) /\ g[m] = G(g[m - 1])
    BY <1>4, <1>11, <2>4, <2>5
  <2> QED
    BY <2>3, <2>7, <2>8
<1>13. g[n] = s
  BY <1>2, <1>3, <1>6, <1>12
<1>14. s \in Deadlocked
  BY <1>2, <1>9, <1>10, <1>13, InCircle DEF k
<1> QED
  BY <1>1, <1>14 DEF s

\* Somebody in the circle waits for each thread of the circle.
LEMMA Before ==
  ASSUME NEW t \in Deadlocked
  PROVE  \E s \in Deadlocked : WaitsFor(s) = t
<1> DEFINE k == Cardinality(Waiting)
           G(x) == IF x \in Waiting THEN WaitsFor(x) ELSE Nil
<1>1. \A x \in Deadlocked : x \in Waiting /\ WaitsFor(x) \in Deadlocked
  BY InCircle, Circle
<1>2. PICK f, n : n \in 1 .. k /\ Behind(f, t, k) /\ f[n] = t
  BY InCircle
<1>3. k \in Nat /\ n \in Nat /\ n >= 1 /\ n <= k
  BY <1>2, WaitingFinite
<1>4. f = [i \in 1 .. k |-> IF i = 1 THEN WaitsFor(t) ELSE G(f[i - 1])]
  BY <1>2 DEF Behind
<1>5. \A x \in Deadlocked : G(x) = WaitsFor(x)
  BY <1>1
<1> HIDE DEF G, k
<1>6. \A i \in 1 .. k : f[i] \in Deadlocked
  <2> DEFINE T == {i \in 1 .. k : f[i] \notin Deadlocked}
  <2>1. SUFFICES ASSUME T # {} PROVE FALSE
    OBVIOUS
  <2>2. T \in SUBSET Nat
    BY <1>3
  <2>3. PICK m \in T : \A j \in T : m <= j
    BY <2>1, <2>2, LeastElement
  <2>4. m # 1
    BY <1>1, <1>4, <2>3
  <2>5. m - 1 \in 1 .. k /\ m - 1 \notin T
    BY <1>3, <2>3, <2>4
  <2>6. f[m] = G(f[m - 1]) /\ f[m - 1] \in Deadlocked
    BY <1>4, <2>3, <2>4, <2>5
  <2> QED
    BY <1>1, <1>5, <2>3, <2>6
<1>7. CASE n = 1
  BY <1>2, <1>4, <1>7
<1>8. CASE n # 1
  <2>1. n - 1 \in 1 .. k /\ f[n] = G(f[n - 1])
    BY <1>2, <1>3, <1>4, <1>8
  <2> QED
    BY <1>2, <1>5, <1>6, <2>1
<1> QED
  BY <1>7, <1>8

-----------------------------------------------------------------------------
(***************************************************************************)
(* The circles there are.                                                  *)
(***************************************************************************)

\* Who makes a call, and under which locks.
LEMMA CallLocks ==
  ASSUME NEW r, NEW n, NEW i, NEW h, NEW rec, NEW v, CallFits(r, n, i, h, rec, v)
  PROVE  /\ i.m \in h <=> i.op # "invoke"
         /\ \/ n = "t1" /\ "kvMem" \in h /\ "rep" \in h /\ i.m = "repClient"
            \/ n = "ppit" /\ "rep" \in h /\ i.m = "repClient" /\ i \in OkCall
            \/ n = "prrt" /\ ~rec /\ i.m = "recoveryClient"
            \/ n = "hbt" /\ h \subseteq {"repClient"} /\ i.m = "repClient"
            \/ n = "hbt" /\ rec /\ "rep" \in h /\ i.m = "recoveryClient"
            \/ n = "hbt" /\ ~rec /\ v > 0 /\ "rep" \in h /\ i.m = "vcClient"
BY DEF CallFits, Call, OkCall

\* A thread in a circle.
LEMMA Blocked ==
  ASSUME LocksInv, NEW s \in Deadlocked, NEW i, i = Head(prog[s])
  PROVE  /\ s \in Thread /\ s[1] \in Replica /\ s[2] \in ThreadName /\ s = <<s[1], s[2]>>
         /\ prog[s] # <<>>
         /\ i.op \in {"lock", "pass", "invoke", "call", "called"}
         /\ i.op = "lock" => LockFits(s[2], i, Held(s))
         /\ i.op = "pass" => PassFits(s[2], i, Held(s))
         /\ i.op \in CallOp =>
              CallFits(s[1], s[2], i, Held(s), Recovers(s[1]), viewNum[s[1]])
         /\ "kvMem" \in Held(s) => s[2] = "t1"
         /\ "rep" \in Held(s) => s[2] # "prrt"
         /\ "viewChange" \in Held(s) => s[2] = "hbt"
         /\ \A m \in Held(s) \cap ClientMutex : i.op \in {"call", "called"} /\ i.m = m
         /\ Recovers(s[1]) => s[2] \in {"t1", "hbt"}
         /\ s[2] = "t2" => i.op \notin CallOp
<1> DEFINE h == Held(s)
           rec == Recovers(s[1])
           v == viewNum[s[1]]
<1>1. LockTypes /\ StageInv
  BY DEF LocksInv
<1>2. s \in Thread /\ WaitsFor(s) # Nil
  BY Circle
<1>3. prog[s] # <<>> /\ i.op \in {"lock", "pass", "invoke", "call", "called"}
  BY <1>2, Waits
<1>4. s[1] \in Replica /\ s[2] \in ThreadName /\ s = <<s[1], s[2]>>
  BY <1>2 DEF Thread
<1>5. Fits(s[1], s[2], i, h, rec, v) /\ (rec => s[2] \in {"t1", "hbt"})
  BY <1>1, <1>2, <1>3, HeadFits
<1>6. s[2] = "t2" => i.op \notin CallOp
  BY <1>1, <1>2, <1>3, Called
<1> HIDE DEF h, rec, v
<1>7. /\ i.op = "lock" => LockFits(s[2], i, h)
      /\ i.op = "pass" => PassFits(s[2], i, h)
      /\ i.op \in CallOp => CallFits(s[1], s[2], i, h, rec, v)
      /\ "kvMem" \in h => s[2] = "t1"
      /\ "rep" \in h => s[2] # "prrt"
      /\ "viewChange" \in h => s[2] = "hbt"
      /\ \A m \in h \cap ClientMutex : i.op \in {"call", "called"} /\ i.m = m
  BY <1>5 DEF Fits
<1> QED
  BY <1>2, <1>3, <1>4, <1>5, <1>6, <1>7 DEF h, rec, v

\* Only t2 is waited for by a call; the others are waited for by a thread of the
\* same replica, for a mutex they hold.
LEMMA BlockedBefore ==
  ASSUME LocksInv, NEW s \in Deadlocked, s[2] # "t2"
  PROVE  \E p \in Deadlocked :
           /\ p[1] = s[1] /\ p # s /\ p[2] # s[2] /\ WaitsFor(p) = s
           /\ Head(prog[p]).op \in {"lock", "pass", "invoke"}
           /\ Head(prog[p]).m \in Held(s) /\ Head(prog[p]).m \notin Held(p)
<1>1. PICK p \in Deadlocked : WaitsFor(p) = s
  BY Before
<1>2. p \in Thread /\ s \in Thread /\ WaitsFor(p) # Nil
  BY <1>1, Circle
<1>3. s = <<s[1], s[2]>> /\ p = <<p[1], p[2]>>
  BY <1>2 DEF Thread
<1> DEFINE i == Head(prog[p])
<1>4. /\ i.op \in {"lock", "pass", "invoke"}
      /\ i.m \in Held(s) /\ s[1] = p[1] /\ s # p /\ i.m \notin Held(p)
  BY <1>1, <1>2, <1>3, Waits
<1> QED
  BY <1>1, <1>3, <1>4

\* A thread other than t2 that holds nothing is in no circle.
LEMMA EmptyHanded ==
  ASSUME LocksInv, NEW s \in Deadlocked, Held(s) = {}
  PROVE  s[2] = "t2"
BY BlockedBefore

\* prrt is in no circle.
LEMMA PrrtFree ==
  ASSUME LocksInv, NEW s \in Deadlocked
  PROVE  s[2] # "prrt"
<1>1. SUFFICES ASSUME s[2] = "prrt" PROVE FALSE
  OBVIOUS
<1> DEFINE i == Head(prog[s])
<1>2. PICK p \in Deadlocked :
        /\ p[1] = s[1] /\ p[2] # s[2] /\ Head(prog[p]).op \in {"lock", "pass", "invoke"}
        /\ Head(prog[p]).m \in Held(s) /\ Head(prog[p]).m \notin Held(p)
  BY <1>1, BlockedBefore
<1> DEFINE j == Head(prog[p])
<1>3. /\ i.op \in CallOp => CallFits(s[1], s[2], i, Held(s), Recovers(s[1]), viewNum[s[1]])
      /\ "kvMem" \notin Held(s) /\ "rep" \notin Held(s) /\ "viewChange" \notin Held(s)
      /\ \A m \in Held(s) \cap ClientMutex : i.op \in {"call", "called"} /\ i.m = m
      /\ ~Recovers(s[1])
  BY <1>1, Blocked
<1>4. /\ j.op = "lock" => LockFits(p[2], j, Held(p))
      /\ j.op = "pass" => PassFits(p[2], j, Held(p))
      /\ j.op \in CallOp => CallFits(p[1], p[2], j, Held(p), Recovers(p[1]), viewNum[p[1]])
  BY Blocked
<1> HIDE DEF i, j
<1>5. j.m \in Mutex
  BY <1>2 DEF Held, j
<1>6. j.m \in ClientMutex /\ i.op \in CallOp /\ i.m = j.m
  BY <1>2, <1>3, <1>5 DEF Mutex, ClientMutex, CallOp, j
<1>7. j.m = "recoveryClient"
  BY <1>1, <1>3, <1>6, CallLocks
<1>8. j.op = "invoke"
  BY <1>2, <1>4, <1>7 DEF LockFits, PassFits, j
<1>9. CallFits(p[1], p[2], j, Held(p), Recovers(p[1]), viewNum[p[1]])
  BY <1>4, <1>8 DEF CallOp
<1> QED
  BY <1>1, <1>2, <1>3, <1>7, <1>9, CallLocks

\* A thread that passes kvMemMutex under _repMutex waits for t1, which waits for it.
LEMMA CallbackWaits ==
  ASSUME LocksInv, NEW s \in Deadlocked, Head(prog[s]).op = "pass",
         Head(prog[s]).m = "kvMem"
  PROVE  /\ Inversion(s[1]) /\ s[2] \in {"hbt", "t2"}
         /\ WaitsFor(s) = <<s[1], "t1">>
<1> DEFINE i == Head(prog[s])
           u == WaitsFor(s)
           w == WaitsFor(u)
           j == Head(prog[u])
<1>1. /\ s \in Thread /\ PassFits(s[2], i, Held(s)) /\ s[2] \in ThreadName
      /\ s[1] \in Replica /\ s = <<s[1], s[2]>>
  BY Blocked
<1>2. u \in Deadlocked /\ u # Nil
  BY Circle
<1>3. u[1] = s[1] /\ u # s /\ "kvMem" \in Held(u)
  BY <1>1, <1>2, Waits
<1>4. u \in Thread /\ u[2] = "t1" /\ u = <<u[1], u[2]>>
  BY <1>2, <1>3, Blocked
<1>5. "rep" \in Held(s) /\ s[2] \in {"hbt", "t2"}
  BY <1>1 DEF PassFits
<1>6. "rep" \notin Held(u) /\ holder[s[1]]["rep"] = s[2]
  BY <1>1, <1>3, <1>4, <1>5, HeldOnce
<1>7. w \in Deadlocked /\ w # Nil /\ w \in Thread
  BY <1>2, Circle
<1>8. /\ j.op \in {"lock", "pass", "invoke", "call", "called"}
      /\ j.op = "lock" => LockFits(u[2], j, Held(u))
      /\ j.op = "pass" => PassFits(u[2], j, Held(u))
      /\ j.op \in CallOp => CallFits(u[1], u[2], j, Held(u), Recovers(u[1]), viewNum[u[1]])
  BY <1>2, Blocked
<1>9. j.op = "lock" /\ j.m = "rep"
  <2> HIDE DEF j, u, w
  <2>1. j.op \notin CallOp
    BY <1>4, <1>6, <1>8, CallLocks
  <2>2. j.op # "pass"
    BY <1>4, <1>8 DEF PassFits
  <2> QED
    BY <1>3, <1>4, <1>8, <2>1, <2>2 DEF CallOp, LockFits
<1>10. w[1] = u[1] /\ "rep" \in Held(w) /\ w = <<w[1], w[2]>>
  <2>1. w[1] = u[1] /\ "rep" \in Held(w)
    BY <1>4, <1>7, <1>9, Waits
  <2> QED
    BY <1>7, <2>1 DEF Thread
<1>11. w = s
  <2>1. holder[w[1]]["rep"] = w[2]
    BY <1>10 DEF Held
  <2> QED
    BY <1>1, <1>3, <1>6, <1>10, <2>1
<1>12. holder[s[1]]["kvMem"] = "t1"
  BY <1>3, <1>4 DEF Held
<1>13. u = <<s[1], "t1">>
  BY <1>3, <1>4
<1> QED
  BY <1>2, <1>5, <1>11, <1>12, <1>13 DEF Inversion

\* A thread other than t2 that waits for a lock holds another one; if t2 does not
\* wait for one either, only two locks are waited for.
LEMMA BlockedLock ==
  ASSUME LocksInv, NEW s \in Deadlocked, Head(prog[s]).op = "lock",
         s[2] = "t2" => ~NextIs(s, "lock")
  PROVE  \/ s[2] = "t1" /\ Head(prog[s]).m = "rep" /\ Held(s) = {"kvMem"}
         \/ s[2] = "hbt" /\ Head(prog[s]).m = "viewChange" /\ "rep" \in Held(s)
<1> DEFINE i == Head(prog[s])
<1>1. LockFits(s[2], i, Held(s)) /\ s[2] # "t2"
  BY Blocked DEF NextIs
<1>2. Held(s) # {}
  BY <1>1, EmptyHanded
<1> HIDE DEF i
<1>3. \/ s[2] = "t1" /\ i.m = "rep" /\ Held(s) = {"kvMem"}
      \/ s[2] = "hbt" /\ i.m = "viewChange" /\ "rep" \in Held(s)
  BY <1>1, <1>2 DEF LockFits
<1> QED
  BY <1>3 DEF i

\* Who is waited for by whom, of the threads of a replica.
LEMMA BlockedPair ==
  ASSUME LocksInv, NEW s \in Deadlocked, NEW p \in Deadlocked, s[2] # "t2",
         p[1] = s[1], p[2] # s[2],
         Head(prog[p]).op \in {"lock", "pass", "invoke"},
         Head(prog[p]).m \in Held(s), Head(prog[p]).m \notin Held(p),
         ~Inversion(s[1]), p[2] = "t2" => ~NextIs(p, "lock")
  PROVE  \/ /\ p[2] = "t1" /\ Head(prog[p]).op = "lock" /\ Head(prog[p]).m = "rep"
            /\ s[2] \in {"hbt", "ppit"}
         \/ p[2] \in {"t1", "ppit"} /\ s[2] = "hbt"
         \/ /\ p[2] = "t2" /\ Head(prog[p]).op = "pass" /\ Head(prog[p]).m = "viewChange"
            /\ s[2] = "hbt"
<1> DEFINE i == Head(prog[s])
           j == Head(prog[p])
<1>1. /\ i.op \in CallOp => CallFits(s[1], s[2], i, Held(s), Recovers(s[1]), viewNum[s[1]])
      /\ "kvMem" \in Held(s) => s[2] = "t1"
      /\ "rep" \in Held(s) => s[2] # "prrt"
      /\ "viewChange" \in Held(s) => s[2] = "hbt"
      /\ \A m \in Held(s) \cap ClientMutex : i.op \in {"call", "called"} /\ i.m = m
      /\ s[2] # "prrt" /\ s[2] \in ThreadName /\ s \in Thread /\ s[1] \in Replica
  BY Blocked, PrrtFree
<1>2. /\ j.op = "pass" => PassFits(p[2], j, Held(p))
      /\ j.op \in CallOp => CallFits(p[1], p[2], j, Held(p), Recovers(p[1]), viewNum[p[1]])
      /\ p[2] # "prrt" /\ p \in Thread
  BY Blocked, PrrtFree
<1>3. "rep" \in Held(s) => "rep" \notin Held(p)
  BY <1>1, <1>2, HeldOnce
<1>4. CASE j.op = "lock"
  <2>1. \/ p[2] = "t1" /\ j.m = "rep" /\ Held(p) = {"kvMem"}
        \/ p[2] = "hbt" /\ j.m = "viewChange" /\ "rep" \in Held(p)
    BY <1>4, BlockedLock
  <2> HIDE DEF i, j
  <2>2. j.m \in Held(s)
    BY DEF j
  <2> QED
    BY <1>1, <1>4, <2>1, <2>2 DEF ThreadName, j
<1>5. CASE j.op = "pass"
  <2>1. j.m # "kvMem"
    BY <1>5, CallbackWaits
  <2>2. j.m = "viewChange" /\ p[2] \in {"t2", "hbt"}
    <3>1. PassFits(p[2], j, Held(p))
      BY <1>2, <1>5
    <3> HIDE DEF j
    <3> QED
      BY <1>2, <2>1, <3>1 DEF PassFits
  <2>3. s[2] = "hbt"
    BY <1>1, <2>2
  <2> QED
    BY <1>5, <2>2, <2>3
<1>6. CASE j.op = "invoke"
  <2>1. CallFits(p[1], p[2], j, Held(p), Recovers(p[1]), viewNum[p[1]])
    BY <1>2, <1>6 DEF CallOp
  <2>2. Held(p) # {} \/ p[2] = "t2"
    BY EmptyHanded
  <2>3. j.m \in Held(s) /\ j.m \notin Held(p)
    OBVIOUS
  <2> HIDE DEF i, j
  <2>4. /\ p[2] \in {"t1", "ppit", "hbt"} /\ "rep" \in Held(p) /\ j.m \in ClientMutex
        /\ p[2] = "hbt" => j.m \in {"recoveryClient", "vcClient"}
    BY <1>2, <2>1, <2>2, <2>3, CallLocks DEF ClientMutex
  <2>5. i.op \in CallOp /\ i.m = j.m
    BY <1>1, <2>3, <2>4 DEF CallOp
  <2>6. CallFits(s[1], s[2], i, Held(s), Recovers(s[1]), viewNum[s[1]])
    BY <1>1, <2>5
  <2>7. "rep" \notin Held(s)
    BY <1>3, <2>4
  <2>8. s[2] = "hbt" /\ i.m = "repClient"
    BY <1>1, <2>6, <2>7, CallLocks
  <2> QED
    BY <2>4, <2>8
<1> QED
  BY <1>4, <1>5, <1>6

\* In circles of other kinds only hbt and t2 take part, and hbt waits with
\* _viewChangeMutex for what the t2 of another replica waits for.
LEMMA OtherCircles ==
  ASSUME LocksInv, \A r \in Replica : ~Inversion(r),
         \A t \in Deadlocked : t[2] = "t2" => ~NextIs(t, "lock"),
         NEW s \in Deadlocked
  PROVE  /\ s[2] \in {"hbt", "t2"}
         /\ s[2] = "hbt" => <<s[1], "t2">> \in Deadlocked /\ "viewChange" \in Held(s)
         /\ s[2] = "t2" => /\ Head(prog[s]).op = "pass" /\ Held(s) = {}
                           /\ <<s[1], "hbt">> \in Deadlocked
<1>1. ASSUME NEW x \in Deadlocked, x[2] # "t2"
      PROVE  \E p \in Deadlocked :
               /\ p[1] = x[1] /\ Head(prog[p]).m \in Held(x)
               /\ \/ p[2] = "t1" /\ x[2] \in {"hbt", "ppit"}
                  \/ p[2] \in {"t1", "ppit"} /\ x[2] = "hbt"
                  \/ /\ p[2] = "t2" /\ Head(prog[p]).op = "pass"
                     /\ Head(prog[p]).m = "viewChange" /\ x[2] = "hbt"
  <2>1. PICK p \in Deadlocked :
           /\ p[1] = x[1] /\ p[2] # x[2]
           /\ Head(prog[p]).op \in {"lock", "pass", "invoke"}
           /\ Head(prog[p]).m \in Held(x) /\ Head(prog[p]).m \notin Held(p)
    BY <1>1, BlockedBefore
  <2>2. x[1] \in Replica
    BY Blocked
  <2>3. \/ p[2] = "t1" /\ x[2] \in {"hbt", "ppit"}
        \/ p[2] \in {"t1", "ppit"} /\ x[2] = "hbt"
        \/ /\ p[2] = "t2" /\ Head(prog[p]).op = "pass"
           /\ Head(prog[p]).m = "viewChange" /\ x[2] = "hbt"
    BY <1>1, <2>1, <2>2, BlockedPair
  <2> QED
    BY <2>1, <2>3
<1>2. \A x \in Deadlocked : x[2] # "t1"
  BY <1>1
<1>3. \A x \in Deadlocked : x[2] # "ppit"
  BY <1>1, <1>2
<1>4. \A x \in Deadlocked : x[2] \in {"hbt", "t2"} /\ x = <<x[1], x[2]>>
  <2>1. \A x \in Deadlocked : x[2] \in ThreadName /\ x[2] # "prrt" /\ x = <<x[1], x[2]>>
    BY Blocked, PrrtFree
  <2> QED
    BY <1>2, <1>3, <2>1 DEF ThreadName
<1>5. ASSUME s[2] = "hbt" PROVE <<s[1], "t2">> \in Deadlocked /\ "viewChange" \in Held(s)
  <2>1. PICK p \in Deadlocked : /\ p[1] = s[1] /\ Head(prog[p]).m \in Held(s)
                                /\ p[2] = "t2" /\ Head(prog[p]).m = "viewChange"
    BY <1>1, <1>2, <1>3, <1>5
  <2> QED
    BY <1>4, <2>1
<1>6. ASSUME s[2] = "t2"
      PROVE  /\ Head(prog[s]).op = "pass" /\ Held(s) = {} /\ <<s[1], "hbt">> \in Deadlocked
  <2> DEFINE i == Head(prog[s])
             u == WaitsFor(s)
  <2>1. /\ i.op = "pass" /\ PassFits(s[2], i, Held(s)) /\ s[1] \in Replica
    BY <1>6, Blocked DEF CallOp, NextIs
  <2>2. i.m # "kvMem"
    BY <2>1, CallbackWaits
  <2>3. i.m = "viewChange" /\ Held(s) = {}
    <3> HIDE DEF i
    <3> QED
      BY <1>6, <2>1, <2>2 DEF PassFits
  <2>4. u \in Deadlocked /\ u # Nil /\ s \in Thread
    BY Circle
  <2>5. u[1] = s[1] /\ "viewChange" \in Held(u)
    BY <2>1, <2>3, <2>4, Waits
  <2>6. u[2] = "hbt" /\ u = <<u[1], u[2]>>
    BY <2>4, <2>5, Blocked
  <2> QED
    BY <2>1, <2>3, <2>4, <2>5, <2>6
<1> QED
  BY <1>4, <1>5, <1>6

\* A set with two different elements has more than one.
LEMMA TwoOf ==
  ASSUME NEW S, IsFiniteSet(S), NEW a \in S, NEW b \in S, a # b
  PROVE  Cardinality(S) > 1
<1>1. IsFiniteSet({a}) /\ Cardinality({a}) = 1
  BY FS_Singleton
<1>2. IsFiniteSet({a} \cup {b}) /\ Cardinality({a} \cup {b}) = 2
  <2>1. b \notin {a}
    OBVIOUS
  <2>2. /\ IsFiniteSet({a} \cup {b})
        /\ Cardinality({a} \cup {b}) = IF b \in {a} THEN Cardinality({a}) ELSE Cardinality({a}) + 1
    BY <1>1, FS_AddElement
  <2> QED
    BY <1>1, <2>1, <2>2
<1>3. {a} \cup {b} \subseteq S
  OBVIOUS
<1>4. Cardinality({a} \cup {b}) <= Cardinality(S) /\ Cardinality(S) \in Nat
  BY <1>3, FS_Subset, FS_CardinalityType
<1> QED
  BY <1>2, <1>4

\* There are three kinds of circles, and no other: the one of kvMemMutex and
\* _repMutex; a processCommit that waits for _repMutex; and two replicas that
\* change the view at the same time.
THEOREM ThreeKinds == Spec => []KnownDeadlocks
<1>1. LocksInv => KnownDeadlocks
  <2>1. SUFFICES ASSUME LocksInv, NEW s \in Deadlocked,
                        \A r \in Replica : ~Inversion(r),
                        \A r \in Replica :
                          ~(<<r, "t2">> \in Deadlocked /\ NextIs(<<r, "t2">>, "lock"))
                 PROVE  Cardinality({r \in Replica : holder[r]["viewChange"] # Nil}) > 1
    BY DEF KnownDeadlocks
  <2>2. \A t \in Deadlocked : t[2] = "t2" => ~NextIs(t, "lock")
    <3>1. \A t \in Deadlocked : t[1] \in Replica /\ t = <<t[1], t[2]>>
      BY <2>1, Blocked
    <3> QED
      BY <2>1, <3>1
  <2> DEFINE r == s[1]
             x == <<r, "t2">>
  <2>3. r \in Replica /\ s = <<s[1], s[2]>>
    BY <2>1, Blocked
  <2>4. x \in Deadlocked /\ <<r, "hbt">> \in Deadlocked
    BY <2>1, <2>2, <2>3, OtherCircles
  <2>5. x[1] = r /\ x[2] = "t2" /\ <<r, "hbt">>[1] = r /\ <<r, "hbt">>[2] = "hbt"
    OBVIOUS
  <2> HIDE DEF r, x
  <2>6. Head(prog[x]).op = "pass" /\ Held(x) = {}
    BY <2>1, <2>2, <2>4, <2>5, OtherCircles
  <2>7. PICK q \in Deadlocked : WaitsFor(q) = x
    BY <2>4, Before
  <2>8. /\ Head(prog[q]).op \in CallOp /\ r \in Others(q[1])
    <3>1. q \in Thread /\ WaitsFor(q) # Nil
      BY <2>7, Circle
    <3>2. \/ /\ Head(prog[q]).op = "called" /\ Head(prog[q]).b \in Others(q[1])
             /\ x = <<Head(prog[q]).b, "t2">>
          \/ /\ Head(prog[q]).op = "call" /\ Callee(q) \in Others(q[1])
             /\ x = <<Callee(q), "t2">>
      BY <2>1, <2>6, <2>7, <3>1, Waits
    <3> QED
      BY <2>5, <3>2 DEF CallOp
  <2>9. q[2] = "hbt" /\ q[1] # r /\ q[1] \in Replica /\ q = <<q[1], q[2]>>
    <3>1. q[2] \in {"hbt", "t2"}
      BY <2>1, <2>2, OtherCircles
    <3>2. q[2] # "t2" /\ q[1] \in Replica /\ q = <<q[1], q[2]>>
      BY <2>1, <2>8, Blocked
    <3> QED
      BY <2>8, <3>1, <3>2 DEF Others
  <2>10. "viewChange" \in Held(q) /\ "viewChange" \in Held(<<r, "hbt">>)
    BY <2>1, <2>2, <2>4, <2>5, <2>9, OtherCircles
  <2>11. holder[q[1]]["viewChange"] # Nil /\ holder[r]["viewChange"] # Nil
    BY <2>5, <2>9, <2>10, NilAssumption DEF Held, ThreadName
  <2>12. IsFiniteSet({y \in Replica : holder[y]["viewChange"] # Nil})
    <3>1. IsFiniteSet(Replica)
      BY LocksAssumption, FS_Interval DEF Replica
    <3> QED
      BY <3>1, FS_Subset
  <2> QED
    BY <2>3, <2>9, <2>11, <2>12, TwoOf
<1> QED
  BY <1>1, LocksInvariant, PTL

-----------------------------------------------------------------------------
(***************************************************************************)
(* As long as no view change has begun.                                    *)
(***************************************************************************)
NoView == \A r \in Replica : viewNum[r] = 0

\* Replica 0 is the primary of view 0; only the replica that started by
\* recovering takes another one for it, and while it recovers everyone knows.
OneAstray ==
  /\ \A r \in Replica : isPrimary(r) => r = 0
  /\ \A r \in Replica : Recovers(r) => r \in Recovering
  /\ \A r \in Replica : Recovers(r) \/ priId[r] # 0 =>
       \A x \in Others(r) : ~Recovers(x) /\ priId[x] = 0

\* Only replica 0 writes and sends heartbeats, so that its own t2 never works.
OneSpeaks ==
  /\ \A r \in Replica : prog[<<r, "t1">>] # <<>> => r = 0
  /\ \A r \in Replica :
       LET s == prog[<<r, "hbt">>]
       IN  s # <<>> /\ Head(s).op \in CallOp /\ Head(s).m = "repClient" => r = 0
  /\ serving[0] = Nil

QuietInv == NoView => OneAstray /\ OneSpeaks

\* There is a replica 0, the primary of view 0.
LEMMA Zero == 0 \in Replica
BY LocksAssumption DEF Replica

\* What a step does to the program of t1 or of hbt, and to its hold on _repMutex.
LEMMA Moves ==
  ASSUME LocksInv, Next, NEW w \in Thread, w[2] \in {"t1", "hbt"}, alive'[w[1]]
  PROVE  \/ prog'[w] = prog[w]
         \/ /\ prog[w] = <<>>
            /\ \/ isPrimary(w[1])
               \/ w[2] = "hbt" /\ prog'[w] \in {changeView(w[1]), recover(w[1])}
         \/ /\ prog[w] # <<>> /\ Head(prog[w]).op = "lock"
            /\ Head(prog[w]).m \in Mutex => Head(prog[w]).m \in Held(w)'
         \/ /\ prog[w] # <<>> /\ Head(prog[w]).op = "unlock"
            /\ prog'[w] = <<>> \o Tail(prog[w])
         \/ /\ prog[w] # <<>> /\ Head(prog[w]).op \notin {"lock", "unlock"}
            /\ "rep" \in Held(w) => "rep" \in Held(w)'
<1> DEFINE i == Head(prog[w])
           Goes == /\ prog[w] # <<>> /\ i.op \notin {"lock", "unlock"}
                   /\ "rep" \in Held(w) => "rep" \in Held(w)'
<1>1. LockTypes /\ StageInv /\ ServeInv /\ w[1] \in Replica /\ w = <<w[1], w[2]>>
  BY DEF LocksInv, Thread
<1>2. holder \in [Replica -> [Mutex -> ThreadName \cup {Nil}]] /\ DOMAIN prog = Thread
  BY <1>1 DEF LockTypes
<1>3. ASSUME NEW t \in Thread, prog[t] # <<>>, Head(prog[t]).op \in {"call", "called"}
      PROVE  Head(prog[t]).m # "rep"
  BY <1>1, <1>3, HeadAbout DEF CallOp, ClientMutex
<1>4. ASSUME holder' = holder PROVE Held(w)' = Held(w)
  BY <1>4 DEF Held
<1>5. ASSUME NEW t \in Thread, NEW q, prog' = [prog EXCEPT ![t] = q], t # w
      PROVE  prog'[w] = prog[w]
  BY <1>2, <1>5
<1>6. ASSUME NEW t \in Thread, EndCall(t), prog[t] # <<>>,
             Head(prog[t]).op \in {"call", "called"}
      PROVE  prog'[w] = prog[w] \/ Goes
  <2>1. CASE t # w
    BY <1>2, <1>6, <2>1 DEF EndCall
  <2>2. CASE t = w
    <3>1. holder'[w[1]]["rep"] = holder[w[1]]["rep"]
      BY <1>1, <1>2, <1>3, <1>6, <2>2 DEF EndCall, Mutex
    <3> QED
      BY <1>6, <2>2, <3>1 DEF Held
  <2> QED
    BY <2>1, <2>2
<1>7. ASSUME NEW t \in Thread, Acquire(t)
      PROVE  \/ prog'[w] = prog[w] \/ Goes
             \/ prog[w] # <<>> /\ i.op = "lock" /\ (i.m \in Mutex => i.m \in Held(w)')
  <2>1. CASE Dies(t[1])
    <3>1. t[1] \in Replica /\ w[1] # t[1]
      BY <1>1, <2>1 DEF Dies, Thread, LockTypes
    <3>2. prog'[w] = IF Serves(t[1], w) THEN Returned(w) ELSE prog[w]
      BY <2>1, <3>1 DEF Dies
    <3>3. CASE ~Serves(t[1], w)
      BY <3>2, <3>3
    <3>4. CASE Serves(t[1], w)
      <4>1. prog[w] # <<>> /\ i.op = "called"
        BY <1>1, <3>1, <3>4 DEF Serves, ServeInv, NextIs
      <4>2. \A n \in ThreadName :
              Serves(t[1], <<w[1], n>>) => Head(prog[<<w[1], n>>]).m # "rep"
        <5>1. ASSUME NEW n \in ThreadName, Serves(t[1], <<w[1], n>>)
              PROVE  w = <<w[1], n>>
          BY <1>1, <3>4, <5>1 DEF Serves
        <5> QED
          BY <1>3, <4>1, <5>1
      <4>3. holder'[w[1]]["rep"] = holder[w[1]]["rep"]
        BY <1>1, <2>1, <3>1, <4>2 DEF Dies, Mutex
      <4> QED
        BY <4>1, <4>3 DEF Held
    <3> QED
      BY <3>3, <3>4
  <2>2. CASE /\ holder' = [holder EXCEPT ![t[1]][Head(prog[t]).m] = t[2]]
             /\ Then(t, <<>>)
    <3>1. CASE t # w
      BY <1>2, <2>2, <3>1 DEF Then
    <3>2. CASE t = w
      <4>1. i.m \in Mutex => holder'[w[1]][i.m] = w[2]
        BY <1>1, <1>2, <2>2, <3>2
      <4> QED
        BY <1>7, <3>2, <4>1 DEF Acquire, NextIs, Held
    <3> QED
      BY <3>1, <3>2
  <2> QED
    BY <1>7, <2>1, <2>2 DEF Acquire
<1>8. ASSUME NEW t \in Thread, Release(t)
      PROVE  \/ prog'[w] = prog[w]
             \/ prog[w] # <<>> /\ i.op = "unlock" /\ prog'[w] = <<>> \o Tail(prog[w])
  BY <1>2, <1>8 DEF Release, NextIs, Then
<1>9. ASSUME NEW t \in Thread, NEW q, prog' = [prog EXCEPT ![t] = q], prog[t] # <<>>,
             Head(prog[t]).op \notin {"lock", "unlock"}, holder' = holder
      PROVE  prog'[w] = prog[w] \/ Goes
  BY <1>2, <1>4, <1>9
<1>10. ASSUME NEW t \in Thread, PassThrough(t) \/ GoOn(t) \/ CheckNormal(t) \/ Assign(t)
       PROVE  prog'[w] = prog[w] \/ Goes
  <2>1. \E q : prog' = [prog EXCEPT ![t] = q]
    BY <1>10 DEF PassThrough, GoOn, CheckNormal, Assign, Then
  <2>2. prog[t] # <<>> /\ Head(prog[t]).op \notin {"lock", "unlock"} /\ holder' = holder
    BY <1>10 DEF PassThrough, GoOn, CheckNormal, Assign, NextIs
  <2> QED
    BY <1>9, <2>1, <2>2
<1>11. ASSUME NEW t \in Thread, NextCall(t) PROVE prog'[w] = prog[w] \/ Goes
  <2>1. /\ prog[t] # <<>> /\ Head(prog[t]).op = "invoke"
        /\ holder' = [holder EXCEPT ![t[1]][Head(prog[t]).m] = t[2]]
        /\ \E q : prog' = [prog EXCEPT ![t] = q]
    BY <1>11 DEF NextCall, NextIs, Then
  <2>2. CASE t # w
    BY <1>5, <2>1, <2>2
  <2>3. CASE t = w
    <3>1. holder'[w[1]]["rep"] \in {holder[w[1]]["rep"], w[2]}
      BY <1>1, <1>2, <2>1, <2>3 DEF Mutex
    <3> QED
      BY <2>1, <2>3, <3>1 DEF Held
  <2> QED
    BY <2>2, <2>3
<1>12. ASSUME NEW t \in Thread, MakeCall(t) PROVE prog'[w] = prog[w] \/ Goes
  <2>1. prog[t] # <<>> /\ Head(prog[t]).op = "call"
    BY <1>12 DEF MakeCall, NextIs
  <2>2. CASE EndCall(t)
    BY <1>6, <2>1, <2>2
  <2>3. CASE \E b, H, q : /\ prog' = [prog EXCEPT ![<<b, "t2">>] = H, ![t] = q]
                          /\ holder' = holder
    <3>1. PICK b, H, q : prog' = [prog EXCEPT ![<<b, "t2">>] = H, ![t] = q]
      BY <2>3
    <3>2. CASE t = w
      BY <1>4, <2>1, <2>3, <3>2
    <3>3. CASE t # w
      <4>1. w # <<b, "t2">>
        BY <1>1
      <4> QED
        BY <1>2, <3>1, <3>3, <4>1
    <3> QED
      BY <3>2, <3>3
  <2>4. EndCall(t) \/ \E b, H, q : /\ prog' = [prog EXCEPT ![<<b, "t2">>] = H, ![t] = q]
                                   /\ holder' = holder
    <3> DEFINE bb == Callee(t)
               HH == Handler(bb, Head(prog[t]).h, t[1])
               qq == <<[Head(prog[t]) EXCEPT !.op = "called"]>> \o Tail(prog[t])
    <3>1. \/ EndCall(t)
          \/ prog' = [prog EXCEPT ![<<bb, "t2">>] = HH, ![t] = qq] /\ holder' = holder
      BY <1>12 DEF MakeCall
    <3> HIDE DEF bb, HH, qq
    <3> QED
      BY <3>1
  <2> QED
    BY <2>2, <2>3, <2>4
<1>13. ASSUME NEW b \in Replica, Return(b) PROVE prog'[w] = prog[w] \/ Goes
  <2>1. PICK t \in Thread : t = serving[b]
    BY <1>1, <1>13 DEF Return, LockTypes
  <2>2. CASE alive[t[1]]
    <3>1. EndCall(t) /\ prog[t] # <<>> /\ Head(prog[t]).op = "called"
      BY <1>1, <1>13, <2>1, <2>2 DEF Return, ServeInv, NextIs
    <3> QED
      BY <1>6, <3>1
  <2>3. CASE ~alive[t[1]]
    BY <1>13, <2>1, <2>3 DEF Return
  <2> QED
    BY <2>2, <2>3
<1>14. ASSUME NEW r \in Replica,
              \/ PopPrepInfo(r) \/ PopRecoveryReq(r)
              \/ ClientUpdate(r) \/ HeartBeat(r) \/ ChangeView(r) \/ Recover(r)
       PROVE  \/ prog'[w] = prog[w]
              \/ /\ prog[w] = <<>>
                 /\ \/ isPrimary(w[1])
                    \/ w[2] = "hbt" /\ prog'[w] \in {changeView(w[1]), recover(w[1])}
  <2>1. ASSUME NEW n \in {"ppit", "prrt"}, NEW q,
               prog' = prog \/ prog' = [prog EXCEPT ![<<r, n>>] = q]
        PROVE  prog'[w] = prog[w]
    <3>1. w # <<r, n>>
      BY <1>1
    <3> QED
      BY <1>2, <2>1, <3>1
  <2>2. CASE PopPrepInfo(r) \/ PopRecoveryReq(r)
    BY <2>1, <2>2 DEF PopPrepInfo, PopRecoveryReq
  <2>3. ASSUME NEW n \in {"t1", "hbt"}, NEW q, Begin(r, n, q), prog'[w] # prog[w]
        PROVE  w = <<r, n>> /\ prog[w] = <<>> /\ prog'[w] = q
    <3>1. w = <<r, n>>
      BY <1>2, <2>3 DEF Begin
    <3> QED
      BY <1>2, <2>3, <3>1 DEF Begin, Idle
  <2>4. CASE ClientUpdate(r) \/ HeartBeat(r)
    <3>1. isPrimary(r) /\ \E n \in {"t1", "hbt"} : \E q : Begin(r, n, q)
      BY <2>4 DEF ClientUpdate, HeartBeat
    <3> QED
      BY <2>3, <3>1
  <2>5. CASE ChangeView(r)
    BY <2>3, <2>5 DEF ChangeView
  <2>6. CASE Recover(r)
    BY <2>3, <2>6 DEF Recover
  <2> QED
    BY <1>14, <2>2, <2>4, <2>5, <2>6
<1>15. ASSUME NEW t \in Thread, Step(t)
       PROVE  \/ prog'[w] = prog[w] \/ Goes
              \/ prog[w] # <<>> /\ i.op = "lock" /\ (i.m \in Mutex => i.m \in Held(w)')
              \/ prog[w] # <<>> /\ i.op = "unlock" /\ prog'[w] = <<>> \o Tail(prog[w])
  BY <1>7, <1>8, <1>10, <1>11, <1>12, <1>15 DEF Step
<1> HIDE DEF Goes
<1>16. \/ prog'[w] = prog[w] \/ Goes
       \/ prog[w] # <<>> /\ i.op = "lock" /\ (i.m \in Mutex => i.m \in Held(w)')
       \/ prog[w] # <<>> /\ i.op = "unlock" /\ prog'[w] = <<>> \o Tail(prog[w])
       \/ /\ prog[w] = <<>>
          /\ \/ isPrimary(w[1])
             \/ w[2] = "hbt" /\ prog'[w] \in {changeView(w[1]), recover(w[1])}
  BY <1>13, <1>14, <1>15 DEF Next
<1> QED
  BY <1>16 DEF Goes

\* Which replicas recover, and which one each takes for the primary: a step does
\* not change it, or it ends a recovery.
LEMMA Adopts ==
  ASSUME LocksInv, NoView, Next, NoView'
  PROVE  \/ priId' = priId /\ \A x \in Replica : Recovers(x)' = Recovers(x)
         \/ \E r \in Replica : \E q \in Others(r) :
              /\ Recovers(r)
              /\ status' = [status EXCEPT ![r] = "NORMAL"]
              /\ priId' = [priId EXCEPT ![r] = q]
<1>1. LockTypes /\ StageInv
  BY DEF LocksInv
<1>2. status \in [Replica -> {"NORMAL", "VIEW_CHANGE", "RECOVERING"}]
      /\ viewNum \in [Replica -> Nat] /\ priId \in [Replica -> Replica]
  BY <1>1 DEF LockTypes
<1>3. CASE UNCHANGED <<status, priId>>
  BY <1>3 DEF Recovers
<1>4. ASSUME NEW t \in Thread, Assign(t)
      PROVE  \E r \in Replica : \E q \in Others(r) :
               /\ Recovers(r)
               /\ status' = [status EXCEPT ![r] = "NORMAL"]
               /\ priId' = [priId EXCEPT ![r] = q]
  <2> DEFINE i == Head(prog[t])
             r == t[1]
             h == Held(t)
             rec == Recovers(r)
             v == viewNum[r]
  <2>1. r \in Replica /\ v = 0 /\ rec \in BOOLEAN
    BY DEF Thread, NoView, Recovers
  <2>2. prog[t] # <<>> /\ i.op \in {"nextView", "setPri", "setNormal"}
    BY <1>4 DEF Assign, NextIs
  <2>3. i.op # "nextView"
    <3>1. SUFFICES ASSUME i.op = "nextView" PROVE FALSE
      OBVIOUS
    <3>2. viewNum' = [viewNum EXCEPT ![r] = @ + 1]
      BY <1>4, <3>1 DEF Assign, NextIs
    <3>3. viewNum'[r] = 1
      BY <1>2, <2>1, <3>2
    <3> QED
      BY <2>1, <3>3 DEF NoView
  <2>4. Fits(t[1], t[2], i, h, rec, v)
    BY <1>1, <2>2, HeadFits
  <2>5. Stage(t, prog[t], h, rec, v)
    BY <1>1 DEF StageInv
  <2> HIDE DEF i, r, h, rec, v
  <2>6. i.op = "setNormal" /\ t[2] = "hbt" /\ rec
    BY <2>1, <2>2, <2>3, <2>4 DEF Fits, CallOp
  <2>7. Head(prog[t]).op = "setNormal" /\ t[2] = "hbt" /\ rec
    BY <2>6 DEF i
  <2>8. i.to \in Others(r)
    <3>1. Head(prog[t]).to \in Others(t[1])
      BY ONLY <2>1, <2>2, <2>5, <2>7, StageSetNormal, t \in Thread
    <3> QED
      BY <3>1 DEF i, r
  <2>9. /\ priId' = [priId EXCEPT ![r] = i.to]
        /\ status' = [status EXCEPT ![r] = "NORMAL"]
    BY <1>4, <2>6 DEF Assign, NextIs, i, r
  <2> QED
    BY <2>1, <2>6, <2>8, <2>9 DEF rec
<1>5. ASSUME NEW t \in Thread, MakeCall(t)
      PROVE  priId' = priId /\ \A x \in Replica : Recovers(x)' = Recovers(x)
  <2>1. priId' = priId
    BY <1>5 DEF MakeCall
  <2>2. status' = status \/ \E b : status[b] # "RECOVERING"
                                   /\ status' = [status EXCEPT ![b] = "VIEW_CHANGE"]
    <3> DEFINE b == Callee(t)
    <3>1. status' = status \/ Effect(b, Head(prog[t]).h, t[1])
      BY <1>5 DEF MakeCall
    <3> HIDE DEF b
    <3> QED
      BY <3>1 DEF Effect
  <2> QED
    BY <1>2, <2>1, <2>2 DEF Recovers
<1>6. ASSUME NEW t \in Thread, Step(t), ~Assign(t), ~MakeCall(t)
      PROVE  UNCHANGED <<status, priId>>
  BY <1>6 DEF Step, Acquire, Release, PassThrough, GoOn, CheckNormal, NextCall, StateVars
<1>7. ASSUME NEW r \in Replica,
             \/ Return(r) \/ PopPrepInfo(r) \/ PopRecoveryReq(r)
             \/ ClientUpdate(r) \/ HeartBeat(r) \/ ChangeView(r) \/ Recover(r)
      PROVE  UNCHANGED <<status, priId>>
  BY <1>7 DEF Return, PopPrepInfo, PopRecoveryReq, ClientUpdate, HeartBeat, ChangeView,
              Recover, Begin, StateVars
<1> QED
  BY <1>3, <1>4, <1>5, <1>6, <1>7 DEF Next

\* t2 begins to work for a commit or a message of a view change only.
LEMMA Engages ==
  ASSUME LocksInv, Next, NEW b \in Replica, serving'[b] # Nil
  PROVE  \/ serving[b] # Nil
         \/ \E t \in Thread : /\ prog[t] # <<>> /\ Head(prog[t]).op = "call"
                              /\ b \in Others(t[1])
                              /\ Head(prog[t]).h \in {"commit", "doViewChange", "startView"}
<1>1. LockTypes /\ StageInv
  BY DEF LocksInv
<1>2. serving \in [Replica -> Thread \cup {Nil}]
  BY <1>1 DEF LockTypes
<1>3. CASE serving' = serving
  BY <1>3
<1>4. ASSUME NEW t \in Thread, Step(t), ~MakeCall(t)
      PROVE  serving' = serving \/ \E r : serving' = [serving EXCEPT ![r] = Nil]
  BY <1>4 DEF Step, Acquire, Release, PassThrough, GoOn, CheckNormal, NextCall, Assign, Dies
<1>5. ASSUME NEW r \in Replica,
             \/ Return(r) \/ PopPrepInfo(r) \/ PopRecoveryReq(r)
             \/ ClientUpdate(r) \/ HeartBeat(r) \/ ChangeView(r) \/ Recover(r)
      PROVE  serving' = serving \/ \E x : serving' = [serving EXCEPT ![x] = Nil]
  BY <1>5 DEF Return, PopPrepInfo, PopRecoveryReq, ClientUpdate, HeartBeat, ChangeView,
              Recover, Begin
<1>6. ASSUME \E x : serving' = [serving EXCEPT ![x] = Nil]
      PROVE  serving[b] # Nil
  BY <1>2, <1>6
<1>7. ASSUME NEW t \in Thread, MakeCall(t), serving' # serving, serving[b] = Nil
      PROVE  /\ prog[t] # <<>> /\ Head(prog[t]).op = "call" /\ b \in Others(t[1])
             /\ Head(prog[t]).h \in {"commit", "doViewChange", "startView"}
  <2> DEFINE c == Callee(t)
             a == Head(prog[t]).h
  <2>1. /\ serving' = [serving EXCEPT ![c] = t] /\ c # t[1]
        /\ Handler(c, a, t[1]) # <<>> /\ prog[t] # <<>> /\ Head(prog[t]).op = "call"
    BY <1>7 DEF MakeCall, NextIs
  <2> HIDE DEF c, a
  <2>2. a \in {"commit", "doViewChange", "startView"}
    BY <2>1 DEF Handler, processPrepareOk, processStartViewChange
  <2>3. b = c
    BY <1>2, <1>7, <2>1
  <2> QED
    BY <2>1, <2>2, <2>3 DEF Others, a
<1> QED
  BY <1>3, <1>4, <1>5, <1>6, <1>7 DEF Next

\* hbt of a recovering replica takes _repMutex, and keeps it until it has adopted
\* a primary.
LEMMA RecoverHolds ==
  ASSUME NEW r \in Replica, NEW s, NEW h, RecoverStage(r, s, h), s # <<>>
  PROVE  \/ Head(s).op = "lock" /\ Head(s).m = "rep"
         \/ "rep" \in h /\ Head(s).op \notin {"lock", "unlock"}
<1> DEFINE a == [op |-> "either", progs |-> {SetNormal(q) : q \in Others(r)}]
           u == [op |-> "unlock", m |-> "rep"]
           c == Adopt(r) \o Unlock("rep")
           U == {a, u}
           X == InRecover(r)
<1>1. c \in Seq(U) /\ c # <<>> /\ Head(c).op = "either"
  <2>1. c = <<a>> \o <<u>> /\ a.op = "either"
    BY DEF Adopt, Either, Unlock
  <2> HIDE DEF a, u, c
  <2>2. <<a>> \in Seq(U) /\ <<u>> \in Seq(U)
    OBVIOUS
  <2> HIDE DEF U
  <2> QED
    BY <2>1, <2>2, First, ConcatProperties
<1> HIDE DEF a, U, X, c
<1>2. CASE s = recover(r)
  BY <1>2, RecoverShape
<1>3. ASSUME NEW f \in Seq(X), s = f \o c, h = {"rep"} \cup ClientOf(s)
      PROVE  "rep" \in h /\ Head(s).op \notin {"lock", "unlock"}
  <2>1. CASE f = <<>>
    BY <1>1, <1>3, <2>1, EmptyFront
  <2>2. CASE f # <<>>
    <3>1. Head(s) \in X
      BY <1>1, <1>3, <2>2, FrontStep
    <3>2. \A x \in X : x.op \notin {"lock", "unlock"}
      BY DEF InRecover, X, Call, CallOp
    <3> QED
      BY <1>3, <3>1, <3>2
  <2> QED
    BY <2>1, <2>2
<1>4. ASSUME NEW q \in Others(r), s = SetNormal(q) \o Unlock("rep"), h = {"rep"}
      PROVE  "rep" \in h /\ Head(s).op \notin {"lock", "unlock"}
  <2> DEFINE n == [op |-> "setNormal", to |-> q]
  <2>1. /\ SetNormal(q) = <<n>> /\ Unlock("rep") = <<u>> /\ <<u>> \in Seq({u})
        /\ n.op = "setNormal"
    BY DEF SetNormal, Unlock
  <2> HIDE DEF n, u
  <2>2. Head(s) = n
    BY <1>4, <2>1, First
  <2> QED
    BY <1>4, <2>1, <2>2
<1> QED
  BY <1>2, <1>3, <1>4 DEF RecoverStage, c, X

\* In view 0 hbt is sending its heartbeats, or takes _repMutex and keeps it.
LEMMA QuietHolds ==
  ASSUME NEW t \in Thread, t[2] = "hbt", NEW s, NEW h, NEW rec \in BOOLEAN,
         Stage(t, s, h, rec, 0), s # <<>>
  PROVE  \/ Head(s).op \in CallOp /\ Head(s).m = "repClient"
         \/ Head(s).op = "lock" /\ Head(s).m = "rep"
         \/ /\ "rep" \in h /\ Head(s).op # "lock"
            /\ Head(s).op = "unlock" => <<>> \o Tail(s) = <<>>
<1>1. t[1] \in Replica
  BY DEF Thread
<1>2. CASE rec
  <2>1. RecoverStage(t[1], s, h)
    BY <1>2 DEF Stage
  <2> QED
    BY <1>1, <2>1, RecoverHolds
<1>3. CASE ~rec
  <2>1. HbtStage(t[1], s, h, 0)
    BY <1>3 DEF Stage
  <2>2. CASE s \in Seq(Call(t[1], "commit", "repClient")) /\ Len(s) = 1
    <3>1. Head(s) \in Call(t[1], "commit", "repClient")
      BY <2>2
    <3> QED
      BY <3>1, CallHead
  <2>3. CASE s = changeView(t[1])
    BY <1>1, <2>3, ChangeViewShape
  <2>4. CASE s = Tail(changeView(t[1])) /\ h = {"rep"}
    BY <1>1, <2>4, ChangeViewShape
  <2>5. CASE s = Unlock("rep") /\ h = {"rep"}
    <3> DEFINE u == [op |-> "unlock", m |-> "rep"]
    <3>1. s = <<u>> /\ u.op = "unlock"
      BY <2>5 DEF Unlock
    <3> HIDE DEF u
    <3>2. Head(s) = u /\ Tail(s) = <<>> /\ <<>> \o <<>> = <<>>
      BY <3>1
    <3> QED
      BY <2>5, <3>1, <3>2
  <2> QED
    BY <2>1, <2>2, <2>3, <2>4, <2>5 DEF HbtStage
<1> QED
  BY <1>2, <1>3

\* A heartbeat is sent without _repMutex.
LEMMA HeartBeatFree ==
  ASSUME NEW t \in Thread, t[2] = "hbt", NEW s, NEW h, NEW rec \in BOOLEAN, NEW v,
         Stage(t, s, h, rec, v), s # <<>>, Head(s).op \in CallOp, Head(s).m = "repClient"
  PROVE  "rep" \notin h
<1> DEFINE i == Head(s)
<1>1. Fits(t[1], t[2], i, h, rec, v)
  BY StageFits
<1>2. i.op \in CallOp /\ i.m = "repClient"
  OBVIOUS
<1> HIDE DEF i
<1>3. CallFits(t[1], t[2], i, h, rec, v)
  BY <1>1, <1>2 DEF Fits
<1> QED
  BY <1>2, <1>3, CallLocks

\* The replicas start with 0 as primary, one of them perhaps recovering.
LEMMA QuietInit == Init => QuietInv
<1>1. SUFFICES ASSUME Init PROVE OneAstray /\ OneSpeaks
  BY DEF QuietInv
<1>2. \A r \in Replica : priId[r] = 0 /\ serving[r] = Nil
  BY <1>1 DEF Init
<1>3. OneAstray
  <2>1. PICK z \in Recovering \cup {Nil} :
          status = [x \in Replica |-> IF x = z THEN "RECOVERING" ELSE "NORMAL"]
    BY <1>1 DEF Init
  <2>2. \A r \in Replica : Recovers(r) <=> r = z
    BY <2>1 DEF Recovers
  <2> QED
    BY <1>2, <2>1, <2>2, NilAssumption DEF OneAstray, isPrimary, Others
<1>4. \A t \in Thread : prog[t] = <<>>
  BY <1>1 DEF Init
<1> QED
  BY <1>2, <1>3, <1>4, Zero DEF OneSpeaks, Thread, ThreadName

\* A recovery ends with another replica as primary, and nothing else changes what
\* the replicas take for the primary.
LEMMA AstrayStep ==
  ASSUME LocksInv, NoView, OneAstray, Next, NoView'
  PROVE  OneAstray'
<1>1. /\ status \in [Replica -> {"NORMAL", "VIEW_CHANGE", "RECOVERING"}]
      /\ priId \in [Replica -> Replica]
  BY DEF LocksInv, LockTypes
<1>2. CASE priId' = priId /\ \A x \in Replica : Recovers(x)' = Recovers(x)
  BY <1>2 DEF OneAstray, isPrimary, Others
<1>3. ASSUME NEW r \in Replica, NEW q \in Others(r), Recovers(r),
             status' = [status EXCEPT ![r] = "NORMAL"],
             priId' = [priId EXCEPT ![r] = q]
      PROVE  OneAstray'
  <2>1. \A x \in Replica : /\ priId'[x] = IF x = r THEN q ELSE priId[x]
                           /\ Recovers(x)' = (x # r /\ Recovers(x))
    BY <1>1, <1>3 DEF Recovers
  <2>2. q # r /\ \A x \in Replica : x # r => ~Recovers(x) /\ priId[x] = 0
    BY <1>3 DEF OneAstray, Others
  <2>3. ASSUME NEW x \in Replica
        PROVE  /\ priId'[x] = x => x = 0
               /\ ~Recovers(x)'
               /\ priId'[x] # 0 => x = r
    BY <2>1, <2>2 DEF OneAstray, isPrimary
  <2> QED
    BY <2>3 DEF OneAstray, isPrimary, Others
<1> QED
  BY <1>2, <1>3, Adopts

\* No other replica begins to write or to send heartbeats, and the calls of
\* replica 0 keep the others busy only.
LEMMA SpeaksStep ==
  ASSUME LocksInv, NoView, OneAstray, OneSpeaks, Next, LocksInv', NoView'
  PROVE  OneSpeaks'
<1>1. LockTypes /\ StageInv /\ ServeInv /\ StageInv' /\ ServeInv'
  BY DEF LocksInv
<1>2. ASSUME NEW t \in Thread, prog'[t] # <<>> PROVE alive'[t[1]]
  BY <1>1, <1>2 DEF ServeInv
<1>3. \A r \in Replica : isPrimary(r) => r = 0
  BY DEF OneAstray
<1>4. ASSUME NEW r \in Replica, prog'[<<r, "t1">>] # <<>> PROVE r = 0
  <2> DEFINE w == <<r, "t1">>
  <2>1. w \in Thread /\ w[1] = r /\ w[2] = "t1"
    BY DEF Thread, ThreadName
  <2> HIDE DEF w
  <2>2. prog'[w] # <<>>
    BY <1>4 DEF w
  <2>3. prog[w] # <<>> \/ isPrimary(r)
    BY <1>2, <2>1, <2>2, Moves
  <2> QED
    BY <1>3, <2>3 DEF OneSpeaks, w
<1>5. ASSUME NEW r \in Replica, prog'[<<r, "hbt">>] # <<>>,
             Head(prog'[<<r, "hbt">>]).op \in CallOp,
             Head(prog'[<<r, "hbt">>]).m = "repClient", r # 0
      PROVE  FALSE
  <2> DEFINE w == <<r, "hbt">>
             s == prog[w]
             h == Held(w)
             rec == Recovers(w[1])
             s2 == prog'[w]
             h2 == Held(w)'
             rec2 == Recovers(w[1])'
             v2 == viewNum'[w[1]]
  <2>1. w \in Thread /\ w[1] = r /\ w[2] = "hbt"
    BY DEF Thread, ThreadName
  <2>2. Stage(w, s, h, rec, 0) /\ rec \in BOOLEAN
    <3>1. viewNum[w[1]] = 0
      BY <2>1 DEF NoView
    <3>2. Stage(w, prog[w], Held(w), Recovers(w[1]), viewNum[w[1]])
      BY <1>1, <2>1 DEF StageInv
    <3> QED
      BY <3>1, <3>2 DEF Recovers
  <2>3. Stage(w, s2, h2, rec2, v2) /\ rec2 \in BOOLEAN
    BY <1>1, <2>1 DEF StageInv, Recovers
  <2>4. s2 # <<>> /\ Head(s2).op \in CallOp /\ Head(s2).m = "repClient"
    BY <1>5
  <2>5. s # <<>> => Head(s).op \notin CallOp \/ Head(s).m # "repClient"
    BY <1>5 DEF OneSpeaks
  <2>6. \/ s2 = s
        \/ s = <<>> /\ (isPrimary(r) \/ s2 \in {changeView(r), recover(r)})
        \/ s # <<>> /\ Head(s).op = "lock" /\ (Head(s).m \in Mutex => Head(s).m \in h2)
        \/ s # <<>> /\ Head(s).op = "unlock" /\ s2 = <<>> \o Tail(s)
        \/ /\ s # <<>> /\ Head(s).op \notin {"lock", "unlock"}
           /\ "rep" \in h => "rep" \in h2
    <3>1. alive'[w[1]]
      BY <1>2, <2>1, <2>4
    <3> HIDE DEF w
    <3> QED
      BY <2>1, <3>1, Moves
  <2> HIDE DEF w, s, h, rec, s2, h2, rec2, v2
  <2>7. "rep" \notin h2
    BY <2>1, <2>3, <2>4, HeartBeatFree
  <2>8. s # <<>> =>
          \/ Head(s).op = "lock" /\ Head(s).m = "rep"
          \/ /\ "rep" \in h /\ Head(s).op # "lock"
             /\ Head(s).op = "unlock" => <<>> \o Tail(s) = <<>>
    BY <2>1, <2>2, <2>5, QuietHolds
  <2>9. s2 # s
    BY <2>4, <2>5
  <2>10. s2 \notin {changeView(r), recover(r)}
    <3>1. /\ Head(changeView(r)) = [op |-> "lock", m |-> "rep", asserts |-> FALSE]
          /\ Head(recover(r)) = [op |-> "lock", m |-> "rep", asserts |-> FALSE]
      BY ChangeViewShape, RecoverShape
    <3> QED
      BY <2>4, <3>1 DEF CallOp
  <2>11. ~isPrimary(r)
    BY <1>3, <1>5
  <2> QED
    BY <2>4, <2>6, <2>7, <2>8, <2>9, <2>10, <2>11 DEF Mutex
<1>6. serving'[0] = Nil
  <2>1. SUFFICES ASSUME serving'[0] # Nil PROVE FALSE
    OBVIOUS
  <2>2. PICK t \in Thread : /\ prog[t] # <<>> /\ Head(prog[t]).op = "call"
                            /\ 0 \in Others(t[1])
                            /\ Head(prog[t]).h \in {"commit", "doViewChange", "startView"}
    BY <2>1, Zero, Engages DEF OneSpeaks
  <2> DEFINE i == Head(prog[t])
             h == Held(t)
             rec == Recovers(t[1])
             v == viewNum[t[1]]
  <2>3. Fits(t[1], t[2], i, h, rec, v) /\ t[1] \in Replica /\ t[1] # 0 /\ v = 0
    BY <1>1, <2>2, HeadFits DEF Others, NoView
  <2>4. i.op \in CallOp /\ i.h \in {"commit", "doViewChange", "startView"}
    BY <2>2 DEF CallOp
  <2>5. t = <<t[1], t[2]>>
    BY DEF Thread
  <2> HIDE DEF i, h, rec, v
  <2>6. CallFits(t[1], t[2], i, h, rec, v)
    BY <2>3, <2>4 DEF Fits
  <2>7. \/ t[2] = "t1"
        \/ t[2] = "hbt" /\ i.m = "repClient"
    BY <2>3, <2>4, <2>6 DEF CallFits, Call, OkCall
  <2> QED
    BY <2>2, <2>3, <2>4, <2>5, <2>7 DEF OneSpeaks, i
<1> QED
  BY <1>4, <1>5, <1>6 DEF OneSpeaks

\* A view that has begun stays: viewNum never decreases.
LEMMA NoViewBefore ==
  ASSUME LocksInv, Next, NoView'
  PROVE  NoView
<1>1. viewNum \in [Replica -> Nat]
  BY DEF LocksInv, LockTypes
<1>2. viewNum' = viewNum \/ \E r \in Replica : viewNum' = [viewNum EXCEPT ![r] = @ + 1]
  <2>1. ASSUME NEW t \in Thread, Step(t)
        PROVE  viewNum' = viewNum \/ viewNum' = [viewNum EXCEPT ![t[1]] = @ + 1]
    BY <2>1 DEF Step, Acquire, Release, PassThrough, GoOn, CheckNormal, NextCall, MakeCall,
                Assign, StateVars
  <2>2. ASSUME NEW r \in Replica,
               \/ Return(r) \/ PopPrepInfo(r) \/ PopRecoveryReq(r)
               \/ ClientUpdate(r) \/ HeartBeat(r) \/ ChangeView(r) \/ Recover(r)
        PROVE  viewNum' = viewNum
    BY <2>2 DEF Return, PopPrepInfo, PopRecoveryReq, ClientUpdate, HeartBeat, ChangeView,
                Recover, Begin, StateVars
  <2> QED
    BY <2>1, <2>2 DEF Next, Thread
<1> QED
  BY <1>1, <1>2 DEF NoView

\* Every step before the first view change preserves it.
LEMMA QuietNext == LocksInv /\ QuietInv /\ [Next]_vars => QuietInv'
<1>1. SUFFICES ASSUME LocksInv, QuietInv, [Next]_vars, LocksInv', NoView'
               PROVE  OneAstray' /\ OneSpeaks'
  BY LocksNext DEF QuietInv
<1>2. CASE Next
  <2>1. NoView
    BY <1>1, <1>2, NoViewBefore
  <2>2. OneAstray /\ OneSpeaks
    BY <1>1, <2>1 DEF QuietInv
  <2> QED
    BY <1>1, <1>2, <2>1, <2>2, AstrayStep, SpeaksStep
<1>3. CASE UNCHANGED vars
  BY <1>1, <1>3 DEF vars, QuietInv, NoView, OneAstray, OneSpeaks, isPrimary, Recovers
<1> QED
  BY <1>1, <1>2, <1>3

\* As long as no view change has begun, only replica 0 speaks, and a replica that
\* recovers is the only one that takes another for the primary.
THEOREM QuietInvariant == Spec => []QuietInv
BY LocksInvariant, QuietInit, QuietNext, PTL DEF Spec

\* Before the first view change nobody holds _viewChangeMutex, and hbt is in a
\* circle only with a heartbeat of replica 0 or while it recovers.
LEMMA QuietHbt ==
  ASSUME LocksInv, NoView, OneSpeaks
  PROVE  /\ \A t \in Thread : "viewChange" \notin Held(t)
         /\ \A s \in Deadlocked : s[2] = "hbt" /\ ~Recovers(s[1]) =>
              s[1] = 0 /\ Head(prog[s]).op \in {"call", "called"}
<1>1. LockTypes /\ StageInv
  BY DEF LocksInv
<1>2. ASSUME NEW t \in Thread
      PROVE  /\ "viewChange" \notin Held(t)
             /\ prog[t] # <<>> => Fits(t[1], t[2], Head(prog[t]), Held(t), Recovers(t[1]), 0)
  <2>1. viewNum[t[1]] = 0
    BY DEF NoView, Thread
  <2>2. prog[t] = <<>> => Held(t) = {}
    BY <1>1, NoCall
  <2>3. prog[t] # <<>> => Fits(t[1], t[2], Head(prog[t]), Held(t), Recovers(t[1]), 0)
    BY <1>1, <2>1, HeadFits
  <2> DEFINE i == Head(prog[t])
             h == Held(t)
             rec == Recovers(t[1])
  <2> HIDE DEF i, h, rec
  <2>4. Fits(t[1], t[2], i, h, rec, 0) => "viewChange" \notin h
    BY DEF Fits
  <2> QED
    BY <2>2, <2>3, <2>4 DEF i, h, rec
<1>3. ASSUME NEW s \in Deadlocked, s[2] = "hbt", ~Recovers(s[1])
      PROVE  s[1] = 0 /\ Head(prog[s]).op \in {"call", "called"}
  <2> DEFINE i == Head(prog[s])
             h == Held(s)
             rec == Recovers(s[1])
  <2>1. /\ s \in Thread /\ s[1] \in Replica /\ s = <<s[1], "hbt">> /\ prog[s] # <<>>
        /\ i.op \in {"lock", "pass", "invoke", "call", "called"}
        /\ i.op = "lock" => LockFits(s[2], i, h)
        /\ i.op \in CallOp => CallFits(s[1], s[2], i, h, rec, viewNum[s[1]])
    BY <1>3, Blocked
  <2>2. Fits(s[1], s[2], i, h, rec, 0) /\ viewNum[s[1]] = 0 /\ ~rec
    BY <1>2, <1>3, <2>1 DEF NoView
  <2>3. h # {}
    BY <1>3, EmptyHanded
  <2> HIDE DEF i, h, rec
  <2>4. i.op \in CallOp \/ (i.op = "lock" /\ i.m = "rep")
    BY <1>3, <2>1, <2>2 DEF Fits
  <2>5. ~(i.op = "lock" /\ i.m = "rep")
    BY <1>3, <2>1, <2>3 DEF LockFits
  <2>6. CallFits(s[1], s[2], i, h, rec, 0)
    BY <2>1, <2>2, <2>4, <2>5
  <2>7. h \subseteq {"repClient"} /\ i.m = "repClient" /\ (i.m \in h <=> i.op # "invoke")
    BY <1>3, <2>2, <2>6, CallLocks
  <2>8. i.op \in {"call", "called"}
    BY <2>3, <2>4, <2>5, <2>7 DEF CallOp
  <2>9. s[1] = 0
    BY <2>1, <2>4, <2>5, <2>7 DEF OneSpeaks, i
  <2> QED
    BY <2>8, <2>9 DEF i
<1> QED
  BY <1>2, <1>3

\* A t2 in a circle is not the one of replica 0, and waits for its ppit.
LEMMA QuietServer ==
  ASSUME LocksInv, NoView, OneSpeaks, NEW b \in Replica, <<b, "t2">> \in Deadlocked
  PROVE  b # 0 /\ <<b, "ppit">> \in Deadlocked /\ "rep" \in Held(<<b, "ppit">>)
<1> DEFINE s == <<b, "t2">>
           i == Head(prog[s])
           u == WaitsFor(s)
           j == Head(prog[u])
<1>1. /\ s \in Thread /\ s[1] = b /\ s[2] = "t2" /\ prog[s] # <<>>
      /\ i.op \in {"lock", "pass", "invoke", "call", "called"} /\ i.op \notin CallOp
      /\ i.op = "lock" => LockFits(s[2], i, Held(s))
      /\ i.op = "pass" => PassFits(s[2], i, Held(s))
      /\ ~Recovers(b)
  BY Blocked
<1>2. b # 0
  BY <1>1 DEF LocksInv, ServeInv, OneSpeaks
<1>3. u \in Deadlocked /\ u # Nil
  BY Circle
<1>4. /\ u \in Thread /\ u[2] \in ThreadName /\ u = <<u[1], u[2]>> /\ prog[u] # <<>>
      /\ "kvMem" \in Held(u) => u[2] = "t1"
      /\ "rep" \in Held(u) => u[2] # "prrt"
  BY <1>3, Blocked
<1>5. i.op \in {"lock", "pass"} /\ i.m \in Held(u) /\ u[1] = b /\ u # s
  BY <1>1, <1>3, Waits DEF CallOp
<1>6. i.m \in {"kvMem", "rep", "viewChange"}
  <2> HIDE DEF i, s, u
  <2> QED
    BY <1>1, <1>5 DEF LockFits, PassFits
<1>7. u[2] # "t1"
  BY <1>2, <1>4, <1>5 DEF OneSpeaks
<1>8. u[2] # "hbt"
  BY <1>1, <1>2, <1>3, <1>5, QuietHbt
<1>9. i.m = "rep"
  BY <1>4, <1>5, <1>6, <1>7, QuietHbt
<1>10. u = <<b, "ppit">>
  BY <1>1, <1>4, <1>5, <1>7, <1>8, <1>9 DEF ThreadName
<1> QED
  BY <1>2, <1>3, <1>5, <1>9, <1>10

\* A ppit in a circle waits for the t2 of the replica it takes for the primary.
LEMMA QuietAnswer ==
  ASSUME LocksInv, NoView, OneSpeaks, NEW b \in Replica, b # 0,
         <<b, "ppit">> \in Deadlocked
  PROVE  <<priId[b], "t2">> \in Deadlocked /\ priId[b] \in Others(b)
<1> DEFINE s == <<b, "ppit">>
           i == Head(prog[s])
           u == WaitsFor(s)
           j == Head(prog[u])
<1>1. /\ s \in Thread /\ s[1] = b /\ s[2] = "ppit" /\ prog[s] # <<>>
      /\ i.op \in {"lock", "pass", "invoke", "call", "called"}
      /\ i.op = "lock" => LockFits(s[2], i, Held(s))
      /\ i.op = "pass" => PassFits(s[2], i, Held(s))
      /\ i.op \in CallOp => CallFits(s[1], s[2], i, Held(s), Recovers(b), viewNum[b])
  BY Blocked
<1>2. Held(s) # {}
  BY <1>1, EmptyHanded
<1>3. u \in Deadlocked /\ u # Nil
  BY Circle
<1>4. i.op \in CallOp /\ i \in OkCall
  <2> HIDE DEF i, s, u
  <2>1. i.op \notin {"lock", "pass"}
    BY <1>1, <1>2 DEF LockFits, PassFits
  <2>2. i.op \in CallOp
    BY <1>1, <2>1 DEF CallOp
  <2> QED
    BY <1>1, <2>2, CallLocks
<1>5. i.op \in {"invoke", "call"} /\ i.m = "repClient" /\ i.b = Nil
  BY <1>4 DEF OkCall
<1>6. i.op # "invoke"
  <2>1. SUFFICES ASSUME i.op = "invoke" PROVE FALSE
    OBVIOUS
  <2>2. "repClient" \in Held(u) /\ u[1] = b /\ u # s
    BY <1>1, <1>3, <1>5, <2>1, Waits
  <2>3. /\ u \in Thread /\ u = <<u[1], u[2]>> /\ prog[u] # <<>>
        /\ j.op \in CallOp => CallFits(u[1], u[2], j, Held(u), Recovers(u[1]), viewNum[u[1]])
        /\ \A m \in Held(u) \cap ClientMutex : j.op \in {"call", "called"} /\ j.m = m
    BY <1>3, Blocked
  <2>4. j.op \in CallOp /\ j.m = "repClient"
    BY <2>2, <2>3 DEF ClientMutex, CallOp
  <2>5. u[2] \in {"t1", "ppit", "hbt"}
    <3>1. CallFits(u[1], u[2], j, Held(u), Recovers(u[1]), viewNum[u[1]])
      BY <2>3, <2>4
    <3> HIDE DEF j, u
    <3> QED
      BY <2>4, <3>1, CallLocks
  <2>6. u = <<b, "t1">> \/ u = <<b, "hbt">>
    BY <2>2, <2>3, <2>5
  <2> QED
    BY <2>3, <2>4, <2>6 DEF OneSpeaks
<1>7. i.op = "call" /\ Callee(s) = priId[b]
  BY <1>1, <1>5, <1>6 DEF Callee
<1> QED
  BY <1>1, <1>3, <1>7, Waits

\* No t2 is in a circle.
LEMMA QuietServers ==
  ASSUME LocksInv, NoView, OneAstray, OneSpeaks, NEW b \in Replica
  PROVE  <<b, "t2">> \notin Deadlocked
<1>1. SUFFICES ASSUME <<b, "t2">> \in Deadlocked PROVE FALSE
  OBVIOUS
<1> DEFINE p == priId[b]
<1>2. <<p, "t2">> \in Deadlocked /\ p \in Others(b)
  BY <1>1, QuietServer, QuietAnswer
<1>3. p \in Replica /\ p # 0
  BY <1>2, QuietServer DEF Others
<1>4. <<priId[p], "t2">> \in Deadlocked
  BY <1>2, <1>3, QuietServer, QuietAnswer
<1>5. priId[p] = 0
  BY <1>2, <1>3 DEF OneAstray
<1> QED
  BY <1>4, <1>5, Zero, QuietServer

\* The inversion of kvMemMutex and _repMutex needs a recovery.
LEMMA QuietInversion ==
  ASSUME LocksInv, NoView, OneAstray, OneSpeaks, NEW r \in Replica, Inversion(r)
  PROVE  r \in Recovering
<1> DEFINE t == <<r, "t1">>
           u == WaitsFor(t)
           i == Head(prog[t])
           j == Head(prog[u])
<1>1. /\ t \in Deadlocked /\ t \in Thread /\ t[1] = r /\ t[2] = "t1"
      /\ "kvMem" \in Held(t) /\ WaitsFor(u) = t
  BY DEF Inversion, Held, Mutex, Thread, ThreadName
<1>2. u \in Deadlocked /\ u # Nil /\ WaitsFor(u) # Nil /\ u \in Thread
  BY <1>1, Circle
<1>3. /\ u[2] \in ThreadName /\ u = <<u[1], u[2]>> /\ u[1] \in Replica
      /\ u[2] # "prrt"
      /\ j.op = "lock" => LockFits(u[2], j, Held(u))
      /\ j.op = "pass" => PassFits(u[2], j, Held(u))
      /\ j.op \in CallOp => CallFits(u[1], u[2], j, Held(u), Recovers(u[1]), viewNum[u[1]])
  BY <1>2, Blocked, PrrtFree
<1>4. /\ j.op \in {"lock", "pass", "invoke"} /\ j.m \in Held(t) /\ j.m \notin Held(u)
      /\ u[1] = r /\ u # t
  BY <1>1, <1>2, Waits
<1>5. u[2] \notin {"t1", "t2"}
  BY <1>1, <1>2, <1>3, <1>4, QuietServers
<1>6. /\ i.op \in {"lock", "pass", "invoke", "call", "called"}
      /\ i.op = "lock" => LockFits(t[2], i, Held(t))
      /\ i.op = "pass" => PassFits(t[2], i, Held(t))
      /\ i.op \in CallOp => CallFits(t[1], t[2], i, Held(t), Recovers(r), viewNum[r])
  BY <1>1, Blocked
<1>7. i.op \in {"lock", "pass", "invoke"} /\ i.m \in Held(u)
  BY <1>1, <1>2, <1>3, <1>4, <1>5, Waits
<1>8. u[2] # "ppit"
  <2>1. SUFFICES ASSUME u[2] = "ppit" PROVE FALSE
    OBVIOUS
  <2> HIDE DEF i, j, t, u
  <2>2. Held(u) # {}
    BY <1>7
  <2>3. j.op = "invoke"
    BY <1>3, <1>4, <2>1, <2>2 DEF LockFits, PassFits
  <2>4. j.m = "repClient" /\ "rep" \in Held(u)
    BY <1>3, <2>1, <2>3, CallLocks DEF CallOp
  <2>5. "repClient" \in Held(t)
    BY <1>4, <2>4
  <2>6. "rep" \notin Held(t)
    BY <1>1, <1>2, <1>4, <2>4, HeldOnce
  <2>7. i.op \notin CallOp
    BY <1>1, <1>6, <2>6, CallLocks
  <2> QED
    BY <1>1, <1>6, <1>7, <2>5, <2>7 DEF LockFits, PassFits, CallOp
<1>9. u[2] = "hbt"
  BY <1>3, <1>5, <1>8 DEF ThreadName
<1>10. Recovers(r)
  BY <1>2, <1>4, <1>9, QuietHbt
<1> QED
  BY <1>10 DEF OneAstray

\* As long as no view change has begun, replication, heartbeats and recovery never
\* wait for each other in a circle; only a client's write at a recovering replica
\* that takes itself for the primary may.
THEOREM NormalCase == Spec => []NormalCaseNeverDeadlocks
<1>1. LocksInv /\ QuietInv => NormalCaseNeverDeadlocks
  <2>1. SUFFICES ASSUME LocksInv, NoView, OneAstray, OneSpeaks, NEW s \in Deadlocked,
                        \A r \in Recovering : ~Inversion(r)
                 PROVE  FALSE
    BY DEF NormalCaseNeverDeadlocks, QuietInv, NoView
  <2>2. \A r \in Replica : ~Inversion(r)
    BY <2>1, QuietInversion
  <2>3. \A t \in Deadlocked : t[2] # "t2"
    <3>1. \A t \in Deadlocked : t[1] \in Replica /\ t = <<t[1], t[2]>>
      BY <2>1, Blocked
    <3> QED
      BY <2>1, <3>1, QuietServers
  <2>4. s[2] = "hbt" /\ <<s[1], "t2">> \in Deadlocked
    BY <2>1, <2>2, <2>3, OtherCircles
  <2> QED
    BY <2>3, <2>4
<1> QED
  BY <1>1, LocksInvariant, QuietInvariant, PTL
=============================================================================
