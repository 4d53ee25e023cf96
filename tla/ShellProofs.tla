---------------------------- MODULE ShellProofs ----------------------------
(***************************************************************************)
(* Proofs about the shell and the client operations it calls, for any set  *)
(* of lines, keys and values, and any number of lines typed.               *)
(*                                                                         *)
(* The order: a line has at most one request, and the shell reads the next *)
(* line only when the server has served it and the reply was taken.  The   *)
(* reports: the reply on its way is true of the request served last.  The  *)
(* tree: pruneKey makes a canonical spelling and finds its last slash, so  *)
(* that create asks for the parent, and remove finds some child of a key   *)
(* that has any descendant.  That needs a tree to begin with: a replica    *)
(* that was a backup has whatever it was told to apply.                    *)
(***************************************************************************)
EXTENDS Shell, WellFoundedInduction, TLAPS

-----------------------------------------------------------------------------
(***************************************************************************)
(* Functions that are defined step by step.                                *)
(***************************************************************************)
\* What holds at 0 and is passed on by every step holds up to m.
LEMMA StepByStep ==
  ASSUME NEW m \in Nat, NEW S, 0 \in S, \A i \in 1 .. m : i - 1 \in S => i \in S
  PROVE  \A i \in 0 .. m : i \in S
<1> DEFINE T == {i \in 0 .. m : i \notin S}
<1>1. SUFFICES ASSUME T # {} PROVE FALSE
  OBVIOUS
<1>2. T \in SUBSET Nat
  OBVIOUS
<1>3. PICK i \in T : \A j \in T : ~ (<<j, i>> \in OpToRel(<, Nat))
  <2> HIDE DEF T
  <2>1. IsWellFoundedOn(OpToRel(<, Nat), Nat)
    BY NatLessThanWellFounded
  <2> QED
    BY <1>1, <1>2, <2>1, WFMin
<1>4. i \in 1 .. m /\ i \notin S /\ i - 1 \in 0 .. m
  <2>1. i \in 0 .. m /\ i \notin S
    OBVIOUS
  <2>2. i # 0
    BY <2>1
  <2> QED
    BY <2>1, <2>2
<1>5. \A j \in T : ~ (j < i)
  <2>1. i \in Nat
    BY <1>2
  <2> HIDE DEF T
  <2> QED
    BY <1>2, <1>3, <2>1 DEF OpToRel
<1>6. i - 1 \in S
  <2>1. ~ (i - 1 >= i)
    BY <1>4
  <2> QED
    BY <1>4, <1>5, <2>1
<1> QED
  BY <1>4, <1>6

\* f begins with x and follows the steps of G, up to m.
Iterates(f, m, X, x, G) ==
  /\ f \in [0 .. m -> X]
  /\ f[0] = x
  /\ \A i \in 1 .. m : f[i] = G[i][f[i - 1]]

\* A function can be defined by its first value and its steps.
LEMMA IterateExists ==
  ASSUME NEW m \in Nat, NEW X, NEW x \in X, NEW G \in [1 .. m -> [X -> X]]
  PROVE  \E f : Iterates(f, m, X, x, G)
<1> DEFINE S == {n \in 0 .. m : \E f : Iterates(f, n, X, x, G)}
<1>1. 0 \in S
  <2>1. Iterates([i \in 0 .. 0 |-> x], 0, X, x, G)
    BY DEF Iterates
  <2>2. 0 \in 0 .. m
    OBVIOUS
  <2> QED
    BY <2>1, <2>2
<1>2. ASSUME NEW n \in 1 .. m, n - 1 \in S PROVE n \in S
  <2>1. PICK f : Iterates(f, n - 1, X, x, G)
    BY <1>2
  <2>2. n - 1 \in 0 .. n - 1 /\ f[n - 1] \in X /\ G[n] \in [X -> X]
    BY <2>1 DEF Iterates
  <2> DEFINE g == [i \in 0 .. n |-> IF i = n THEN G[n][f[n - 1]] ELSE f[i]]
  <2>3. g \in [0 .. n -> X]
    BY <2>1, <2>2 DEF Iterates
  <2>4. \A i \in 0 .. n - 1 : g[i] = f[i]
    OBVIOUS
  <2>5. g[n] = G[n][f[n - 1]]
    OBVIOUS
  <2> HIDE DEF g
  <2>6. g[0] = x
    BY <2>1, <2>4 DEF Iterates
  <2>7. ASSUME NEW i \in 1 .. n PROVE g[i] = G[i][g[i - 1]]
    <3>1. CASE i = n
      BY <2>2, <2>4, <2>5, <3>1
    <3>2. CASE i # n
      <4>1. i \in 1 .. n - 1 /\ i - 1 \in 0 .. n - 1 /\ i \in 0 .. n - 1
        BY <3>2
      <4> QED
        BY <2>1, <2>4, <4>1 DEF Iterates
    <3> QED
      BY <3>1, <3>2
  <2>8. Iterates(g, n, X, x, G)
    BY <2>3, <2>6, <2>7 DEF Iterates
  <2> QED
    BY <2>8
<1>3. m \in S
  <2>1. m \in 0 .. m
    OBVIOUS
  <2> HIDE DEF S
  <2>2. \A i \in 0 .. m : i \in S
    BY <1>1, <1>2, StepByStep
  <2> QED
    BY <2>1, <2>2
<1> QED
  BY <1>3

-----------------------------------------------------------------------------
(***************************************************************************)
(* The requests of a script.                                               *)
(***************************************************************************)
Asked == {RequestOf(l.words) : l \in Line}

\* What RequestsOf makes of the first lines, for each number of lines.
CollectedBy(f, lines) ==
  /\ f \in [0 .. Len(lines) -> Seq(Asked)]
  /\ f[0] = <<>>
  /\ \A n \in 1 .. Len(lines) :
       f[n] = IF RequestOf(lines[n].words) = Nil THEN f[n - 1]
              ELSE Append(f[n - 1], RequestOf(lines[n].words))

\* RequestsOf goes through the lines one by one.
LEMMA RequestsCollected ==
  ASSUME NEW lines \in Seq(Line)
  PROVE  \E f : CollectedBy(f, lines) /\ RequestsOf(lines) = f[Len(lines)]
<1> DEFINE
      m == Len(lines)
      R(n) == RequestOf(lines[n].words)
      Collects(f) ==
        f = [n \in 0 .. m |-> IF n = 0 THEN <<>>
                              ELSE IF R(n) = Nil THEN f[n - 1]
                              ELSE Append(f[n - 1], R(n))]
      G == [n \in 1 .. m |-> [s \in Seq(Asked) |->
              IF R(n) = Nil THEN s ELSE Append(s, R(n))]]
      upTo == CHOOSE f : Collects(f)
<1>0. m \in Nat /\ \A n \in 1 .. m : lines[n] \in Line
  OBVIOUS
<1>1. \A n \in 1 .. m : R(n) \in Asked
  BY <1>0 DEF Asked
<1>2. RequestsOf(lines) = upTo[m]
  BY DEF RequestsOf
<1> HIDE DEF R, m
<1>3. G \in [1 .. m -> [Seq(Asked) -> Seq(Asked)]]
  BY <1>1
<1>4. PICK f : Iterates(f, m, Seq(Asked), <<>>, G)
  <2>1. <<>> \in Seq(Asked)
    OBVIOUS
  <2> HIDE DEF G
  <2> QED
    BY <1>0, <1>3, <2>1, IterateExists
<1>5. \A n \in 1 .. m : f[n] = IF R(n) = Nil THEN f[n - 1]
                               ELSE Append(f[n - 1], R(n))
  <2>1. TAKE n \in 1 .. m
  <2>2. n - 1 \in 0 .. m
    BY <1>0
  <2>3. f[n] = G[n][f[n - 1]] /\ f[n - 1] \in Seq(Asked)
    BY <1>4, <2>2 DEF Iterates
  <2> QED
    BY <2>3
<1>6. Collects(f)
  <2>1. ASSUME NEW n \in 0 .. m
        PROVE  f[n] = IF n = 0 THEN <<>> ELSE IF R(n) = Nil THEN f[n - 1]
                      ELSE Append(f[n - 1], R(n))
    <3>1. CASE n = 0
      BY <1>4, <3>1 DEF Iterates
    <3>2. CASE n # 0
      <4>1. n \in 1 .. m
        BY <1>0, <3>2
      <4> QED
        BY <1>5, <3>2, <4>1
    <3> QED
      BY <3>1, <3>2
  <2> QED
    BY <1>4, <2>1 DEF Iterates
<1>7. Collects(upTo)
  BY <1>6
<1> HIDE DEF upTo
<1>8. /\ DOMAIN upTo = 0 .. m
      /\ upTo[0] = <<>>
      /\ \A n \in 1 .. m : upTo[n] = IF R(n) = Nil THEN upTo[n - 1]
                                     ELSE Append(upTo[n - 1], R(n))
  <2>1. DOMAIN upTo = 0 .. m /\ upTo[0] = <<>>
    BY <1>0, <1>7
  <2>2. ASSUME NEW n \in 1 .. m
        PROVE  upTo[n] = IF R(n) = Nil THEN upTo[n - 1]
                         ELSE Append(upTo[n - 1], R(n))
    <3>1. n \in 0 .. m /\ n # 0
      BY <1>0
    <3> QED
      BY <1>7, <3>1
  <2> QED
    BY <2>1, <2>2
<1>9. \A n \in 0 .. m : upTo[n] \in Seq(Asked)
  <2> DEFINE S == {n \in 0 .. m : upTo[n] \in Seq(Asked)}
  <2>1. 0 \in S
    <3>1. 0 \in 0 .. m /\ <<>> \in Seq(Asked)
      BY <1>0
    <3> QED
      BY <1>8, <3>1
  <2>2. ASSUME NEW n \in 1 .. m, n - 1 \in S PROVE n \in S
    <3>1. upTo[n - 1] \in Seq(Asked) /\ R(n) \in Asked /\ n \in 0 .. m
      BY <1>0, <1>1, <2>2
    <3>2. Append(upTo[n - 1], R(n)) \in Seq(Asked)
      BY <3>1
    <3>3. upTo[n] \in Seq(Asked)
      BY <1>8, <3>1, <3>2, Zenon
    <3> QED
      BY <3>1, <3>3
  <2>3. \A n \in 0 .. m : n \in S
    <3> HIDE DEF S
    <3> QED
      BY <1>0, <2>1, <2>2, StepByStep
  <2> QED
    BY <2>3
<1>10. upTo \in [0 .. m -> Seq(Asked)]
  BY <1>7, <1>9
<1>11. CollectedBy(upTo, lines)
  BY <1>8, <1>10 DEF CollectedBy, m, R
<1> QED
  BY <1>2, <1>11 DEF m

\* Before the first line nothing is asked for.
LEMMA NothingAsked == RequestsOf(<<>>) = <<>>
<1>1. <<>> \in Seq(Line) /\ Len(<<>>) = 0
  OBVIOUS
<1> QED
  BY <1>1, RequestsCollected DEF CollectedBy

\* One more line asks for what it says, behind everything before.
LEMMA OneMoreLine ==
  ASSUME NEW lines \in Seq(Line), NEW l \in Line
  PROVE  /\ RequestsOf(lines) \in Seq(Asked)
         /\ RequestsOf(Append(lines, l)) =
              IF RequestOf(l.words) = Nil THEN RequestsOf(lines)
              ELSE Append(RequestsOf(lines), RequestOf(l.words))
<1> DEFINE m == Len(lines)
           more == Append(lines, l)
<1>1. /\ m \in Nat /\ more \in Seq(Line) /\ Len(more) = m + 1
      /\ more[m + 1] = l /\ \A n \in 1 .. m : more[n] = lines[n]
  OBVIOUS
<1>2. PICK f : CollectedBy(f, lines) /\ RequestsOf(lines) = f[m]
  BY RequestsCollected
<1>3. PICK g : CollectedBy(g, more) /\ RequestsOf(more) = g[m + 1]
  BY <1>1, RequestsCollected
<1> HIDE DEF m, more
<1>4. \A n \in 0 .. m : f[n] = g[n]
  <2> DEFINE S == {n \in 0 .. m : f[n] = g[n]}
  <2>1. 0 \in S
    BY <1>1, <1>2, <1>3 DEF CollectedBy
  <2>2. ASSUME NEW n \in 1 .. m, n - 1 \in S PROVE n \in S
    <3>1. n \in 1 .. m + 1 /\ n \in 0 .. m
      BY <1>1
    <3>2. f[n] = IF RequestOf(lines[n].words) = Nil THEN f[n - 1]
                 ELSE Append(f[n - 1], RequestOf(lines[n].words))
      BY <1>2 DEF CollectedBy, m
    <3>3. g[n] = IF RequestOf(more[n].words) = Nil THEN g[n - 1]
                 ELSE Append(g[n - 1], RequestOf(more[n].words))
      BY <1>1, <1>3, <3>1 DEF CollectedBy
    <3> QED
      BY <1>1, <2>2, <3>1, <3>2, <3>3
  <2>3. \A n \in 0 .. m : n \in S
    <3> HIDE DEF S
    <3> QED
      BY <1>1, <2>1, <2>2, StepByStep
  <2> QED
    BY <2>3
<1>5. f[m] = g[m] /\ f[m] \in Seq(Asked)
  BY <1>1, <1>2, <1>4 DEF CollectedBy, m
<1>6. g[m + 1] = IF RequestOf(l.words) = Nil THEN g[m]
                 ELSE Append(g[m], RequestOf(l.words))
  <2>1. m + 1 \in 1 .. m + 1 /\ m + 1 - 1 = m
    BY <1>1
  <2> QED
    BY <1>1, <1>3, <2>1 DEF CollectedBy
<1> QED
  BY <1>2, <1>3, <1>5, <1>6 DEF more

-----------------------------------------------------------------------------
(***************************************************************************)
(* The order of the requests.                                              *)
(***************************************************************************)
Reading == pc \in {"start", "read"}

\* The request of the last line was not served.
LastMissing == \E r \in Asked : RequestsOf(typed) = Append(applied, r)

\* The shell reads on only when its last request was served and the reply, if
\* it came, was taken.
OrderInv ==
  /\ typed \in Seq(Line) /\ applied \in Seq(Asked) /\ req \in Asked \cup {Nil}
  /\ Reading => req = Nil /\ reply = Nil
  /\ req # Nil => reply = Nil /\ RequestsOf(typed) = Append(applied, req)
  /\ reply # Nil => RequestsOf(typed) = applied
  /\ RequestsOf(typed) = applied \/ (~Reading /\ LastMissing)

\* A line that did not fit has failed the stream for good.
FitInv ==
  \A i \in 1 .. Len(typed) : ~typed[i].fits => i = Len(typed) /\ flags # {}

\* What ReadLine does: a line more or none, and its request, if there is one, is
\* sent, or the shell is over.
LEMMA LineRead ==
  ASSUME OrderInv, FitInv, ReadLine
  PROVE  /\ FitInv'
         /\ UNCHANGED <<applied, effect, kvMap>>
         /\ pc = "read" /\ pc' # "start" /\ req = Nil /\ reply' = Nil
         /\ \/ /\ typed' = typed /\ req' = Nil
               /\ pc' = "read" => shown' = shown
            \/ \E l \in Line :
                 /\ typed' = Append(typed, l)
                 /\ \/ /\ RequestOf(l.words) = Nil /\ req' = Nil
                       /\ pc' = "read" => shown' = shown
                    \/ /\ RequestOf(l.words) # Nil /\ req' = RequestOf(l.words)
                       /\ pc' = "wait"
                    \/ /\ RequestOf(l.words) # Nil /\ req' = Nil
                       /\ pc' = "failed"
<1>1. /\ pc = "read" /\ req = Nil /\ reply = Nil
      /\ typed \in Seq(Line) /\ UNCHANGED <<applied, effect, kvMap>>
  BY DEF ReadLine, OrderInv, Reading, apiVars
<1>2. PICK in \in getline(flags) :
        /\ flags' = in.flags
        /\ typed' = IF in.line = Nil THEN typed ELSE Append(typed, in.line)
        /\ DispatchCommand(in.buf)
  BY DEF ReadLine
<1>3. RequestOf(Blank) = Nil /\ Blank[1] # "exit"
  BY DEF RequestOf, Blank
<1>4. RequestOf(in.buf) # Nil => in.buf[1] # "exit"
  BY DEF RequestOf
<1>5. \/ in.line = Nil /\ in.buf = Blank /\ (flags # {} => in.flags # {})
      \/ /\ in.line \in Line /\ in.line # Nil /\ in.buf = in.line.words
         /\ flags = {} /\ (~in.line.fits => in.flags # {})
  BY LineAssumption DEF getline, NextLine
<1>6. /\ reply' = Nil /\ pc' # "start"
      /\ \/ /\ RequestOf(in.buf) = Nil /\ req' = Nil
            /\ pc' = "read" => shown' = shown
         \/ /\ RequestOf(in.buf) # Nil /\ req' = RequestOf(in.buf) /\ pc' = "wait"
         \/ /\ RequestOf(in.buf) # Nil /\ req' = Nil /\ pc' = "failed"
  BY <1>1, <1>2, <1>4 DEF DispatchCommand, close
<1>7. CASE in.line = Nil
  <2>1. in.buf = Blank /\ typed' = typed /\ (flags # {} => flags' # {})
    BY <1>2, <1>5, <1>7
  <2>2. FitInv'
    BY <2>1 DEF FitInv
  <2>3. req' = Nil /\ (pc' = "read" => shown' = shown)
    BY <1>3, <1>6, <2>1
  <2> QED
    BY <1>1, <1>6, <2>1, <2>2, <2>3
<1>8. CASE in.line # Nil
  <2>1. /\ in.line \in Line /\ in.buf = in.line.words
        /\ typed' = Append(typed, in.line)
        /\ flags = {} /\ (~in.line.fits => flags' # {})
    BY <1>2, <1>5, <1>8
  <2>2. FitInv'
    <3>1. \A i \in 1 .. Len(typed) : typed[i].fits
      BY <2>1 DEF FitInv
    <3>2. /\ Len(typed') = Len(typed) + 1 /\ typed'[Len(typed) + 1] = in.line
          /\ \A i \in 1 .. Len(typed) : typed'[i] = typed[i]
          /\ Len(typed) \in Nat
      BY <1>1, <2>1
    <3> QED
      BY <2>1, <3>1, <3>2 DEF FitInv
  <2> QED
    BY <1>1, <1>6, <2>1, <2>2
<1> QED
  BY <1>7, <1>8

\* Serve takes the request over into what was served.
LEMMA OneServed ==
  ASSUME OrderInv, Serve
  PROVE  /\ req \in Asked /\ ~Reading /\ ~Reading' /\ UNCHANGED <<typed, flags>>
         /\ applied' = Append(applied, req) /\ applied' \in Seq(Asked)
         /\ applied' # <<>> /\ Last(applied') = req /\ req' = Nil
         /\ RequestsOf(typed') = applied'
<1>1. req # Nil /\ req \in Asked /\ applied \in Seq(Asked)
  BY DEF Serve, OrderInv
<1>2. ~Reading /\ ~Reading' /\ UNCHANGED <<typed, flags>>
  BY <1>1 DEF Serve, OrderInv, Reading
<1>3. applied' = Append(applied, req) /\ req' = Nil
  BY DEF Serve
<1>4. /\ Append(applied, req) \in Seq(Asked) /\ Append(applied, req) # <<>>
      /\ Last(Append(applied, req)) = req
  BY <1>1 DEF Last
<1> QED
  BY <1>1, <1>2, <1>3, <1>4 DEF OrderInv

\* Every step keeps the order.
LEMMA OrderKept == OrderInv /\ FitInv /\ [Next]_vars => OrderInv' /\ FitInv'
<1> SUFFICES ASSUME OrderInv, FitInv, [Next]_vars PROVE OrderInv' /\ FitInv'
  OBVIOUS
<1>1. ASSUME UNCHANGED <<typed, applied, flags>>, req' \in {req, Nil},
             reply' \in {reply, Nil}, Reading' => Reading,
             RequestsOf(typed) = applied \/ ~Reading'
      PROVE  OrderInv' /\ FitInv'
  <2>1. RequestsOf(typed') = RequestsOf(typed) /\ LastMissing' = LastMissing
    BY <1>1 DEF LastMissing
  <2> QED
    BY <1>1, <2>1 DEF OrderInv, FitInv
<1>2. CASE UNCHANGED shellVars
  BY <1>1, <1>2 DEF shellVars, OrderInv, Reading
<1>3. CASE UNCHANGED vars
  BY <1>2, <1>3 DEF vars
<1>4. CASE Connect
  BY <1>1, <1>4 DEF Connect, OrderInv, Reading
<1>5. CASE ReadLine
  <2>1. FitInv'
    BY <1>5, LineRead
  <2>2. /\ typed \in Seq(Line) /\ applied \in Seq(Asked)
        /\ RequestsOf(typed) = applied
    BY <1>5, LineRead DEF OrderInv, Reading
  <2>3. CASE typed' = typed /\ req' = Nil
    BY <1>5, <2>2, <2>3, LineRead DEF OrderInv
  <2>4. ASSUME NEW l \in Line, typed' = Append(typed, l),
               \/ RequestOf(l.words) = Nil /\ req' = Nil
               \/ /\ RequestOf(l.words) # Nil /\ req' = RequestOf(l.words)
                  /\ pc' = "wait"
               \/ RequestOf(l.words) # Nil /\ req' = Nil /\ pc' = "failed"
        PROVE  OrderInv'
    <3>1. /\ RequestsOf(typed') = IF RequestOf(l.words) = Nil THEN applied
                                  ELSE Append(applied, RequestOf(l.words))
          /\ typed' \in Seq(Line) /\ RequestOf(l.words) \in Asked
      BY <2>2, <2>4, OneMoreLine DEF Asked
    <3>2. reply' = Nil /\ applied' = applied /\ req' \in Asked \cup {Nil}
      BY <1>5, <2>4, <3>1, LineRead
    <3>3. CASE RequestOf(l.words) = Nil
      BY <2>2, <2>4, <3>1, <3>2, <3>3 DEF OrderInv
    <3>4. CASE RequestOf(l.words) # Nil
      <4>1. ~Reading'
        BY <2>4, <3>4 DEF Reading
      <4>2. LastMissing'
        BY <3>1, <3>2, <3>4 DEF LastMissing
      <4> QED
        BY <2>2, <2>4, <3>1, <3>2, <3>4, <4>1, <4>2 DEF OrderInv
    <3> QED
      BY <3>3, <3>4
  <2> QED
    BY <1>5, <2>1, <2>3, <2>4, LineRead
<1>6. CASE Leave
  BY <1>1, <1>6 DEF Leave, close, Reading
<1>7. CASE Receive
  <2>1. /\ UNCHANGED <<typed, applied, flags, req>> /\ reply # Nil /\ reply' = Nil
        /\ pc' # "start"
    BY <1>7 DEF Receive
  <2>2. req = Nil /\ RequestsOf(typed) = applied
    BY <2>1 DEF OrderInv
  <2>3. RequestsOf(typed') = applied'
    BY <2>1, <2>2
  <2> QED
    BY <2>1, <2>2, <2>3 DEF OrderInv, FitInv
<1>8. CASE GiveUp
  BY <1>1, <1>8 DEF GiveUp, close, Reading
<1>9. CASE Serve
  <2>1. FitInv'
    BY <1>9, OneServed DEF FitInv
  <2>2. typed' \in Seq(Line)
    BY <1>9, OneServed DEF OrderInv
  <2> QED
    BY <1>9, <2>1, <2>2, OneServed DEF OrderInv
<1>10. CASE Break
  <2>1. /\ UNCHANGED <<typed, applied, flags, pc>>
        /\ req' \in {req, Nil} /\ reply' \in {reply, Nil}
    BY <1>10 DEF Break
  <2>2. Reading' = Reading
    BY <2>1 DEF Reading
  <2> QED
    BY <1>1, <2>1, <2>2 DEF OrderInv
<1>11. CASE OtherClient \/ RoleChanges \/ CallsBack
  BY <1>2, <1>11 DEF OtherClient, RoleChanges, CallsBack
<1> QED
  BY <1>3, <1>4, <1>5, <1>6, <1>7, <1>8, <1>9, <1>10, <1>11 DEF Next, ShellNext

\* The order holds when the shell starts.
LEMMA OrderFirst == Init => OrderInv /\ FitInv
<1> SUFFICES ASSUME Init PROVE OrderInv /\ FitInv
  OBVIOUS
<1>1. /\ typed = <<>> /\ applied = <<>> /\ req = Nil /\ reply = Nil
      /\ RequestsOf(typed) = <<>>
  BY NothingAsked DEF Init
<1>2. <<>> \in Seq(Line) /\ <<>> \in Seq(Asked) /\ Len(<<>>) = 0
  OBVIOUS
<1> QED
  BY <1>1, <1>2 DEF OrderInv, FitInv

\* The server serves what was typed, in the order of the lines and each line
\* once; only the request of the last line may be missing, and the shell does not
\* read on then.
THEOREM ServedInOrder == Spec => []AppliedInOrder
<1>1. OrderInv /\ FitInv => AppliedInOrder
  <2> SUFFICES ASSUME OrderInv, FitInv PROVE AppliedInOrder
    OBVIOUS
  <2>1. ASSUME RequestsOf(typed) # applied
        PROVE  /\ pc # "read" /\ RequestsOf(typed) # <<>>
               /\ applied = Front(RequestsOf(typed))
    <3>1. PICK r \in Asked : RequestsOf(typed) = Append(applied, r)
      BY <2>1 DEF OrderInv, LastMissing
    <3>2. applied \in Seq(Asked)
      BY DEF OrderInv
    <3>3. Append(applied, r) # <<>> /\ Front(Append(applied, r)) = applied
      BY <3>2 DEF Front
    <3>4. pc # "read"
      BY <2>1 DEF OrderInv, Reading
    <3> QED
      BY <3>1, <3>3, <3>4
  <2>2. \A i \in 1 .. Len(typed) : ~typed[i].fits => i = Len(typed)
    BY DEF FitInv
  <2> QED
    BY <2>1, <2>2 DEF AppliedInOrder
<1> QED
  BY <1>1, OrderFirst, OrderKept, PTL DEF Spec

-----------------------------------------------------------------------------
(***************************************************************************)
(* What a command reports.                                                 *)
(***************************************************************************)
\* A reply on its way is the reply to the request served last, and the shell
\* has not shown another one since.
ReportInv ==
  /\ pc = "start" => applied = <<>>
  /\ reply # Nil => applied # <<>> /\ Tells(Last(applied), Show(reply), effect)
  /\ ReportsEffect

\* A message about an error tells that nothing changed, and nothing else.
LEMMA ErrorTells ==
  ASSUME NEW r, NEW err, NEW eff, eff.same,
         NEW op \in {"create", "set", "remove", "get", "list"}, r.op = op
  PROVE  op # "get" /\ err # "NONE" => Tells(r, getClientError(err), eff)
<1>1. getClientError(err) \in ClientMessage \cup {"abort"}
  BY DEF getClientError, ClientMessage
<1>2. getClientError(err) \notin {"CREATED", "REMOVED", NoVal}
  BY <1>1 DEF ClientMessage, NoVal
<1> QED
  BY <1>2 DEF Tells

\* Whatever the store answers to a request, the command that shows the answer
\* tells the truth about it.
LEMMA ServedTells ==
  ASSUME NEW out \in Outcome, req # Nil, effect' = EffectOf(req.key),
         \/ req.op = "create" /\ create(req.key, req.val, out)
         \/ req.op = "set" /\ set(req.key, req.val, out)
         \/ req.op = "remove" /\ remove(req.key, out)
         \/ req.op = "get" /\ get(req.key)
         \/ req.op = "list" /\ list(req.key)
  PROVE  Tells(req, Show(res'), effect')
<1> DEFINE k == pruneKey(req.key).key
<1>1. /\ effect'.had = (k \in DOMAIN kvMap) /\ effect'.has = (k \in DOMAIN kvMap')
      /\ effect'.val = IF k \in DOMAIN kvMap' THEN kvMap'[k] ELSE NoVal
      /\ effect'.same = (kvMap' = kvMap)
  BY DEF EffectOf
<1> HIDE DEF k
<1>2. CASE req.op = "create" /\ create(req.key, req.val, out)
  <2>1. CASE Rejected(req.key) = "NONE" /\ createError(req.key) = "NONE"
    <3>1. /\ StoreSet(k, req.val, out) /\ ~hasKey(k)
          /\ res'.op = "create" /\ res'.err = out
      BY <1>2, <2>1 DEF create, Respond, createError, k
    <3>2. Show(res') = Cmd_Create(res') /\ Err(res') = out
      BY <3>1 DEF Show, Err, discriminant
    <3>3. CASE out = "NONE"
      <4>1. Show(res') = "CREATED"
        BY <3>2, <3>3 DEF Cmd_Create
      <4>2. ~effect'.had /\ effect'.has /\ effect'.val = req.val
        BY <1>1, <3>1, <3>3 DEF StoreSet, setInt, hasKey
      <4> QED
        BY <1>2, <4>1, <4>2 DEF Tells, ClientMessage, NoVal
    <3>4. CASE out # "NONE"
      <4>1. effect'.same
        BY <1>1, <3>1, <3>4 DEF StoreSet
      <4>2. Show(res') = getClientError(out)
        BY <3>2, <3>4 DEF Cmd_Create, Outcome
      <4> QED
        BY <1>2, <3>4, <4>1, <4>2, ErrorTells
    <3> QED
      BY <3>3, <3>4
  <2>2. CASE ~(Rejected(req.key) = "NONE" /\ createError(req.key) = "NONE")
    <3>1. /\ UNCHANGED kvMap /\ res'.op = "create" /\ res'.err # "NONE"
      BY <1>2, <2>2 DEF create, Respond
    <3>2. Show(res') = Cmd_Create(res') /\ Err(res') = res'.err /\ effect'.same
      BY <1>1, <3>1 DEF Show, Err, discriminant
    <3>3. CASE res'.err = "KEY_ALREADY_PRESENT"
      BY <1>2, <3>2, <3>3 DEF Cmd_Create, Tells
    <3>4. CASE res'.err # "KEY_ALREADY_PRESENT"
      <4>1. Show(res') = getClientError(res'.err)
        BY <3>1, <3>2, <3>4 DEF Cmd_Create
      <4> QED
        BY <1>2, <3>1, <3>2, <4>1, ErrorTells
    <3> QED
      BY <3>3, <3>4
  <2> QED
    BY <2>1, <2>2
<1>3. CASE req.op = "set" /\ set(req.key, req.val, out)
  <2>1. CASE Rejected(req.key) = "NONE" /\ hasKey(k)
    <3>1. StoreSet(k, req.val, out) /\ res'.op = "set" /\ res'.err = out
      BY <1>3, <2>1 DEF set, Respond, k
    <3>2. Show(res') = Cmd_Set(res') /\ Err(res') = out
      BY <3>1 DEF Show, Err, discriminant
    <3>3. CASE out = "NONE"
      <4>1. Show(res') = NoVal
        BY <3>2, <3>3 DEF Cmd_Set
      <4>2. effect'.has /\ effect'.val = req.val
        BY <1>1, <3>1, <3>3 DEF StoreSet, setInt
      <4> QED
        BY <1>3, <4>1, <4>2 DEF Tells, ClientMessage, NoVal
    <3>4. CASE out # "NONE"
      <4>1. effect'.same
        BY <1>1, <3>1, <3>4 DEF StoreSet
      <4>2. Show(res') = getClientError(out)
        BY <3>2, <3>4 DEF Cmd_Set
      <4> QED
        BY <1>3, <3>4, <4>1, <4>2, ErrorTells
    <3> QED
      BY <3>3, <3>4
  <2>2. CASE ~(Rejected(req.key) = "NONE" /\ hasKey(k))
    <3>1. /\ UNCHANGED kvMap /\ res'.op = "set" /\ res'.err # "NONE"
      BY <1>3, <2>2 DEF set, Respond, k
    <3>2. Show(res') = Cmd_Set(res') /\ Err(res') = res'.err /\ effect'.same
      BY <1>1, <3>1 DEF Show, Err, discriminant
    <3>3. Show(res') = getClientError(res'.err)
      BY <3>1, <3>2 DEF Cmd_Set
    <3> QED
      BY <1>3, <3>1, <3>2, <3>3, ErrorTells
  <2> QED
    BY <2>1, <2>2
<1>4. CASE req.op = "remove" /\ remove(req.key, out)
  <2>1. CASE Rejected(req.key) = "NONE" /\ removeError(k) = "NONE"
    <3>1. /\ StoreRemove(k, out) /\ hasKey(k)
          /\ res'.op = "remove" /\ res'.err = out
      BY <1>4, <2>1 DEF remove, Respond, removeError, k
    <3>2. Show(res') = Cmd_Remove(res') /\ Err(res') = out
      BY <3>1 DEF Show, Err, discriminant
    <3>3. CASE out = "NONE"
      <4>1. Show(res') = "REMOVED"
        BY <3>2, <3>3 DEF Cmd_Remove
      <4>2. effect'.had /\ ~effect'.has
        BY <1>1, <3>1, <3>3 DEF StoreRemove, removeInt, hasKey
      <4> QED
        BY <1>4, <4>1, <4>2 DEF Tells, ClientMessage, NoVal
    <3>4. CASE out # "NONE"
      <4>1. effect'.same
        BY <1>1, <3>1, <3>4 DEF StoreRemove
      <4>2. Show(res') = getClientError(out)
        BY <3>2, <3>4 DEF Cmd_Remove, Outcome
      <4> QED
        BY <1>4, <3>4, <4>1, <4>2, ErrorTells
    <3> QED
      BY <3>3, <3>4
  <2>2. CASE ~(Rejected(req.key) = "NONE" /\ removeError(k) = "NONE")
    <3>1. /\ UNCHANGED kvMap /\ res'.op = "remove" /\ res'.err # "NONE"
      BY <1>4, <2>2 DEF remove, Respond, k
    <3>2. Show(res') = Cmd_Remove(res') /\ Err(res') = res'.err /\ effect'.same
      BY <1>1, <3>1 DEF Show, Err, discriminant
    <3>3. Show(res') = getClientError(res'.err)
      BY <3>1, <3>2 DEF Cmd_Remove, getClientError
    <3> QED
      BY <1>4, <3>1, <3>2, <3>3, ErrorTells
  <2> QED
    BY <2>1, <2>2
<1>5. CASE req.op = "get" /\ get(req.key)
  <2>1. effect'.same
    BY <1>1, <1>5 DEF get
  <2> QED
    BY <1>5, <2>1 DEF Tells
<1>6. CASE req.op = "list" /\ list(req.key)
  <2>1. effect'.same
    BY <1>1, <1>6 DEF list
  <2> QED
    BY <1>6, <2>1 DEF Tells
<1> QED
  BY <1>2, <1>3, <1>4, <1>5, <1>6

\* Every step keeps what the shell has shown, and the reply on its way, true.
LEMMA ReportKept ==
  OrderInv /\ FitInv /\ ReportInv /\ [Next]_vars => ReportInv'
<1> SUFFICES ASSUME OrderInv, FitInv, ReportInv, [Next]_vars PROVE ReportInv'
  OBVIOUS
<1>1. ASSUME UNCHANGED <<applied, effect>>, reply' \in {reply, Nil},
             pc' = "read" => pc = "read" /\ shown' = shown,
             pc' = "start" => pc = "start"
      PROVE  ReportInv'
  BY <1>1 DEF ReportInv, ReportsEffect
<1>2. CASE UNCHANGED shellVars
  BY <1>1, <1>2 DEF shellVars
<1>3. CASE UNCHANGED vars
  BY <1>2, <1>3 DEF vars
<1>4. CASE Connect
  BY <1>4 DEF Connect, ReportInv, ReportsEffect
<1>5. CASE ReadLine
  BY <1>1, <1>5, LineRead
<1>6. CASE Leave
  BY <1>1, <1>6 DEF Leave, close
<1>7. CASE Receive
  BY <1>7 DEF Receive, ReportInv, ReportsEffect
<1>8. CASE GiveUp
  BY <1>1, <1>8 DEF GiveUp, close
<1>9. CASE Serve
  <2>1. /\ applied' # <<>> /\ Last(applied') = req /\ ~Reading'
    BY <1>9, OneServed
  <2>2. reply' # Nil => reply' = res'
    BY <1>9 DEF Serve
  <2>3. Tells(req, Show(res'), effect')
    <3>1. PICK out \in Outcome :
            \/ req.op = "create" /\ create(req.key, req.val, out)
            \/ req.op = "set" /\ set(req.key, req.val, out)
            \/ req.op = "remove" /\ remove(req.key, out)
            \/ req.op = "get" /\ get(req.key)
            \/ req.op = "list" /\ list(req.key)
      BY <1>9 DEF Serve
    <3>2. req # Nil /\ effect' = EffectOf(req.key)
      BY <1>9 DEF Serve
    <3> QED
      BY <3>1, <3>2, ServedTells
  <2> QED
    BY <2>1, <2>2, <2>3 DEF ReportInv, ReportsEffect, Reading
<1>10. CASE Break
  BY <1>1, <1>10 DEF Break
<1>11. CASE OtherClient \/ RoleChanges \/ CallsBack
  BY <1>2, <1>11 DEF OtherClient, RoleChanges, CallsBack
<1> QED
  BY <1>3, <1>4, <1>5, <1>6, <1>7, <1>8, <1>9, <1>10, <1>11 DEF Next, ShellNext

\* CREATED, REMOVED, a silent set and the messages about errors are true of the
\* moment the request was served, whatever other clients do.
THEOREM ReportsAreTrue == Spec => []ReportsEffect
<1>1. Init => ReportInv
  BY DEF Init, ReportInv, ReportsEffect
<1>2. ReportInv => ReportsEffect
  BY DEF ReportInv
<1> QED
  BY <1>1, <1>2, OrderFirst, OrderKept, ReportKept, PTL DEF Spec

-----------------------------------------------------------------------------
(***************************************************************************)
(* The keys.                                                               *)
(***************************************************************************)
\* What pruneKey has kept, in general: a key and a position.
Kept == [key : Seq(STRING), lastSlash : Nat]

\* pruneKey goes through the characters behind the first one by one.
LEMMA PruneSteps ==
  ASSUME NEW key \in Seq(STRING), Len(key) >= 1
  PROVE  \E f : /\ f \in [0 .. Len(key) -> Kept]
               /\ f[1] = [key |-> SubSeq(key, 1, 1), lastSlash |-> 0]
               /\ \A n \in 2 .. Len(key) : f[n] = prune(f[n - 1], key[n])
               /\ pruneKey(key) = f[Len(key)]
<1> DEFINE
      m == Len(key)
      first(n) == [key |-> SubSeq(key, 1, n), lastSlash |-> 0]
      Prunes(f) ==
        f = [n \in 0 .. m |-> IF n <= 1 THEN first(n) ELSE prune(f[n - 1], key[n])]
      G == [n \in 1 .. m |-> [r \in Kept |->
              IF n <= 1 THEN first(n) ELSE prune(r, key[n])]]
      upTo == CHOOSE f : Prunes(f)
<1>0. m \in Nat /\ m >= 1 /\ \A n \in 1 .. m : key[n] \in STRING
  OBVIOUS
<1>1. first(0) \in Kept /\ first(1) \in Kept
  <2>1. SubSeq(key, 1, 0) \in Seq(STRING) /\ SubSeq(key, 1, 1) \in Seq(STRING)
    OBVIOUS
  <2> QED
    BY <2>1 DEF Kept
<1>2. first(1) = [key |-> SubSeq(key, 1, 1), lastSlash |-> 0]
  OBVIOUS
<1>3. \A r \in Kept : \A n \in 1 .. m : prune(r, key[n]) \in Kept
  <2> SUFFICES ASSUME NEW r \in Kept, NEW n \in 1 .. m
               PROVE  prune(r, key[n]) \in Kept
    OBVIOUS
  <2>1. /\ r = [key |-> r.key, lastSlash |-> r.lastSlash]
        /\ Append(r.key, key[n]) \in Seq(STRING) /\ Len(r.key) \in Nat
    BY <1>0 DEF Kept
  <2> QED
    BY <2>1 DEF prune, Kept
<1>4. pruneKey(key) = upTo[m]
  BY DEF pruneKey
<1> HIDE DEF m, first
<1>5. G \in [1 .. m -> [Kept -> Kept]]
  <2>1. \A n \in 1 .. m : n <= 1 => n = 1
    BY <1>0
  <2>2. \A n \in 1 .. m : \A r \in Kept :
          (IF n <= 1 THEN first(n) ELSE prune(r, key[n])) \in Kept
    BY <1>1, <1>3, <2>1
  <2> QED
    BY <2>2
<1>6. PICK f : Iterates(f, m, Kept, first(0), G)
  <2> HIDE DEF G
  <2> QED
    BY <1>0, <1>1, <1>5, IterateExists
<1>7. Prunes(f)
  <2>1. ASSUME NEW n \in 0 .. m
        PROVE  f[n] = IF n <= 1 THEN first(n) ELSE prune(f[n - 1], key[n])
    <3>1. CASE n = 0
      BY <1>6, <3>1 DEF Iterates
    <3>2. CASE n # 0
      <4>1. n \in 1 .. m /\ n - 1 \in 0 .. m
        BY <1>0, <3>2
      <4>2. f[n] = G[n][f[n - 1]] /\ f[n - 1] \in Kept
        BY <1>6, <4>1 DEF Iterates
      <4> QED
        BY <4>1, <4>2
    <3> QED
      BY <3>1, <3>2
  <2> QED
    BY <1>6, <2>1 DEF Iterates
<1>8. Prunes(upTo)
  BY <1>7
<1> HIDE DEF upTo
<1>9. /\ upTo[0] = first(0) /\ upTo[1] = first(1)
      /\ \A n \in 2 .. m : upTo[n] = prune(upTo[n - 1], key[n])
  <2>1. 0 \in 0 .. m /\ 1 \in 0 .. m
    BY <1>0
  <2>2. upTo[0] = first(0) /\ upTo[1] = first(1)
    BY <1>8, <2>1
  <2>3. ASSUME NEW n \in 2 .. m PROVE upTo[n] = prune(upTo[n - 1], key[n])
    <3>1. n \in 0 .. m /\ ~(n <= 1)
      BY <1>0
    <3> QED
      BY <1>8, <3>1
  <2> QED
    BY <2>2, <2>3
<1>10. \A n \in 0 .. m : upTo[n] \in Kept
  <2> DEFINE S == {n \in 0 .. m : upTo[n] \in Kept}
  <2>1. 0 \in S
    BY <1>0, <1>1, <1>9
  <2>2. ASSUME NEW n \in 1 .. m, n - 1 \in S PROVE n \in S
    <3>1. n \in 0 .. m /\ upTo[n - 1] \in Kept
      BY <1>0, <2>2
    <3>2. CASE n = 1
      BY <1>1, <1>9, <3>1, <3>2
    <3>3. CASE n # 1
      <4>1. n \in 2 .. m
        BY <1>0, <3>3
      <4> QED
        BY <1>3, <1>9, <3>1, <4>1
    <3> QED
      BY <3>2, <3>3
  <2>3. \A n \in 0 .. m : n \in S
    <3> HIDE DEF S
    <3> QED
      BY <1>0, <2>1, <2>2, StepByStep
  <2> QED
    BY <2>3
<1>11. upTo \in [0 .. m -> Kept]
  BY <1>8, <1>10
<1> QED
  BY <1>2, <1>4, <1>9, <1>11 DEF m

\* Positions of a key from i to j without a slash.
NoSlash(key, i, j) == \A n \in i .. j : key[n] # Slash

\* A key that begins with a slash, where no slash follows another one, and of
\* which last is the position of the last slash, counted from zero.
Spelled(key, last) ==
  /\ key \in Seq(STRING) /\ Len(key) >= 1 /\ key[1] = Slash
  /\ last \in Nat /\ last < Len(key) /\ key[last + 1] = Slash
  /\ NoSlash(key, last + 2, Len(key))
  /\ \A n \in 2 .. Len(key) : key[n] = Slash => key[n - 1] # Slash

\* The way a key is stored: as a path, without a slash at its end.
Canonical(key) ==
  /\ key \in Seq(STRING) /\ Len(key) > 1
  /\ key[1] = Slash /\ key[Len(key)] # Slash
  /\ \A n \in 2 .. Len(key) : key[n] = Slash => key[n - 1] # Slash

\* One step of pruneKey keeps a well-spelled key, which then ends with the
\* character that was examined.
LEMMA PruneStep ==
  ASSUME NEW r \in Kept, NEW c \in STRING, Spelled(r.key, r.lastSlash)
  PROVE  /\ Spelled(prune(r, c).key, prune(r, c).lastSlash)
         /\ prune(r, c).key[Len(prune(r, c).key)] = c
<1> DEFINE k == r.key
           p == r.lastSlash
           n == Len(r.key)
           a == Append(r.key, c)
<1>1. /\ k \in Seq(STRING) /\ p \in Nat /\ r = [key |-> k, lastSlash |-> p]
      /\ n \in Nat /\ n >= 1 /\ p < n /\ k[1] = Slash /\ k[p + 1] = Slash
  BY DEF Kept, Spelled
<1>2. /\ a \in Seq(STRING) /\ Len(a) = n + 1 /\ a[n + 1] = c
      /\ \A i \in 1 .. n : a[i] = k[i]
  BY <1>1
<1>3. /\ \A i \in p + 2 .. n : k[i] # Slash
      /\ \A i \in 2 .. n : k[i] = Slash => k[i - 1] # Slash
  BY DEF Spelled, NoSlash
<1>4. a[1] = Slash /\ a[p + 1] = Slash /\ \A i \in p + 2 .. n : a[i] # Slash
  BY <1>1, <1>2, <1>3
<1>5. \A i \in 2 .. n : a[i] = Slash => a[i - 1] # Slash
  BY <1>1, <1>2, <1>3
<1>6. CASE c # Slash
  <2>1. prune(r, c) = [key |-> a, lastSlash |-> p]
    BY <1>1, <1>6 DEF prune
  <2>2. \A i \in p + 2 .. n + 1 : a[i] # Slash
    BY <1>1, <1>2, <1>4, <1>6
  <2>3. \A i \in 2 .. n + 1 : a[i] = Slash => a[i - 1] # Slash
    BY <1>1, <1>2, <1>5, <1>6
  <2> HIDE DEF k, p, n, a
  <2>4. Spelled(a, p)
    BY <1>1, <1>2, <1>4, <2>2, <2>3 DEF Spelled, NoSlash
  <2> QED
    BY <1>2, <2>1, <2>4
<1>7. CASE c = Slash /\ p = n - 1
  <2>1. prune(r, c) = r
    BY <1>7 DEF prune
  <2> QED
    BY <1>1, <1>7, <2>1
<1>8. CASE c = Slash /\ p # n - 1
  <2>1. prune(r, c) = [key |-> a, lastSlash |-> n]
    BY <1>8 DEF prune
  <2>2. \A i \in 2 .. n + 1 : a[i] = Slash => a[i - 1] # Slash
    <3>1. a[n] # Slash
      BY <1>1, <1>4, <1>8
    <3> QED
      BY <1>1, <1>5, <3>1
  <2> HIDE DEF k, p, n, a
  <2>3. Spelled(a, n)
    BY <1>1, <1>2, <1>4, <1>8, <2>2 DEF Spelled, NoSlash
  <2> QED
    BY <1>2, <1>8, <2>1, <2>3
<1> QED
  BY <1>6, <1>7, <1>8

\* Of a key that is well formed pruneKey makes the canonical spelling, and it
\* finds the last slash.
LEMMA PruneSpells ==
  ASSUME NEW key \in Seq(STRING), checkKeyFormat(key) = "NONE"
  PROVE  /\ Canonical(pruneKey(key).key)
         /\ Spelled(pruneKey(key).key, pruneKey(key).lastSlash)
<1> DEFINE m == Len(key)
<1>1. m \in Nat /\ m > 1 /\ key[1] = Slash /\ key[m] # Slash
  BY DEF checkKeyFormat
<1>2. PICK f : /\ f \in [0 .. m -> Kept]
               /\ f[1] = [key |-> SubSeq(key, 1, 1), lastSlash |-> 0]
               /\ \A n \in 2 .. m : f[n] = prune(f[n - 1], key[n])
               /\ pruneKey(key) = f[m]
  BY <1>1, PruneSteps
<1> DEFINE Good(n) == /\ Spelled(f[n].key, f[n].lastSlash)
                      /\ f[n].key[Len(f[n].key)] = key[n]
           S == {n \in 0 .. m : n = 0 \/ Good(n)}
<1>3. \A n \in 1 .. m : key[n] \in STRING
  OBVIOUS
<1> HIDE DEF m
<1>4. Good(1)
  <2>1. f[1].key = SubSeq(key, 1, 1) /\ f[1].lastSlash = 0
    BY <1>2
  <2>2. /\ SubSeq(key, 1, 1) \in Seq(STRING) /\ Len(SubSeq(key, 1, 1)) = 1
        /\ SubSeq(key, 1, 1)[1] = key[1] /\ key[1] = Slash
    BY <1>1 DEF m
  <2> QED
    BY <1>1, <2>1, <2>2 DEF Spelled, NoSlash
<1>5. ASSUME NEW n \in 2 .. m, Good(n - 1) PROVE Good(n)
  <2>1. f[n - 1] \in Kept /\ key[n] \in STRING /\ f[n] = prune(f[n - 1], key[n])
    BY <1>1, <1>2, <1>3
  <2> QED
    BY <1>5, <2>1, PruneStep
<1> HIDE DEF Good
<1>6. \A n \in 0 .. m : n \in S
  <2>1. 0 \in S
    BY <1>1
  <2>2. ASSUME NEW n \in 1 .. m, n - 1 \in S PROVE n \in S
    <3>1. CASE n = 1
      BY <1>1, <1>4, <3>1
    <3>2. CASE n # 1
      <4>1. n \in 2 .. m /\ Good(n - 1)
        BY <1>1, <2>2, <3>2
      <4> QED
        BY <1>1, <1>5, <4>1
    <3> QED
      BY <3>1, <3>2
  <2> HIDE DEF S
  <2> QED
    BY <1>1, <2>1, <2>2, StepByStep
<1>7. Good(m)
  BY <1>1, <1>6
<1> DEFINE k == pruneKey(key).key
<1>8. Spelled(k, pruneKey(key).lastSlash) /\ k[Len(k)] # Slash
  BY <1>1, <1>2, <1>7 DEF Good
<1>9. Canonical(k)
  <2> HIDE DEF k
  <2> QED
    BY <1>8 DEF Spelled, Canonical
<1> QED
  BY <1>8, <1>9

-----------------------------------------------------------------------------
(***************************************************************************)
(* The tree.                                                               *)
(***************************************************************************)
KeysInv == \A k \in DOMAIN kvMap : Canonical(k)

\* The stored keys are canonical spellings and, in the first view, a tree.
TreeInv == KeysInv /\ TreeClosed

\* The front of the front of a key.
LEMMA FrontOfFront ==
  ASSUME NEW key \in Seq(STRING), NEW j \in 0 .. Len(key), NEW i \in 0 .. j
  PROVE  /\ SubSeq(key, 1, j) \in Seq(STRING) /\ Len(SubSeq(key, 1, j)) = j
         /\ \A n \in 1 .. j : SubSeq(key, 1, j)[n] = key[n]
         /\ SubSeq(SubSeq(key, 1, j), 1, i) = SubSeq(key, 1, i)
<1> DEFINE f == SubSeq(key, 1, j)
           a == SubSeq(f, 1, i)
           b == SubSeq(key, 1, i)
<1>1. /\ f \in Seq(STRING) /\ Len(f) = j /\ \A n \in 1 .. j : f[n] = key[n]
  OBVIOUS
<1>2. b \in Seq(STRING) /\ Len(b) = i /\ \A n \in 1 .. i : b[n] = key[n]
  OBVIOUS
<1> HIDE DEF f
<1>3. a \in Seq(STRING) /\ Len(a) = i /\ \A n \in 1 .. i : a[n] = f[n]
  BY <1>1
<1>4. \A n \in 1 .. i : a[n] = b[n]
  BY <1>1, <1>2, <1>3
<1> HIDE DEF a, b
<1>5. a = b
  BY <1>2, <1>3, <1>4
<1> QED
  BY <1>1, <1>5 DEF f, a, b

\* A set of numbers that has one up to m has a least one.
LEMMA LeastNumber ==
  ASSUME NEW T \in SUBSET Nat, NEW m \in T
  PROVE  \E j \in T : \A i \in T : j <= i
<1> DEFINE S == {n \in Nat : \A i \in T : n <= i}
<1>1. SUFFICES ASSUME \A j \in T : \E i \in T : ~ (j <= i) PROVE FALSE
  OBVIOUS
<1>2. 0 \in S
  OBVIOUS
<1>3. ASSUME NEW n \in 1 .. m + 1, n - 1 \in S PROVE n \in S
  <2>1. n - 1 \notin T
    BY <1>1, <1>3
  <2>2. \A i \in T : n - 1 <= i /\ i # n - 1 /\ i \in Nat
    BY <1>3, <2>1
  <2> QED
    BY <2>2
<1>4. \A n \in 0 .. m + 1 : n \in S
  <2> HIDE DEF S
  <2>1. m + 1 \in Nat
    OBVIOUS
  <2> QED
    BY <1>2, <1>3, <2>1, StepByStep
<1>5. m \in Nat /\ m + 1 \in 0 .. m + 1 /\ ~ (m + 1 <= m)
  OBVIOUS
<1>6. m + 1 \in S
  <2> HIDE DEF S
  <2> QED
    BY <1>4, <1>5
<1> QED
  BY <1>5, <1>6

\* list finds a key that has the prefix and one more part.
LEMMA ChildListed ==
  ASSUME NEW c \in DOMAIN kvMap, NEW i \in Nat, NEW prefix \in Seq(STRING),
         c \in Seq(STRING), Len(prefix) = i, i >= 1, Len(c) > i,
         \A n \in 1 .. i : prefix[n] = c[n], NoSlash(c, i + 1, Len(c))
  PROVE  c \in listKeys(prefix)
<1>1. find(c, prefix, 0) = 0
  <2> DEFINE at == {p \in 0 .. Len(c) - Len(prefix) :
                      SubSeq(c, p + 1, p + Len(prefix)) = prefix}
  <2>1. SubSeq(c, 1, i) = prefix
    <3>1. /\ SubSeq(c, 1, i) \in Seq(STRING) /\ Len(SubSeq(c, 1, i)) = i
          /\ \A n \in 1 .. i : SubSeq(c, 1, i)[n] = c[n]
      OBVIOUS
    <3> QED
      BY <3>1
  <2>2. 0 \in at
    BY <2>1
  <2>3. \A p \in at : p \in Nat
    OBVIOUS
  <2>4. find(c, prefix, 0) = CHOOSE p \in at : \A q \in at : p <= q
    BY <2>2 DEF find
  <2> HIDE DEF at
  <2>5. \A q \in at : 0 <= q
    BY <2>3
  <2>6. \A p \in at : (\A q \in at : p <= q) => p = 0
    BY <2>2, <2>3
  <2> QED
    BY <2>2, <2>4, <2>5, <2>6
<1>2. find(c, <<Slash>>, i + 1) = -1
  <2>1. ASSUME NEW p \in i + 1 .. Len(c) - 1
        PROVE  SubSeq(c, p + 1, p + 1) # <<Slash>>
    <3>1. p + 1 \in i + 1 .. Len(c) /\ p + 1 \in 1 .. Len(c)
      OBVIOUS
    <3>2. SubSeq(c, p + 1, p + 1)[1] = c[p + 1]
      <4>1. \A a \in 1 .. Len(c) : SubSeq(c, a, a)[1] = c[a]
        <5> SUFFICES ASSUME NEW a \in 1 .. Len(c) PROVE SubSeq(c, a, a)[1] = c[a]
          OBVIOUS
        <5>1. c \in Seq(STRING) /\ a \in Nat /\ 1 \in 1 .. a - a + 1 /\ a + 1 - 1 = a
          OBVIOUS
        <5>2. SubSeq(c, a, a) = [n \in 1 .. a - a + 1 |-> c[n + a - 1]]
          BY <5>1
        <5> QED
          BY <5>1, <5>2
      <4> QED
        BY <3>1, <4>1
    <3>3. c[p + 1] # Slash
      BY <3>1 DEF NoSlash
    <3>4. <<Slash>>[1] = Slash
      OBVIOUS
    <3> QED
      BY <3>2, <3>3, <3>4
  <2>2. Len(<<Slash>>) = 1
    OBVIOUS
  <2> QED
    BY <2>1, <2>2 DEF find
<1>3. c # prefix /\ MatchesPrefix(c, prefix)
  BY <1>1, <1>2 DEF MatchesPrefix
<1> QED
  BY <1>3 DEF listKeys

\* A key on the way to a stored one has a child that list finds, so that it
\* cannot be removed: where the way goes on, nothing but a name follows.
LEMMA ParentsListed ==
  ASSUME TreeInv, role = "first", NEW l \in DOMAIN kvMap,
         NEW i \in 2 .. Len(l), l[i] = Slash
  PROVE  listKeys(Append(SubSeq(l, 1, i - 1), Slash)) # {}
<1> DEFINE m == Len(l)
           k == SubSeq(l, 1, i - 1)
           prefix == Append(k, Slash)
<1>1. /\ l \in Seq(STRING) /\ m \in Nat /\ l[m] # Slash
      /\ \A n \in 2 .. m : l[n] = Slash => l[n - 1] # Slash
  BY DEF TreeInv, KeysInv, Canonical
<1>2. i \in Nat /\ i >= 2 /\ i < m /\ l[i + 1] # Slash
  BY <1>1
<1>3. /\ prefix \in Seq(STRING) /\ Len(prefix) = i
      /\ \A n \in 1 .. i : prefix[n] = l[n]
  BY <1>1, <1>2
<1> HIDE DEF m, prefix
<1>4. PICK c \in DOMAIN kvMap :
        /\ c \in Seq(STRING) /\ Len(c) > i
        /\ \A n \in 1 .. i : c[n] = l[n]
        /\ NoSlash(c, i + 1, Len(c))
  <2> DEFINE T == {j \in i + 1 .. m : l[j] = Slash}
  <2>1. CASE T = {}
    <3>1. NoSlash(l, i + 1, m)
      BY <2>1 DEF NoSlash
    <3> QED
      BY <1>1, <1>2, <3>1 DEF m
  <2>2. CASE T # {}
    <3>1. PICK j \in T : \A n \in T : j <= n
      <4>1. T \in SUBSET Nat
        BY <1>2
      <4> HIDE DEF T
      <4> QED
        BY <2>2, <4>1, LeastNumber
    <3>2. j \in Nat /\ j > i + 1 /\ j <= m /\ l[j] = Slash
      BY <1>1, <1>2
    <3>3. \A n \in i + 1 .. j - 1 : l[n] # Slash
      <4>1. ASSUME NEW n \in i + 1 .. j - 1, l[n] = Slash PROVE FALSE
        <5>1. n \in T /\ ~ (j <= n)
          BY <1>1, <1>2, <3>2, <4>1
        <5> QED
          BY <3>1, <5>1
      <4> QED
        BY <4>1
    <3> DEFINE c == SubSeq(l, 1, j - 1)
    <3>4. c \in DOMAIN kvMap
      <4>1. j \in 2 .. Len(l)
        BY <1>1, <1>2, <3>2 DEF m
      <4> QED
        BY <3>2, <4>1 DEF TreeInv, TreeClosed
    <3>5. c \in Seq(STRING) /\ Len(c) = j - 1 /\ \A n \in 1 .. j - 1 : c[n] = l[n]
      <4>1. j - 1 \in 0 .. Len(l)
        BY <1>1, <1>2, <3>2 DEF m
      <4>2. 0 \in 0 .. j - 1
        BY <1>2, <3>2
      <4> QED
        BY <1>1, <4>1, <4>2, FrontOfFront
    <3> HIDE DEF c
    <3>6. NoSlash(c, i + 1, Len(c))
      BY <1>2, <3>2, <3>3, <3>5 DEF NoSlash
    <3>7. Len(c) > i /\ \A n \in 1 .. i : c[n] = l[n]
      BY <1>2, <3>2, <3>5
    <3> QED
      BY <3>4, <3>5, <3>6, <3>7
  <2> QED
    BY <2>1, <2>2
<1>5. c \in listKeys(prefix)
  BY <1>2, <1>3, <1>4, ChildListed
<1> QED
  BY <1>5 DEF prefix, k

\* create keeps the tree: the parent is stored, and with it all before it.
LEMMA CreateKeeps ==
  ASSUME TreeInv, NEW key \in Seq(STRING), NEW val, NEW out, create(key, val, out)
  PROVE  TreeInv'
<1> DEFINE k == pruneKey(key).key
           last == pruneKey(key).lastSlash
<1>0. role' = role
  BY DEF create
<1>1. CASE kvMap' = kvMap
  BY <1>0, <1>1 DEF TreeInv, TreeClosed, KeysInv
<1>2. CASE kvMap' # kvMap
  <2>1. /\ checkKeyFormat(key) = "NONE" /\ createError(key) = "NONE"
        /\ DOMAIN kvMap' = DOMAIN kvMap \cup {k}
    BY <1>2 DEF create, Rejected, StoreSet, setInt
  <2>2. Canonical(k) /\ Spelled(k, last)
    BY <2>1, PruneSpells
  <2>3. last > 0 => SubSeq(k, 1, last) \in DOMAIN kvMap
    BY <2>1 DEF createError, parentOf, hasKey
  <2> HIDE DEF k, last
  <2>4. ASSUME role = "first", NEW i \in 2 .. Len(k), k[i] = Slash
        PROVE  SubSeq(k, 1, i - 1) \in DOMAIN kvMap
    <3>1. /\ k \in Seq(STRING) /\ last \in Nat /\ last < Len(k) /\ Len(k) \in Nat
          /\ \A n \in last + 2 .. Len(k) : k[n] # Slash
      BY <2>2 DEF Spelled, NoSlash
    <3>2. i <= last + 1 /\ last > 0
      BY <2>4, <3>1
    <3>3. SubSeq(k, 1, last) \in DOMAIN kvMap
      BY <2>3, <3>2
    <3>4. CASE i = last + 1
      BY <3>1, <3>3, <3>4
    <3>5. CASE i # last + 1
      <4> DEFINE q == SubSeq(k, 1, last)
      <4>0. last \in 0 .. Len(k) /\ i - 1 \in 0 .. last /\ i \in 1 .. last
        BY <3>1, <3>2, <3>5
      <4>1. /\ Len(q) = last /\ q[i] = Slash
            /\ SubSeq(q, 1, i - 1) = SubSeq(k, 1, i - 1)
        BY <2>4, <3>1, <4>0, FrontOfFront
      <4>2. i \in 2 .. Len(q)
        BY <4>0, <4>1
      <4> HIDE DEF q
      <4>3. q \in DOMAIN kvMap
        BY <3>3 DEF q
      <4> QED
        BY <2>4, <4>1, <4>2, <4>3 DEF TreeInv, TreeClosed
    <3> QED
      BY <3>4, <3>5
  <2>5. role = "first" => \A l \in DOMAIN kvMap : \A i \in 2 .. Len(l) :
          l[i] = Slash => SubSeq(l, 1, i - 1) \in DOMAIN kvMap
    BY DEF TreeInv, TreeClosed
  <2>6. TreeClosed'
    BY <1>0, <2>1, <2>4, <2>5 DEF TreeClosed, k
  <2>7. KeysInv'
    BY <2>1, <2>2 DEF TreeInv, KeysInv, k
  <2> QED
    BY <2>6, <2>7 DEF TreeInv
<1> QED
  BY <1>1, <1>2

\* remove keeps the tree: a key on the way to another one has children.
LEMMA RemoveKeeps ==
  ASSUME TreeInv, NEW key, NEW out, remove(key, out)
  PROVE  TreeInv'
<1> DEFINE k == pruneKey(key).key
<1>0. role' = role
  BY DEF remove
<1>1. CASE kvMap' = kvMap
  BY <1>0, <1>1 DEF TreeInv, TreeClosed, KeysInv
<1>2. CASE kvMap' # kvMap
  <2>1. removeError(k) = "NONE" /\ DOMAIN kvMap' = DOMAIN kvMap \ {k}
    BY <1>2 DEF remove, StoreRemove, removeInt
  <2>2. listKeys(Append(k, Slash)) = {}
    BY <2>1 DEF removeError
  <2> HIDE DEF k
  <2>3. ASSUME role = "first", NEW l \in DOMAIN kvMap', NEW i \in 2 .. Len(l),
               l[i] = Slash
        PROVE  SubSeq(l, 1, i - 1) \in DOMAIN kvMap'
    <3>1. l \in DOMAIN kvMap
      BY <2>1
    <3>2. SubSeq(l, 1, i - 1) \in DOMAIN kvMap
      BY <2>3, <3>1 DEF TreeInv, TreeClosed
    <3>3. SubSeq(l, 1, i - 1) # k
      BY <2>2, <2>3, <3>1, ParentsListed
    <3> QED
      BY <2>1, <3>2, <3>3
  <2>4. TreeClosed'
    BY <1>0, <2>3 DEF TreeClosed
  <2>5. KeysInv'
    BY <2>1 DEF TreeInv, KeysInv
  <2> QED
    BY <2>4, <2>5 DEF TreeInv
<1> QED
  BY <1>1, <1>2

\* set replaces the value of a stored key.
LEMMA SetKeeps ==
  ASSUME TreeInv, NEW key, NEW val, NEW out, set(key, val, out)
  PROVE  TreeInv'
<1>1. DOMAIN kvMap' = DOMAIN kvMap /\ role' = role
  BY DEF set, StoreSet, setInt, hasKey
<1> QED
  BY <1>1 DEF TreeInv, TreeClosed, KeysInv

\* No replica becomes the primary of the first view.
LEMMA RoleKeeps == TreeInv /\ ChangeRole => TreeInv'
BY DEF ChangeRole, TreeInv, TreeClosed, KeysInv

\* The operations a replica is told to apply are on keys that some create has
\* spelled as pruneKey does, and come to a replica that need not have a tree.
LEMMA CallbackKeeps ==
  ASSUME TreeInv, NEW keys \in SUBSET RawKey, Callback(keys)
  PROVE  TreeInv'
<1>1. TreeClosed'
  BY DEF Callback, TreeClosed
<1>2. PICK key \in keys :
        /\ checkKeyFormat(key) = "NONE"
        /\ \/ \E val \in Value : setInt(pruneKey(key).key, val)
           \/ removeInt(pruneKey(key).key)
  BY DEF Callback
<1>3. Canonical(pruneKey(key).key)
  BY <1>2, KeyAssumption, PruneSpells
<1>4. DOMAIN kvMap' \subseteq DOMAIN kvMap \cup {pruneKey(key).key}
  BY <1>2 DEF setInt, removeInt
<1>5. KeysInv'
  BY <1>3, <1>4 DEF TreeInv, KeysInv
<1> QED
  BY <1>1, <1>5 DEF TreeInv

\* Whatever requests come in, from the shell or from others, however they spell
\* their keys, and whatever the replicator applies, the stored keys are canonical
\* and, in the first view, a tree.
LEMMA TreeInvariant == Spec => []TreeInv
<1>1. Init => TreeInv
  BY DEF Init, ApiInit, TreeInv, TreeClosed, KeysInv
<1>2. OrderInv /\ TreeInv /\ [Next]_vars => TreeInv'
  <2> SUFFICES ASSUME OrderInv, TreeInv, [Next]_vars PROVE TreeInv'
    OBVIOUS
  <2>1. CASE UNCHANGED <<kvMap, role>>
    BY <2>1 DEF TreeInv, TreeClosed, KeysInv
  <2>2. CASE Serve
    <3>1. req # Nil /\ req \in Asked
      BY <2>2, OneServed DEF Serve
    <3>2. req.key \in Seq(STRING)
      BY <3>1, RequestAssumption DEF Asked
    <3>3. \/ \E out \in Outcome : \/ create(req.key, req.val, out)
                                 \/ set(req.key, req.val, out)
                                 \/ remove(req.key, out)
          \/ UNCHANGED <<kvMap, role>>
      BY <2>2 DEF Serve, get, list
    <3> QED
      BY <2>1, <3>2, <3>3, CreateKeeps, RemoveKeeps, SetKeeps
  <2>3. CASE OtherClient
    <3>1. PICK keys \in SUBSET RawKey : Request(keys)
      BY <2>3, LineAssumption DEF OtherClient
    <3>2. \A key \in keys : key \in Seq(STRING)
      BY KeyAssumption
    <3>3. \/ \E key \in keys, val \in Value, out \in Outcome :
               create(key, val, out) \/ set(key, val, out)
          \/ \E key \in keys, out \in Outcome : remove(key, out)
          \/ UNCHANGED <<kvMap, role>>
      BY <3>1 DEF Request, get, list
    <3> QED
      BY <2>1, <3>2, <3>3, CreateKeeps, RemoveKeeps, SetKeeps
  <2>4. CASE ShellNext \/ Break \/ UNCHANGED vars
    <3>1. UNCHANGED <<kvMap, role>>
      BY <2>4 DEF ShellNext, Connect, ReadLine, Leave, Receive, GiveUp, Break,
                  apiVars, vars
    <3> QED
      BY <2>1, <3>1
  <2>5. CASE RoleChanges
    BY <2>5, RoleKeeps DEF RoleChanges
  <2>6. CASE CallsBack
    BY <2>6, LineAssumption, CallbackKeeps DEF CallsBack
  <2> QED
    BY <2>2, <2>3, <2>4, <2>5, <2>6 DEF Next
<1> QED
  BY <1>1, <1>2, OrderFirst, OrderKept, PTL DEF Spec

\* As long as a replica is the primary of the view it started in, no key is
\* stored without all keys on the way to it: create wants the parent, and remove
\* finds a child of a key that other stored keys go through.
THEOREM TreeStays == Spec => []TreeClosed
<1>1. TreeInv => TreeClosed
  BY DEF TreeInv
<1> QED
  BY <1>1, TreeInvariant, PTL

\* Keys are stored in one spelling only, which begins with a slash and has no
\* slash at its end or behind another one, however a client spells them, at a
\* primary and at a backup.
THEOREM KeysCanonical == Spec => [](\A k \in DOMAIN kvMap : Canonical(k))
<1>1. TreeInv => \A k \in DOMAIN kvMap : Canonical(k)
  BY DEF TreeInv, KeysInv
<1> QED
  BY <1>1, TreeInvariant, PTL

-----------------------------------------------------------------------------
(***************************************************************************)
(* What list answers.                                                      *)
(***************************************************************************)
\* The listed key as it is stored; the root is the empty one.
DirOf(key) == IF key = <<Slash>> THEN <<>> ELSE pruneKey(key).key

\* k is a key right below dir: the slash behind dir, at i, is its last one.
IsBelow(k, dir, i) ==
  k[i] = Slash /\ SubSeq(k, 1, i - 1) = dir /\ NoSlash(k, i + 1, Len(k))

\* An answer to list has the last part of every stored key below the listed one.
ChildrenListed ==
  res.op = "list" /\ res.err = "NONE" =>
    \A k \in DOMAIN kvMap : \A i \in 1 .. Len(k) :
      IsBelow(k, DirOf(res.key), i) => SubSeq(k, i + 1, Len(k)) \in res.keys

\* The part of a key that leafOf cuts off begins behind its last slash.
LEMMA LeafBehind ==
  ASSUME NEW k \in Seq(STRING), NEW i \in 1 .. Len(k), k[i] = Slash,
         NoSlash(k, i + 1, Len(k))
  PROVE  leafOf(k) = SubSeq(k, i + 1, Len(k))
<1> DEFINE S == {j \in 1 .. Len(k) : k[j] = Slash}
<1>1. i \in S /\ S \subseteq Nat
  OBVIOUS
<1>2. \A j \in S : j <= i
  BY DEF NoSlash
<1>3. \A x \in S : (\A y \in S : x >= y) => x = i
  <2> HIDE DEF S
  <2> QED
    BY <1>1, <1>2
<1>4. \A y \in S : i >= y
  <2> HIDE DEF S
  <2> QED
    BY <1>1, <1>2
<1>5. Max(S) = i
  <2> HIDE DEF S
  <2> QED
    BY <1>1, <1>3, <1>4 DEF Max
<1> QED
  BY <1>5 DEF leafOf

\* list itself,
LEMMA ListAnswers ==
  ASSUME TreeInv, NEW key \in Seq(STRING), list(key)
  PROVE  ChildrenListed'
<1> DEFINE dir == DirOf(key)
<1>1. SUFFICES ASSUME res'.err = "NONE", NEW k \in DOMAIN kvMap,
                      NEW i \in 1 .. Len(k), IsBelow(k, dir, i)
               PROVE  SubSeq(k, i + 1, Len(k)) \in res'.keys
  <2>1. kvMap' = kvMap /\ res'.key = key
    BY DEF list, Respond
  <2> QED
    BY <2>1 DEF ChildrenListed
<1>2. res'.keys = {leafOf(l) : l \in listKeys(Append(dir, Slash))}
  <2>1. DirOf(key) = IF key = <<Slash>> THEN <<>> ELSE pruneKey(key).key
    BY DEF DirOf
  <2> QED
    BY <1>1, <2>1 DEF list, Respond
<1>3. /\ k \in Seq(STRING) /\ Len(k) \in Nat /\ k[Len(k)] # Slash
      /\ k[i] = Slash /\ SubSeq(k, 1, i - 1) = dir /\ NoSlash(k, i + 1, Len(k))
  BY <1>1 DEF TreeInv, KeysInv, Canonical, IsBelow
<1>4. i \in Nat /\ i >= 1 /\ i < Len(k)
  BY <1>3
<1> DEFINE prefix == Append(SubSeq(k, 1, i - 1), Slash)
<1>5. /\ prefix \in Seq(STRING) /\ Len(prefix) = i
      /\ \A n \in 1 .. i : prefix[n] = k[n]
  BY <1>3, <1>4
<1>6. prefix = Append(dir, Slash)
  BY <1>3
<1> HIDE DEF prefix, dir
<1>7. k \in listKeys(prefix)
  BY <1>3, <1>4, <1>5, ChildListed
<1>8. leafOf(k) = SubSeq(k, i + 1, Len(k))
  BY <1>3, LeafBehind
<1> QED
  BY <1>2, <1>6, <1>7, <1>8

\* and the other requests, whose answers replace it.
LEMMA OthersAnswer ==
  ASSUME NEW key, NEW val, NEW out,
         \/ create(key, val, out) \/ set(key, val, out)
         \/ remove(key, out) \/ get(key)
  PROVE  ChildrenListed'
BY DEF create, set, remove, get, Respond, ChildrenListed

\* An answer to list misses no child of the listed key, however a client has
\* spelled that key or the child when it was created, and whatever the replica
\* was told to apply as a backup.
THEOREM ListsAll == Spec => []ChildrenListed
<1>1. Init => ChildrenListed
  BY DEF Init, ApiInit, ChildrenListed
<1>2. OrderInv /\ TreeInv /\ ChildrenListed /\ [Next]_vars => ChildrenListed'
  <2> SUFFICES ASSUME OrderInv, TreeInv, ChildrenListed, [Next]_vars
               PROVE  ChildrenListed'
    OBVIOUS
  <2>1. CASE UNCHANGED <<kvMap, res>>
    BY <2>1 DEF ChildrenListed
  <2>2. CASE Serve
    <3>1. req # Nil /\ req \in Asked
      BY <2>2, OneServed DEF Serve
    <3>2. req.key \in Seq(STRING)
      BY <3>1, RequestAssumption DEF Asked
    <3>3. \/ \E out \in Outcome : \/ create(req.key, req.val, out)
                                 \/ set(req.key, req.val, out)
                                 \/ remove(req.key, out)
          \/ get(req.key) \/ list(req.key)
      BY <2>2 DEF Serve
    <3> QED
      BY <3>2, <3>3, ListAnswers, OthersAnswer
  <2>3. CASE OtherClient
    <3>1. PICK keys \in SUBSET RawKey : Request(keys)
      BY <2>3, LineAssumption DEF OtherClient
    <3>2. \A key \in keys : key \in Seq(STRING)
      BY KeyAssumption
    <3> QED
      BY <3>1, <3>2, ListAnswers, OthersAnswer DEF Request
  <2>4. CASE CallsBack
    BY <2>4 DEF CallsBack, Callback, Respond, ChildrenListed
  <2>5. CASE ShellNext \/ Break \/ RoleChanges \/ UNCHANGED vars
    <3>1. UNCHANGED <<kvMap, res>>
      BY <2>5 DEF ShellNext, Connect, ReadLine, Leave, Receive, GiveUp, Break,
                  RoleChanges, ChangeRole, apiVars, vars
    <3> QED
      BY <2>1, <3>1
  <2> QED
    BY <2>2, <2>3, <2>4, <2>5 DEF Next
<1> QED
  BY <1>1, <1>2, TreeInvariant, OrderFirst, OrderKept, PTL DEF Spec
=============================================================================
