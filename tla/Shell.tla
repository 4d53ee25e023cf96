------------------------------- MODULE Shell -------------------------------
(***************************************************************************)
(* The shell (shell/shell.cc) and the client library it calls              *)
(* (libClient/kvsClient.cc, include/clientBase.h), composed with the       *)
(* client operations of the server they talk to.  One shell is followed    *)
(* line by line; any number of other clients send the server requests of   *)
(* their own.  The connection may break at any time: a request is then     *)
(* lost, or applied although nobody hears of it.                           *)
(*                                                                         *)
(* What a script or a user types is a choice made line by line.  A line is *)
(* the words that getline leaves in the buffer, and whether the whole line *)
(* fitted into it.                                                         *)
(***************************************************************************)
EXTENDS KvStoreApi

CONSTANTS
  Nil,        \* "none"
  Line,       \* the lines there are, [words, fits]
  BesideKey,  \* bound: the keys of other clients and callbacks beside a shell
  MaxLine     \* bound: lines typed

ASSUME LineAssumption ==
  /\ \A l \in Line : l # Nil /\ l.words # <<>> /\ l.fits \in BOOLEAN
  /\ BesideKey \subseteq RawKey
  /\ MaxLine \in Nat

Blank == <<"">>
DEBUG_MAX_ARGS == 5

VARIABLES
  mode,     \* whether the shell prompts or runs a script, or there is none
  pc,       \* where the shell is
  flags,    \* the error flags of the stream it reads: a subset of {fail, eof}
  typed,    \* the lines read so far
  conn,     \* the connection: "none", "open" or "broken"
  req,      \* the request that is on its way or at the server, or Nil
  reply,    \* the reply that is on its way, or Nil
  shown,    \* what the last command that needed the server printed
  applied,  \* the requests of this shell that the server has served
  effect    \* what the last of them did to the key it names

shellVars == <<mode, pc, flags, typed, conn, req, reply, shown, applied,
               effect>>
vars == <<apiVars, shellVars>>

NoEffect == [had |-> FALSE, has |-> FALSE, val |-> NoVal, same |-> TRUE]

\* A script that cannot be opened leaves its stream failed.
Init ==
  /\ ApiInit
  /\ mode \in {"none", "prompt", "script"}
  /\ flags \in {{}} \cup (IF mode = "script" THEN {{"fail"}} ELSE {})
  /\ pc = IF mode = "none" THEN "done" ELSE "start"
  /\ typed = <<>> /\ applied = <<>>
  /\ conn = "none"
  /\ req = Nil /\ reply = Nil
  /\ shown = NoVal
  /\ effect = NoEffect

-----------------------------------------------------------------------------
(***************************************************************************)
(* The client library.                                                     *)
(***************************************************************************)

\* The discriminant of the result union a reply carries.
discriminant(r) ==
  CASE r.op = "get" /\ r.err = "NONE" -> 1
    [] r.op = "list" /\ r.err = "NONE" -> 2
    [] OTHER -> 0

\* Result::err(): throws unless the union holds an error.
Err(r) == IF discriminant(r) = 0 THEN r.err ELSE "xdr_wrong_union"

\* The messages of the ClientException made of an error; the two errors that
\* are no exceptions, and one that is no error of the server, fail an assertion.
getClientError(err) ==
  CASE err = "KEY_NOT_PRESENT" -> "KEY NOT FOUND"
    [] err = "KEY_HAS_NO_PARENT" -> "NO PARENT"
    [] err = "KEY_HAS_CHILDREN" -> "HAS CHILDREN"
    [] err = "KEY_MALFORMED" -> "MALFORMED KEY"
    [] err = "REPLICA_NOT_PRIMARY" -> "NOT_PRIMARY_REPLICA"
    [] err = "QUORUM_NOT_REACHED" -> "FAILED_TO_REACH_QUORUM"
    [] err = "STATUS_NOT_NORMAL" -> "REPLICA_STATUS_NOT_NORMAL"
    [] OTHER -> "abort"

ClientMessage ==
  {"KEY NOT FOUND", "NO PARENT", "HAS CHILDREN", "MALFORMED KEY",
   "NOT_PRIMARY_REPLICA", "FAILED_TO_REACH_QUORUM",
   "REPLICA_STATUS_NOT_NORMAL"}

\* What create and Cmd_Create make of a reply: true, false, or an exception.
Cmd_Create(r) ==
  CASE Err(r) = "KEY_ALREADY_PRESENT" -> "KEY ALREADY EXISTS"
    [] Err(r) = "NONE" -> "CREATED"
    [] OTHER -> getClientError(Err(r))

\* Mutant: an error other than a missing key is not thrown.
CarelessRemove(r) ==
  IF Err(r) = "KEY_NOT_PRESENT" THEN "KEY NOT FOUND" ELSE "REMOVED"

Cmd_Remove(r) ==
  CASE Err(r) = "KEY_NOT_PRESENT" -> "KEY NOT FOUND"
    [] Err(r) = "NONE" -> "REMOVED"
    [] OTHER -> getClientError(Err(r))

Cmd_Set(r) == IF Err(r) = "NONE" THEN NoVal ELSE getClientError(Err(r))

Cmd_Get(r) == IF discriminant(r) = 1 THEN r.val ELSE getClientError(Err(r))

\* The keys themselves are printed; here it is enough that some are.
Cmd_List(r) == IF discriminant(r) = 2 THEN "keys" ELSE getClientError(Err(r))

Show(r) ==
  CASE r.op = "create" -> Cmd_Create(r)
    [] r.op = "remove" -> Cmd_Remove(r)
    [] r.op = "set" -> Cmd_Set(r)
    [] r.op = "get" -> Cmd_Get(r)
    [] r.op = "list" -> Cmd_List(r)

\* close() leaves a request that was sent on its way.
close == conn' = "none" /\ reply' = Nil

-----------------------------------------------------------------------------
(***************************************************************************)
(* The shell.                                                              *)
(***************************************************************************)

\* main until the connection is open, or could not be opened.
Connect ==
  /\ pc = "start"
  /\ \/ conn' = "open" /\ pc' = "read"
     \/ pc' = "failed" /\ UNCHANGED conn
  /\ UNCHANGED <<apiVars, mode, flags, typed, req, reply, shown, applied,
                 effect>>

\* Mutant: the end of the file is not looked for in a script.
PromptEnds == mode = "prompt" /\ flags # {}

\* The loop conditions: good() in Prompt, eof() in RunScript.
AtEnd == IF mode = "prompt" THEN flags # {} ELSE "eof" \in flags

\* The lines the stream may have next.
NextLine == IF Len(typed) < MaxLine THEN Line ELSE {}

\* Mutant: a read that extracts nothing leaves the last line in the buffer.
KeepsBuffer(fl) ==
  {[buf |-> IF typed = <<>> THEN Blank ELSE Last(typed).words,
    flags |-> fl \cup {"fail", "eof"}, line |-> Nil]}
    \cup {[buf |-> l.words, flags |-> {}, line |-> l] : l \in NextLine}

\* getline on a stream with flags fl.  One that failed before extracts nothing
\* and empties the buffer, as does the end of the file.  The last line may end
\* without a newline.  Of a line that does not fit the buffer keeps the front.
getline(fl) ==
  IF fl # {} THEN {[buf |-> Blank, flags |-> fl, line |-> Nil]}
  ELSE {[buf |-> Blank, flags |-> {"fail", "eof"}, line |-> Nil]}
       \cup {[buf |-> l.words, flags |-> f, line |-> l] :
               l \in {m \in NextLine : m.fits}, f \in {{}, {"eof"}}}
       \cup {[buf |-> l.words, flags |-> {"fail"}, line |-> l] :
               l \in {m \in NextLine : ~m.fits}}

\* The request of a line, or Nil: the other commands, and those with a wrong
\* number of arguments, need no server.
RequestOf(words) ==
  LET argc == IF Len(words) < DEBUG_MAX_ARGS THEN Len(words) ELSE DEBUG_MAX_ARGS
      cmd == words[1]
  IN  CASE cmd \in {"create", "set"} /\ argc = 3 ->
             [op |-> cmd, key |-> words[2], val |-> words[3]]
        [] cmd \in {"remove", "get", "list"} /\ argc = 2 ->
             [op |-> cmd, key |-> words[2], val |-> NoVal]
        [] OTHER -> Nil

\* The key of a request is a sequence of characters.
ASSUME RequestAssumption ==
  \A l \in Line :
    RequestOf(l.words) # Nil => RequestOf(l.words).key \in Seq(STRING)

\* A call on a broken connection throws through to main, which returns 1.
DispatchCommand(words) ==
  LET r == RequestOf(words)
  IN  CASE words[1] = "exit" ->
             pc' = "done" /\ close /\ UNCHANGED <<req, shown>>
        [] r = Nil ->
             UNCHANGED <<pc, conn, req, reply, shown>>
        [] r # Nil /\ conn = "open" ->
             pc' = "wait" /\ req' = r /\ UNCHANGED <<conn, reply, shown>>
        [] OTHER ->
             pc' = "failed" /\ close /\ UNCHANGED <<req, shown>>

ReadLine ==
  /\ pc = "read"
  /\ ~AtEnd
  /\ \E in \in getline(flags) :
       /\ flags' = in.flags
       /\ typed' = IF in.line = Nil THEN typed ELSE Append(typed, in.line)
       /\ DispatchCommand(in.buf)
  /\ UNCHANGED <<apiVars, mode, applied, effect>>

\* The loop is over: main closes the connection and returns 0.
Leave ==
  /\ pc = "read"
  /\ AtEnd
  /\ pc' = "done"
  /\ close
  /\ UNCHANGED <<apiVars, mode, flags, typed, req, shown, applied, effect>>

\* The reply is there: the command prints what the client library returns.
Receive ==
  /\ pc = "wait"
  /\ reply # Nil
  /\ shown' = Show(reply)
  /\ pc' = IF Show(reply) = "abort" THEN "aborted" ELSE "read"
  /\ reply' = Nil
  /\ UNCHANGED <<apiVars, mode, flags, typed, conn, req, applied, effect>>

\* The call throws because the connection broke before the reply came.
GiveUp ==
  /\ pc = "wait"
  /\ conn = "broken" /\ reply = Nil
  /\ pc' = "failed"
  /\ close
  /\ UNCHANGED <<apiVars, mode, flags, typed, req, shown, applied, effect>>

-----------------------------------------------------------------------------
(***************************************************************************)
(* The server and the network.                                             *)
(***************************************************************************)

\* What a request does to the key it names; looked at when it is served.
EffectOf(key) ==
  LET k == pruneKey(key).key
  IN  [had |-> k \in DOMAIN kvMap, has |-> k \in DOMAIN kvMap',
       val |-> IF k \in DOMAIN kvMap' THEN kvMap'[k] ELSE NoVal,
       same |-> kvMap' = kvMap]

\* t1 serves the request of the shell, by the procedure it names.
Serve ==
  /\ req # Nil
  /\ \E out \in Outcome :
       \/ req.op = "create" /\ create(req.key, req.val, out)
       \/ req.op = "set" /\ set(req.key, req.val, out)
       \/ req.op = "remove" /\ remove(req.key, out)
       \/ req.op = "get" /\ get(req.key)
       \/ req.op = "list" /\ list(req.key)
  /\ effect' = EffectOf(req.key)
  /\ applied' = Append(applied, req)
  /\ req' = Nil
  /\ reply' = IF conn = "open" THEN res' ELSE Nil
  /\ UNCHANGED <<mode, pc, flags, typed, conn, shown>>

\* The connection breaks; what is on its way may be lost.
Break ==
  /\ conn = "open"
  /\ conn' = "broken"
  /\ req' \in {req, Nil}
  /\ reply' \in {reply, Nil}
  /\ UNCHANGED <<apiVars, mode, pc, flags, typed, shown, applied, effect>>

\* Beside a shell only what changes the store matters.
OtherClient ==
  /\ IF mode = "none" THEN Request(RawKey)
     ELSE Request(BesideKey) /\ kvMap' # kvMap
  /\ UNCHANGED shellVars

\* A view change takes the role away from the server, or gives it another.
RoleChanges == ChangeRole /\ UNCHANGED shellVars

\* The replicator of the server calls back.
CallsBack ==
  /\ IF mode = "none" THEN Callback(RawKey)
     ELSE Callback(BesideKey) /\ kvMap' # kvMap
  /\ UNCHANGED shellVars

ShellNext == Connect \/ ReadLine \/ Leave \/ Receive \/ GiveUp

Next ==
  ShellNext \/ Serve \/ Break \/ OtherClient \/ RoleChanges \/ CallsBack

\* The shell goes on, and t1 serves every connection that has a request.
Spec ==
  /\ Init /\ [][Next]_vars
  /\ WF_vars(ShellNext)
  /\ WF_vars(Serve)

-----------------------------------------------------------------------------
(***************************************************************************)
(* Properties.                                                             *)
(***************************************************************************)

\* The requests that lines ask for.
RequestsOf(lines) ==
  LET upTo[n \in 0 .. Len(lines)] ==
        IF n = 0 THEN <<>>
        ELSE IF RequestOf(lines[n].words) = Nil THEN upTo[n - 1]
        ELSE Append(upTo[n - 1], RequestOf(lines[n].words))
  IN  upTo[Len(lines)]

\* The server serves what was typed, each line once and in the order of the
\* lines, whether or not the replies come through; only the last request may
\* be missing.  A line that was cut short has no successor.
AppliedInOrder ==
  /\ \/ applied = RequestsOf(typed)
     \/ pc # "read" /\ RequestsOf(typed) # <<>>
                    /\ applied = Front(RequestsOf(typed))
  /\ \A i \in 1 .. Len(typed) : ~typed[i].fits => i = Len(typed)

\* The message a command ends with tells what it did to the store at the time
\* it was served, whatever other clients did before and since: CREATED,
\* REMOVED and a silent set are true, and a message about an error means that
\* nothing changed.  (What get shows may spell a message too: a value is
\* whatever a client stored.)
Tells(r, text, eff) ==
  /\ r.op = "create" /\ text = "CREATED" =>
       ~eff.had /\ eff.has /\ eff.val = r.val
  /\ r.op = "remove" /\ text = "REMOVED" => eff.had /\ ~eff.has
  /\ r.op = "set" /\ text = NoVal => eff.has /\ eff.val = r.val
  /\ text \in ClientMessage \cup {"KEY ALREADY EXISTS"} => eff.same

ReportsEffect ==
  pc = "read" /\ applied # <<>> => Tells(Last(applied), shown, effect)

\* A script comes to its end, with or without the connection, unless a line is
\* too long or there is no script: the stream then fails short of its end, and
\* the loop goes on reading nothing.
ScriptsEnd ==
  mode = "script" ~> (pc \in {"done", "failed"} \/ flags = {"fail"})
=============================================================================
