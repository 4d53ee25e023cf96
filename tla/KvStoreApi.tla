----------------------------- MODULE KvStoreApi -----------------------------
(***************************************************************************)
(* The client operations of one replica (server/kvStoreImpl.cc) over its   *)
(* in-memory store (server/kvMemStore.cc): create, set, remove, get and    *)
(* list on keys that are UNIX paths.  t1 serves one request at a time.     *)
(* The replicator is modelled by what its calls return (success, or one of *)
(* the two exceptions, which leave the store as it was), by the role it    *)
(* gives the replica, and by its callbacks: a backup applies what some     *)
(* primary has committed, and so does a replica that adopts a log.  These  *)
(* operations may be any and come in any order, because a backup may apply *)
(* one that timed out at its primary, or miss one.                         *)
(*                                                                         *)
(* A key is a sequence of characters: pruneKey, checkKeyFormat and the     *)
(* prefix search of KvMemStore::list work on characters, and the           *)
(* properties are about what they make of a path.                          *)
(***************************************************************************)
EXTENDS Integers, Sequences, FiniteSets, SequencesExt

CONSTANTS
  RawKey,     \* the keys clients send, as they spell them
  Value       \* the values clients store

Slash == "/"
ValidChar == {Slash, "a", "b", "c"}
NoVal == ""

ASSUME KeyAssumption == RawKey \subseteq Seq(STRING) /\ NoVal \notin Value

VARIABLES
  role,       \* the part the replicator plays
  kvMap,      \* the stored keys, pruned, with their values
  res         \* the last request and its result

apiVars == <<role, kvMap, res>>

\* A replica begins as the primary of the first view, or as a backup.  One that
\* adopts a log in order to be the primary of a new view is taken for it before
\* the log has been applied and the status is NORMAL; so may one that recovers.
Role == {"first", "backup", "adopting", "primary"}

isPrimary == role # "backup"

-----------------------------------------------------------------------------
\* checkKeyFormat: a leading slash, something behind it, no slash at the end,
\* and valid characters only.
checkKeyFormat(key) ==
  IF /\ Len(key) > 1
     /\ key[1] = Slash
     /\ key[Len(key)] # Slash
     /\ \A i \in 2 .. Len(key) : key[i] \in ValidChar
  THEN "NONE" ELSE "KEY_MALFORMED"

\* pruneKey: one pass that erases a slash behind a slash and remembers where
\* the last slash is, counted from zero.

\* Mutant: the place of a slash that stays is not remembered.
ForgetfulPrune(kept, c) ==
  IF c = Slash /\ kept.lastSlash = Len(kept.key) - 1 THEN kept
  ELSE [kept EXCEPT !.key = Append(@, c)]

\* The pass gets from what it has kept to the character c.
prune(kept, c) ==
  CASE c # Slash -> [kept EXCEPT !.key = Append(@, c)]
    [] c = Slash /\ kept.lastSlash = Len(kept.key) - 1 -> kept
    [] OTHER -> [key |-> Append(kept.key, c), lastSlash |-> Len(kept.key)]

pruneKey(key) ==
  LET upTo[n \in 0 .. Len(key)] ==
        IF n <= 1 THEN [key |-> SubSeq(key, 1, n), lastSlash |-> 0]
        ELSE prune(upTo[n - 1], key[n])
  IN  upTo[Len(key)]

parentOf(pruned) == SubSeq(pruned.key, 1, pruned.lastSlash)

hasKey(key) == key \in DOMAIN kvMap

\* string::find: the first position at or behind from (counted from zero)
\* where pat occurs in str, or -1.
find(str, pat, from) ==
  LET at == {p \in from .. Len(str) - Len(pat) :
               SubSeq(str, p + 1, p + Len(pat)) = pat}
  IN  IF at = {} THEN -1 ELSE CHOOSE p \in at : \A q \in at : p <= q

\* Mutant: the search for a further slash starts in the prefix.
MatchesInPrefix(key, prefix) ==
  LET pos == find(key, prefix, 0)
  IN  pos # -1 /\ find(key, <<Slash>>, pos + Len(prefix) - 1) = -1

\* KvMemStore::list: the keys that contain the prefix, with no slash behind
\* the first character that follows it.
MatchesPrefix(key, prefix) ==
  LET pos == find(key, prefix, 0)
  IN  pos # -1 /\ find(key, <<Slash>>, pos + Len(prefix) + 1) = -1

listKeys(prefix) ==
  {key \in DOMAIN kvMap : key # prefix /\ MatchesPrefix(key, prefix)}

\* The part of a key behind its last slash.
leafOf(key) ==
  SubSeq(key, Max({i \in 1 .. Len(key) : key[i] = Slash}) + 1, Len(key))

-----------------------------------------------------------------------------
Outcome == {"NONE", "QUORUM_NOT_REACHED", "STATUS_NOT_NORMAL"}

ApiInit ==
  /\ role \in {"first", "backup", "adopting"}
  /\ kvMap = [k \in {} |-> NoVal]
  /\ res = [op |-> "none", key |-> <<>>, err |-> "NONE", val |-> NoVal,
            keys |-> {}]

Respond(op, key, err) ==
  res' = [op |-> op, key |-> key, err |-> err, val |-> NoVal, keys |-> {}]

\* Every operation first checks the role, then the format of the key.
Rejected(key) ==
  IF ~isPrimary THEN "REPLICA_NOT_PRIMARY" ELSE checkKeyFormat(key)

setInt(key, val) ==
  kvMap' = [k \in DOMAIN kvMap \cup {key} |-> IF k = key THEN val ELSE kvMap[k]]

removeInt(key) ==
  kvMap' = [k \in DOMAIN kvMap \ {key} |-> kvMap[k]]

\* What the replicator may answer: it refuses while the status is not NORMAL.
Answers == IF role = "adopting" THEN {"STATUS_NOT_NORMAL"} ELSE Outcome

\* KvMemStore::set, when replicateUpdate returns out.
StoreSet(key, val, out) ==
  /\ out \in Answers
  /\ IF out = "NONE" THEN setInt(key, val) ELSE UNCHANGED kvMap

\* KvMemStore::remove, when replicateDelete returns out.
StoreRemove(key, out) ==
  /\ out \in Answers
  /\ IF out = "NONE" THEN removeInt(key) ELSE UNCHANGED kvMap

\* The error of create before it calls the store: the parent is checked last.
createError(key) ==
  IF pruneKey(key).lastSlash > 0 /\ ~hasKey(parentOf(pruneKey(key)))
  THEN "KEY_HAS_NO_PARENT"
  ELSE IF hasKey(pruneKey(key).key) THEN "KEY_ALREADY_PRESENT" ELSE "NONE"

create(key, val, out) ==
  LET err == IF Rejected(key) # "NONE" THEN Rejected(key) ELSE createError(key)
  IN  /\ IF err = "NONE"
         THEN StoreSet(pruneKey(key).key, val, out)
                /\ Respond("create", key, out)
         ELSE UNCHANGED kvMap /\ Respond("create", key, err)
      /\ UNCHANGED role

set(key, val, out) ==
  LET err == IF Rejected(key) # "NONE" THEN Rejected(key)
             ELSE IF hasKey(pruneKey(key).key) THEN "NONE" ELSE "KEY_NOT_PRESENT"
  IN  /\ IF err = "NONE"
         THEN StoreSet(pruneKey(key).key, val, out) /\ Respond("set", key, out)
         ELSE UNCHANGED kvMap /\ Respond("set", key, err)
      /\ UNCHANGED role

\* Mutant: children are not looked for.
UncheckedRemove(key) == IF ~hasKey(key) THEN "KEY_NOT_PRESENT" ELSE "NONE"

removeError(key) ==
  IF ~hasKey(key) THEN "KEY_NOT_PRESENT"
  ELSE IF listKeys(Append(key, Slash)) # {} THEN "KEY_HAS_CHILDREN" ELSE "NONE"

remove(key, out) ==
  LET err == IF Rejected(key) # "NONE" THEN Rejected(key)
             ELSE removeError(pruneKey(key).key)
  IN  /\ IF err = "NONE"
         THEN StoreRemove(pruneKey(key).key, out) /\ Respond("remove", key, out)
         ELSE UNCHANGED kvMap /\ Respond("remove", key, err)
      /\ UNCHANGED role

get(key) ==
  /\ IF Rejected(key) = "NONE" /\ hasKey(pruneKey(key).key)
     THEN res' = [op |-> "get", key |-> key, err |-> "NONE",
                  val |-> kvMap[pruneKey(key).key], keys |-> {}]
     ELSE Respond("get", key,
                  IF Rejected(key) # "NONE" THEN Rejected(key)
                  ELSE "KEY_NOT_PRESENT")
  /\ UNCHANGED <<role, kvMap>>

\* The root is not a key: it is listed with the prefix "/".
list(key) ==
  LET root == key = <<Slash>>
      err == IF ~isPrimary THEN "REPLICA_NOT_PRIMARY"
             ELSE IF root THEN "NONE"
             ELSE IF checkKeyFormat(key) # "NONE" THEN "KEY_MALFORMED"
             ELSE IF hasKey(pruneKey(key).key) THEN "NONE"
             ELSE "KEY_NOT_PRESENT"
      dir == IF root THEN <<>> ELSE pruneKey(key).key
  IN  /\ IF err = "NONE"
         THEN res' = [op |-> "list", key |-> key, err |-> err, val |-> NoVal,
                      keys |-> {leafOf(k) : k \in listKeys(Append(dir, Slash))}]
         ELSE Respond("list", key, err)
      /\ UNCHANGED <<role, kvMap>>

\* A view change makes the replica a backup, or lets it adopt a log, which it
\* has applied when the status becomes NORMAL.
ChangeRole ==
  /\ \/ role' \in {"backup", "adopting"} \ {role}
     \/ role = "adopting" /\ role' = "primary"
  /\ UNCHANGED <<kvMap, res>>

\* updateCb and deleteCb: the replicator applies an operation on a key that a
\* request to some primary has named.
Callback(keys) ==
  /\ role \in {"backup", "adopting"}
  /\ \E key \in keys :
       /\ checkKeyFormat(key) = "NONE"
       /\ \/ \E val \in Value : setInt(pruneKey(key).key, val)
          \/ removeInt(pruneKey(key).key)
       /\ Respond("callback", key, "NONE")
  /\ UNCHANGED role

\* A request about one of the keys.
Request(keys) ==
  \/ \E key \in keys, val \in Value, out \in Outcome :
       create(key, val, out) \/ set(key, val, out)
  \/ \E key \in keys, out \in Outcome : remove(key, out)
  \/ \E key \in keys : get(key) \/ list(key)

-----------------------------------------------------------------------------
(***************************************************************************)
(* Reference definitions: a path is the sequence of its non-empty parts.   *)
(***************************************************************************)

Slashes(key) == {i \in 1 .. Len(key) : key[i] = Slash} \cup {Len(key) + 1}

\* The parts of a key, in order.
Path(key) ==
  LET cuts == SetToSortSeq(Slashes(key), <)
      part(i) == SubSeq(key, cuts[i] + 1, cuts[i + 1] - 1)
  IN  SelectSeq([i \in 1 .. Len(cuts) - 1 |-> part(i)], LAMBDA p : p # <<>>)

IsChild(key, dir) ==
  Path(key) # <<>> /\ Front(Path(key)) = Path(dir)

\* Every stored key is the canonical spelling of a path, and no path is stored
\* under two spellings.
StoredOnce ==
  \A k, l \in DOMAIN kvMap :
    /\ Path(k) # <<>> /\ Len(k) = Len(FlattenSeq(Path(k))) + Len(Path(k))
    /\ Path(k) = Path(l) => k = l

\* As long as a replica is the primary of the view it started in, whatever lies
\* on the way from the root to a stored key is stored: create wants a parent and
\* remove wants no children, whatever spelling they are given.  (It need not be
\* so at a backup, nor at a primary that was one.)
TreeClosed ==
  role = "first" =>
    \A k \in DOMAIN kvMap : \A i \in 2 .. Len(k) :
      k[i] = Slash => SubSeq(k, 1, i - 1) \in DOMAIN kvMap

\* The answer of list has every child of the listed key, and an answer to get
\* is the value stored under that path.
AnswersComplete ==
  res.err = "NONE" =>
    /\ res.op = "list" =>
         \A k \in DOMAIN kvMap : IsChild(k, res.key) => Last(Path(k)) \in res.keys
    /\ res.op = "get" =>
         \E k \in DOMAIN kvMap : Path(k) = Path(res.key) /\ kvMap[k] = res.val
=============================================================================
