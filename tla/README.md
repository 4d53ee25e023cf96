# A TLA+ model of metaDR

metaDR is a replicated in-memory key-value store: N server processes, one of
them primary, that keep their stores equal by Viewstamped Replication. This
directory models the server, its client library and its shell in TLA+, checks
the model with TLC on small instances and proves facts about it, for all
instances, with TLAPS. All source paths below are relative to `src/server/`
unless they say otherwise.

## 1. Inventory of the system

Every server process runs five threads that share one `VsReplicator`:

| thread | code | what it does |
|---|---|---|
| t1 | `server.cc:62`, `kvStoreImpl.cc` | serves clients, one request at a time |
| t2 | `server.cc:64`, `*Impl.cc` | runs all handlers of the replication port, one RPC at a time |
| hbt | `vsReplicator.cc:329` | heartbeats of a primary; view changes; recovery |
| ppit | `vsReplicator.cc:375` | logs the prepares that t2 has queued |
| prrt | `recoveryHandler.cc:254` | answers recovery requests |

| component | state | operations | model |
|---|---|---|---|
| Replicator (`vsReplicator.cc`, `vsReplicaState.cc`, `vrCommon.*`, `concurrentQueue.h`) | primary id, status, view, op and commit number; prepare queue; response counts | replicateUpdate / replicateDelete, prepare, prepareOk, commit, heartbeat | `VsReplicator`, `Locks` |
| Operation log (`inMemOpLogHandler.cc`) | vector of numbers, hash map of entries | append, commit, get/set log | `InMemOpLogHandler` |
| View change (`viewChangeHandler.cc`) | counts and messages by view | changeView, startViewChange, doViewChange, startView | `ViewChangeHandler`, `Locks` |
| Key-value store and API (`kvMemStore.cc`, `kvStoreImpl.cc`) | the map | create, set, remove, get, list | `KvStoreApi` |
| Recovery (`recoveryHandler.cc`) | request queue; responses, counted by nonce and by view | recover, recoveryRequest, recoveryResponse | `RecoveryHandler`, `Locks` |
| Configurator (`configurator.cc`) | the parsed file: ports, end points, the flag `recovering` | parse, bootStrap | `Configurator` |
| Server process (`server.cc`) | its threads and listeners | start-up, crash, restart | `RecoveryHandler` |
| Client library (`libClient/kvsClient.cc`, `include/`) | a connection | one call per command | `Shell` |
| Shell (`shell/shell.cc`) | the stream it reads and its error flags | prompt, script, one function per command | `Shell` |
| SQLite wrapper (`serverdb.cc`, `sqlstmt.*`) | a connection, an open transaction, a prepared statement | open, create, close, hasKey, get, set, remove, list | `ServerDB` |
| SQLite (`sqlite3.h`) | the file | the part of its interface the wrapper uses | `SQLite` (vendored) |
| RPC library, generated stubs (`*.hh`) | - | - | messages and procedures in the modules that send them; the library is external |

**Interaction.** The client API calls the store, which calls the replicator
while it holds `kvMemMutex`; the replicator holds `_repMutex` from the moment
it numbers an operation until it returns. Replicas talk by synchronous RPC: the
caller's thread waits until the callee's t2 has run the handler. Each kind of
client call holds one mutex (`_repClientMutex`, `_vcClientMutex`,
`_recoveryClientMutex`) for both of
its tries. `changeView` holds `_repMutex` for its whole duration, so a replica
that changes the view blocks its own t1 and ppit, and a `processCommit` that
reaches it blocks its t2 and, through it, the sender.

**What is hard.** Handlers of t2 change counters while t1, hbt and ppit wait on
them; a wait may time out while the answers are on their way; a call may be
lost, or made twice because its reply was lost; a process may crash between any
two steps, and everything it knew is in memory; a failed `assert` ends the
process. The complete list, line by line, is "hazards" in `PROJECT.json`.

**What makes each component correct.**
- Replicator: logs agree; what is committed is on a quorum, is final, and is
  applied everywhere in one order; every request is answered; commits spread.
- View change: one primary per view; nobody serves in a view that a quorum has
  not entered; committed operations survive; a failed primary is replaced.
- Key-value store: the keys of a primary form a tree with one spelling per path,
  and list and get answer accordingly.
- Recovery: what a client was told is done stays with a quorum although a
  member of it lost its memory; a recovered replica follows the same primary and
  agrees on what is committed; a recovery comes to an end.
- Locks: no circle of waits, and nobody waits for a thread that is done.
- Client library and shell: each line is served once and in order, its message
  is true, and a script ends.
- SQLite wrapper: through failures and crashes the file holds what the last call
  that returned left, or what one that was cut off would have; `list` misses no
  child.

## 2. Modules

| module | models |
|---|---|
| `VrTypes` | ids, statuses, operations, entries, majority, effect of an operation on the map |
| `InMemOpLogHandler` | the log and its operations |
| `VsReplicator` | replication among N replicas, with faults |
| `ReplicatedStore` | abstract: one growing history, of which each replica applies a prefix |
| `ViewChangeHandler` | view change, composed with `VsReplicator` |
| `Configurator` | reading the configuration file, and what bootStrap makes of it |
| `RecoveryHandler` | restart and recovery, composed with `ViewChangeHandler`, `VsReplicator` and `Configurator` |
| `Locks` | the order in which all threads take mutexes and make calls, and who waits for whom |
| `KvStoreApi` | the client operations over one replica's store |
| `Shell` | shell and client library, composed with `KvStoreApi` |
| `SQLite` | the part of SQLite's interface the wrapper uses |
| `ServerDB` | the wrapper, over `SQLite` |
| `VsReplicatorProofs` | type correctness, agreement of the logs, final commits; commits and acknowledgements rest on a majority |
| `VsReplicatorRefinementProofs` | replication implements `ReplicatedStore` |
| `VsReplicatorAbortProofs` | no `assert` of replication fails |
| `ViewChangeProofs` | elections: one primary per view, elected by a majority; commit numbers never fall; the next candidate is a replica |
| `RecoveryProofs` | a restarted backup: what was acknowledged stays with a quorum, and it agrees with the others |
| `LocksProofs` | who waits for whom: no circle before a view change, three kinds after it |
| `ServerDBProofs` | durability of the SQLite wrapper, and what `list` tells |
| `ShellProofs` | the shell's requests and reports; the stored keys are a tree, and list answers with every child |
| `MC...` | constants for TLC |

Definitions keep the source's names; `PROJECT.json` "map" gives the lines of
each. Operators whose comment begins with "Mutant:" are faulty variants of the
definition that follows them. Nothing uses them: put in the place of that
definition they must break a property, which shows that the property can fail.

### State and actions of VsReplicator

`priId`, `status`, `viewNum`, `opNum`, `commitNum` are `_replicaState`; `opLog`,
`kvMap`, `peers` (the keys of `_replicas`), `repMutex`, `prepReqQ` and `waitMap`
are the members of those names. Each thread has a program counter that says
between which statements it is: `cpc` for t1 (`idle`, `enter`: passed the role
check; `prepare`: broadcasting; `wait`; `reached`: quorum taken as given;
`commit`: broadcasting the commit), `ppc` for ppit. `todo[r][t]` are the
replicas a broadcast of thread t has yet to call, `repClient` is the call under
`_repClientMutex`, and `repListener` the commit that blocks t2.

One step is the code between two points where another thread can interfere. A
handler that takes no lock for long (`processPrepare`, `processPrepareOk`) is
one step with the call. `processCommit` is two: it checks the status, then
blocks until `_repMutex` is free. A call fails (`CallFails`) when the callee is
down, or up to `MaxLost` times otherwise; the reply is lost and the call made
again up to `MaxResent` times.

`replies` is a history variable. `Finish` is the end of `replicate` together
with the store's own `setInt` or `erase`: t1 holds `kvMemMutex` across both.

### State and actions of ViewChangeHandler

The three wait maps and two message maps are variables of the same names, by
view. `vpc` says where hbt is in `changeView`; `haveInfos` and `haveView` are
the cases in which the code does not wait because the messages are already
there. `lastCommitTime` is abstracted: a backup may run into
`HEART_BEAT_TIMEOUT` at any time. `updateNewView` at a backup is one step, since
it sends nothing; at the new primary it is a step that adopts the log, one per
StartView, and `cleanUp`. The runs start from a state in which the operations of
`Committed` have been applied everywhere (`InitCommitted`), because with an
empty log the first view change aborts (see section 5).

### State and actions of RecoveryHandler

A replica in `Restarting` may crash at any step (`CrashToRestart`) and be
started again (`Start`) with an empty memory: `Start` is `bootStrap` with what
`Configurator` makes of the replica's file, and every variable of the replica
gets its initial value. The nonce of a recovery is the system clock in whole
seconds (`recoveryHandler.cc:42`): any value of `Nonce`, one used before
included, since a start may follow another within the second, or the clock be
set back. `nonces` has those each replica used. hbt and prrt run from then on,
but until `Listen` (t1 and t2, `server.cc:54-65`) a call to the replica is
refused. `recover` is cut at its calls and at its wait (`rcpc`); prrt at the
point where it has popped a request, where it waits for `_repMutex` and at its
call (`prrt`). `_recoveryRespMap`, `_respViewCnt` and the count of the wait map
all follow from the sequence of responses received since the last cleanup
(`recoveryResps`). A flag that no constructor sets is a choice over both values:
`recovering` in `Configurator`, `_receivedRespFromPri` in `initFlag`.

### Locks

Here the data is left out and the control kept: the program of a thread is the
sequence of its lock, unlock, call and branch instructions, in the order of the
code, and a handler is a program that t2 of the callee executes while the caller
waits. The mutexes are `kvMemMutex`, `_repMutex`, `_viewChangeMutex` and those
of the three kinds of clients. A mutex whose holder does not wait is left out,
and so are two that add no circle: `rMutex` of a response, which `changeView`
holds across `updateNewView` (`viewChangeHandler.cc:95`, `112`), since the
handlers that want it pass `_viewChangeMutex`, which `updateNewView` holds too,
just before; and `_recoveryRespMutex`, which `recover` holds across its
callbacks (`recoveryHandler.cc:63`): there `recover` can wait for `kvMemMutex`
only, and if t1, its holder, waits as well, then for the `_repMutex` of
`recover`, which is a circle already. Which branch is taken, whether a wait is
notified and who becomes primary is left open, so the module has more behaviours
than the code and a circle that it does not have the code does not have. The
circles it has were compared with the code one by one; section 5 lists them.
When a process dies, the calls that wait for it fail (`Returned`), and a handler
it had called is served to its end without anybody waiting for the result.

### Shell

One shell reads lines, any number of other clients write beside it, the server's
role changes, and the connection may break at any time, with the request or the
reply lost or not. A line is its words and whether it fits into the buffer; the
stream keeps its `fail` and `eof` flags from one `getline` to the next, because
the two loops look at different ones. Results travel as the discriminated union
the generated stubs define: `Err` throws on the wrong arm.

### ServerDB and SQLite

An operation is a query, stepped row by row, and then the statements of a
transaction, executed one by one; that it returns (`Returns`) is a step of its
own. Each call of SQLite may fail; an error inside a transaction may have rolled
it back or not, as the interface says. The process may crash between any two of
these steps, also between the COMMIT and the return. `acked` is a history
variable: for each key what the store may hold by the calls that returned and
those that a crash has cut off. Keys are paths and have no quotes; a value has no
double quote, but may spell a column (`Column`: `key`, `value`, `depth`, and `rowid`
with its other names, in any case).

### KvStoreApi

Keys are sequences of characters here, because `pruneKey` and `list` work on
characters and the properties are about what they make of a path. Four
characters stand for the valid ones. Replication appears as its outcome: done,
`QUORUM_NOT_REACHED` or `STATUS_NOT_NORMAL`. It appears as callbacks as well
(`Callback`): a backup (`vsReplicator.cc:249`), and a replica that adopts a log
(`viewChangeHandler.cc:286`), apply operations that no check of this replica has
seen. They may be any operations on keys that `create` would accept, in any
order, because a backup may apply one that timed out at its primary, or miss one
(section 5). `role` tells the primary of the view a replica started in from a
backup, from one that is taken for the primary while it adopts a log and is not
NORMAL, and from the primary of a later view. Properties compare with `Path`,
the list of the non-empty parts of a key.

## 3. Runs that pass

With two workers each takes two minutes and a quarter at most.

| run | instance | shows |
|---|---|---|
| `VsReplicator_faults` | N = 3, 2 operations out of two updates and a delete, 1 timeout, 1 lost call | `TypeOK`, `LogMatching`, `QuorumLogged`, `BackupBehindPrimary`, `NoAbort`, `CommitsAreFinal` |
| `VsReplicator_refines` | N = 3, 2 symmetric keys, 1 crash | `KvAgreement`, `AckedSurvives`, `ImplementsReplicatedStore` |
| `VsReplicator_progress` | N = 2, 2 operations, 2 timeouts, 1 lost call, 1 repeated call, 1 spurious wakeup, fair | `RequestAnswered`, `CommitPropagates` |
| `ViewChange_views` | N = 3; 2 views, 1 timeout and 1 lost call, repeated call or spurious wakeup; or 1 view, 1 operation in flight and a crash of the primary at any step; fair | `VcTypeOK`, `QuorumInView`, `OnePrimaryPerView`, `ViewAgreement`, `CommitNumsGrow`, `BackupTakesOver` |
| `Recovery_rejoin` | N = 3, 1 operation in flight, a backup started again once, with 1 lost call, repeated call or spurious wakeup, or an uninitialised flag; or twice, with any of 2 nonces; fair | `AckedInQuorum`, `RejoinedAgrees`, `RecoveryCompletes` |
| `Locks_circles` | N = 2, both write, beat and change the view, one may start by recovering, 1 lost call, 5 programs | `NormalCaseNeverDeadlocks`, `KnownDeadlocks`, `NobodyWaitsForIdle` |
| `Shell_session` | 2 lines out of 8, another client, changes of the role and callbacks; without a shell 11 spellings of keys up to three parts deep; fair | `AppliedInOrder`, `ReportsEffect`, `ScriptsEnd`, `StoredOnce`, `TreeClosed`, `AnswersComplete` |
| `ServerDB_durable` | a key, its child, and a key whose pattern matches the child too; a value, and one that spells a column; any number of calls, failures and crashes | `Durable`, `TableOrTorn`, `ListsChildren` |

The properties are stated, with the behaviour of the code they are about, at the
end of each module. In short:
- `AckedInQuorum`: an operation acknowledged to a client is logged by a quorum
  whenever all replicas run and none is recovering, also after one of those that
  had logged it came back empty, once or twice, with different nonces.
  `RejoinedAgrees`: it comes back under the same primary and agrees with
  everybody on what is committed.
- `RecoveryCompletes`: a recovery that nobody failed to answer ends.
- `NormalCaseNeverDeadlocks`: replication, heartbeats and recovery call each
  other under `_repMutex` and never in a circle. `KnownDeadlocks`: with view
  changes there are three kinds of circles and no fourth.
  `NobodyWaitsForIdle`: no lock or call is left behind.
- `AppliedInOrder`, `ReportsEffect`: a line is served once, in order, and the
  message tells what it did although others write at the same time.
- `TreeClosed`: a primary stores no key without its parent, as long as it is
  the primary of the view it started in; section 5 says why not later.
- `Durable`: after a crash the file has what the last call that returned left, or
  what the one that was running would have left; a transaction that failed half
  way and was left open is never committed by a later call.

**Bounds.** Three replicas are the smallest system with a quorum that is not
everybody; two operations are enough for one to overtake, skip or depend on the
other, and for a commit to pass over a timed-out one. Liveness is checked with
two replicas, where the quorum is everybody and every fault matters. Two views
let messages of the first arrive in the second. Fault bounds of one let each
fault meet every step of the rest; combinations are spread over the runs. Two
runs have a constraint as well. In `ViewChange_views` (`MCViewChangeHandler`),
`OneTrouble` keeps an operation in flight apart from faults and from a second
view, and `PrimaryCrashes` keeps the crash of the primary apart from both. For
`BackupTakesOver` the constraint cuts nothing that its fairness requires: after
the crash it removes other faults, which need not happen, and a second change of
the view, which begins only after the first has given the view a primary, as no
wait times out. In `Recovery_rejoin`, `OneFaultOrTwoStarts`
(`MCRecoveryHandler`) keeps a fault of a recovery, or a flag that happens to be
true, apart from a second start; the second recovery does not time out. Two
nonces are enough, because nonces are only compared. Beside a shell, other
clients make only requests that change the store. `Recovery_rejoin` stays in
view 0 and restarts one backup: view changes and recoveries meet in `Locks`
only. `Locks_circles` has two replicas, each of which calls the other under
every mutex; that a third adds no other kind of circle is proved (`ThreeKinds`).
In `ServerDB` nothing is bounded but the keys and values.

**Stopping.** The runs with `CHECK_DEADLOCK FALSE` are those in which the model
may legitimately stop: a process has died, or a bound on views or operations
has been used up.

**Fairness.** A thread that can go on again and again does (`T1`, `Hbt`,
`Ppit`): these are operating-system threads, `_repClientMutex` is released
between calls, hbt sleeps between broadcasts, and the listener serves its
connections in turn. Client requests, crashes, losses and spurious wakeups are
never required. A wait that is not answered times out, so `TimedOut` is one of
t1's fair steps. `CommitPropagates` needs heartbeats, and says nothing about a
backup that a call failed to reach: the code has no state transfer. View changes
and recoveries need less: as long as some thread of some replica can take a
step, one does (`VcFairness`, which assumes it only once the primary has
crashed, and `RcFairness`, only while a replica recovers). Faults, and timeouts
of their waits are not among these steps, so the takeover and the recovery have
to complete by what arrives, and heartbeats are not either. In `Shell_session`
the shell goes on, and t1 serves a request it has received; that a connection
breaks is never required.

## 4. What is proved

All theorems hold for every N and every set of operations, views, keys and
values. Their hypotheses are part of their statements; a fault that none
mentions may happen any number of times, at any step.

| theorem | of | states | as long as |
|---|---|---|---|
| `TypeCorrect` | `Spec` | `TypeOK` | |
| `LogsMatch` | `Spec` | `LogMatching` | |
| `BackupsFollow` | `Spec` | `BackupBehindPrimary` | |
| `CommitsStay` | `Spec` | `CommitsAreFinal` | |
| `CommitsHaveQuorum` | `Spec` | `QuorumLogged` | no reply lost, no spurious wakeup (`CountsHold`) |
| `AcksSurvive` | `Spec` | `AckedSurvives` | `CountsHold`, and at most f of 2f + 1 processes are gone |
| `NobodyAborts` | `Spec` | `NoAbort` | no call lost or repeated |
| `ImplementsStore` | `Spec` | `ImplementsReplicatedStore` | no wait times out (`NoTimeout`) |
| `StoresAgree` | `Spec` | `KvAgreement` | `NoTimeout` |
| `OnePrimary` | `VcSpec` | `OnePrimaryPerView` | no reply lost |
| `MajorityInView` | `VcSpec` | `QuorumInView` | no reply lost |
| `ViewsAgree` | `VcSpec` | `ViewAgreement` | no reply lost |
| `CommitsGrow` | `VcSpec` | `CommitNumsGrow` | no reply lost |
| `CandidatesAreReplicas` | `VcSpec` | `VcTypeOK` | no reply lost, and no replica in its own list of the others (`NoOwnEntry`) |
| `NobodyWaits` | `Locks` | `NobodyWaitsForIdle` | |
| `NormalCase` | `Locks` | `NormalCaseNeverDeadlocks` | |
| `ThreeKinds` | `Locks` | `KnownDeadlocks` | |
| `AcksRegained` | `RcSpec` | `AckedInQuorum` | `Rejoins`, no view change, `CountsHold`, and no replica uses a nonce twice (`DistinctNonces`) |
| `RecoveredAgree` | `RcSpec` | `RejoinedAgrees` | `Rejoins`, no view change |
| `StoreDurable` | `ServerDB` | `Durable` | |
| `StoreHasTable` | `ServerDB` | `TableOrTorn` | |
| `NoChildMissed` | `ServerDB` | `ListsChildren` | |
| `ServedInOrder` | `Shell` | `AppliedInOrder` | |
| `ReportsAreTrue` | `Shell` | `ReportsEffect` | |
| `TreeStays` | `Shell` | `TreeClosed` | it is the primary of the view it started in (part of `TreeClosed`) |
| `KeysCanonical` | `Shell` | stored keys are `Canonical` | |
| `ListsAll` | `Shell` | an answer to list has every child (`ChildrenListed`) | |

With three exceptions no hypothesis is there for the proof's sake: without it
the property is false, of the code as of the model (section 5 says how it
fails). Two exceptions are those of recovery: no replica enters `changeView`,
and the primary of view 0 is not started again (see "Recovery" below). The third
is `CommitsGrow`, whose proof needs that a view has one primary; a
counterexample would first need two, as in that of `OnePrimaryPerView`, and was
not looked for. Spurious wakeups are excluded where `wait_for` decides on a
commit, and allowed in view changes: the wait for requests may end early there,
but the quorum that elects a primary is asserted.

**Types.** `TypeOK` is not inductive: that the prepare logged or acknowledged is
one at all needs the program counters tied to the data (`ThreadInv`: a t1 that
is not idle has an operation and, behind `enter`, a number of at least one; a
ppit that is not idle has a prepare, and calls the primary only after logging
it). `TypeInv` is the conjunction.

**Agreement of logs.** `SafetyInv` is the conjunction of `TypeInv` and
- `ViewInv`: every replica is NORMAL in view 0 and takes replica 0 for the
  primary (view changes are not part of this specification).
- `LogInv`, by replica: a log has exactly the numbers up to the replica's own
  `opNum`, each with the operation the primary logged under it (`LogAt`); t1
  works only at replica 0, on an operation that is logged there under `opNum`
  (`ClientAt`); a prepare in a queue or in ppit's hands is in the primary's log
  (`PrepAt`). A new number therefore never replaces an entry.
- `CommitInv`: the commit number of every replica, of every heartbeat read and of
  every commit being delivered is at most the primary's, and a replica's own is
  at most its `opNum`.

`StepKeeps` says once for all actions that log entries stay, that their
operations do, and that a committed entry does not change at all; the
preservation of each conjunct then has one step per action that writes what it
mentions.

**Quorums.** `processPrepareOk` counts responses and not replicas. `CountInv`
bounds the count of a number by the replicas that have logged the number and
have no response left to send for it (`Owing`). A response moves a replica out of
`Owing` and raises the count, so both sides grow together, unless the reply is
lost and the response is sent, and counted, again. `ReachedInv` carries the
majority from the end of the wait to the commit number and `ReplyInv` from there
to what clients were told.

**Refinement.** The history is the committed part of the primary's log
(`History`), and each replica has applied a prefix of it. A timed-out operation
would be a hole in it; without one, operations are committed one after the other
in the order they are logged (`OneByOne`). Every step is then mapped to `CommitOp`,
to `Apply` or to a stutter. `StoresAgree` adds that one function from
lengths to maps describes every replica (`Replays`), and each replica holds its
value at the number it has applied.

**Assertions.** `QueueInv` counts: what a live backup has logged, has in ppit's
hands, has queued and is still to be sent by the broadcast in progress adds up to
the primary's `opNum`, in this order. The number that ppit asserts is thus the
next one. `MarkInv`: a backup's commit number covers committed entries only.

**View changes.** The invariant has a structural part and one about elections.
- `StructInv`: types; a replica inside `changeView` holds `_repMutex`, which
  keeps t1 and ppit out, and is not NORMAL before it has adopted a view
  (`MutexInv`); while t2 works on a DoViewChange or StartView its caller waits for
  it, in the same view (`MsgInv`); the infos counted for a view are those
  recorded for it, and of that view (`InfoInv`).
- `VoteInv`: a candidate has no two infos of one replica; a replica whose info has
  been recorded elsewhere has left the view or waits to be led in it (`Voted`),
  which no step undoes; no other candidate has its info.
- `ClaimInv`: all that acts for a primary of view v, which is a NORMAL replica that
  follows it, t1 in `replicate`, a broadcast, a commit or StartView on its way or
  in a map (`Claims`), acts for one replica; for v > 0 that replica was elected
  (`Led`): a majority has spent its vote for v on it. Two elections of a view
  would share a voter (`MajoritiesMeet`).
- `BoundInv`: commit numbers announced or adopted in a view are at most that of
  its primary.
- `LogsInv`: no log, a replica's own or one in a message or in a candidate's map,
  has a committed entry above the commit number that goes with it (`MarkInv`), and
  t1 commits nothing below the commit number of its replica (`BusyInv`).

All but the first are stated for `resent = 0`, since a repeated DoViewChange is
counted twice. They were model-checked before they were proved.

`updateNewView` sets the commit number to the one that comes with the log, which
could be lower than its own. It asserts that the new log has the entry at its own
commit number committed (`LogFits`); with `LogsInv` this implies that the number
is not lower (`CommitsGrow`). That the entry is the same is not asserted, and does
not follow (`CommittedAgree`, section 5).

`VcTypeOK` is about counts and candidates. A request is counted up to the
quorum, and the replica's own one in any case, but only once (`RequestsInv`); the
infos of a view are of distinct replicas (`InfosDistinct`), hence at most N. The
loop over the candidates goes on only while it has a turn left or the next
candidate is the replica itself (`TriedInv`), and `getNextPrimaryCandidate` names
a replica as long as the list of the others has N - 1 entries (`OthersOnly`): the
entry that `vsReplicator.cc:417` inserts is the only way to replica N.

**Recovery.** `RcSpec` composes replication, view change and recovery, so
nothing that was proved of `Spec` alone carries over: a backup may now lose what
the quorum counts it for. `Rejoins` says that the replicas started again are
backups and that their files have the line `Recovering = true` (without it
`AckedInQuorum` is false, section 5). A restarted primary that the others still
follow does not come back (section 5). `NoViewChange` is a condition on the
behaviour: what a recovery and a view change do to each other is a question of
its own, left to the plan. In return restarts, lost and repeated calls, spurious
wakeups, timeouts and crashes may happen any number of times (one replica is
down at a time, section 6), in every order with requests, prepares and commits.
`RcInv` consists of
- the invariant of replication (`BaseInv`), with the order of the log's vector
  (`OrderInv`), since `setLog` rebuilds a log from the sequence sent;
- `RecoveringInv`: a replica that recovers has logged and queued nothing, because
  the handler of a prepare checks the status, so there is nothing to undo;
- `MessageInv`: every request and response on its way carries the nonce of a
  recovery that has begun, and what the primary's response says stays true of it
  (`ResponseOk`): the numbers in it are at most the primary's, and the log is the
  beginning of the primary's log.
- `RcCountInv` and `RcReachedInv`, the quorum argument, as long as no replica uses
  a nonce twice. `Holders(n)` are the
  replicas whose logs reach number n, `Lost(n)` those that are recovering when the
  primary has n, and whose responses with the current nonce, received or on their
  way, all cover n. The restart of a backup takes it from `Holders(n)` to `Lost(n)`:
  no response carries its new nonce yet, and one made from then on has all
  the lost log held. An adoption takes it back. The union of the two
  never loses a replica, and it has a majority for everything acknowledged. When
  all replicas are NORMAL, `Lost(n)` is empty.

Without `DistinctNonces` a response to the first start may cover less than the
replica held at the second and still carry the current nonce (section 5). Working
on the proof changed the property: `AckedInQuorum` had not excused repeated
PrepareOks, which break it for N = 5.

**Locks.** A property of two threads that wait for each other says nothing about
the steps that led there. `LocksInv` does:
- `StageInv`: what a thread has yet to do is a stage of a program that this thread
  runs, and it holds exactly the mutexes of that stage. The stages are given by
  the frame of the program between the locks, with the releases that must follow;
  the sequences of calls in between are only required to be of the kinds that
  this thread makes there. Only the first instruction may be a call that has
  begun.
- `ServeInv`: t2 works for a call that waits for it, and a dead process does
  nothing.

`NobodyWaits` follows, because a holder has a release still to come. For circles,
`Deadlocked` is the set of those from whom the chain of waits never ends; in a
finite set of threads it has, with every thread on a circle, the thread before it
(`Circle`, `Before`, by a least-number argument, as the chain is a recursive
function of its length). `Blocked` then lists what a thread of a circle can wait for:
a held mutex takes it to the holder, a call to t2 of the callee. Only hbt in a
view change, t1 behind `kvMemMutex` and t2 in `processCommit` can hold a mutex and
wait for one that is held, which leaves the three kinds (`ThreeKinds`).
`NormalCase` needs in addition `QuietInv`: while all views are 0, at most one
replica takes another than replica 0 for the primary, and only replica 0 writes or
sends heartbeats, so that its own t2 has no commit to process. The proof
found an error of the model: when the process of a caller had died already, the
end of the callee's let it go on.

**SQLite wrapper.** `Durable` is not inductive: what a COMMIT writes was put
together statements earlier. `ProgInv` says what the transaction holds at each
statement and what the query before it has told about the key. Of a transaction
that a failed operation has left open it says only that there is one, which is
enough: every later BEGIN fails (`serverdb.cc:72`). `ConnInv` ties the
connection to the file, `TableInv` the file to how far main has come. `KeptInv`
is about the key of the operation that runs: until its COMMIT the file is as if
it had not begun, and from then on as if it had returned; a crash at any time
leaves one of the two. `ListInv` says that the rows `list` has read and those it
has left are what its query finds. The pattern of the query also finds keys that
are no children (section 5); `ChildMatches` shows that it finds every child, and
that a child has one slash more.

**Shell and client API.** `OrderInv` says that the shell reads on only when its
last request was served and the reply was taken, so that what was served is
always what was typed, or lacks the last request. `FitInv`: a line that does not
fit fails the stream for good. `ReportInv` adds that a reply on its way is true of
the request served last, which no other client can change. That keys are canonical
(`KeysInv`) holds at a backup as well, since callbacks bring keys that a primary
has pruned; `TreeClosed` needs more than the two checks of `create` and `remove`,
and that no callback has come between. `PruneStep` is the invariant of the
loop in `pruneKey`: what it has kept has no slash behind a slash, ends with the
character just examined, and `lastSlash` is the place of its last slash. So
`create` asks for the parent of the key that it stores, and the keys before the
parent are stored with it. `remove` asks for keys that have the path and one more
part, not for descendants: `ParentsListed` shows, from `TreeClosed` itself, that a
key with a descendant has such a child, and that `string::find` finds it.
`ListsAll` uses the latter (`ChildListed`) for the answers to list.
`pruneKey` and the requests of a script are recursive functions; what their
definitions mean follows from the existence of a function that takes those steps
(`IterateExists`, `PruneSteps`, `RequestsCollected`), and what holds of their values
by `StepByStep`, which is induction over a set.

**Assumptions.** Those of `VrTypes`, `VsReplicator` and `ViewChangeHandler`: N
is a positive natural number, bounds are natural numbers, client operations are
operations, `NoVal` is not a value, and what is committed at the start is a
sequence of client operations. In replication `Nil` needs no assumption. In
`ServerDB` a key is a sequence of characters that begins with a slash and has no
quote and no percent sign, `Column` names columns, and `Nil` is neither an
operation nor a value nor a set of keys. In `Shell` the keys of requests are
sequences of characters, the values others store do not include the empty one,
and `Nil` is not a line, of which each has at least one word. In `Locks` the
replicas of each bound are replicas, and `Nil` is neither a replica nor a
thread.

**Only model-checked:** `StoredOnce` and `AnswersComplete`, which compare the
store with the paths that keys stand for: `Path` cuts, sorts and filters
sequences, and what such a definition yields for every input needs induction over
data (that every stored key is canonical and that list misses no child are
proved of the characters); all liveness and
`ENABLED` (the prover handles neither).

## 5. Runs that show a disagreement

Each checks a statement of the repository's documentation or comments that the
code does not keep; `PROJECT.json` "findings" has the quotations.

| run | what happens |
|---|---|
| `VsReplicator_timeout_divergence` | An operation times out at the primary (error to the client) and stays in all logs; the next commit makes the backups apply it, the primary never does. |
| `ViewChange_lost_ack` | An acknowledged operation whose commit no backup has seen is dropped by the next view. |
| `ViewChange_skipped_entry` | `i < logSize()` with numbers from 1: a committed last entry is not applied to the store. |
| `ViewChange_stale_prepare` | A prepare that was checked before the view changed is logged, and counted, in the new view: two NORMAL replicas commit different operations under one number. |

`ViewChange_stale_prepare` needs N = 3, one view change, two different operations
and no fault at all. The primary of view 0 has an operation prepared at a backup
whose ppit has made its checks (`vsReplicator.cc:391`) when both others take it for
dead. The new primary gives the number to another operation. ppit now logs the
old prepare in view 1 and acknowledges it; the acknowledgement has the number and
the view that the new primary waits for (line 414), so it commits its operation,
and with the next commit the backup commits the other one: the key-value maps
differ. The backup may also have committed the new operation when ppit logs the
old prepare over it. With one operation in flight, as in `ViewChange_views`, the
two have nothing to differ in.

Changing a constant of a passing run shows more of the same kind:
- `BackupTakesOver` fails in `ViewChange_views` with
  `Committed <- NoneCommitted`: `updateNewView` reads log entry 0 and aborts
  (`viewChangeHandler.cc:285`), so the first view change of a new cluster ends
  the processes that take part in it.
- `QuorumLogged` without `CountsHold` fails for N = 5 and `MaxResent = 1`: the
  reply to a PrepareOk is lost, the call repeated and the backup counted twice,
  so two of five replicas commit (`vsReplicator.cc:201`).
- `AckedSurvives` without it fails for `MaxSpurious = 1`: `wait_for` without a predicate
  returns early, the operation is committed without a quorum and the primary
  crashes (`vsReplicator.cc:137`).
- `OnePrimaryPerView` fails for N = 5, one view, `MaxLost = 3` and
  `MaxResent = 2`: the replies to two DoViewChange calls are lost and the retries
  fail, so both callers turn to the next candidate although the first has counted
  them (`viewChangeHandler.cc`, the loop around `getNextPrimaryCandidate`). Both
  candidates find a quorum.
  With `MaxResent = 3`, `QuorumInView` fails as well: two replicas count each
  other's StartViewChange and DoViewChange twice and are a quorum.
- `VcTypeOK` without `resent = 0` fails for N = 5, one view and `MaxResent = 3`:
  the candidate counts seven DoViewChange calls of four replicas.
- `VcTypeOK` without `NoOwnEntry` fails for N = 3, two views, one operation, one
  timeout, one lost call and two spurious wakeups, starting with empty logs: a
  replica can choose replica N, which there is not, for the next primary. ppit
  has checked a prepare when hbt begins to change the view; the replica becomes
  the candidate itself and waits in vain. ppit then logs the operation and
  remembers it for `_replicas[priId]` (`vsReplicator.cc:417`), which inserts the
  replica into its own list of the others. In the next view change
  `getNextPrimaryCandidate` counts one replica too many
  (`viewChangeHandler.cc:400`); when the call to the last one fails it names N,
  and `_replicas[newPriId]` (line 81) inserts that as well, so the loop goes on
  for ever and hbt keeps `_repMutex`. In the model hbt stops there.
- `AckedInQuorum` without `CountsHold` fails in the same two ways as
  `QuorumLogged`.
- `AckedInQuorum` without `DistinctNonces` fails in `Recovery_rejoin` without the
  constraint of that run: a backup crashes while it recovers and is started again
  with the same nonce, within a second or by a clock that was set back. The
  primary's response to the first start, sent again because its reply was lost,
  arrives at the second, and the replica adopts a log that is older than what it
  had acknowledged in between. No view changes.
- The assertion at `recoveryHandler.cc:93`, that `recover` ends NORMAL, fails in
  the model (`RecoveryFails`), so no property states it: after a spurious
  wakeup; with a flag that happens to be true; and when a backup crashes while
  it recovers and is started again, also without either. In that case the
  primary's response to the first start arrives at the second and sets
  `_receivedRespFromPri`, whatever its nonce (`recoveryHandler.cc:129`); two
  responses of the other backup, one of them repeated after a lost reply,
  satisfy `responseDone`, and `recover` finds no primary among those with its
  nonce. With N = 5 two backups suffice, without a repeated call. A view change
  is one more cause, with a single start: an old primary's response of view 0
  and a repeated one of a backup of view 1.
- `AckedInQuorum` fails in `Recovery_rejoin` if the files lack the line
  `Recovering = true`: the flag is then not initialised (`configurator.cc:187`),
  and a replica that comes back NORMAL with an empty log has forgotten what it
  acknowledged.

What the passing properties have to excuse is part of what they show:
- A view change between the role check of a request and its role assertion
  (`kvMemStore.cc:59`) aborts the process (`AssertPrimaryFails`).
- The old primary does not notice that a quorum has left its view, so "a single
  primary" (`README.md:15`) holds per view only.
- `CommitNumsGrow` is about numbers; the operation under one may be replaced. With
  N = 5, two views, two operations, one timeout and one lost call the primary of
  view 0 acknowledges an operation that no backup has seen committed, the others
  drop it and commit another one under its number in view 1, whose StartView was
  lost on the way to the old primary. The StartView of view 2 reaches it,
  `updateNewView` asserts that the adopted entry is committed, not that it is the
  same, and the old primary replaces a committed operation, which its key-value
  map keeps.
- `QuorumLogged`, `AckedSurvives` and `AckedInQuorum` are restricted to
  executions without lost replies and spurious wakeups, `NoAbort` to those
  without lost or repeated calls, and the theorems about the abstract store to
  those without timeouts.
- A restarted primary that the others still follow does not recover: no response
  comes from a primary, and after the timeout its process ends. While it is
  RECOVERING, replica 0 takes itself for the primary.
- hbt begins to recover before main opens the listener (`server.cc:45`, `54-65`):
  a response that comes in between is refused, and nobody asks again.
- prrt ends, instead of going on, when it meets a request while the status is
  not NORMAL (`recoveryHandler.cc:263`), and no request is answered after that.
- A spurious wakeup of `recover` takes view 0 for the view with a majority.
- The three circles of `KnownDeadlocks`: t1 holds `kvMemMutex` and waits for
  `_repMutex` (`kvMemStore.cc:58`), whose holder calls back into the store;
  `processCommit` takes `_repMutex` before it looks at the view
  (`vsReplicator.cc:219`), so two replicas that both take themselves for primary
  commit to each other; two replicas broadcast StartView to each other under
  `_viewChangeMutex` (`viewChangeHandler.cc:312`).
- `TreeClosed` is restricted to the primary of the view a replica started in. A
  remove of `/a` that times out is applied by the backups later and never by the
  primary (`VsReplicator_timeout_divergence`), which goes on with `/a` and accepts
  `/a/b`: the backups hold `/a/b` without `/a`, and one of them may become the
  primary.
- `list` also returns keys of other subtrees that contain the prefix further
  behind (`kvMemStore.cc:88`): `/b/a/b` is listed under `/a`, and keeps `/a` from
  being removed. It is therefore checked to be complete, not exact.
- A line too long for the shell's buffer is executed as far as it fits, and a
  script then loops for ever, as does a script file that is not there
  (`shell.cc:207`). A write may have been applied although the shell ends with
  an error.
- In `ServerDB` a statement that fails leaves its transaction open: every later
  update fails at BEGIN, and reads see what was never committed
  (`serverdb.cc:72`). An UPDATE with a value that spells a column stores what
  the column holds, because the value stands in double quotes; `Durable` then
  says only that the key has a value. A crash before the table is created leaves
  a file that `open` never repairs. `LIKE` takes an underscore for any character
  and ignores case.

## 6. Abstractions and omissions

- Values, keys (in replication) and clients are model values; logging is left
  out. 64-bit numbers do not overflow within any bound of interest.
- The commit number that a prepare carries (`vsReplicator.cc:73`) is never read,
  so it is left out.
- `kvMemMutex` appears in `Locks` only: elsewhere t1 alone takes it for long.
- A request is one step of `KvStoreApi`. In the code a callback may fall between
  the checks of `create` or `set` and the store's own lock, if the replica adopts
  a log at that moment (`kvStoreImpl.cc:79`, `kvMemStore.cc:58`).
- In `ServerDB` a COMMIT that returns an error has not changed the file, and quotes
  in keys and double quotes in values are left out: they end the word they stand
  in.
- `Start` waits until the calls the crashed process was making are over, and one
  replica is down at a time.

**Not modelled.** The encoding of messages on the wire and the RPC library
itself; the length limit of keys in the interface (`xstring<512>`); the
splitting of a configuration line or of a shell line into words; help texts and
`echo`; the statements of `SQLStmt` that `ServerDB` does not use (`reset`,
`bind_text` and the like); the rest of SQLite; build files and test scripts. They
are pure I/O or text, vendored, or without state.

## 7. Plan

1. Done: replication, view change, recovery with crash and restart, the client
   API with library and shell, the locks, the SQLite wrapper, the abstract
   store, and the theorems above.
2. Proofs. Done: replication, elections, recovery, the locks, the wrapper, the
   shell and the client API (section 4).
3. View changes with an operation in flight across two views: the entry that a
   stale prepare adds to `_replicas` (`vsReplicator.cc:417`). The state space is
   beyond the bounds used here.
4. A recovery during a view change.
