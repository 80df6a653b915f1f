# TLA+ verification of melon

melon is a C++ service framework: replicated state machines (`melon/raft`), M:N threads
(`melon/fiber`), RPC (`melon/rpc`), metrics, load balancers, naming services and a base library.
The project models the parts where an interleaving, a crash or a late message can break a promise:
the raft library and, below it, the execution queues, session locks and client calls it is built on.
All models are translated from the source; `PROJECT.json` maps each definition to its lines.

## How the parts interact

```
 NodeImpl (Election) --- votes are counted by --- Ballot
    | leads                                         |
    v                                               | entries are counted by
 Replicator (one per peer) -- commit_at --> BallotBox, ClosureQueue --> FSMCaller
    | reads, waits at                               ^
    v                                               | commit_at of the leader itself
 LogManager -- disk thread --> LogStorage = SegmentLog (files)
```

The disk thread and FSMCaller are consumers of an **ExecutionQueue**. A Replicator is a **Session**:
its callbacks exclude each other by locking it. Every request between nodes is a **Call**, whose
timeout, retries, responses and cancellation exclude each other by locking the session of the call.

## Modules

| Module | Models | State and actions |
|---|---|---|
| `Ballot` | `ballot.cc` | operators: `init`, `grant`, `granted` for a possibly joint configuration |
| `BallotBox` | `ballot_box.cc`, `closure_queue.cc`, the parts of `node.cc` and `fsm_caller.cc` that call them | ballots, closures, log, disk queue, committed batches of one node; one action per critical section, `on_committed` outside the lock is a step of its own |
| `Election` | `node.cc` (pre-vote, vote, step down, transfer, errors), `VoteBallotCtx`, `FollowerLease` | a group of nodes, their meta storage, calls suspended in `last_log_id(true)`, messages that are lost, delayed and reordered; one action per handler, timer or half of a handler that releases the mutex |
| `LogStorage` | results of the operations of `SegmentLogStorage` | operators on first index and terms |
| `LogManager` | `log_manager.cc`, `configuration_manager.cc` | log in memory, disk queue, disk thread with its batches, snapshots, reader, leader that sends entries; crash and restart |
| `StoredLog` | the contract of `storage.h` | abstract log: an entry is added, a prefix or a suffix goes |
| `SegmentLog` | `log.cc` | segment files and memory; one action per system call, crash of the process and loss of power |
| `Replicator` | `replicator.cc`, waiters of `log_manager.cc` | one replicator with its calls, timers and wake-ups, the network and the peer's log; one action per callback |
| `TaskQueue` | the contract of `execution_queue.h` | abstract queue with two priorities |
| `ExecutionQueue` | `execution_queue.cc`, `execution_queue_inl.h` | the list, the versioned reference count and the executors; one action per atomic operation |
| `Session` | `session.cc` | slots with versions, owners, waiters, pending errors; one action per mutex section, butex wait or wake |
| `Call` | `controller.cc`, `channel.cc`, `retry_policy.cc` | one RPC: session, controller, tries, connections, timers; one action per handler, split where others see its effects |

`MC*` modules give the constants their values. An `MC` module of a component with a constant
`Scenarios`, `Starts` or `Modes` lists instances: the initial state picks one, so that one run covers
them all without their product.

Names are those of the source; an operator whose name is that of a mapped one with a suffix
(`granted_to_any`, `LockedForgetful`) is a mutant, a plausible bug kept beside what it changes to show
that a property notices it. No specification uses one.

## Runs

Bounds are in the cfg and MC files. The types of the variables are part of `ElectionInvariant` and
`SessionInvariant`. `CHECK_DEADLOCK FALSE` is set where a bounded instance really
ends; nobody waiting for ever is then stated as a liveness property.

| Run | Shows | Bounds, and why they are enough |
|---|---|---|
| `ballot_box` | what a leader commits is stored by a quorum; the CHECKs of the queues hold; closures run once and with success only for what was applied; committed entries are applied | three peers, under a plain or a joint configuration, two entries, three terms, local snapshots: a node leads, follows and leads again, with closures of the first leadership still queued when it has a snapshot of all its log |
| `election` | one leader per term, saved votes stay | a starting group of three, of which two are a quorum, two terms and two candidates, and one trouble of two: voter c crashes at any time and saves fail in `step_down` and `request_vote`, so that a voter may forget; or candidate a dies between its requests and the save of its own vote, its requests being on their way, and comes back as a voter |
| `election_led` | leases exclude a second leader, the CHECK of `become_leader`, only elected leaders are followed, and the inductive invariant of the proofs | starts with a leader (a calm first election is cut off), then a crash of the leader or a voter, an error or a trigger; a crash of the node that then stands; or a transfer of leadership; up to term 3 |
| `log_manager` | acknowledged entries survive; configurations follow the log; no hole after the snapshot; votes are granted by an id that covers what was acknowledged; entries stay visible until they are flushed; the disk queue leads to the log in memory; no FATAL log | two entries and three terms that overwrite each other, or two terms and two snapshots, with a crash; three entries and two snapshots (one behind, one ahead of the log); or a failing storage and a reader |
| `segment_log` | the files implement `StoredLog` (`FilesAreALog`, a refinement); `init` accepts them; memory agrees; acknowledged entries survive | five entries, segments of two, batches of two: three segments, batches across a boundary; the process dies while syncing by bytes (any batch may be synced or not), power is lost with `raft_sync_segments` and every batch synced, or `reset` without a crash and with `raft_sync` off |
| `replicator` | entries reported for commitment or transfer are stored by the peer; probes are alone; a wait ends truly or by its own timer; the peer gets the whole log and every wait ends | three entries, pipeline of two calls and two entries, up to two failures, snapshots, mode changes or waits, with a peer that lacks entries or holds foreign ones |
| `execution_queue` | one executor at a time; the order of `TaskQueue` (`RunsInOrder`, a refinement); nothing lost; the CHECKs hold; `stop` ends | three threads, four tasks of both priorities, in place, by fibers and by a pthread |
| `session` | one owner; no ABA over two sessions of a slot; no error left over; `join` and lost wake-ups | three threads, one slot used twice, version width 20 with start at 0 or 11, so that the versions of the second session start again at 1 |
| `call` | tries are completed once; no busy connection is pooled; the result is that of the try that ends the RPC; done is last; every RPC with a timeout ends | up to three tries, all three connection types, two failures before or after the request is packed, a cancellation, with and without backup request |
| `ballot_box_stale` | *violation*: see below | as `ballot_box`, with a fourth term and a third queued append: a leadership, a follower period under another leader and the next leadership |
| `election_unsaved_vote` | *violation*: see below | as `election_led`, with two candidates, no crash, and a save that fails in `elect_self` |
| `segment_reset_crash` | *violation*: see below | as `segment_log`, with a process that dies in `reset` |

Sizes: between 89 thousand states (`execution_queue`) and 2.5 million (`log_manager`).

With `raft_sync` off or by bytes, a loss of power takes acknowledged entries with it: that is what those
flags ask for, and no run claims otherwise.

### Fairness

* `BallotBox`: a thread that committed passes the index on; the queue of FSMCaller runs.
* `Replicator`: connections deliver or fail, timers fire and fibers run. Nothing makes the node call
  it, a call fail or a peer change its mode: those are bounded faults, after which it must converge.
* `ExecutionQueue`: threads and executors are scheduled. The executor spins while a counted task is
  not added yet, which needs the fairness of the adding threads on its own.
* `Session`: whoever is awake goes on, and an owner releases what it locked.
* `Call`: handlers run and timers go off; no server has to answer.

Election and the log have no liveness property: randomised timeouts, on which the progress of an
election rests, have no counterpart in the model.

## Proofs

TLAPS checks them for every value of the constants: any number of nodes and any configuration, joint
or not, any number of threads and slots, all bounds and options. Assumptions are the named `ASSUME`s
of the modules.

* `BallotProofs`: a ballot that counted down to zero was granted by a majority
  (`CountMeansMajority`). It follows from what every grant keeps: each counter is the majority of its
  configuration less the number of its peers found so far.
* `ElectionLemmas`: quorums of one (joint) configuration intersect; log ids are ordered; what
  `StepDown`, `ElectSelf`, `BecomeLeader` and the ballots leave as it was.
* `ElectionActions`: each action keeps the types and changes only what it may.
* `ElectionProofs`: `ElectionInvariant` is inductive (`InvariantHolds`), and from it
  `OneLeader`, `OneVote`, `OnlyElectedFollowed`, `SavedVotesStay`, `TypesHold`.

`OneLeaderPerTerm` alone is not inductive. The invariant ties three things together: what a node's
ballot counts is in the history of votes cast; every vote cast is in the voter's meta storage, or the
storage has a later term; and every request, response and suspended call belongs to a candidacy that
history knows, with a context version that tells old from new. A second leader of a term would need a
voter in the intersection of two quorums to have voted twice, which the storage excludes, through
crashes and failed saves. The proofs assume that saving does not fail in `elect_self`
(`"elect_self" \notin MetaFailures`): otherwise the run `election_unsaved_vote` has two leaders of one
term. A candidate that dies between its requests and the save is in the proofs (`elect_self_dies`):
its own vote was never counted, so that it may vote again when it comes back.

* `SessionProofs`: `SessionInvariant` is inductive (`SessionInvariantHolds`), and from it `OneOwner`
  (`LockedByOne`), `NoOrphanedError` (`ErrorsHaveAnOwner`) and `VersionsStayDistinct` (the four states
  of a lock differ, near the overflow too). They assume `NotRaced`: no old identifier is looked up while
  a create starts the versions of its slot again, which it does without the mutex (see below).

`LockedByOne` says nothing about the steps after `unlock_and_destroy`, when a thread still wakes others
and has yet to return the slot. The invariant adds these threads: a slot has one user, owner or
releaser; a locked slot has an owner; what a releaser holds has no versions and is not in the pool;
an unlocked Id has no pending errors, and those of a locked one carry versions of its range, so that
the owner that goes on with one of them still has the session. None of it needs identifiers to be
unique over time: which session an old identifier locks (`NoABA`) and whether `join` waits for the
right one (`JoinedIsDestroyed`) do, and are model-checked only.

Out of the prover's reach and model-checked only: liveness under fairness, the refinements that rest
on recursive definitions over queues and files, and all of the log, replication, execution queues and
calls.

## Where code and documentation disagree

Three have a run that shows the violation:

* `ballot_box_stale`: a candidate asks for votes after its disk queue is empty, but `last_log_id(true)`
  does not wait when the last log is the last snapshot (`log_manager.cc:197`). A closure of an earlier
  leadership still in the queue then runs in the next one, and `commit_at` counts the leader's own vote
  for a new entry that the disk does not hold; one acknowledgement of three peers commits it, against
  `ballot_box.h:62` ("Set logs in [first_log_index, last_log_index] are stable at |peer|").
* `election_unsaved_vote`: a save that fails in `elect_self` makes the candidate forget its vote and
  return "without granting _vote_ctx" (comment at `node.cc:1723`), but the vote of the last leader makes
  it count its own vote all the same (`node.cc:1425`). It leads with its own vote
  recorded nowhere, so that it also grants another candidate of the term, which leads as well.
* `segment_reset_crash`: a process that dies within `reset` after the first removal leaves a closed
  segment after the saved first index, and `init` refuses the directory (`log.cc:978` against the
  comment at 848-851).

Others were met while modelling. The passing runs leave them out by a bound or a premise, and the
model shows each when that is changed as follows:

| Where | What | How to see it |
|---|---|---|
| `node.cc:1919` | the vote timer fires in a group of one while `elect_self` waits for the disk; the CHECK of `become_leader` fails | `Election`, `Conf` of one node: `CandidateBecomesLeader` |
| `log_manager.cc:314` (comment at 391) | a delayed request from before the first index kept is taken for a conflict below the applied index: FATAL | `LogManager`, `Scenarios <- LateRequest`: `NeverAborts` |
| `log_manager.cc:804` (comment at 653) | `_disk_id` names a removed entry of a higher term; entries committed ahead of the disk leave the memory unflushed | `LogManager`, three terms and `commit_ahead`: `UnflushedStaysInMemory` |
| `log_manager.cc:614` (`log_manager.h:89`) | a request whose entries are all there already is answered as stored although their write failed | `LogManager`, `StableIsStored` without the premise `~lm.has_error` |
| `log_manager.cc:777` | a truncation between the two halves of `get_entry` makes a healthy node report corruption | `LogManager`, a reader and two snapshots: `lm.has_error` without a failure |
| `log.cc:766` (`log_manager.h:89`) | a batch that fills a segment is reported with its first part unsynced under the default flags; a failing fsync is ignored | `SegmentLog`, mode with power loss and `sync_segments` FALSE, or `sync_fails`: `AckedSurvives` |
| `log.cc:542` (flag text at 54) | a segment of one entry is closed without fsync | `SegmentLog`, `MaxSegment = 1` with power loss: `AckedSurvives` |
| `replicator.cc:557` | a peer's read-only mode is lifted while the replicator is blocked; the block timer then probes with calls in flight, against the CHECK | `Replicator`, `ProbesAlone` without the premise `~r.lifted` |
| `execution_queue.cc:120` | two threads add the first tasks of a queue in pthread mode and both create the pthread; one pthread clears the `_current_head` that the other has just set, and the task is lost | `ExecutionQueue`, `Scenarios <- MCRace`: `AllExecuted` |
| `session.cc:438` (comment at 428) | a lock that makes the range larger by exactly one gives `locked_ver` the value of the old `contended_ver`: a thread about to wait sleeps although the owner locked without contention, and its unlock wakes nobody | `Session`, `Scenarios <- MCGrows`: `EveryoneWakes` |
| `session.cc:346-356`, `378-389` | a create that starts the versions again at 1 writes `first_ver` before `locked_ver`, without the mutex: an identifier of long ago is taken for one of the range meanwhile | `Session`, `Scenarios <- MCStartsAgain`: `NoABA` |
| `controller.cc:604` (`channel.h:54`) | with `max_retry` 0, or 1 and a failed first try, the timer of the backup request ends the RPC with EBACKUPREQUEST | `Call`, `Scenarios <- MCNoRetry`: `ResultIsOwn` |
| `channel.cc:503-508` (comment at 499) | a call refused with ELIMIT before its timer is set is retried by the default policy, and nothing ends it when the server does not answer; "these error_codes should be excluded from the retry_policy" | `Call`, `Scenarios <- MCTooMuchUserCode`: `EveryCallEnds` |

The properties of `Replicator` therefore carry the premise that no read-only mode was lifted
(`r.lifted`), all but the part of `ReportedIsStored` about votes for commitment and the part of
`WaitsEndRightly` about timers.

## Not modelled

* **Within modelled parts.** Election: configuration changes, witnesses, the leader's lease clock.
  LogManager: metrics. SegmentLog: checksums, `gc_instance`, failing calls other than fsync.
  Replicator: witnesses, a peer that compacts, the snapshot throttle, a timer that cannot be added,
  the follower's append-entries cache. ExecutionQueue: a user's executor, failing allocation, the
  next queue in the slot. Session: lists of identifiers, interrupts, an identifier kept until
  versions wrap around completely. Call: streams, feedback to load balancers, a user's retry policy, a
  timer of the backup request that cannot be added.
  Atomic operations interleave sequentially consistently; weak memory orders are not modelled.
* **Raft.** Membership changes, SnapshotExecutor, snapshot directories, the files of the meta
  storage, timers, CLI. What the modelled parts need of them is in those modules: a joint
  configuration, snapshots that truncate or reset the log, saves that fail, timers that fire late.
* **Fiber.** The scheduler, butex and timer thread: their correctness rests on memory orders and
  machine-dependent code. Their contracts are used by `Session`, `Call` and `Replicator`.
* **Rpc and the rest.** Protocols and formats, load balancers, naming services, metrics, the builtin
  pages and the base library (with third-party code) parse, format, compute statistics or do I/O.

The map therefore covers a small share of the source: about 6,900 lines of some 213,000 (3%), most of
which are protocols, generated tables, the base library and third-party code that hold no state a
model checker could say something about. Of `melon/raft`, whose core it is about, it covers the
election, the log and replication.
