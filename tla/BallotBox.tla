------------------------------ MODULE BallotBox ------------------------------
(***************************************************************************)
(* The commit pipeline of one raft node: melon/raft/ballot_box.cc, the      *)
(* closure queue beside it (closure_queue.cc), and the callers that race on *)
(* them.  Four kinds of thread meet here:                                   *)
(*   - node code that holds NodeImpl::_mutex: become_leader, apply,         *)
(*     step_down, and the follower's handling of AppendEntries;             *)
(*   - the disk thread of the log manager, which runs the stable closures   *)
(*     of the appends in order (LeaderStableClosure, FollowerStableClosure);*)
(*   - the replicators, one per peer, which report acknowledged entries;    *)
(*   - the thread of FSMCaller, which applies what was announced committed. *)
(* BallotBox::_mutex makes each of its operations atomic, but commit_at and *)
(* set_last_committed_index tell the FSMCaller only after they unlocked,    *)
(* and clear_pending_tasks clears the ballots and the closures under two    *)
(* different locks: these windows are steps of their own here.              *)
(***************************************************************************)
EXTENDS Ballot, Sequences

CONSTANTS
    Peers,      \* every peer a configuration may name
    Self,       \* this node
    Confs,      \* the [conf, old_conf] pairs a task may be appended under
    MaxIndex,   \* bound on the length of the log
    MaxTerm,    \* bound on the term
    MaxBatch,   \* bound on the tasks of one NodeImpl::apply
    MaxDisk     \* bound on the appends waiting for the disk thread

ASSUME PeersAssumption == IsFiniteSet(Peers) /\ Self \in Peers
ASSUME ConfsAssumption ==
    Confs \subseteq [conf : (SUBSET Peers) \ {{}}, old_conf : SUBSET Peers]
ASSUME BoundsAssumption == MaxIndex \in Nat /\ MaxTerm \in Nat /\ MaxBatch \in Nat /\ MaxDisk \in Nat

VARIABLES
    pending_index,          \* BallotBox::_pending_index, 0 on a follower
    pending_meta_queue,     \* BallotBox::_pending_meta_queue, a sequence of ballots
    last_committed_index,   \* BallotBox::_last_committed_index
    committing,             \* indexes committed but not yet passed to on_committed
    first_index,            \* ClosureQueue::_first_index
    queue,                  \* ClosureQueue::_queue
    state,                  \* NodeImpl::_state, as far as the pipeline sees it
    term,                   \* NodeImpl::_current_term
    led_term,               \* the last term this node led
    log,                    \* the entries of the log manager, with their ballots' configuration
    announced,              \* the highest index a leader announced as committed to this node
    match,                  \* per replicator, the last index its peer acknowledged
    disk_queue,             \* appends the disk thread has not finished
    disk_commit,            \* index a FollowerStableClosure is about to pass on, 0 if none
    heartbeats,             \* indexes heartbeat handlers are about to pass on
    fsm_queue,              \* COMMITTED tasks in FSMCaller's execution queue
    applying,               \* the call of FSMCaller::do_committed in progress
    last_applied_index,     \* FSMCaller::_last_applied_index
    fsm_error,              \* FSMCaller::_error is set
    executed,               \* history: the last index the state machine executed
    last_snapshot_index,    \* LogManager::_last_snapshot_id.index
    issued,                 \* every closure handed to append_pending_task
    ok,                     \* closures run with status ok, with multiplicity
    failed                  \* closures run with EPERM, with multiplicity

box == <<pending_index, pending_meta_queue, last_committed_index, committing>>
closures == <<first_index, queue>>
node == <<state, term, led_term, log, announced>>
disk == <<disk_queue, disk_commit>>
fsm == <<fsm_queue, applying, last_applied_index, fsm_error, executed, last_snapshot_index>>
outcomes == <<issued, ok, failed>>
vars == <<box, closures, node, match, disk, heartbeats, fsm, outcomes>>

\* A closure is named after the entry it was appended with.
Closure == (1..MaxTerm) \X (1..MaxIndex)

\* No call of do_committed is in progress.
Idle == [index |-> 0, popped |-> <<>>]

IsLeader == state \in {"LEADER", "STEPPING_DOWN"}

\* The closures of |seq| are run: |count| says how often each one was before.
Run(count, seq) ==
    [c \in Closure |-> count[c] + Cardinality({i \in DOMAIN seq : seq[i] = c})]

-----------------------------------------------------------------------------
(* BallotBox                                                               *)

\* BallotBox::commit_at.  Every exit without a new committed index returns
\* before the unlock; the ballots granted on the way stay granted.
commit_at(first_log_index, last_log_index, peer) ==
    IF \/ pending_index = 0
       \/ last_log_index < pending_index
       \/ last_log_index >= pending_index + Len(pending_meta_queue)
    THEN UNCHANGED box
    ELSE LET start_at == IF first_log_index > pending_index
                         THEN first_log_index ELSE pending_index
             ballots == [i \in 1..Len(pending_meta_queue) |->
                            IF pending_index + i - 1 \in start_at..last_log_index
                            THEN Grant(pending_meta_queue[i], peer)
                            ELSE pending_meta_queue[i]]
             won == {k \in start_at..last_log_index :
                        Granted(ballots[k - pending_index + 1])}
         IN \/ /\ won = {}
               /\ pending_meta_queue' = ballots
               /\ UNCHANGED <<pending_index, last_committed_index, committing>>
            \/ \E c \in won :
                  /\ \A k \in won : k <= c
                  /\ pending_meta_queue' =
                        SubSeq(ballots, c - pending_index + 2, Len(ballots))
                  /\ pending_index' = c + 1
                  /\ last_committed_index' = c
                  /\ committing' = committing \cup {c}

\* BallotBox::set_last_committed_index, which refuses once the node leads and
\* otherwise never goes back.
set_last_committed_index(index) ==
    IF \/ pending_index # 0
       \/ pending_meta_queue # <<>>
       \/ index <= last_committed_index
    THEN UNCHANGED box
    ELSE /\ last_committed_index' = index
         /\ committing' = committing \cup {index}
         /\ UNCHANGED <<pending_index, pending_meta_queue>>

\* The call of _waiter->on_committed after the unlock: a COMMITTED task.
on_committed(index) ==
    /\ index \in committing
    /\ committing' = committing \ {index}
    /\ fsm_queue' = Append(fsm_queue, index)
    /\ UNCHANGED <<pending_index, pending_meta_queue, last_committed_index, closures,
                   node, match, disk, heartbeats, applying, last_applied_index, fsm_error, executed,
                   last_snapshot_index, outcomes>>

-----------------------------------------------------------------------------
(* NodeImpl, under its mutex                                               *)

\* BallotBox::append_pending_task for |n| tasks that follow an existing log of
\* length |len|, with the closure-queue append nested in its lock, and
\* LogManager::append_entries with one LeaderStableClosure for all of them.
append_tasks(ballots, pending, len, n, t, c) ==
    /\ pending_meta_queue' = ballots \o [i \in 1..n |-> InitBallot(c.conf, c.old_conf)]
    /\ queue' = pending \o [i \in 1..n |-> <<t, len + i>>]
    /\ issued' = issued \cup {<<t, len + i>> : i \in 1..n}
    /\ log' = log \o [i \in 1..n |-> [term |-> t, conf |-> c]]
    /\ disk_queue' = Append(disk_queue,
            [kind |-> "leader", term |-> t, first |-> len + 1, last |-> len + n, commit |-> 0])

\* elect_self and become_leader.  elect_self waits for the disk thread before it
\* asks for votes, unless nothing follows the last snapshot
\* (LogManager::last_log_id(true)); become_leader resets the pending index and
\* _conf_ctx.flush appends the configuration as the first entry of the term.
become_leader(c) ==
    /\ state = "FOLLOWER"
    /\ term < MaxTerm
    /\ Len(log) < MaxIndex
    /\ (disk_queue = <<>> /\ disk_commit = 0) \/ Len(log) = last_snapshot_index
    /\ state' = "LEADER"
    /\ term' = term + 1
    /\ led_term' = term + 1
    /\ match' = [p \in Peers |-> 0]
    /\ pending_index' = Len(log) + 1
    /\ first_index' = Len(log) + 1
    /\ append_tasks(<<>>, <<>>, Len(log), 1, term + 1, c)
    /\ UNCHANGED <<last_committed_index, committing, announced, disk_commit, heartbeats,
                   fsm, ok, failed>>

\* NodeImpl::apply of |n| accepted tasks, and unsafe_apply_configuration (one
\* task, under the configuration it introduces).
apply(n, c) ==
    /\ state = "LEADER"
    /\ Len(log) + n <= MaxIndex
    /\ Len(disk_queue) < MaxDisk
    /\ append_tasks(pending_meta_queue, queue, Len(log), n, term, c)
    /\ UNCHANGED <<pending_index, last_committed_index, committing, first_index, state, term,
                   led_term, announced, match, disk_commit, heartbeats, fsm, ok, failed>>

\* A step down that forgets the pending index
step_down_keeps_index ==
    /\ state = "LEADER"
    /\ state' = "STEPPING_DOWN"
    /\ pending_meta_queue' = <<>>
    /\ UNCHANGED <<pending_index, last_committed_index, committing, closures, term, led_term,
                   log, announced, match, disk, heartbeats, fsm, outcomes>>

\* step_down of a leader, up to the first half of clear_pending_tasks: the
\* ballots go, the closures are still queued.
step_down ==
    /\ state = "LEADER"
    /\ state' = "STEPPING_DOWN"
    /\ pending_meta_queue' = <<>>
    /\ pending_index' = 0
    /\ UNCHANGED <<last_committed_index, committing, closures, term, led_term, log, announced,
                   match, disk, heartbeats, fsm, outcomes>>

\* ClosureQueue::clear, which fails every closure still queued, and the rest
\* of step_down: it stops the replicators and may move to a higher term.
clear_closures(new_term) ==
    /\ state = "STEPPING_DOWN"
    /\ new_term \in {term, term + 1} /\ new_term <= MaxTerm
    /\ state' = "FOLLOWER"
    /\ term' = new_term
    /\ failed' = Run(failed, queue)
    /\ queue' = <<>>
    /\ first_index' = 0
    /\ UNCHANGED <<box, led_term, log, announced, match, disk, heartbeats, fsm, issued, ok>>

\* handle_append_entries_request with |n| entries after index |keep|: whatever
\* conflicts after it is truncated.  A leader never truncates what a leader
\* announced as committed.  The committed index of the request is capped by the
\* last entry it carries.
follower_append(keep, n, commit) ==
    /\ state = "FOLLOWER"
    /\ term > led_term
    /\ keep >= announced /\ keep >= last_committed_index
    /\ keep + n <= MaxIndex
    /\ commit <= keep + n
    /\ Len(disk_queue) < MaxDisk
    /\ log' = SubSeq(log, 1, keep) \o
                [i \in 1..n |-> [term |-> term, conf |-> [conf |-> {}, old_conf |-> {}]]]
    /\ announced' = IF commit > announced THEN commit ELSE announced
    /\ disk_queue' = Append(disk_queue,
            [kind |-> "follower", term |-> term, first |-> keep + 1, last |-> keep + n,
             commit |-> commit])
    /\ UNCHANGED <<box, closures, state, term, led_term, match, disk_commit, heartbeats, fsm,
                   outcomes>>

\* handle_append_entries_request without entries: the handler unlocks before
\* it passes the committed index on.
heartbeat(commit) ==
    /\ state = "FOLLOWER"
    /\ term > led_term
    /\ commit > announced
    /\ commit <= Len(log)
    /\ announced' = commit
    /\ heartbeats' = heartbeats \cup {commit}
    /\ UNCHANGED <<box, closures, state, term, led_term, log, match, disk, fsm, outcomes>>

heartbeat_commits(commit) ==
    /\ commit \in heartbeats
    /\ heartbeats' = heartbeats \ {commit}
    /\ set_last_committed_index(commit)
    /\ UNCHANGED <<closures, node, match, disk, fsm, outcomes>>

\* A higher term reaches a follower.
new_term ==
    /\ state = "FOLLOWER"
    /\ term < MaxTerm
    /\ term' = term + 1
    /\ UNCHANGED <<box, closures, state, led_term, log, announced, match, disk, heartbeats, fsm,
                   outcomes>>

-----------------------------------------------------------------------------
(* The disk thread, the replicators and FSMCaller                          *)

\* LeaderStableClosure::Run.  It checks neither the term nor the state.
leader_stable ==
    /\ disk_queue # <<>> /\ disk_commit = 0
    /\ Head(disk_queue).kind = "leader"
    /\ commit_at(Head(disk_queue).first, Head(disk_queue).last, Self)
    /\ disk_queue' = Tail(disk_queue)
    /\ UNCHANGED <<closures, node, match, disk_commit, heartbeats, fsm, outcomes>>

\* FollowerStableClosure::run up to the unlock of the node's mutex.
follower_stable ==
    /\ disk_queue # <<>> /\ disk_commit = 0
    /\ Head(disk_queue).kind = "follower"
    /\ disk_commit' = IF Head(disk_queue).term = term THEN Head(disk_queue).commit ELSE 0
    /\ disk_queue' = Tail(disk_queue)
    /\ UNCHANGED <<box, closures, node, match, heartbeats, fsm, outcomes>>

\* The rest of it; the disk thread is busy until then.
follower_stable_commits ==
    /\ disk_commit # 0
    /\ set_last_committed_index(disk_commit)
    /\ disk_commit' = 0
    /\ UNCHANGED <<closures, node, match, disk_queue, heartbeats, fsm, outcomes>>

\* Replicator::_on_rpc_returned with success: every entry up to |last| is
\* stored at |peer|.  step_down clears the ballots before it stops the
\* replicators, so this also happens while stepping down.
acknowledged(peer, first, last) ==
    /\ IsLeader
    /\ peer # Self
    /\ match[peer] < last /\ last <= Len(log)
    /\ first <= match[peer] + 1
    /\ match' = [match EXCEPT ![peer] = last]
    /\ commit_at(first, last, peer)
    /\ UNCHANGED <<closures, node, disk, heartbeats, fsm, outcomes>>

\* Copying instead of popping
pop_closure_until_copies(index) ==
    /\ applying' = [index |-> index, popped |->
            IF index < first_index THEN <<>> ELSE SubSeq(queue, 1, index - first_index + 1)]
    /\ UNCHANGED closures

\* ClosureQueue::pop_closure_until
pop_closure_until(index) ==
    IF queue = <<>> \/ index < first_index
    THEN applying' = [index |-> index, popped |-> <<>>] /\ UNCHANGED closures
    ELSE LET n == index - first_index + 1
         IN /\ n <= Len(queue)
            /\ applying' = [index |-> index, popped |-> SubSeq(queue, 1, n)]
            /\ queue' = SubSeq(queue, n + 1, Len(queue))
            /\ first_index' = index + 1

\* A batch that applies up to its last index instead of its highest
do_committed_last(n) ==
    /\ applying = Idle
    /\ fsm_queue' = SubSeq(fsm_queue, n + 1, Len(fsm_queue))
    /\ IF fsm_error \/ last_applied_index >= fsm_queue[n]
       THEN UNCHANGED <<applying, closures>>
       ELSE pop_closure_until(fsm_queue[n])
    /\ UNCHANGED <<box, node, match, disk, heartbeats, last_applied_index, fsm_error, executed,
                   last_snapshot_index, outcomes>>

\* FSMCaller::run takes a batch of COMMITTED tasks and calls do_committed with
\* the highest index, which returns at once when that much is applied or the
\* state machine has failed.
do_committed(n) ==
    /\ applying = Idle
    /\ fsm_queue' = SubSeq(fsm_queue, n + 1, Len(fsm_queue))
    /\ \E i \in 1..n :
          /\ \A j \in 1..n : fsm_queue[j] <= fsm_queue[i]
          /\ IF fsm_error \/ last_applied_index >= fsm_queue[i]
             THEN UNCHANGED <<applying, closures>>
             ELSE pop_closure_until(fsm_queue[i])
    /\ UNCHANGED <<box, node, match, disk, heartbeats, last_applied_index, fsm_error, executed,
                   last_snapshot_index, outcomes>>

\* The rest of do_committed: the entries are applied in order and the closures
\* popped with them are run.
applied ==
    /\ applying # Idle
    /\ ~fsm_error
    /\ ok' = Run(ok, applying.popped)
    /\ executed' = applying.index
    /\ last_applied_index' = applying.index
    /\ applying' = Idle
    /\ UNCHANGED <<box, closures, node, match, disk, heartbeats, fsm_queue, fsm_error,
                   last_snapshot_index, issued, failed>>

\* The state machine fails at |index|, or the entry cannot be read: the
\* closures before it have run, and set_error calls NodeImpl::on_error.  The
\* closures popped start at |first| (_first_closure_index).
apply_fails(index) ==
    /\ applying # Idle
    /\ ~fsm_error
    /\ index \in last_applied_index + 1..applying.index
    /\ fsm_error' = TRUE
    /\ executed' = index - 1
    /\ LET first == applying.index - Len(applying.popped) + 1
           n == IF index < first THEN 0 ELSE index - first
       IN /\ ok' = Run(ok, SubSeq(applying.popped, 1, n))
          /\ applying' = [applying EXCEPT !.popped = SubSeq(@, n + 1, Len(@))]
    /\ UNCHANGED <<box, closures, node, match, disk, heartbeats, fsm_queue, last_applied_index,
                   last_snapshot_index, issued, failed>>

\* on_error ends with the node stepped down (step_down and clear_closures) and
\* in STATE_ERROR; then the rest of the closures is run with the error, and
\* _last_applied_index moves on all the same.
error_reported ==
    /\ applying # Idle
    /\ fsm_error
    /\ state = "FOLLOWER"
    /\ state' = "ERROR"
    /\ failed' = Run(failed, applying.popped)
    /\ last_applied_index' = applying.index
    /\ applying' = Idle
    /\ UNCHANGED <<box, closures, term, led_term, log, announced, match, disk, heartbeats,
                   fsm_queue, fsm_error, executed, last_snapshot_index, issued, ok>>

\* A snapshot of what is applied was saved (on_snapshot_save_done, set_snapshot).
save_snapshot ==
    /\ applying = Idle
    /\ ~fsm_error
    /\ last_snapshot_index < last_applied_index
    /\ last_snapshot_index' = last_applied_index
    /\ UNCHANGED <<box, closures, node, match, disk, heartbeats, fsm_queue, applying,
                   last_applied_index, fsm_error, executed, outcomes>>

-----------------------------------------------------------------------------
Init ==
    /\ pending_index = 0 /\ pending_meta_queue = <<>>
    /\ last_committed_index = 0 /\ committing = {}
    /\ first_index = 0 /\ queue = <<>>
    /\ state = "FOLLOWER" /\ term = 1 /\ led_term = 0 /\ log = <<>> /\ announced = 0
    /\ match = [p \in Peers |-> 0]
    /\ disk_queue = <<>> /\ disk_commit = 0 /\ heartbeats = {}
    /\ fsm_queue = <<>> /\ applying = Idle /\ last_applied_index = 0
    /\ fsm_error = FALSE /\ executed = 0 /\ last_snapshot_index = 0
    /\ issued = {} /\ ok = [c \in Closure |-> 0] /\ failed = [c \in Closure |-> 0]

Next ==
    \/ \E c \in Confs : become_leader(c)
    \/ \E n \in 1..MaxBatch, c \in Confs : apply(n, c)
    \/ step_down
    \/ \E t \in 1..MaxTerm : clear_closures(t)
    \/ \E keep \in 0..Len(log), n \in 1..MaxBatch, c \in 0..MaxIndex : follower_append(keep, n, c)
    \/ \E c \in 1..MaxIndex : heartbeat(c)
    \/ \E c \in heartbeats : heartbeat_commits(c)
    \/ new_term
    \/ leader_stable
    \/ follower_stable
    \/ follower_stable_commits
    \/ \E p \in Peers, first, last \in 1..MaxIndex : acknowledged(p, first, last)
    \/ \E c \in committing : on_committed(c)
    \/ \E n \in 1..Len(fsm_queue) : do_committed(n)
    \/ applied
    \/ \E i \in 1..MaxIndex : apply_fails(i)
    \/ error_reported
    \/ save_snapshot

\* A thread that was announced an index passes it on, and FSMCaller's
\* execution queue runs what was put in it.
Fairness ==
    /\ WF_vars(\E c \in committing : on_committed(c))
    /\ WF_vars(\E n \in 1..Len(fsm_queue) : do_committed(n))
    /\ WF_vars(applied)

Spec == Init /\ [][Next]_vars /\ Fairness

-----------------------------------------------------------------------------
(* Properties                                                              *)

\* The peers known to store the entry at |k| of the running term: the ones
\* that acknowledged it, and this node once the disk thread wrote it.
Holders(k) ==
    {p \in Peers \ {Self} : match[p] >= k} \cup
    {p \in {Self} : \A i \in DOMAIN disk_queue : k \notin disk_queue[i].first..disk_queue[i].last}

\* What a leader commits in its own term is stored by a quorum of the
\* configuration the entry was appended under, and of the old one while the
\* membership change is joint.  The disk thread's late closures of an earlier
\* leadership must not count (commit_at checks no term, node.cc:1984).
CommittedByQuorum ==
    IsLeader /\ last_committed_index > 0 /\ log[last_committed_index].term = term =>
        LET c == log[last_committed_index].conf
        IN JointQuorum(Holders(last_committed_index), c.conf, c.old_conf)

\* No CHECK of ballot_box.cc or closure_queue.cc fails: a late committed index
\* of the follower days stays below the pending index of the new leader, an
\* index the FSMCaller was told of is never beyond the queued closures, and a
\* node starts to lead with empty queues, past everything committed.
ChecksHold ==
    /\ pending_index # 0 =>
          \A c \in heartbeats \cup {disk_commit} : c < pending_index
    /\ \A c \in committing \cup {fsm_queue[i] : i \in DOMAIN fsm_queue} :
          queue = <<>> \/ c < first_index + Len(queue)
    /\ state = "FOLLOWER" =>
          /\ pending_index = 0 /\ pending_meta_queue = <<>> /\ queue = <<>>
          /\ last_committed_index <= Len(log)

\* The number of places a closure is held in or was run from.
Occurrences(c, seq) == Cardinality({i \in DOMAIN seq : seq[i] = c})

\* Every closure handed to the ballot box is held once, by the closure queue or
\* by the running do_committed, or was run once, with one status: stepping
\* down while entries are being applied neither loses nor repeats one.  Status
\* ok acknowledges the closure's own entry: the state machine has executed that
\* entry, of that term, also when it fails later in the same batch.
ClosuresRunOnce ==
    \A c \in Closure :
        /\ Occurrences(c, queue) + Occurrences(c, applying.popped) + ok[c] + failed[c]
            = IF c \in issued THEN 1 ELSE 0
        /\ ok[c] > 0 => c[2] <= executed /\ log[c[2]].term = c[1]

\* Whatever becomes committed is applied, although on_committed is called
\* outside the lock and in any order, unless the state machine fails.
CommittedIsApplied ==
    \A c \in 1..MaxIndex : last_committed_index >= c ~> executed >= c \/ fsm_error
=============================================================================
