----------------------------- MODULE Replicator -----------------------------
(***************************************************************************)
(* Replicator (replicator.cc): how a leader brings the log of one peer up  *)
(* to its own.  It probes for the last common entry, then keeps up to      *)
(* MaxParallel requests in flight, waits at the LogManager for more        *)
(* entries, blocks after an error, installs a snapshot when the entries    *)
(* are gone, stops sending to a read-only peer, tells a caller that the    *)
(* peer caught up, and sends TimeoutNow when leadership is transferred.    *)
(*                                                                         *)
(* Every callback runs under the session lock of the replicator, hence one *)
(* action each.  Calls, timers, wake-ups and requests of the network are   *)
(* taken in any order; a cancelled request may still reach the peer.       *)
(* The term is fixed: a higher one in an answer ends the replicator.       *)
(***************************************************************************)
EXTENDS Integers, Sequences, FiniteSets, FiniteSetsExt, SequencesExt

CONSTANTS
    Starts,         \* the logs of leader and peer when the replicator starts, and bounds:
                    \* how often what happens to it happens (Budgets)
    ConfIndexes,    \* the configuration entries of the leader's log
    MaxIndex,       \* bound: entries of the leader
    MaxParallel,    \* raft_max_parallel_append_entries_rpc_num
    MaxEntries,     \* raft_max_entries_size
    MaxCatchups,    \* bound: calls of wait_for_caught_up
    Margin          \* max_margin of wait_for_caught_up

\* Calls that fail, snapshots saved, changes of the peer's mode, waits for a caught-up
\* peer, transfers of leadership, calls of stop
Budgets == [failures : Nat, snapshots : Nat, readonly : Nat, catchups : 0 .. MaxCatchups,
            transfers : Nat, stops : Nat]

ASSUME ReplicatorAssumption ==
    /\ {MaxIndex, MaxParallel, MaxEntries} \subseteq Nat \ {0}
    /\ {MaxCatchups, Margin} \subseteq Nat
    /\ \A s \in Starts : /\ {s.log, s.match, s.last} \subseteq Nat /\ s.log <= MaxIndex
                         /\ s.match <= s.log /\ s.match <= s.last
                         /\ s.budget \in Budgets

VARIABLES
    r,          \* the replicator with its calls, timers and wake-ups
    waits,      \* the closures of wait_for_caught_up, with their timers
    log,        \* the leader's log: first and last index, index of the last snapshot
    peer,       \* the peer: entries in common with the leader, last index, read-only
    reported,   \* the entries commit_at was told of for this peer
    began,      \* the leader's last index when the replicator started
    budget      \* what is left of the bounds

vars == <<r, waits, log, peer, reported, began, budget>>

\* A call has an answer, "none" until there is one; its request waits in the network.
Call(id, prev, n) == [id |-> id, prev |-> prev, n |-> n, answer |-> "none", last |-> 0]
Request(id, prev, n) == [id |-> id, prev |-> prev, n |-> n]
Stray == 0      \* the id of a request whose call was cancelled or failed

NoInstall == [included |-> 0, answer |-> "none"]
Waiting == {w \in DOMAIN waits : waits[w].state = "waiting"}

-----------------------------------------------------------------------------
(* Parts of callbacks, as functions of the replicator                      *)

FreshId(s) == Min((1 .. 2 * MaxParallel + 2) \ ({c.id : c \in s.calls} \cup
                                                 {q.id : q \in s.requests}))
MinFlyingIndex(s) == s.next_index - s.flying_size

\* StartCancel of all calls in flight: their returns are ignored, their requests
\* may be anywhere.
CancelRpcs(s) ==
    [s EXCEPT !.in_fly = << >>, !.calls = {},
              !.requests = {Request(Stray, q.prev, q.n) : q \in @}]

ResetNextIndexKeepsSize(s) ==
    [CancelRpcs(s) EXCEPT !.next_index = MinFlyingIndex(s), !.waiter_canceled = TRUE,
                          !.waiters = @ \ {s.wait_id}, !.wait_id = 0]
ResetNextIndex(s) ==
    [CancelRpcs(s) EXCEPT !.next_index = MinFlyingIndex(s), !.flying_size = 0,
                          !.waiter_canceled = TRUE,
                          !.waiters = @ \ {s.wait_id}, !.wait_id = 0]

\* _fill_common_fields: the entry before next_index is compacted.
Compacted(s) == s.next_index - 1 # 0 /\ s.next_index - 1 < log.first - 1

\* _block with its timer
Block(s) == IF s.st = "BLOCKING" THEN s
            ELSE [s EXCEPT !.st = "BLOCKING", !.timers = @ + 1]

\* _install_snapshot, one at a time
InstallSnapshot(s) ==
    IF s.reader THEN s
    ELSE [s EXCEPT !.st = "INSTALLING_SNAPSHOT", !.reader = TRUE,
                   !.install = [included |-> log.snapshot, answer |-> "none"]]

\* A call of n entries is in flight, and its request in the network.
Send(s, n) ==
    LET id == FreshId(s)
    IN  [s EXCEPT !.st = "APPENDING_ENTRIES",
                  !.in_fly = Append(@, [index |-> s.next_index, size |-> n, id |-> id]),
                  !.calls = @ \cup {Call(id, s.next_index - 1, n)},
                  !.requests = @ \cup {Request(id, s.next_index - 1, n)},
                  !.next_index = @ + n,
                  !.flying_size = @ + n]

\* _send_empty_entries(false), which CHECKs that nothing is in flight
SendEmptyEntries(s) ==
    IF Compacted(s) THEN InstallSnapshot(s)
    ELSE IF s.in_fly # << >> \/ s.flying_size # 0 THEN [s EXCEPT !.aborted = TRUE]
    ELSE Send(s, 0)

\* _wait_more_entries.  LogManager::wait starts the callback at once when the last
\* index is no longer the expected one.
WaitMoreEntries(s) ==
    LET id == Min((1 .. Cardinality(s.waiters) + 1) \ s.waiters)
        t == IF s.wait_id # 0 \/ s.flying_size >= MaxEntries \/ Len(s.in_fly) >= MaxParallel
             THEN s
             ELSE IF s.next_index - 1 # log.last
             THEN [s EXCEPT !.woken = @ + 1, !.waiter_canceled = FALSE]
             ELSE [s EXCEPT !.waiters = @ \cup {id}, !.wait_id = id, !.waiter_canceled = FALSE]
    IN  IF s.flying_size = 0 THEN [t EXCEPT !.st = "IDLE"] ELSE t

\* _prepare_entry: past the read-only index only configurations are sent.
MayPrepare(s, i) == /\ i \in log.first .. log.last
                    /\ s.readonly_index = 0 \/ i < s.readonly_index \/ i \in ConfIndexes
Sendable(s) == Max({n \in 0 .. MaxEntries - s.flying_size :
                        \A i \in s.next_index .. s.next_index + n - 1 : MayPrepare(s, i)})

\* _send_entries
SendEntries(s) ==
    IF s.flying_size >= MaxEntries \/ Len(s.in_fly) >= MaxParallel \/ s.st = "BLOCKING" THEN s
    ELSE IF Compacted(s) \/ s.next_index < log.first THEN InstallSnapshot(ResetNextIndex(s))
    ELSE IF Sendable(s) > 0
    THEN LET sent == Send(s, Sendable(s))
         IN  WaitMoreEntries([sent EXCEPT !.readonly_index =
                                 IF @ = 0 THEN 0 ELSE Max({@, sent.next_index})])
    ELSE IF s.next_index <= log.last
    THEN [s EXCEPT !.st = IF s.flying_size = 0 THEN "IDLE" ELSE @]
    ELSE WaitMoreEntries(s)

\* _is_catchup
IsCatchup(s) == s.next_index >= log.first /\ MinFlyingIndex(s) - 1 + Margin >= log.last

\* The condition for the TimeoutNow that transfer_leadership asked for
TimeoutNowDue(s) == s.timeout_now_index > 0 /\ s.timeout_now_index < MinFlyingIndex(s)

\* _send_timeout_now: the call is in flight, for the index that was asked for.
SendTimeoutNow(s, index) == [s EXCEPT !.timeout_now_index = 0, !.timeout_now = index]

\* What follows a success, before the next entries are sent
TimeoutNowSent(s) ==
    IF TimeoutNowDue(s) THEN SendTimeoutNow(s, s.timeout_now_index) ELSE s

-----------------------------------------------------------------------------
(* The closure of wait_for_caught_up: _notify_on_caught_up                 *)

\* With no error.  A timer that runs already is left to run the closure, so that it
\* cannot meet the next one.
NotifyIgnoresTimer(s) ==
    IF ~IsCatchup(s) THEN waits
    ELSE [w \in DOMAIN waits |->
            IF w \notin Waiting \/ waits[w].error_was_set THEN waits[w]
            ELSE [state |-> "run", status |-> "ok", error_was_set |-> TRUE,
                  timer |-> waits[w].timer]]
NotifyCaughtUp(s) ==
    IF ~IsCatchup(s) THEN waits
    ELSE [w \in DOMAIN waits |->
            IF w \notin Waiting \/ waits[w].error_was_set THEN waits[w]
            ELSE IF waits[w].timer = "running"
            THEN [waits[w] EXCEPT !.error_was_set = TRUE, !.status = "ok"]
            ELSE [state |-> "run", status |-> "ok", error_was_set |-> TRUE, timer |-> "off"]]

\* With ETIMEDOUT or EPERM
NotifyError(status) ==
    [w \in DOMAIN waits |->
        IF w \notin Waiting THEN waits[w]
        ELSE [waits[w] EXCEPT !.state = "run",
                              !.status = IF waits[w].error_was_set THEN @ ELSE status]]

\* With ESTOP: the replicator is about to be destroyed, and a closure whose peer has not
\* caught up goes with it.
NotifyStop(s) ==
    IF ~IsCatchup(s) THEN waits
    ELSE [w \in DOMAIN waits |->
            IF w \notin Waiting \/ waits[w].error_was_set THEN waits[w]
            ELSE [waits[w] EXCEPT !.state = "run", !.status = "stopped", !.error_was_set = TRUE]]

-----------------------------------------------------------------------------
\* Nothing in flight, nothing known of the peer
Fresh(next) ==
    [st |-> "IDLE", next_index |-> next, flying_size |-> 0, in_fly |-> << >>,
     calls |-> {}, requests |-> {}, waiters |-> {}, wait_id |-> 0,
     waiter_canceled |-> FALSE, woken |-> 0, timers |-> 0, expired |-> 0,
     reader |-> FALSE, install |-> NoInstall, readonly_index |-> 0, changes |-> {},
     has_succeeded |-> FALSE, timeout_now_index |-> 0, timeout_now |-> 0,
     stopping |-> FALSE, leaving |-> FALSE, aborted |-> FALSE, lifted |-> FALSE]
Destroyed == [Fresh(1) EXCEPT !.st = "DESTROYED"]
Alive == r.st # "DESTROYED" /\ ~r.aborted

\* start: the peer may hold entries of a deposed leader after the common ones.
Init ==
    /\ \E s \in Starts :
          /\ log = [first |-> 1, last |-> s.log, snapshot |-> 0]
          /\ peer = [match |-> s.match, last |-> s.last, readonly |-> FALSE]
          /\ began = s.log /\ budget = s.budget
    /\ r = SendEmptyEntries(Fresh(log.last + 1))
    /\ waits = [w \in 1 .. MaxCatchups |->
                    [state |-> "none", status |-> "none", error_was_set |-> FALSE,
                     timer |-> "off"]]
    /\ reported = {}

-----------------------------------------------------------------------------
(* The peer and the network                                                *)

\* NodeImpl::handle_append_entries_request at the peer
handle_append_entries_request(q) ==
    LET busy == r.install.answer = "loading" /\ q.n > 0
        matches == q.prev <= peer.match
        grows == ~busy /\ matches /\ q.prev + q.n > peer.match
        new == IF grows THEN [peer EXCEPT !.match = q.prev + q.n, !.last = q.prev + q.n]
               ELSE peer
    IN  /\ peer' = new
        /\ r' = [r EXCEPT
                !.requests = @ \ {q},
                !.calls = {IF c.id # q.id THEN c
                           ELSE [c EXCEPT !.last = new.last, !.answer =
                                    IF busy THEN "failed" ELSE IF matches THEN "ok"
                                    ELSE "mismatch"] : c \in @}]
        /\ UNCHANGED <<waits, log, reported, budget>>

\* The connection breaks: the call fails, its request is lost or still on its way.
rpc_fails(c) ==
    /\ c.answer = "none" /\ budget.failures > 0
    /\ \E late \in BOOLEAN :
          r' = [r EXCEPT
                !.calls = (@ \ {c}) \cup {[c EXCEPT !.answer = "failed"]},
                !.requests = {q \in @ : q.id # c.id} \cup
                             (IF late THEN {Request(Stray, c.prev, c.n)} ELSE {})]
    /\ budget' = [budget EXCEPT !.failures = @ - 1]
    /\ UNCHANGED <<waits, log, peer, reported>>

\* InstallSnapshot at the peer: loading, then a log that starts after the snapshot.
handle_install_snapshot ==
    /\ r.reader /\ r.install.answer = "none"
    /\ r' = [r EXCEPT !.install.answer = "loading"]
    /\ UNCHANGED <<waits, log, peer, reported, budget>>

install_snapshot_done ==
    /\ r.install.answer = "loading"
    /\ r' = [r EXCEPT !.install.answer = "ok"]
    /\ peer' = IF r.install.included <= peer.match THEN peer
               ELSE [peer EXCEPT !.match = r.install.included, !.last = r.install.included]
    /\ UNCHANGED <<waits, log, reported, budget>>

install_snapshot_fails ==
    /\ r.reader /\ r.install.answer \in {"none", "loading"} /\ budget.failures > 0
    /\ r' = [r EXCEPT !.install.answer = "failed"]
    /\ budget' = [budget EXCEPT !.failures = @ - 1]
    /\ UNCHANGED <<waits, log, peer, reported>>

\* The peer enters or leaves the read-only mode.
peer_readonly_changes ==
    /\ budget.readonly > 0
    /\ peer' = [peer EXCEPT !.readonly = ~@]
    /\ budget' = [budget EXCEPT !.readonly = @ - 1]
    /\ UNCHANGED <<r, waits, log, reported>>

-----------------------------------------------------------------------------
(* _on_rpc_returned                                                        *)

\* The call is one of those in flight, found before a later one.
ValidRpc(c) == \E k \in DOMAIN r.in_fly : /\ r.in_fly[k].id = c.id
                                          /\ r.in_fly[k].index <= c.prev + 1
Returned(c) == [r EXCEPT !.calls = @ \ {c}]

\* The calls up to one that succeeded are no longer in flight.
PopFlying(s, first) ==
    LET popped == SelectSeq(s.in_fly, LAMBDA f : f.index <= first)
    IN  [s EXCEPT !.in_fly = SelectSeq(@, LAMBDA f : f.index > first),
                  !.flying_size = @ - FoldLeft(LAMBDA sum, f : sum + f.size, 0, popped)]

rpc_ignored(c) == ~ValidRpc(c) /\ r' = Returned(c) /\ UNCHANGED <<waits, reported>>

rpc_failed(c) ==
    /\ ValidRpc(c) /\ c.answer = "failed"
    /\ r' = Block(ResetNextIndex(Returned(c)))
    /\ UNCHANGED <<waits, reported>>

rpc_mismatch(c) ==
    /\ ValidRpc(c) /\ c.answer = "mismatch"
    /\ \E s \in {ResetNextIndex(Returned(c))} :
          r' = SendEmptyEntries([s EXCEPT !.next_index =
                    IF c.last + 1 < @ THEN c.last + 1 ELSE Max({1, @ - 1})])
    /\ UNCHANGED <<waits, reported>>

rpc_success_from_first(c) ==
    /\ ValidRpc(c) /\ c.answer = "ok"
    /\ \E s \in {[PopFlying(Returned(c), c.prev + 1) EXCEPT !.has_succeeded = TRUE]} :
          waits' = NotifyCaughtUp(s) /\ \E t \in {TimeoutNowSent(s)} : r' = SendEntries(t)
    /\ reported' = IF c.n > 0 THEN reported \cup (c.prev + 1 .. c.prev + c.n) ELSE reported
rpc_success_to_next(c) ==
    /\ ValidRpc(c) /\ c.answer = "ok"
    /\ \E s \in {[PopFlying(Returned(c), c.prev + 1) EXCEPT !.has_succeeded = TRUE]} :
          waits' = NotifyCaughtUp(s) /\ \E t \in {TimeoutNowSent(s)} : r' = SendEntries(t)
    /\ reported' = IF c.n > 0 THEN reported \cup (MinFlyingIndex(r) .. r.next_index - 1)
                   ELSE reported
rpc_success(c) ==
    /\ ValidRpc(c) /\ c.answer = "ok"
    /\ \E s \in {[PopFlying(Returned(c), c.prev + 1) EXCEPT !.has_succeeded = TRUE]} :
          waits' = NotifyCaughtUp(s) /\ \E t \in {TimeoutNowSent(s)} : r' = SendEntries(t)
    /\ reported' = IF c.n > 0 THEN reported \cup (MinFlyingIndex(r) .. c.prev + c.n)
                   ELSE reported

on_rpc_returned(c) ==
    /\ c.answer # "none"
    /\ rpc_ignored(c) \/ rpc_failed(c) \/ rpc_mismatch(c) \/ rpc_success(c)
    /\ UNCHANGED <<log, peer, budget>>

-----------------------------------------------------------------------------
(* The other callbacks                                                     *)

\* _continue_sending(0): a waiter was woken, perhaps one that was cancelled since.
continue_sending ==
    /\ r.woken > 0
    /\ IF r.waiter_canceled THEN r' = [r EXCEPT !.woken = @ - 1]
       ELSE \E s \in {[r EXCEPT !.woken = @ - 1, !.wait_id = 0]} : r' = SendEntries(s)
    /\ UNCHANGED <<waits, log, peer, reported, budget>>

\* _on_block_timedout_in_new_thread, which unlocks before it goes on sending
block_timedout ==
    /\ r.timers > 0
    /\ r' = [r EXCEPT !.timers = @ - 1, !.expired = @ + 1, !.st = "IDLE"]
    /\ UNCHANGED <<waits, log, peer, reported, budget>>

\* _continue_sending(ETIMEDOUT)
continue_after_block ==
    /\ r.expired > 0
    /\ \E s \in {[r EXCEPT !.expired = @ - 1]} :
          r' = IF r.wait_id # 0 THEN s ELSE SendEmptyEntries(s)
    /\ UNCHANGED <<waits, log, peer, reported, budget>>

on_install_snapshot_returned ==
    /\ r.install.answer \in {"ok", "failed"}
    /\ \E s \in {[r EXCEPT !.reader = FALSE, !.install = NoInstall]} :
          IF r.install.answer = "failed"
          THEN r' = Block(s) /\ UNCHANGED waits
          ELSE \E t \in {[s EXCEPT !.next_index = r.install.included + 1,
                                   !.has_succeeded = TRUE]} :
                 waits' = NotifyCaughtUp(t) /\ \E u \in {TimeoutNowSent(t)} : r' = SendEntries(u)
    /\ UNCHANGED <<log, peer, reported, budget>>

\* _on_heartbeat_returned: the change is made later, through the node.
on_heartbeat_returned ==
    /\ peer.readonly # (r.readonly_index # 0)
    /\ r' = [r EXCEPT !.changes = @ \cup {peer.readonly}]
    /\ UNCHANGED <<waits, log, peer, reported, budget>>

change_readonly_config(readonly) ==
    /\ \E s \in {[r EXCEPT !.changes = @ \ {readonly}]} :
          r' = IF readonly = (r.readonly_index # 0) THEN s
               ELSE IF readonly THEN [s EXCEPT !.readonly_index = log.last + 1]
               ELSE WaitMoreEntries([s EXCEPT !.readonly_index = 0, !.lifted = TRUE])
    /\ UNCHANGED <<waits, log, peer, reported, budget>>

-----------------------------------------------------------------------------
(* The node                                                                *)

\* LogManager appends an entry and wakes all waiters.
apply ==
    /\ log.last < MaxIndex
    /\ log' = [log EXCEPT !.last = @ + 1]
    /\ r' = [r EXCEPT !.woken = @ + Cardinality(r.waiters), !.waiters = {}]
    /\ UNCHANGED <<waits, peer, reported, budget>>

\* A snapshot compacts the log up to the snapshot before it.
save_snapshot(index) ==
    /\ budget.snapshots > 0 /\ index > log.snapshot
    /\ log' = [log EXCEPT !.snapshot = index, !.first = log.snapshot + 1]
    /\ budget' = [budget EXCEPT !.snapshots = @ - 1]
    /\ UNCHANGED <<r, waits, peer, reported>>

\* wait_for_caught_up, called again only after the previous call
wait_for_caught_up(w) ==
    /\ ~r.stopping /\ ~r.leaving /\ budget.catchups = w
    /\ budget' = [budget EXCEPT !.catchups = @ - 1]
    /\ waits' = [waits EXCEPT ![w] =
                    IF Waiting # {} THEN [@ EXCEPT !.state = "run", !.status = "duplicated"]
                    ELSE IF r.has_succeeded /\ IsCatchup(r)
                    THEN [@ EXCEPT !.state = "run", !.status = "ok"]
                    ELSE [@ EXCEPT !.state = "waiting", !.timer = "armed"]]
    /\ UNCHANGED <<r, log, peer, reported>>

catch_up_timer_runs(w) ==
    /\ waits[w].timer = "armed"
    /\ waits' = [waits EXCEPT ![w].timer = "running"]
    /\ UNCHANGED <<r, log, peer, reported, budget>>

\* _on_catch_up_timedout: whichever closure there is now
on_catch_up_timedout(w) ==
    /\ waits[w].timer = "running"
    /\ waits' = [NotifyError("timedout") EXCEPT ![w].timer = "off"]
    /\ UNCHANGED <<r, log, peer, reported, budget>>

\* transfer_leadership to the last entry, and stop_transfer_leadership
transfer_leadership ==
    /\ budget.transfers > 0 /\ ~r.stopping /\ ~r.leaving
    /\ r' = IF r.has_succeeded /\ MinFlyingIndex(r) > log.last
            THEN SendTimeoutNow(r, log.last)
            ELSE [r EXCEPT !.timeout_now_index = log.last]
    /\ budget' = [budget EXCEPT !.transfers = @ - 1]
    /\ UNCHANGED <<waits, log, peer, reported>>

stop_transfer_leadership ==
    /\ r.timeout_now_index # 0
    /\ r' = [r EXCEPT !.timeout_now_index = 0]
    /\ UNCHANGED <<waits, log, peer, reported, budget>>

\* stop runs the closure (EPERM); the error that destroys the replicator comes later.
stop ==
    /\ budget.stops > 0 /\ ~r.stopping /\ ~r.leaving
    /\ r' = [r EXCEPT !.stopping = TRUE]
    /\ waits' = NotifyError("stopped")
    /\ budget' = [budget EXCEPT !.stops = @ - 1]
    /\ UNCHANGED <<log, peer, reported>>

on_error ==
    /\ r.stopping
    /\ r' = Destroyed
    /\ waits' = NotifyStop(r)
    /\ UNCHANGED <<log, peer, reported, budget>>

\* A leader that steps down wakes a candidate up and keeps its replicator until the
\* TimeoutNow returns.  find_the_next_candidate takes a peer of the configuration; the
\* node waits only for peers that are not in it yet.
send_timeout_now_and_stop ==
    /\ budget.stops > 0 /\ ~r.stopping /\ ~r.leaving /\ Waiting = {}
    /\ r' = [r EXCEPT !.leaving = TRUE]
    /\ budget' = [budget EXCEPT !.stops = @ - 1]
    /\ UNCHANGED <<waits, log, peer, reported>>

on_timeout_now_returned ==
    /\ r.leaving
    /\ r' = Destroyed
    /\ waits' = NotifyStop(r)
    /\ UNCHANGED <<log, peer, reported, budget>>

\* An answer with a higher term
higher_term ==
    /\ budget.stops > 0
    /\ r' = Destroyed
    /\ waits' = NotifyError("stopped")
    /\ budget' = [budget EXCEPT !.stops = @ - 1]
    /\ UNCHANGED <<log, peer, reported>>

Fault == \/ \E c \in r.calls : rpc_fails(c)
         \/ install_snapshot_fails \/ peer_readonly_changes
Progress == \/ \E q \in r.requests : handle_append_entries_request(q)
            \/ handle_install_snapshot \/ install_snapshot_done
            \/ \E c \in r.calls : on_rpc_returned(c)
            \/ continue_sending \/ block_timedout \/ continue_after_block
            \/ on_install_snapshot_returned \/ on_heartbeat_returned
            \/ \E v \in r.changes : change_readonly_config(v)
            \/ \E w \in DOMAIN waits : catch_up_timer_runs(w) \/ on_catch_up_timedout(w)
            \/ on_error \/ on_timeout_now_returned
Node == \/ apply \/ (\E i \in 1 .. log.last : save_snapshot(i))
        \/ \E w \in DOMAIN waits : wait_for_caught_up(w)
        \/ transfer_leadership \/ stop_transfer_leadership \/ stop
        \/ send_timeout_now_and_stop \/ higher_term
Next == Alive /\ UNCHANGED began /\ (Fault \/ Progress \/ Node)

\* Connections deliver or fail, timers fire and fibers run: as long as one of them can
\* go on, one does.  Nothing makes the node call, calls fail or the peer change its mode.
Fairness == WF_vars(Alive /\ UNCHANGED began /\ Progress)
Spec == Init /\ [][Next]_vars /\ Fairness

-----------------------------------------------------------------------------
(* Properties                                                              *)

\* The CHECKs of _send_empty_entries hold: a block timer that expires never probes while
\* calls are in flight, as long as no read-only mode was lifted.
ProbesAlone == ~r.lifted => ~r.aborted

\* Votes for commitment (commit_at) are cast only for entries the peer stores, and
\* TimeoutNow is sent only to a peer that stores the log up to the index asked for, as
\* long as no read-only mode was lifted.
ReportedIsStored ==
    /\ \A i \in reported : i <= peer.match
    /\ ~r.lifted => r.timeout_now <= peer.match

\* A closure of wait_for_caught_up that says ok is right when it is run (as long as no
\* read-only mode was lifted), and one that times out does so by its own timer, never by
\* that of an earlier call.
WaitsEndRightly ==
    [][\A w \in DOMAIN waits :
         waits'[w].status # waits[w].status =>
            /\ waits'[w].status = "ok" /\ ~r'.lifted => peer.match + Margin >= log.last
            /\ waits'[w].status = "timedout" => waits[w].timer = "running"]_vars

\* The peer has the whole log, and every entry appended since the start was reported
\* for it unless a snapshot covers it.
CaughtUp == /\ peer.match = log.last
            /\ \A i \in began + 1 .. log.last : i <= log.snapshot \/ i \in reported

\* When failures stop, every wait_for_caught_up is answered and the peer ends up with
\* the whole log, unless the replicator was stopped or the peer is read-only, or was
\* read-only before.
CatchesUp ==
    <>[](Waiting = {} /\ (~Alive \/ r.readonly_index # 0 \/ r.lifted \/ CaughtUp))
=============================================================================
