----------------------------- MODULE LogManager -----------------------------
(***************************************************************************)
(* The log manager of one node (log_manager.cc) with the configuration     *)
(* manager it keeps (configuration_manager.cc).                            *)
(*                                                                         *)
(* An entry is in memory from the moment it is appended.  The disk thread, *)
(* an execution queue, writes it later, and the threads that call the log  *)
(* manager see the log change before the disk does.  Four threads meet:    *)
(* the node's (appends, under its mutex), the disk thread, the FSM thread  *)
(* (applied entries, installed snapshots) and the one that saves snapshots.*)
(* A step of a thread is what it does between two points where it holds    *)
(* neither the mutex of the log manager nor the disk.                      *)
(*                                                                         *)
(* The other nodes are the log of the current leader and how much of it is *)
(* committed.  A new leader has every committed entry and, as Raft's log   *)
(* matching says, no entry that this node has after another prefix.        *)
(***************************************************************************)
EXTENDS LogStorage, FiniteSets, FiniteSetsExt, SequencesExt

CONSTANTS
    MaxIndex,       \* bound: entries of a log
    MaxTerm,        \* bound: terms
    IsConfiguration,\* which entries are of type ENTRY_TYPE_CONFIGURATION: pairs
                    \* <<index, term>>
    Scenarios       \* what a behaviour may contain, of which Init takes one: its
                    \* entries, its terms, the tasks that pile up before the disk
                    \* thread, how many crashes, failing operations of the storage,
                    \* snapshots, calls of last_log_id(true) and of get_entry;
                    \* commit_ahead: can the node learn that an entry is committed,
                    \* or that a snapshot has it, before its disk thread wrote it?
                    \* old_requests: can a delayed request bring entries from
                    \* before the first entry the node still has?

ScenarioType ==
    [index : 0 .. MaxIndex, term : 0 .. MaxTerm, queue : Nat, crashes : Nat,
     failures : Nat, snapshots : Nat, queries : Nat, reads : Nat,
     commit_ahead : BOOLEAN, old_requests : BOOLEAN]

ASSUME LogManagerAssumption ==
    /\ MaxIndex \in Nat /\ MaxTerm \in Nat
    /\ IsConfiguration \subseteq Nat \X Nat
    /\ Scenarios \subseteq ScenarioType

VARIABLES
    lm,             \* the LogManager object
    storage,        \* the log on the disk
    snapshot,       \* id of the newest snapshot on the disk, with its configuration
    disk,           \* the disk thread inside disk_thread
    clearing,       \* the FSM thread inside set_applied_id: the id it clears up to
    reading,        \* a replicator inside get_entry: the index it reads from the disk
    status,         \* "up", or "aborted" by a FATAL log
    leader,         \* the current leader: its term, the terms of its log and who it
                    \* is ("self", "other", or "none" after a crash of this node)
    committed,      \* how many entries of that log are committed
    log,            \* the terms of the log this node was asked to keep, from index 1
    acked,          \* ids of the entries whose StableClosure ran without an error
    answer,         \* what the last call of last_log_id(true) returned
    budget          \* the scenario, less what happened of it so far

environment == <<leader, committed>>
history == <<log, acked, answer>>
vars == <<lm, storage, snapshot, disk, clearing, reading, status, environment, history, budget>>

-----------------------------------------------------------------------------
(* The object                                                              *)

Task(type, index, term, entries, acks) ==
    [type |-> type, index |-> index, term |-> term, entries |-> entries, acks |-> acks]

Push(l, task) == [l EXCEPT !.queue = Append(@, task)]

\* LogManager::init on what the storage loaded.  Segment::load hands the
\* configurations it meets to the configuration manager.
ConfigurationsOf(st) ==
    SelectSeq([i \in 1 .. Len(st.terms) |-> Id(st.first + i - 1, st.terms[i])],
              LAMBDA e : <<e.index, e.term>> \in IsConfiguration)
Opened(st) ==
    [first_log_index |-> st.first, last_log_index |-> StorageLast(st),
     logs_in_memory |-> << >>,
     configurations |-> ConfigurationsOf(st), snapshot_conf |-> NoId,
     disk_id |-> Id(StorageLast(st), StorageTerm(st, StorageLast(st))),
     applied_id |-> NoId, last_snapshot_id |-> NoId, virtual_first_log_id |-> NoId,
     has_error |-> FALSE, queue |-> << >>]

\* get_entry_from_memory: the entries in memory have consecutive indexes.
InMemory(l, index) ==
    /\ l.logs_in_memory # << >>
    /\ index \in l.logs_in_memory[1].index .. Last(l.logs_in_memory).index
MemoryTerm(l, index) == l.logs_in_memory[index - l.logs_in_memory[1].index + 1].term

\* unsafe_get_term and get_term
GetTerm(l, st, index) ==
    CASE index = 0 -> 0
      [] index # 0 /\ index = l.virtual_first_log_id.index -> l.virtual_first_log_id.term
      [] index # 0 /\ index # l.virtual_first_log_id.index
            /\ index = l.last_snapshot_id.index -> l.last_snapshot_id.term
      [] OTHER -> IF index \notin l.first_log_index .. l.last_log_index THEN 0
                  ELSE IF InMemory(l, index) THEN MemoryTerm(l, index)
                  ELSE StorageTerm(st, index)

From(entries, index) == SelectSeq(entries, LAMBDA e : e.index >= index)
UpTo(entries, index) == SelectSeq(entries, LAMBDA e : e.index <= index)

TruncatePrefixKeepsLast(l, first_index_kept) ==
    Push([l EXCEPT !.logs_in_memory = From(@, first_index_kept),
                   !.first_log_index = first_index_kept,
                   !.configurations = From(@, first_index_kept)],
         Task("truncate_prefix", first_index_kept, 0, << >>, {}))

\* truncate_prefix
TruncatePrefix(l, first_index_kept) ==
    Push([l EXCEPT !.logs_in_memory = From(@, first_index_kept),
                   !.first_log_index = first_index_kept,
                   !.last_log_index = IF first_index_kept > @ THEN first_index_kept - 1 ELSE @,
                   !.configurations = From(@, first_index_kept)],
         Task("truncate_prefix", first_index_kept, 0, << >>, {}))

ResetKeepsStorage(l, next_log_index) ==
    [l EXCEPT !.logs_in_memory = << >>,
              !.first_log_index = next_log_index,
              !.last_log_index = next_log_index - 1,
              !.configurations = << >>]

\* reset
Reset(l, next_log_index) ==
    Push([l EXCEPT !.logs_in_memory = << >>,
                   !.first_log_index = next_log_index,
                   !.last_log_index = next_log_index - 1,
                   !.configurations = UpTo(From(@, next_log_index), next_log_index - 1)],
         Task("reset", next_log_index, 0, << >>, {}))

TruncateSuffixKeepsConfigurations(l, st, last_index_kept) ==
    LET kept == [l EXCEPT !.logs_in_memory = UpTo(@, last_index_kept),
                          !.last_log_index = last_index_kept]
    IN  Push(kept, Task("truncate_suffix", last_index_kept, GetTerm(kept, st, last_index_kept),
                        << >>, {}))

\* unsafe_truncate_suffix, of an index that is not below the applied one
TruncateSuffix(l, st, last_index_kept) ==
    LET kept == [l EXCEPT !.logs_in_memory = UpTo(@, last_index_kept),
                          !.last_log_index = last_index_kept,
                          !.configurations = UpTo(@, last_index_kept)]
    IN  Push(kept, Task("truncate_suffix", last_index_kept, GetTerm(kept, st, last_index_kept),
                        << >>, {}))

\* The end of append_entries: the entries that are new go to the memory, to the
\* configuration manager and to the disk thread.
AppendNew(l, entries, acks) ==
    Push([l EXCEPT !.last_log_index = IF entries = << >> THEN @ ELSE Last(entries).index,
                   !.configurations = @ \o SelectSeq(entries,
                         LAMBDA e : <<e.index, e.term>> \in IsConfiguration),
                   !.logs_in_memory = @ \o entries],
         Task("append", 0, 0, entries, acks))

\* set_snapshot
SetSnapshot(l, st, id, conf) ==
    LET term == GetTerm(l, st, id.index)
        last == l.last_snapshot_id
        set == [l EXCEPT !.snapshot_conf = conf, !.last_snapshot_id = id,
                         !.applied_id = IF IdLess(@, id) THEN id ELSE @]
    IN  CASE id.index <= last.index -> l
          [] id.index > last.index /\ term = 0 ->
                TruncatePrefix([set EXCEPT !.virtual_first_log_id = id], id.index + 1)
          [] id.index > last.index /\ term # 0 /\ term = id.term ->
                IF last.index = 0 THEN set
                ELSE TruncatePrefix([set EXCEPT !.virtual_first_log_id = last], last.index + 1)
          [] OTHER -> Reset([set EXCEPT !.virtual_first_log_id = id], id.index + 1)

\* clear_bufferred_logs
ClearBufferredLogs(l) ==
    TruncatePrefix([l EXCEPT !.virtual_first_log_id = l.last_snapshot_id],
                   l.last_snapshot_id.index + 1)

\* clear_memory_logs
ClearMemory(l, id) ==
    LET kept == {i \in 1 .. Len(l.logs_in_memory) : IdLess(id, l.logs_in_memory[i])}
    IN  [l EXCEPT !.logs_in_memory = IF kept = {} THEN << >>
                                     ELSE SubSeq(@, Min(kept), Len(@))]
ClearIdApplied(l) == l.applied_id
ClearId(l) == IF IdLess(l.applied_id, l.disk_id) THEN l.applied_id ELSE l.disk_id

-----------------------------------------------------------------------------
(* The log the node was asked to keep                                      *)

InLog(id, terms) == id.index \in 1 .. Len(terms) /\ terms[id.index] = id.term
Forget(ids, terms) == {a \in ids : InLog(a, terms)}

\* The configuration in force after the first n entries
ConfigurationAt(terms, n) ==
    LET C == {i \in 1 .. n : <<i, terms[i]>> \in IsConfiguration}
    IN  IF C = {} THEN NoId ELSE Id(Max(C), terms[Max(C)])

\* ConfigurationManager::get
GetConfiguration(l, index) ==
    LET known == UpTo(l.configurations, index)
    IN  IF known = << >> THEN l.snapshot_conf ELSE Last(known)

\* A snapshot of entries the log does not have makes it the log of the leader
\* that sent it.
LogAfterSnapshot(terms, id) ==
    IF InLog(id, terms) THEN terms ELSE SubSeq(leader.log, 1, id.index)

\* Log matching between two logs
Matches(a, b) ==
    \A i \in 1 .. Len(a) :
        (i <= Len(b) /\ a[i] = b[i]) => SubSeq(a, 1, i) = SubSeq(b, 1, i)

-----------------------------------------------------------------------------
(* The other nodes                                                         *)

Logs == {terms \in SeqOf(1 .. MaxTerm, MaxIndex) :
            \A i \in 1 .. Len(terms) - 1 : terms[i] <= terms[i + 1]}

\* A leader of a later term: another node, or this one.  The log of another node
\* is the one it will have: what it appends later is sent later.
new_leader ==
    \E term \in leader.term + 1 .. budget.term, terms \in Logs, who \in {"self", "other"} :
        /\ Len(terms) <= budget.index
        /\ IsPrefix(SubSeq(leader.log, 1, committed), terms)
        /\ \A i \in 1 .. Len(terms) : terms[i] <= leader.term
        /\ who = "self" => terms = log
        /\ Matches(terms, log) /\ Matches(terms, leader.log)
        /\ Matches(terms, SubSeq(log, 1, storage.first - 1) \o storage.terms)
        /\ leader' = [term |-> term, who |-> who,
                      log |-> IF who = "self" THEN terms
                              ELSE terms \o [i \in 1 .. budget.index - Len(terms) |-> term]]
        /\ UNCHANGED <<lm, storage, snapshot, disk, clearing, reading, status, committed, history, budget>>

\* A quorum, which this node need not be in, stored an entry of the leader's term.
commit ==
    \E n \in committed + 1 .. Len(leader.log) :
        /\ leader.log[n] = leader.term
        /\ committed' = n
        /\ UNCHANGED <<lm, storage, snapshot, disk, clearing, reading, status, leader, history, budget>>

-----------------------------------------------------------------------------
(* The node                                                                *)

Up == status = "up"
CanPush == Len(lm.queue) < budget.queue
OnDisk(id) == StorageTerm(storage, id.index) = id.term

\* The newest snapshot is not yet known to the log manager.  While one of the
\* leader is installed no entries are taken.
SnapshotPending == snapshot.id # lm.last_snapshot_id
Installing == SnapshotPending /\ snapshot.installed

\* A FATAL log or a failed CHECK ends the process: what the step leaves in its
\* memory is of no interest.
AbortsIf(fatal) == IF fatal THEN "aborted" ELSE status

\* append_entries of the leader: the entry has no index yet and gets the next.
append_as_leader ==
    /\ Up /\ CanPush /\ ~lm.has_error
    /\ leader.who = "self" /\ lm.last_log_index < budget.index
    /\ LET e == Id(lm.last_log_index + 1, leader.term)
       IN  /\ lm' = AppendNew(lm, <<e>>, {e})
           /\ log' = Append(log, e.term)
    /\ leader' = [leader EXCEPT !.log = log']
    /\ UNCHANGED <<storage, snapshot, disk, clearing, reading, status, committed, acked, answer, budget>>

LastKeptBeforeEntries(l, st, entries) == entries[1].index - 1

\* check_and_resolve_conflict: the index before the first entry that is not in the
\* log, or is there with another term
LastKept(l, st, entries) ==
    LET conflicts == {i \in 1 .. Len(entries) :
                         GetTerm(l, st, entries[i].index) # entries[i].term}
    IN  IF conflicts = {} THEN Last(entries).index ELSE entries[Min(conflicts)].index - 1

\* append_entries of a follower that found the entry before the leader's entries
\* in its log (handle_append_entries_request).
\* A request that was delayed or sent twice brings the same entries again.
\* One whose entries are all applied returns at once with nothing changed; its
\* closure reports entries that are committed, which acked need not record.
append_as_follower ==
    \E prev \in 0 .. Len(leader.log) - 1 :
    \E n \in prev + 1 .. Len(leader.log) :
        /\ Up /\ CanPush /\ ~lm.has_error /\ leader.who = "other" /\ ~Installing
        /\ budget.old_requests \/ prev + 1 >= lm.first_log_index
        /\ GetTerm(lm, storage, prev) = (IF prev = 0 THEN 0 ELSE leader.log[prev])
        /\ n > lm.applied_id.index
        /\ LET entries == [i \in 1 .. n - prev |-> Id(prev + i, leader.log[prev + i])]
               kept == LastKept(lm, storage, entries)
               new == From(entries, kept + 1)
               truncates == new # << >> /\ kept < lm.last_log_index
               resolved == IF truncates THEN TruncateSuffix(lm, storage, kept) ELSE lm
           IN  /\ status' = AbortsIf(/\ truncates
                                     /\ \/ kept < lm.applied_id.index
                                        \/ kept # 0 /\ GetTerm(resolved, storage, kept) = 0)
               /\ lm' = AppendNew(resolved, new, ToSet(entries))
               /\ log' = IF new = << >> THEN log ELSE SubSeq(leader.log, 1, n)
               /\ acked' = Forget(acked, log')
        /\ UNCHANGED <<storage, snapshot, disk, clearing, reading, environment, answer, budget>>

\* The id is read without asking the disk thread.
last_log_id_unasked ==
    /\ Up /\ CanPush /\ budget.queries > 0
    /\ answer' = IF lm.last_log_index = lm.last_snapshot_id.index
                 THEN lm.last_snapshot_id ELSE lm.disk_id
    /\ budget' = [budget EXCEPT !.queries = @ - 1]
    /\ UNCHANGED <<lm, storage, snapshot, disk, clearing, reading, status, environment, log, acked>>

\* last_log_id(true): pre_vote, elect_self and the vote handlers ask for the last
\* id on the disk.
last_log_id ==
    /\ Up /\ CanPush /\ budget.queries > 0
    /\ IF lm.last_log_index = lm.last_snapshot_id.index
       THEN answer' = lm.last_snapshot_id /\ UNCHANGED lm
       ELSE lm' = Push(lm, Task("last_log_id", 0, 0, << >>, {})) /\ UNCHANGED answer
    /\ budget' = [budget EXCEPT !.queries = @ - 1]
    /\ UNCHANGED <<storage, snapshot, disk, clearing, reading, status, environment, log, acked>>

\* get_entry, as a replicator calls it, for an entry that left the memory ...
get_entry ==
    \E index \in lm.first_log_index .. lm.last_log_index :
        /\ Up /\ leader.who = "self" /\ reading = 0 /\ budget.reads > 0
        /\ ~InMemory(lm, index)
        /\ reading' = index
        /\ budget' = [budget EXCEPT !.reads = @ - 1]
        /\ UNCHANGED <<lm, storage, snapshot, disk, clearing, status, environment, history>>

\* ... which it reads from the storage after it released the mutex; not to find it
\* is an error of the storage.
read_entry ==
    /\ Up /\ reading # 0
    /\ lm' = [lm EXCEPT !.has_error = @ \/ StorageTerm(storage, reading) = 0]
    /\ reading' = 0
    /\ UNCHANGED <<storage, snapshot, disk, clearing, status, environment, history, budget>>

-----------------------------------------------------------------------------
(* The FSM thread and the snapshot executor                                *)

\* set_applied_id after do_committed applied the entries up to n: this node was
\* told that they are committed and has them.
set_applied_id ==
    \E n \in lm.applied_id.index + 1 .. committed :
        /\ Up /\ clearing = NoId
        /\ ~Installing
        /\ IsPrefix(SubSeq(leader.log, 1, n), log)
        /\ budget.commit_ahead \/ OnDisk(Id(n, log[n]))
        /\ LET id == Id(n, GetTerm(lm, storage, n))
               applied == [lm EXCEPT !.applied_id = id]
           IN  /\ ~IdLess(id, lm.applied_id)
               /\ lm' = applied /\ clearing' = ClearId(applied)
        /\ UNCHANGED <<storage, snapshot, disk, reading, status, environment, history, budget>>

\* ... which clears the memory after it released the mutex
clear_applied ==
    /\ Up /\ clearing # NoId
    /\ lm' = ClearMemory(lm, clearing) /\ clearing' = NoId
    /\ UNCHANGED <<storage, snapshot, disk, reading, status, environment, history, budget>>

\* do_snapshot_save and the close of the writer: the snapshot is on the disk.
save_snapshot ==
    /\ Up /\ ~SnapshotPending /\ clearing = NoId
    /\ budget.snapshots > 0
    /\ lm.applied_id.index > lm.last_snapshot_id.index
    /\ snapshot' = [id |-> lm.applied_id, installed |-> FALSE,
                    conf |-> GetConfiguration(lm, lm.applied_id.index)]
    /\ budget' = [budget EXCEPT !.snapshots = @ - 1]
    /\ UNCHANGED <<lm, storage, disk, clearing, reading, status, environment, history>>

\* A snapshot of the leader was downloaded and do_snapshot_load loaded it.
install_snapshot ==
    \E n \in lm.last_snapshot_id.index + 1 .. committed :
        LET id == Id(n, leader.log[n])
        IN  /\ Up /\ ~SnapshotPending /\ clearing = NoId /\ leader.who = "other"
            /\ budget.snapshots > 0
            /\ ~IdLess(id, lm.applied_id)
            /\ snapshot' = [id |-> id, installed |-> TRUE, conf |-> ConfigurationAt(leader.log, n)]
            /\ budget' = [budget EXCEPT !.snapshots = @ - 1]
            /\ UNCHANGED <<lm, storage, disk, clearing, reading, status, environment, history>>

\* set_snapshot, of on_snapshot_save_done and on_snapshot_load_done
set_snapshot ==
    /\ Up /\ SnapshotPending
    /\ budget.commit_ahead \/ ~InLog(snapshot.id, log) \/ OnDisk(snapshot.id)
    /\ lm' = SetSnapshot(lm, storage, snapshot.id, snapshot.conf)
    /\ log' = LogAfterSnapshot(log, snapshot.id)
    /\ acked' = Forget(acked, log')
    /\ UNCHANGED <<storage, snapshot, disk, clearing, reading, status, environment, answer, budget>>

\* clear_bufferred_logs, of do_snapshot when there is nothing to save
clear_bufferred_logs ==
    /\ Up /\ CanPush /\ ~SnapshotPending /\ lm.last_snapshot_id.index # 0
    /\ lm.first_log_index # lm.last_snapshot_id.index + 1
    /\ lm' = ClearBufferredLogs(lm)
    /\ UNCHANGED <<storage, snapshot, disk, clearing, reading, status, environment, history, budget>>

-----------------------------------------------------------------------------
(* The disk thread                                                         *)

IdleDisk == [mode |-> "idle", last_id |-> NoId, batch |-> << >>]

\* disk_thread starts from the id that the last call of it left.
Running == IF disk.mode = "idle"
           THEN [mode |-> "running", last_id |-> lm.disk_id, batch |-> << >>] ELSE disk

BatchEntries == FlattenSeq([i \in 1 .. Len(disk.batch) |-> disk.batch[i].entries])
BatchAcks == UNION {disk.batch[i].acks : i \in 1 .. Len(disk.batch)}

HasTask == Up /\ lm.queue # << >> /\ disk.mode \in {"idle", "running"}
Failing == budget.failures > 0
Failed == [budget EXCEPT !.failures = @ - 1]

disk_take_runs_closure ==
    /\ HasTask /\ Head(lm.queue).entries # << >>
    /\ disk' = [Running EXCEPT !.batch = Append(@, Head(lm.queue))]
    /\ lm' = [lm EXCEPT !.queue = Tail(@)]
    /\ acked' = acked \cup Forget(Head(lm.queue).acks, log)
    /\ UNCHANGED <<storage, snapshot, clearing, reading, status, environment, log, answer, budget>>

\* AppendBatcher::append
disk_take ==
    /\ HasTask /\ Head(lm.queue).entries # << >>
    /\ disk' = [Running EXCEPT !.batch = Append(@, Head(lm.queue))]
    /\ lm' = [lm EXCEPT !.queue = Tail(@)]
    /\ UNCHANGED <<storage, snapshot, clearing, reading, status, environment, history, budget>>

\* AppendBatcher::flush with append_to_storage: the batch is full, another task
\* follows or the tasks are at their end.
disk_flush ==
    /\ Up /\ disk.batch # << >>
    /\ \/ /\ lm.has_error
          /\ disk' = [disk EXCEPT !.batch = << >>]
          /\ UNCHANGED <<lm, storage, status, acked, budget>>
       \/ /\ ~lm.has_error
          /\ status' = AbortsIf(HasGap(storage, BatchEntries))
          /\ storage' = StorageAppend(storage, BatchEntries, Len(BatchEntries))
          /\ disk' = [disk EXCEPT !.batch = << >>, !.last_id = Last(BatchEntries)]
          /\ acked' = acked \cup Forget(BatchAcks, log)
          /\ UNCHANGED <<lm, budget>>
       \/ \E n \in 0 .. Len(BatchEntries) - 1 :
             /\ ~lm.has_error /\ ~HasGap(storage, BatchEntries) /\ Failing
             /\ storage' = StorageAppend(storage, BatchEntries, n)
             /\ disk' = [disk EXCEPT !.batch = << >>,
                                     !.last_id = IF n = 0 THEN @ ELSE BatchEntries[n]]
             /\ lm' = [lm EXCEPT !.has_error = TRUE]
             /\ budget' = Failed
             /\ UNCHANGED <<status, acked>>
    /\ UNCHANGED <<snapshot, clearing, reading, environment, log, answer>>

\* What a task without entries does to the storage, or to a part of it when it
\* fails: truncate_suffix removes the segments from the last one on.
Execute(st, task) ==
    CASE task.type = "truncate_prefix" -> StorageTruncatePrefix(st, task.index)
      [] task.type = "truncate_suffix" -> StorageTruncateSuffix(st, task.index)
      [] task.type = "reset" -> StorageReset(task.index)
      [] OTHER -> st
Partly(st, task) ==
    IF task.type = "truncate_suffix"
    THEN {StorageTruncateSuffix(st, n) : n \in task.index .. StorageLast(st)}
    ELSE {st}

\* disk_thread on a task without entries.  The closure of an append whose entries
\* the log had already is one of them: it runs without a look at has_error.
disk_execute ==
    /\ HasTask /\ disk.batch = << >> /\ Head(lm.queue).entries = << >>
    /\ LET task == Head(lm.queue)
       IN  /\ \/ /\ storage' = Execute(storage, task)
                 /\ disk' = [Running EXCEPT !.last_id = IF task.type = "truncate_suffix"
                                                        THEN Id(task.index, task.term) ELSE @]
                 /\ lm' = [lm EXCEPT !.queue = Tail(@)]
                 /\ UNCHANGED budget
              \/ /\ Failing /\ task.type \in {"truncate_prefix", "truncate_suffix", "reset"}
                 /\ storage' \in Partly(storage, task)
                 /\ disk' = Running
                 /\ lm' = [lm EXCEPT !.queue = Tail(@), !.has_error = TRUE]
                 /\ budget' = Failed
           /\ answer' = IF task.type = "last_log_id" THEN Running.last_id ELSE answer
           /\ acked' = acked \cup Forget(task.acks, log)
    /\ UNCHANGED <<snapshot, clearing, reading, status, environment, log>>

\* The end of disk_thread: set_disk_id
set_disk_id ==
    /\ Up /\ disk.mode = "running" /\ disk.batch = << >>
    /\ IF IdLess(disk.last_id, lm.disk_id)
       THEN disk' = IdleDisk /\ UNCHANGED lm
       ELSE LET set == [lm EXCEPT !.disk_id = disk.last_id]
            IN  /\ lm' = set
                /\ disk' = [IdleDisk EXCEPT !.mode = "clearing", !.last_id = ClearId(set)]
    /\ UNCHANGED <<storage, snapshot, clearing, reading, status, environment, history, budget>>

clear_flushed ==
    /\ Up /\ disk.mode = "clearing"
    /\ lm' = ClearMemory(lm, disk.last_id) /\ disk' = IdleDisk
    /\ UNCHANGED <<storage, snapshot, clearing, reading, status, environment, history, budget>>

-----------------------------------------------------------------------------
(* Crash and restart                                                       *)

\* The process dies, perhaps while it writes a batch, and starts again:
\* LogManager::init, then the load of the newest snapshot.
restart ==
    /\ Up /\ budget.crashes > 0
    /\ \E n \in 0 .. Len(BatchEntries) :
         /\ n > 0 => ~lm.has_error /\ ~HasGap(storage, BatchEntries)
         /\ storage' = StorageAppend(storage, BatchEntries, n)
         /\ lm' = IF snapshot.id = NoId THEN Opened(storage')
                  ELSE SetSnapshot(Opened(storage'), storage', snapshot.id, snapshot.conf)
         /\ log' = LET terms == SubSeq(log, 1, storage'.first - 1) \o storage'.terms
                   IN  IF snapshot.id = NoId THEN terms ELSE LogAfterSnapshot(terms, snapshot.id)
         /\ acked' = IF StorageTerm(storage', snapshot.id.index) \in {0, snapshot.id.term}
                     THEN acked ELSE Forget(acked, log')
    /\ leader' = [leader EXCEPT !.who = IF @ = "self" THEN "none" ELSE @]
    /\ disk' = IdleDisk /\ clearing' = NoId /\ reading' = 0 /\ answer' = NoId
    /\ budget' = [budget EXCEPT !.crashes = @ - 1]
    /\ UNCHANGED <<snapshot, status, committed>>

-----------------------------------------------------------------------------
Init ==
    /\ storage = EmptyStorage /\ lm = Opened(EmptyStorage)
    /\ snapshot = [id |-> NoId, installed |-> FALSE, conf |-> NoId]
    /\ disk = IdleDisk /\ clearing = NoId /\ reading = 0 /\ status = "up"
    /\ leader = [term |-> 0, log |-> << >>, who |-> "none"] /\ committed = 0
    /\ log = << >> /\ acked = {} /\ answer = NoId
    /\ budget \in Scenarios

Next ==
    \/ new_leader \/ commit
    \/ append_as_leader \/ append_as_follower \/ last_log_id \/ get_entry \/ read_entry
    \/ set_applied_id \/ clear_applied
    \/ save_snapshot \/ install_snapshot \/ set_snapshot \/ clear_bufferred_logs
    \/ disk_take \/ disk_flush \/ disk_execute \/ set_disk_id \/ clear_flushed
    \/ restart

Spec == Init /\ [][Next]_vars

-----------------------------------------------------------------------------
(* Properties                                                              *)


\* The entries this node gives for its log (get_term, get_entry) are those it was
\* asked to keep: an entry leaves the memory only when the disk has it.
\* set_snapshot leaves disk_id alone for this ("keep these logs in memory all the
\* time until they are flushed to disk", log_manager.cc:651-655).
UnflushedStaysInMemory ==
    Up /\ ~lm.has_error =>
        /\ lm.last_log_index = Len(log)
        /\ \A i \in lm.first_log_index .. lm.last_log_index :
              GetTerm(lm, storage, i) = log[i]

\* The storage after every task the disk thread still has to execute
Flushed ==
    FoldLeft(LAMBDA st, task : IF task.entries = << >> THEN Execute(st, task)
                               ELSE StorageAppend(st, task.entries, Len(task.entries)),
             storage, disk.batch \o lm.queue)

\* The disk thread executes the tasks in the order the log changed, so that the
\* storage ends with the log of the memory: append_entries, truncate_prefix,
\* unsafe_truncate_suffix and reset enqueue their task under the mutex.
DiskCatchesUp ==
    Up /\ ~lm.has_error =>
        /\ Flushed.first = lm.first_log_index
        /\ Flushed.terms = SubSeq(log, lm.first_log_index, Len(log))

\* As long as no write has failed, an entry whose StableClosure ran without an error
\* is on the disk, in the log or in a snapshot, until a leader's conflicting entry
\* removes it; a crash does not lose it ("wait until it's stable", log_manager.h:89).
StableIsStored ==
    ~lm.has_error => \A a \in acked : a.index <= snapshot.id.index \/ OnDisk(a)

\* The id that last_log_id(true) returns is not less than that of an entry this
\* node reported as stored: it grants its vote by this id (node.cc:2222).
AnswerCoversAcked ==
    [][answer' # answer /\ answer' # NoId => \A a \in acked : ~IdLess(answer', a)]_vars

\* The configuration manager knows the configurations of the entries from the
\* first one on, in their order, and the one of the snapshot before them: the
\* CHECK of ConfigurationManager::add, and what check_and_set_configuration gives
\* the node after a truncation, a snapshot or a restart.
ConfigurationsFollowTheLog ==
    Up => /\ lm.configurations =
                SelectSeq([i \in 1 .. Len(log) |-> Id(i, log[i])],
                          LAMBDA e : /\ <<e.index, e.term>> \in IsConfiguration
                                     /\ e.index >= lm.first_log_index)
          /\ lm.snapshot_conf = ConfigurationAt(log, lm.last_snapshot_id.index)

\* check_consistency, which decides whether the node can start: no entry is
\* missing between the snapshot and the log.
NoHoleAfterSnapshot ==
    Up => IF lm.last_snapshot_id = NoId THEN lm.first_log_index = 1
          ELSE lm.last_snapshot_id.index \in lm.first_log_index - 1 .. lm.last_log_index

\* No FATAL log and no failing CHECK is reached: the disk thread never finds a gap
\* before the entries it appends (log.cc:733), no leader makes a node truncate what
\* it applied (log_manager.cc:314), and the term of the last entry kept by a
\* truncation is known (log_manager.cc:331).
NeverAborts == status # "aborted"
=============================================================================
