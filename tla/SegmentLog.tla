----------------------------- MODULE SegmentLog -----------------------------
(***************************************************************************)
(* SegmentLogStorage and Segment (log.cc): the log as files of a           *)
(* directory.  log_meta holds the first index, log_<first>_<last> is a full *)
(* segment and log_inprogress_<first> the one that entries are written to. *)
(*                                                                         *)
(* A step is one system call: a file renamed, written, cut or synced.  The *)
(* process may die between any two of them, or the machine lose its power, *)
(* which takes what was not synced.  Names and log_meta are taken to be    *)
(* durable at once (raft_sync_meta), an entry that was written in part is  *)
(* not there (Segment::load cuts it off).  Other calls than fsync do not   *)
(* fail: LogManager gives the storage nothing more after a failed append.  *)
(***************************************************************************)
EXTENDS LogStorage, FiniteSets, FiniteSetsExt, SequencesExt

CONSTANTS
    Term,           \* terms of entries
    MaxIndex,       \* bound: indexes
    MaxBatch,       \* bound: entries of one append_entries
    MaxSegment,     \* raft_max_segment_size: entries that fill a segment
    Modes           \* how the storage is run, of which Init takes one:
                    \* sync: raft_sync and raft_sync_policy;
                    \* sync_segments: the flag raft_sync_segments;
                    \* sync_fails: may fsync fail? resets: is reset called?
                    \* crash: "none", "process", or "power", which takes what was
                    \* not synced

ASSUME SegmentLogAssumption ==
    /\ MaxIndex \in Nat /\ MaxBatch \in Nat \ {0} /\ MaxSegment \in Nat \ {0}
    /\ Modes \subseteq [sync : {"immediately", "by_bytes", "off"}, sync_segments : BOOLEAN,
                        sync_fails : BOOLEAN, resets : BOOLEAN, crash : {"none", "process", "power"}]

VARIABLES
    files,          \* log_meta, the full segments and the ones in progress
    mem,            \* first_log_index and last_log_index
    op,             \* the operation the disk thread is in
    acked,          \* the last index that append_entries reported as written
    status,         \* "up", or "failed": init refused the directory
    mode            \* how the storage is run

vars == <<files, mem, op, acked, status, mode>>

-----------------------------------------------------------------------------
(* Files                                                                   *)

\* The contents of a file, now and when it was last synced
Segment(first, now, synced) == [first |-> first, now |-> now, synced |-> synced]
LastOf(s) == s.first + Len(s.now) - 1

\* A full segment has the index of its last entry in its name.
Closed(s) == [name |-> <<s.first, LastOf(s)>>, segment |-> s]

Segments(f) == {c.segment : c \in f.closed} \cup f.open
TermAt(f, index) ==
    LET S == {s \in Segments(f) : index \in s.first .. LastOf(s)}
    IN  IF S = {} THEN 0 ELSE LET s == CHOOSE s \in S : TRUE IN s.now[index - s.first + 1]

\* list_segments and load_segments.  Segments that end before the first index are
\* removed.  A hole before the open segment is only a warning.
Discarded(f) == {s \in Segments(f) : LastOf(s) < f.meta}
LoadedLast(f) == Max({f.meta - 1} \cup {LastOf(s) : s \in Segments(f)})
Loaded(f) == [first |-> f.meta,
              terms |-> [i \in 1 .. LoadedLast(f) - f.meta + 1 |-> TermAt(f, f.meta + i - 1)]]
Refused(f) ==
    LET live == {c \in f.closed : c.name[2] >= f.meta}
    IN  \/ Cardinality(f.open) > 1
        \/ \E c \in live : c.name # Closed(c.segment).name
        \/ \E c \in live : c.name[1] > f.meta /\ ~\E d \in live : d.name[2] = c.name[1] - 1
        \/ \E c \in live, s \in f.open : s.first <= c.name[2]

-----------------------------------------------------------------------------
(* append_entries                                                          *)

Idle == [type |-> "idle", left |-> << >>, index |-> 0, saves |-> FALSE, todo |-> << >>,
         cuts |-> FALSE]
Ready == status = "up" /\ op = Idle
Appending == status = "up" /\ op.type = "append_entries"

append_entries ==
    \E terms \in SeqOf(Term, MaxBatch) \ {<< >>} :
        /\ Ready /\ mem.last + Len(terms) <= MaxIndex
        /\ op' = [Idle EXCEPT !.type = "append_entries", !.left = terms]
        /\ UNCHANGED <<files, mem, acked, status>>

\* open_segment: the segment is full, Segment::close
close_segment ==
    \E s \in files.open :
        /\ Appending /\ op.left # << >> /\ Len(s.now) >= MaxSegment
        /\ LET synced == IF mode.sync_segments /\ LastOf(s) > s.first THEN s.now ELSE s.synced
           IN  files' = [files EXCEPT !.open = {},
                                      !.closed = @ \cup {Closed(Segment(s.first, s.now, synced))}]
        /\ UNCHANGED <<mem, op, acked, status>>

\* open_segment: Segment::create
create_segment ==
    /\ Appending /\ op.left # << >> /\ files.open = {}
    /\ files' = [files EXCEPT !.open = {Segment(mem.last + 1, << >>, << >>)}]
    /\ UNCHANGED <<mem, op, acked, status>>

\* Segment::append
append ==
    \E s \in files.open :
        /\ Appending /\ op.left # << >> /\ Len(s.now) < MaxSegment
        /\ files' = [files EXCEPT !.open = {[s EXCEPT !.now = Append(@, Head(op.left))]}]
        /\ mem' = [mem EXCEPT !.last = @ + 1]
        /\ op' = [op EXCEPT !.left = Tail(@)]
        /\ UNCHANGED <<acked, status>>

sync_of_nothing ==
    \E s \in files.open :
        /\ Appending /\ op.left = << >>
        /\ op' = Idle /\ acked' = mem.last
        /\ UNCHANGED <<files, mem, status>>

\* Segment::sync of the last segment, and the return of append_entries, which does
\* not look at the result of sync.  By bytes, whether it is time depends on the data.
MaySync == {mode.sync # "off"} \cup {mode.sync = "immediately" /\ ~mode.sync_fails}
sync ==
    \E s \in files.open, synced \in MaySync :
        /\ Appending /\ op.left = << >>
        /\ files' = IF synced THEN [files EXCEPT !.open = {[s EXCEPT !.synced = s.now]}]
                    ELSE files
        /\ op' = Idle /\ acked' = mem.last
        /\ UNCHANGED <<mem, status>>

-----------------------------------------------------------------------------
(* truncate_prefix, truncate_suffix and reset                              *)

FirstIndexes(S) == SetToSortSeq({s.first : s \in S}, LAMBDA a, b : a < b)

truncate_prefix_keeps_last ==
    \E n \in mem.first + 1 .. MaxIndex :
        /\ Ready
        /\ op' = [Idle EXCEPT !.type = "truncate_prefix", !.index = n, !.saves = TRUE,
                              !.todo = FirstIndexes({s \in Segments(files) : LastOf(s) < n})]
        /\ mem' = [mem EXCEPT !.first = n]
        /\ UNCHANGED <<files, acked, status>>

\* truncate_prefix and pop_segments: log_meta first, then the segments from the
\* oldest on
truncate_prefix ==
    \E n \in mem.first + 1 .. MaxIndex :
        /\ Ready
        /\ op' = [Idle EXCEPT !.type = "truncate_prefix", !.index = n, !.saves = TRUE,
                              !.todo = FirstIndexes({s \in Segments(files) : LastOf(s) < n})]
        /\ mem' = [first |-> n, last |-> Max({mem.last, n - 1})]
        /\ UNCHANGED <<files, acked, status>>

truncate_suffix_front_to_back ==
    \E n \in mem.first - 1 .. mem.last - 1 :
        LET popped == {s \in Segments(files) : s.first > n}
        IN  /\ Ready
            /\ op' = [Idle EXCEPT !.type = "truncate_suffix", !.index = n,
                                  !.todo = FirstIndexes(popped),
                                  !.cuts = popped # Segments(files)]
            /\ mem' = [mem EXCEPT !.last = n]
            /\ acked' = Min({acked, n})
            /\ UNCHANGED <<files, status>>

\* truncate_suffix and pop_segments_from_back: the segments from the newest on,
\* then the end of the one that has the index.  When nothing is left that one goes
\* too.
truncate_suffix ==
    \E n \in mem.first - 1 .. mem.last - 1 :
        LET popped == {s \in Segments(files) : s.first > n \/ mem.first > n}
        IN  /\ Ready
            /\ op' = [Idle EXCEPT !.type = "truncate_suffix", !.index = n,
                                  !.todo = Reverse(FirstIndexes(popped)),
                                  !.cuts = popped # Segments(files)]
            /\ mem' = [first |-> IF \A s \in Segments(files) : s.first > n THEN n + 1
                                ELSE mem.first,
                       last |-> n]
            /\ acked' = Min({acked, n})
            /\ UNCHANGED <<files, status>>

\* reset: log_meta, then all segments from the oldest on.  LogManager::set_snapshot
\* resets to the index after a snapshot whose last entry the log has with another term.
reset ==
    \E n \in mem.first + 1 .. Min({mem.last + 1, MaxIndex}) :
        /\ Ready /\ mode.resets
        /\ op' = [Idle EXCEPT !.type = "reset", !.index = n, !.saves = TRUE,
                              !.todo = FirstIndexes(Segments(files))]
        /\ mem' = [first |-> n, last |-> n - 1]
        /\ acked' = 0
        /\ UNCHANGED <<files, status>>

Finished(o) == IF ~o.saves /\ o.todo = << >> /\ ~o.cuts THEN Idle ELSE o
Truncating == status = "up" /\ op.type \in {"truncate_prefix", "truncate_suffix", "reset"}

save_meta ==
    /\ Truncating /\ op.saves
    /\ files' = [files EXCEPT !.meta = op.index]
    /\ op' = Finished([op EXCEPT !.saves = FALSE])
    /\ UNCHANGED <<mem, acked, status>>

\* Segment::unlink: the name is gone at once, the file later.
unlink ==
    /\ Truncating /\ ~op.saves /\ op.todo # << >>
    /\ files' = [files EXCEPT !.closed = {c \in @ : c.name[1] # Head(op.todo)},
                              !.open = {s \in @ : s.first # Head(op.todo)}]
    /\ op' = Finished([op EXCEPT !.todo = Tail(@)])
    /\ UNCHANGED <<mem, acked, status>>

cut_closed ==
    \E c \in files.closed :
        /\ Truncating /\ op.cuts /\ op.todo = << >>
        /\ op.index \in c.segment.first .. LastOf(c.segment) - 1
        /\ files' = [files EXCEPT !.closed =
                        (@ \ {c}) \cup {[c EXCEPT !.segment.now =
                                            SubSeq(@, 1, op.index - c.segment.first + 1)]}]
        /\ op' = Idle
        /\ UNCHANGED <<mem, acked, status>>

\* Segment::truncate: a full segment gets the name of one in progress ...
rename_back ==
    \E c \in files.closed :
        /\ Truncating /\ op.cuts /\ op.todo = << >>
        /\ op.index \in c.segment.first .. LastOf(c.segment) - 1
        /\ files' = [files EXCEPT !.closed = @ \ {c}, !.open = {c.segment}]
        /\ UNCHANGED <<mem, op, acked, status>>

\* ... and is cut.  It may also have nothing to cut.
cut ==
    /\ Truncating /\ op.cuts /\ op.todo = << >>
    /\ \A c \in files.closed : LastOf(c.segment) <= op.index
    /\ files' = [files EXCEPT !.open = {[s EXCEPT !.now = SubSeq(@, 1, op.index - s.first + 1)]
                                           : s \in @}]
    /\ op' = Idle
    /\ UNCHANGED <<mem, acked, status>>

-----------------------------------------------------------------------------
(* Crash and restart                                                       *)

\* What a file may hold after the power was lost: what was synced, or that and a
\* part of what happened to it since.
Kept(s) == Max({n \in 0 .. Min({Len(s.now), Len(s.synced)}) :
                   SubSeq(s.now, 1, n) = SubSeq(s.synced, 1, n)})
Survivors(s) == IF mode.crash = "power" THEN {s.synced} \cup {SubSeq(s.now, 1, n) : n \in Kept(s) .. Len(s.now)}
                ELSE {s.now}

\* The process dies and init loads the directory.
restart ==
    \E loss \in [Segments(files) -> UNION {Survivors(s) : s \in Segments(files)}] :
        LET after(s) == Segment(s.first, loss[s], loss[s])
            found == [files EXCEPT !.closed = {[c EXCEPT !.segment = after(c.segment)] : c \in @},
                                   !.open = {after(s) : s \in @}]
        IN  /\ status = "up" /\ mode.crash # "none"
            /\ \A s \in Segments(files) : loss[s] \in Survivors(s)
            /\ status' = IF Refused(found) THEN "failed" ELSE "up"
            /\ files' = [found EXCEPT !.closed = {c \in @ : c.name[2] >= found.meta},
                                      !.open = @ \ Discarded(found)]
            /\ mem' = [first |-> found.meta, last |-> LoadedLast(found)]
            /\ op' = Idle
            /\ acked' = Min({acked, LoadedLast(found)})

Init ==
    /\ files = [meta |-> 1, closed |-> {}, open |-> {}]
    /\ mem = [first |-> 1, last |-> 0]
    /\ op = Idle /\ acked = 0 /\ status = "up"
    /\ mode \in Modes

Step ==
    \/ append_entries \/ close_segment \/ create_segment \/ append \/ sync
    \/ truncate_prefix \/ truncate_suffix \/ reset
    \/ save_meta \/ unlink \/ rename_back \/ cut
    \/ restart
Next == Step /\ UNCHANGED mode

Spec == Init /\ [][Next]_vars

-----------------------------------------------------------------------------
(* Properties                                                              *)

\* At every moment the files hold one log without a hole, which changes only as an
\* operation may change it: whenever the process dies, init finds the log before
\* the step or after it.  truncate_prefix saves log_meta before it removes a
\* segment, truncate_suffix works from back to front (log.cc:927).  The runs
\* with reset, which replaces the log, and with a loss of power, which may bring
\* removed entries back, are left out.
Log == INSTANCE StoredLog WITH
    stored <- IF mode.resets \/ mode.crash = "power" THEN EmptyStorage ELSE Loaded(files)
FilesAreALog == Log!Spec

\* init never refuses the directory that a process left when it died: also if it
\* died before the deletions were over "the new process would see the latest
\* first_log_index" (log.cc:848-851).
StartsAgain == status # "failed"

\* Between two operations the running process and one that starts would see the
\* same log: first_log_index, last_log_index and a segment for every index
\* (get_segment).
MemoryMatchesFiles ==
    Ready => /\ Loaded(files).first = mem.first /\ StorageLast(Loaded(files)) = mem.last
             /\ 0 \notin Range(Loaded(files).terms)

\* An entry that append_entries reported as written is there after a crash, also
\* after one that took what was not synced (LogManager::append_entries waits
\* "until it's stable", log_manager.h:89).
AckedSurvives ==
    [][restart => /\ mem'.last >= acked
                  /\ \A i \in mem.first .. acked :
                        i >= mem'.first => TermAt(files', i) = TermAt(files, i)]_vars
=============================================================================
