----------------------------- MODULE LogStorage -----------------------------
(***************************************************************************)
(* What the log manager asks of a LogStorage (storage.h), as functions of  *)
(* what is on the disk: the index of the first entry and the terms of the  *)
(* entries from it on.  SegmentLogStorage (log.cc) is the implementation   *)
(* the code ships; SegmentLog.tla models its files.                        *)
(***************************************************************************)
EXTENDS Integers, Sequences

\* Identity of an entry, LogId of log_entry.h
Id(index, term) == [index |-> index, term |-> term]
NoId == Id(0, 0)

\* operator< of LogId: the term decides, then the index.
IdLess(a, b) == IF a.term = b.term THEN a.index < b.index ELSE a.term < b.term

EmptyStorage == [first |-> 1, terms |-> << >>]

\* last_log_index and get_term; the term of an entry it does not have is 0.
StorageLast(st) == st.first + Len(st.terms) - 1
StorageTerm(st, index) ==
    IF index \in st.first .. StorageLast(st) THEN st.terms[index - st.first + 1] ELSE 0

\* append_entries: n of the entries are written, all of them unless it fails.
\* A gap before the first one is a FATAL log.
HasGap(st, entries) == entries # << >> /\ entries[1].index # StorageLast(st) + 1
StorageAppend(st, entries, n) ==
    [st EXCEPT !.terms = @ \o [i \in 1 .. n |-> entries[i].term]]

StorageTruncatePrefix(st, first_index_kept) ==
    IF st.first >= first_index_kept THEN st
    ELSE [first |-> first_index_kept,
          terms |-> SubSeq(st.terms, first_index_kept - st.first + 1, Len(st.terms))]

StorageTruncateSuffix(st, last_index_kept) ==
    CASE last_index_kept >= StorageLast(st) -> st
      [] last_index_kept < st.first -> [first |-> last_index_kept + 1, terms |-> << >>]
      [] OTHER -> [st EXCEPT !.terms = SubSeq(@, 1, last_index_kept - st.first + 1)]

StorageReset(next_log_index) == [first |-> next_log_index, terms |-> << >>]
=============================================================================
