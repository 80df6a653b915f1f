------------------------------ MODULE StoredLog ------------------------------
(***************************************************************************)
(* What a LogStorage promises to whoever opens it: at every moment, also   *)
(* between two steps of an operation, it holds one log without a hole, and *)
(* that log only changes by an entry at its end, a prefix or a suffix.     *)
(***************************************************************************)
EXTENDS LogStorage

CONSTANT Term       \* terms of entries

VARIABLE stored     \* first index and terms of the entries

append_entry == \E term \in Term : stored' = [stored EXCEPT !.terms = Append(@, term)]

truncate_prefix ==
    \E n \in stored.first + 1 .. StorageLast(stored) + 1 :
        stored' = StorageTruncatePrefix(stored, n)

\* A prefix that ends after the last entry: the snapshot is ahead of the log.
skip_ahead ==
    /\ stored'.first > StorageLast(stored) + 1
    /\ stored'.first \in Nat /\ stored' = StorageReset(stored'.first)

truncate_suffix ==
    \E n \in stored.first - 1 .. StorageLast(stored) - 1 :
        stored' = StorageTruncateSuffix(stored, n)

Init == stored = EmptyStorage
Next == append_entry \/ truncate_prefix \/ skip_ahead \/ truncate_suffix
Spec == Init /\ [][Next]_stored
=============================================================================
