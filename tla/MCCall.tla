------------------------------- MODULE MCCall -------------------------------
(***************************************************************************)
(* RPCs of different options.  One with a backup request has a try to      *)
(* spare for it, whatever fails before its timer goes off; MCNoRetry and   *)
(* MCTooMuchUserCode are the cases the README describes.                   *)
(***************************************************************************)
EXTENDS Call
Options == [max_retry |-> 1, backup |-> FALSE, timeout |-> TRUE, async |-> TRUE,
            connection |-> "single", failures |-> 2, refusals |-> {"EREQUEST"}, cancels |-> 1]
MCScenarios ==
    {[Options EXCEPT !.max_retry = n, !.async = a, !.connection = c] :
        n \in 0 .. 2, a \in BOOLEAN, c \in {"single", "pooled", "short"}}
    \cup {[Options EXCEPT !.max_retry = n, !.failures = n - 1, !.backup = TRUE, !.async = a,
                          !.timeout = t, !.connection = "pooled"] :
            n \in 1 .. 3, a \in BOOLEAN, t \in BOOLEAN}
MCNoRetry == {[Options EXCEPT !.max_retry = n, !.failures = n, !.backup = TRUE] : n \in 0 .. 1}
MCTooMuchUserCode == {[Options EXCEPT !.refusals = {"ELIMIT"}]}
=============================================================================
