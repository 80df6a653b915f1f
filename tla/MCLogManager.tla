---------------------------- MODULE MCLogManager ----------------------------
(* LogManager for TLC: which entries are configurations, and the scenarios. *)
EXTENDS LogManager

\* The first entry of a term is a configuration, and so is a second one.
ConfigurationEntries == {<<1, 1>>, <<2, 1>>, <<1, 2>>, <<2, 3>>}

Scenario(index, term, queue, crashes, failures, snapshots, queries, reads, ahead) ==
    [index |-> index, term |-> term, queue |-> queue, crashes |-> crashes,
     failures |-> failures, snapshots |-> snapshots, queries |-> queries, reads |-> reads,
     commit_ahead |-> ahead, old_requests |-> FALSE]

\* Three terms overwrite each other's entries and the process restarts; two
\* snapshots meet a restart; a longer log with two snapshots; a failing storage,
\* with a reader.
LogScenarios ==
    {Scenario(2, 3, 2, 1, 0, 0, 1, 0, FALSE), Scenario(2, 2, 2, 1, 0, 2, 0, 0, TRUE),
     Scenario(3, 2, 1, 0, 0, 2, 0, 0, TRUE), Scenario(2, 2, 2, 0, 1, 2, 0, 1, TRUE)}

\* A request from before the first index kept arrives late.
LateRequest == {[Scenario(3, 2, 2, 0, 0, 1, 0, 0, TRUE) EXCEPT !.old_requests = TRUE]}
=============================================================================
