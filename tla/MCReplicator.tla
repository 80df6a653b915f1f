---------------------------- MODULE MCReplicator ----------------------------
(***************************************************************************)
(* One leader and one peer for the Replicator runs.                        *)
(***************************************************************************)
EXTENDS Replicator
Calm == [failures |-> 0, snapshots |-> 0, readonly |-> 0, catchups |-> 0, transfers |-> 0,
         stops |-> 0]
\* A peer that lacks entries, and one that holds an entry of a deposed leader
Logs == {[log |-> 1, match |-> 0, last |-> 0], [log |-> 1, match |-> 0, last |-> 1]}
With(budgets) == {[log |-> l.log, match |-> l.match, last |-> l.last, budget |-> u] :
                    l \in Logs, u \in budgets}
MCStarts == With({[Calm EXCEPT !.failures = 2, !.snapshots = 2],
                  [Calm EXCEPT !.failures = 1, !.catchups = 2, !.stops = 1],
                  [Calm EXCEPT !.failures = 1, !.transfers = 1, !.stops = 1],
                  [Calm EXCEPT !.failures = 1, !.readonly = 2]})
MCConf == {3}
=============================================================================
