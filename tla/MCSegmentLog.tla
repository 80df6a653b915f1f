---------------------------- MODULE MCSegmentLog ----------------------------
(* Small instances of SegmentLog.tla.                                      *)
EXTENDS SegmentLog

Terms == 1 .. 2

Mode(policy, syncs, resets, crash) ==
    [sync |-> policy, sync_segments |-> syncs, sync_fails |-> FALSE, resets |-> resets,
     crash |-> crash]

\* The process may die, whatever is synced; with raft_sync and raft_sync_segments the
\* power may fail; reset is called.
MCModes == {Mode("by_bytes", FALSE, FALSE, "process"), Mode("immediately", TRUE, FALSE, "power"),
            Mode("off", FALSE, TRUE, "none")}

\* The process dies in the middle of reset.
ResetCrash == {Mode("immediately", FALSE, TRUE, "process")}
=============================================================================
