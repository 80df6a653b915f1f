SPECIFICATION Spec
CONSTANTS
    s = s  a = a  b = b
    Self = s
    Peers <- MCPeers
    Confs <- MCConfs
    MaxIndex = 2
    MaxTerm = 3
    MaxBatch = 2
    MaxDisk = 2
INVARIANTS CommittedByQuorum ChecksHold ClosuresRunOnce
PROPERTIES CommittedIsApplied
CHECK_DEADLOCK FALSE
