SPECIFICATION Spec
CONSTANTS
    s = s  a = a  b = b
    Self = s
    Peers <- MCPeers
    Confs <- MCConfs
    MaxIndex = 2
    MaxTerm = 4
    MaxBatch = 2
    MaxDisk = 3
INVARIANTS CommittedByQuorum
CHECK_DEADLOCK FALSE
