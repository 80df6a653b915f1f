----------------------------- MODULE MCBallotBox -----------------------------
EXTENDS BallotBox
CONSTANTS s, a, b
MCPeers == {s, a, b}
MCConfs == {[conf |-> {s, a, b}, old_conf |-> {}], [conf |-> {s, a, b}, old_conf |-> {s, a}]}
=============================================================================
