------------------------------- MODULE Ballot -------------------------------
(***************************************************************************)
(* melon/raft/ballot.{h,cc}: the vote counter of one log entry, one         *)
(* election or one pre-vote.  A ballot counts down to zero the votes that   *)
(* are still missing from a configuration and, during a joint membership    *)
(* change, from the configuration being left.  Configurations are sets of   *)
(* peers; the position hints of Ballot::grant only speed up the lookup and  *)
(* are left out.                                                            *)
(***************************************************************************)
EXTENDS Integers, FiniteSets

\* Peers of one configuration with the flags of UnfoundPeerId: the set
\* |found| holds the peers whose flag is set.
Half(peers) ==
    [peers |-> peers, found |-> {}, quorum |-> (Cardinality(peers) \div 2) + 1]

\* The half of an absent old configuration: nothing is missing.
NoHalf ==
    [peers |-> {}, found |-> {}, quorum |-> 0]

\* Ballot::init; a stable configuration has old_conf = {} (a null pointer).
InitBallot(conf, old_conf) ==
    [new |-> Half(conf), old |-> IF old_conf = {} THEN NoHalf ELSE Half(old_conf)]

\* A peer whose vote counts each time it arrives
GrantHalf_again(half, peer) ==
    IF peer \in half.peers THEN [half EXCEPT !.found = @ \cup {peer}, !.quorum = @ - 1] ELSE half

\* A peer is counted the first time it is found, and never again.
GrantHalf(half, peer) ==
    IF peer \in half.peers \ half.found
    THEN [half EXCEPT !.found = @ \cup {peer}, !.quorum = @ - 1]
    ELSE half

\* Ballot::grant
Grant(ballot, peer) ==
    [new |-> GrantHalf(ballot.new, peer), old |-> GrantHalf(ballot.old, peer)]

\* Ballot::grant for every peer of |voters|, in any order
GrantAllHalf(half, voters) ==
    LET new == (voters \cap half.peers) \ half.found
    IN [half EXCEPT !.found = @ \cup new, !.quorum = @ - Cardinality(new)]

GrantAll(ballot, voters) ==
    [new |-> GrantAllHalf(ballot.new, voters), old |-> GrantAllHalf(ballot.old, voters)]

\* Ballot::granted
Granted(ballot) ==
    /\ ballot.new.quorum <= 0
    /\ ballot.old.quorum <= 0

\* The type of the ballots over the peers of |peers|.
BallotHalf(peers) ==
    [peers : SUBSET peers, found : SUBSET peers, quorum : Int]

BallotType(peers) ==
    [new : BallotHalf(peers), old : BallotHalf(peers)]

(***************************************************************************)
(* The reference the counters are measured against: a set of peers is a     *)
(* quorum of a configuration when it holds more than half of it.            *)
(***************************************************************************)
IsQuorum(voters, conf) ==
    2 * Cardinality(voters \cap conf) > Cardinality(conf)

JointQuorum(voters, conf, old_conf) ==
    /\ IsQuorum(voters, conf)
    /\ old_conf = {} \/ IsQuorum(voters, old_conf)
=============================================================================
