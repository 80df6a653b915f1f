---------------------------- MODULE BallotProofs ----------------------------
(***************************************************************************)
(* What the counters of Ballot count, for configurations of any size: a     *)
(* ballot is granted exactly when the peers that were found are a majority  *)
(* of the configuration, and of the old one during a joint change.          *)
(***************************************************************************)
EXTENDS Ballot, FiniteSetTheorems, TLAPS

\* A half counts correctly: the votes still missing are the majority of the
\* configuration less the peers found.
HalfCounts(half) ==
    /\ IsFiniteSet(half.peers)
    /\ half.found \subseteq half.peers
    /\ half.quorum = (Cardinality(half.peers) \div 2) + 1 - Cardinality(half.found)

\* Ballot::init starts with a correct count.
LEMMA HalfInit ==
    ASSUME NEW peers, IsFiniteSet(peers)
    PROVE  HalfCounts(Half(peers))
  <1>1. Cardinality({}) = 0
    BY FS_EmptySet
  <1>2. Cardinality(peers) \in Nat
    BY FS_CardinalityType
  <1> QED
    BY <1>1, <1>2 DEF HalfCounts, Half

\* Ballot::grant keeps the count correct, whoever votes and however often.
LEMMA HalfGrant ==
    ASSUME NEW half, HalfCounts(half), NEW peer,
           half = [peers |-> half.peers, found |-> half.found, quorum |-> half.quorum]
    PROVE  /\ HalfCounts(GrantHalf(half, peer))
           /\ GrantHalf(half, peer).peers = half.peers
           /\ GrantHalf(half, peer).found = half.found \cup ({peer} \cap half.peers)
  <1>1. CASE peer \in half.peers \ half.found
    <2>1. GrantHalf(half, peer) = [peers |-> half.peers, found |-> half.found \cup {peer},
                                   quorum |-> half.quorum - 1]
      BY <1>1 DEF GrantHalf
    <2>2. IsFiniteSet(half.found)
      BY FS_Subset DEF HalfCounts
    <2>3. Cardinality(half.found \cup {peer}) = Cardinality(half.found) + 1
      BY <1>1, <2>2, FS_AddElement
    <2>4. Cardinality(half.found) \in Nat /\ Cardinality(half.peers) \in Nat
      BY <2>2, FS_CardinalityType DEF HalfCounts
    <2> QED
      BY <1>1, <2>1, <2>3, <2>4 DEF HalfCounts
  <1>2. CASE peer \notin half.peers \ half.found
    BY <1>2 DEF GrantHalf, HalfCounts
  <1> QED
    BY <1>1, <1>2

\* So does granting for a set of voters at once.
LEMMA HalfGrantAll ==
    ASSUME NEW half, HalfCounts(half), NEW voters,
           half = [peers |-> half.peers, found |-> half.found, quorum |-> half.quorum]
    PROVE  /\ HalfCounts(GrantAllHalf(half, voters))
           /\ GrantAllHalf(half, voters).peers = half.peers
           /\ GrantAllHalf(half, voters).found = half.found \cup (voters \cap half.peers)
  <1>1. PICK new : new = (voters \cap half.peers) \ half.found
    OBVIOUS
  <1>2. PICK count : count = Cardinality(new)
    OBVIOUS
  <1>3. GrantAllHalf(half, voters) = [half EXCEPT !.found = @ \cup new, !.quorum = @ - count]
    BY <1>1, <1>2 DEF GrantAllHalf
  <1>4. GrantAllHalf(half, voters) = [peers |-> half.peers, found |-> half.found \cup new,
                                      quorum |-> half.quorum - count]
    BY <1>3
  <1>5. IsFiniteSet(half.found) /\ IsFiniteSet(new)
    BY <1>1, FS_Subset DEF HalfCounts
  <1>6. /\ Cardinality(half.found) \in Nat
        /\ Cardinality(half.peers) \in Nat
        /\ count \in Nat
    BY <1>2, <1>5, FS_CardinalityType DEF HalfCounts
  <1>7. Cardinality(half.found \cup new) = Cardinality(half.found) + count
    <2>1. half.found \cap new = {} /\ Cardinality({}) = 0
      BY <1>1, FS_EmptySet
    <2>2. Cardinality(half.found \cup new) =
             Cardinality(half.found) + count - Cardinality(half.found \cap new)
      BY <1>2, <1>5, FS_Union
    <2> QED
      BY <1>6, <2>1, <2>2
  <1>8. half.found \cup new = half.found \cup (voters \cap half.peers)
    BY <1>1
  <1>9. HalfCounts(GrantAllHalf(half, voters))
    BY <1>1, <1>4, <1>6, <1>7 DEF HalfCounts
  <1> QED
    BY <1>4, <1>8, <1>9

\* Granting keeps the type of a ballot.
LEMMA GrantType ==
    ASSUME NEW peers, NEW ballot \in BallotType(peers), NEW peer \in peers
    PROVE  Grant(ballot, peer) \in BallotType(peers)
  <1>1. ASSUME NEW half \in BallotHalf(peers)
        PROVE  GrantHalf(half, peer) \in BallotHalf(peers)
    <2>1. half.found \cup {peer} \in SUBSET peers /\ half.quorum - 1 \in Int
      BY DEF BallotHalf
    <2>2. [half EXCEPT !.found = @ \cup {peer}, !.quorum = @ - 1] \in BallotHalf(peers)
      BY <2>1 DEF BallotHalf
    <2> QED
      BY <2>2 DEF GrantHalf
  <1> QED
    BY <1>1 DEF Grant, BallotType

\* The grants of a set of peers keep the types of the counters.
LEMMA GrantAllType ==
    ASSUME NEW peers, IsFiniteSet(peers), NEW ballot \in BallotType(peers),
           NEW voters \in SUBSET peers
    PROVE  GrantAll(ballot, voters) \in BallotType(peers)
  <1>1. ASSUME NEW half \in BallotHalf(peers)
        PROVE  GrantAllHalf(half, voters) \in BallotHalf(peers)
    <2>1. PICK new \in SUBSET peers : new = (voters \cap half.peers) \ half.found
      OBVIOUS
    <2>2. Cardinality(new) \in Nat
      BY FS_Subset, FS_CardinalityType
    <2>3. half.found \cup new \in SUBSET peers /\ half.quorum - Cardinality(new) \in Int
      BY <2>2 DEF BallotHalf
    <2>4. [half EXCEPT !.found = @ \cup new, !.quorum = @ - Cardinality(new)]
              \in BallotHalf(peers)
      BY <2>2, <2>3 DEF BallotHalf
    <2> QED
      BY <2>1, <2>4 DEF GrantAllHalf
  <1> QED
    BY <1>1 DEF GrantAll, BallotType

\* Ballot::init gives well-typed counters.
LEMMA InitBallotType ==
    ASSUME NEW peers, IsFiniteSet(peers), NEW conf \in SUBSET peers,
           NEW old_conf \in SUBSET peers
    PROVE  InitBallot(conf, old_conf) \in BallotType(peers)
  <1>1. ASSUME NEW c \in SUBSET peers
        PROVE  Half(c) \in BallotHalf(peers)
    <2>1. Cardinality(c) \in Nat
      BY FS_Subset, FS_CardinalityType
    <2>2. (Cardinality(c) \div 2) + 1 \in Int
      BY <2>1
    <2> QED
      BY <2>2 DEF Half, BallotHalf
  <1>2. NoHalf \in BallotHalf(peers)
    BY DEF NoHalf, BallotHalf
  <1> QED
    BY <1>1, <1>2 DEF InitBallot, BallotType

\* The arithmetic of _quorum = size / 2 + 1.
LEMMA MajorityArithmetic ==
    ASSUME NEW n \in Nat, NEW m \in Nat
    PROVE  (n \div 2) + 1 - m <= 0 <=> 2 * m > n
  OBVIOUS

\* The count reaches zero exactly when a majority was found.
THEOREM CountMeansMajority ==
    ASSUME NEW half, HalfCounts(half)
    PROVE  half.quorum <= 0 <=> IsQuorum(half.found, half.peers)
  <1>1. half.found \cap half.peers = half.found
    BY DEF HalfCounts
  <1>2. Cardinality(half.found) \in Nat /\ Cardinality(half.peers) \in Nat
    BY FS_Subset, FS_CardinalityType DEF HalfCounts
  <1>3. half.quorum = (Cardinality(half.peers) \div 2) + 1 - Cardinality(half.found)
    BY DEF HalfCounts
  <1>4. half.quorum <= 0 <=> 2 * Cardinality(half.found) > Cardinality(half.peers)
    BY <1>2, <1>3, MajorityArithmetic
  <1> QED
    BY <1>1, <1>4 DEF IsQuorum
=============================================================================
