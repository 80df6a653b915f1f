--------------------------- MODULE ElectionProofs ---------------------------
(***************************************************************************)
(* The actions that give and count votes, and the theorems: the invariant  *)
(* is inductive, hence in a group of any size no term has two leaders and  *)
(* a saved vote is never replaced.                                         *)
(***************************************************************************)
EXTENDS ElectionActions

\* What a step that counts a vote for n, in memory g with meta storage u, has
\* in common whether or not the vote makes it the leader.
CountingStep(n, g, u) ==
    /\ g.state # "DOWN"
    /\ NodeAgrees(n, g, u, votes', elected)
    /\ Evolves(n, node[n], meta[n], g, u)
    /\ Lives(n, node[n], g)
    /\ meta' = [meta EXCEPT ![n] = u]
    /\ votes \subseteq votes' /\ votes' \subseteq Server \X Nat \X Server
    /\ \A v \in votes' \ votes : v[1] = n /\ u = [term |-> v[2], voted |-> v[3]]
    /\ electing' \subseteq electing
    /\ responses' \subseteq responses
    /\ \A r \in requests' \ requests :
          /\ r \in Request /\ r.from = n /\ r.to # n /\ r.version = g.vote.version
          /\ g.state = "CANDIDATE" => u = [term |-> g.term, voted |-> n]
    /\ UNCHANGED <<pre_voting, voting, timeout_now, replies, crashes, promise>>

\* The vote is counted and nothing else happens.
LEMMA CountedStep ==
    ASSUME ElectionInvariant, NEW n \in Server, NEW g \in NodeState, NEW u \in MetaState,
           CountingStep(n, g, u), node' = [node EXCEPT ![n] = g],
           UNCHANGED <<log, elected>>, aborted' \in BOOLEAN
    PROVE  StepIsRight
  <1>1. TypeOK /\ g.vote.version \in Nat
    BY Fields DEF ElectionInvariant
  <1>2. TypeOK'
    BY <1>1 DEF CountingStep, TypeOK
  <1>3. node'[n] = g /\ meta'[n] = u
    BY <1>1 DEF CountingStep, TypeOK
  <1>4. NodeStep(n) /\ Lives(n, node[n], node'[n])
    BY <1>1, <1>3 DEF NodeStep, TypeOK, CountingStep
  <1>5. \A r \in requests' \ requests : RequestKnown(r)'
    BY <1>1, <1>3 DEF CountingStep, RequestKnown, VersionKnown
  <1>6. \A v \in votes' \ votes : meta'[v[1]] = [term |-> v[2], voted |-> v[3]]
    BY <1>3 DEF CountingStep
  <1>7. /\ electing' \subseteq electing /\ responses' \subseteq responses
        /\ pre_voting' = pre_voting /\ voting' = voting
    BY DEF CountingStep
  <1> QED
    BY <1>2, <1>4, <1>5, <1>6, <1>7, StepKeeps

\* A granted ballot of a candidate holds the votes of a majority.
LEMMA GrantedMeansMajority ==
    ASSUME NEW n \in Server, NEW g \in NodeState, NEW u \in MetaState, NEW V, NEW E,
           NodeAgrees(n, g, u, V, E), g.state = "CANDIDATE", Granted(g.vote.ballot)
    PROVE  \E q \in SUBSET Conf : /\ 2 * Cardinality(q) > Cardinality(Conf)
                                  /\ \A v \in q : <<v, g.term, n>> \in V
  <1> DEFINE half == g.vote.ballot.new
             q == half.found
  <1>1. /\ half.peers = Conf /\ q \subseteq Conf
        /\ half.quorum = (Cardinality(Conf) \div 2) + 1 - Cardinality(q)
        /\ \A v \in q : <<v, g.term, n>> \in V
    BY DEF NodeAgrees
  <1>2. half.quorum <= 0
    BY DEF Granted
  <1>3. Cardinality(Conf) \in Nat /\ Cardinality(q) \in Nat
    BY <1>1, ServerAssumption, FS_Subset, FS_CardinalityType
  <1> HIDE DEF q, half
  <1>4. 2 * Cardinality(q) > Cardinality(Conf)
    BY <1>1, <1>2, <1>3, MajorityArithmetic
  <1> QED
    BY <1>1, <1>4

\* A step that ends in become_leader: the counted votes are a majority that the
\* leader is backed by.
LEMMA BecomeLeaderStep ==
    ASSUME ElectionInvariant, NEW n \in Server, NEW g \in NodeState, NEW u \in MetaState,
           CountingStep(n, g, u), Granted(g.vote.ballot), become_leader(n, g)
    PROVE  StepIsRight
  <1>1. /\ TypeOK /\ node[n] \in NodeState /\ meta[n] \in MetaState /\ log[n] \in LogId
        /\ g.term \in Nat /\ g.vote.version \in Nat /\ u.term \in Nat
    BY NodeTypes, Fields DEF ElectionInvariant, MetaState
  <1>2. CASE g.state # "CANDIDATE"
    <2>1. node' = [node EXCEPT ![n] = g] /\ UNCHANGED <<log, elected>> /\ aborted' \in BOOLEAN
      BY <1>2 DEF become_leader
    <2> QED
      BY <2>1, CountedStep
  <1>3. CASE g.state = "CANDIDATE"
    <2>1. PICK last : last = [term |-> g.term, index |-> log[n].index + 1]
      OBVIOUS
    <2>2. last \in LogId
      BY <1>1, <2>1 DEF LogId
    <2>3. PICK t : t = BecomeLeader(g, n)
      OBVIOUS
    <2>4. /\ t \in NodeState
          /\ t.state = "LEADER" /\ t.term = g.term /\ t.voted = g.voted /\ t.leader = n
          /\ t.vote.version = g.vote.version + 1
      BY <2>3, BecomeLeaderFacts
    <2>5. PICK e : e = [term |-> g.term, leader |-> n, log |-> last]
      OBVIOUS
    <2>6. /\ node' = [node EXCEPT ![n] = t]
          /\ log' = [log EXCEPT ![n] = last]
          /\ elected' = elected \cup {e}
          /\ aborted' = aborted
      BY <1>3, <2>1, <2>3, <2>5 DEF become_leader
    <2>7. e \in [term : Nat, leader : Server, log : LogId]
      BY <1>1, <2>2, <2>5
    <2>8. TypeOK'
      <3>1. requests' \subseteq Request /\ responses' \subseteq Response
        BY <1>1 DEF CountingStep, TypeOK
      <3>2. electing' \subseteq [node : Server, term : Nat, last_log : LogId]
        BY <1>1 DEF CountingStep, TypeOK
      <3>3. /\ node' \in [Server -> NodeState] /\ meta' \in [Server -> MetaState]
            /\ log' \in [Server -> LogId]
            /\ elected' \subseteq [term : Nat, leader : Server, log : LogId]
        BY <1>1, <2>2, <2>4, <2>6, <2>7 DEF CountingStep, TypeOK
      <3> QED
        BY <1>1, <2>6, <3>1, <3>2, <3>3 DEF CountingStep, TypeOK
    <2>9. node'[n] = t /\ meta'[n] = u
      BY <1>1, <2>6 DEF CountingStep, TypeOK
    <2>10. NodeAgrees(n, t, u, votes', elected')
      BY <2>4, <2>5, <2>6 DEF NodeAgrees, CountingStep
    <2>11. Evolves(n, node[n], meta[n], t, u) /\ Lives(n, node[n], t)
      <3>1. Evolves(n, g, u, t, u) /\ Lives(n, g, t)
        BY <1>1, <2>4 DEF Evolves, Lives
      <3> QED
        BY <1>1, <2>4, <3>1, EvolvesTransitively DEF CountingStep
    <2>12. NodeStep(n) /\ Lives(n, node[n], node'[n])
      BY <1>1, <2>6, <2>9, <2>10, <2>11 DEF NodeStep, TypeOK, CountingStep
    <2>13. LeaderBacked(e)'
      <3>1. \E q \in SUBSET Conf : /\ 2 * Cardinality(q) > Cardinality(Conf)
                                   /\ \A v \in q : <<v, g.term, n>> \in votes'
        BY <1>3, GrantedMeansMajority DEF CountingStep
      <3> QED
        BY <2>5, <3>1 DEF LeaderBacked
    <2>14. \A r \in requests' \ requests : RequestKnown(r)'
      BY <1>1, <2>4, <2>9 DEF CountingStep, RequestKnown, VersionKnown
    <2>15. \A v \in votes' \ votes : meta'[v[1]] = [term |-> v[2], voted |-> v[3]]
      BY <2>9 DEF CountingStep
    <2>16. /\ electing' \subseteq electing /\ responses' \subseteq responses
           /\ pre_voting' = pre_voting /\ voting' = voting
      BY DEF CountingStep
    <2> QED
      BY <2>6, <2>8, <2>12, <2>13, <2>14, <2>15, <2>16, StepKeeps
  <1> QED
    BY <1>2, <1>3

\* A change of _vote_ctx alone, within its version
LEMMA VoteCtxType ==
    ASSUME NEW s \in NodeState, NEW v \in VoteCtx, NEW t, t = [s EXCEPT !.vote = v]
    PROVE  /\ t \in NodeState
           /\ t.state = s.state /\ t.term = s.term /\ t.voted = s.voted /\ t.leader = s.leader
           /\ t.last_leader = s.last_leader /\ t.lease = s.lease
           /\ t.vote = v
  BY DEF NodeState

\* The ballot of a candidate counts right.
BallotAgrees(ballot) ==
    /\ ballot.new.peers = Conf
    /\ ballot.new.found \subseteq Conf
    /\ ballot.new.quorum = (Cardinality(Conf) \div 2) + 1 - Cardinality(ballot.new.found)

\* Votes that are counted together keep the ballot in line with the votes.
LEMMA BallotGrantAll ==
    ASSUME NEW b \in BallotType(Server), NEW voters \in SUBSET Server, NEW c,
           c = GrantAll(b, voters)
    PROVE  /\ c \in BallotType(Server)
           /\ BallotAgrees(b) => /\ BallotAgrees(c)
                                 /\ c.new.found \subseteq b.new.found \cup voters
  <1>1. c \in BallotType(Server)
    BY GrantAllType, ServerAssumption
  <1>2. ASSUME BallotAgrees(b)
        PROVE  BallotAgrees(c) /\ c.new.found \subseteq b.new.found \cup voters
    <2>1. IsFiniteSet(Conf)
      BY ServerAssumption, FS_Subset
    <2>2. HalfCounts(b.new)
      BY <1>2, <2>1 DEF HalfCounts, BallotAgrees
    <2>3. b.new \in [peers : SUBSET Server, found : SUBSET Server, quorum : Int]
      BY DEF BallotType, BallotHalf
    <2>4. b.new = [peers |-> b.new.peers, found |-> b.new.found, quorum |-> b.new.quorum]
      BY <2>3
    <2>5. /\ HalfCounts(GrantAllHalf(b.new, voters))
          /\ GrantAllHalf(b.new, voters).peers = b.new.peers
          /\ GrantAllHalf(b.new, voters).found = b.new.found \cup (voters \cap b.new.peers)
      BY <2>2, <2>4, HalfGrantAll
    <2>6. c.new = GrantAllHalf(b.new, voters)
      BY DEF GrantAll
    <2> QED
      BY <1>2, <2>5, <2>6 DEF HalfCounts, BallotAgrees
  <1> QED
    BY <1>1, <1>2

\* A vote that is counted keeps the ballot in line with the votes.
LEMMA BallotGrant ==
    ASSUME NEW b \in BallotType(Server), NEW n \in Server, NEW c, c = Grant(b, n)
    PROVE  /\ c \in BallotType(Server)
           /\ BallotAgrees(b) => /\ BallotAgrees(c)
                                 /\ c.new.found \subseteq b.new.found \cup {n}
  <1>1. c \in BallotType(Server)
    BY GrantType
  <1>2. ASSUME BallotAgrees(b)
        PROVE  BallotAgrees(c) /\ c.new.found \subseteq b.new.found \cup {n}
    <2>1. IsFiniteSet(Conf)
      BY ServerAssumption, FS_Subset
    <2>2. HalfCounts(b.new)
      BY <1>2, <2>1 DEF HalfCounts, BallotAgrees
    <2>3. b.new \in [peers : SUBSET Server, found : SUBSET Server, quorum : Int]
      BY DEF BallotType, BallotHalf
    <2>4. b.new = [peers |-> b.new.peers, found |-> b.new.found, quorum |-> b.new.quorum]
      BY <2>3
    <2>5. /\ HalfCounts(GrantHalf(b.new, n))
          /\ GrantHalf(b.new, n).peers = b.new.peers
          /\ GrantHalf(b.new, n).found = b.new.found \cup ({n} \cap b.new.peers)
      BY <2>2, <2>4, HalfGrant
    <2>6. c.new = GrantHalf(b.new, n)
      BY DEF Grant
    <2> QED
      BY <1>2, <2>5, <2>6 DEF HalfCounts, BallotAgrees
  <1> QED
    BY <1>1, <1>2

\* From memory s to t, |voters| are counted in _vote_ctx; a candidate has their
\* votes, which W adds to V.
Counts(n, s, t, V, W, voters) ==
    /\ t.state = s.state /\ t.term = s.term /\ t.voted = s.voted /\ t.leader = s.leader
    /\ t.vote.version = s.vote.version /\ (t.vote.armed => s.vote.armed)
    /\ BallotAgrees(s.vote.ballot) => /\ BallotAgrees(t.vote.ballot)
                                      /\ t.vote.ballot.new.found \subseteq
                                            s.vote.ballot.new.found \cup voters
    /\ V \subseteq W
    /\ s.state = "CANDIDATE" => \A v \in voters : <<v, s.term, n>> \in W

\* Counting voters keeps a node in agreement.
LEMMA CountingAgrees ==
    ASSUME NEW n \in Server, NEW s \in NodeState, NEW m \in MetaState, NEW V, NEW W, NEW E,
           NodeAgrees(n, s, m, V, E), NEW voters, NEW t \in NodeState,
           Counts(n, s, t, V, W, voters)
    PROVE  /\ NodeAgrees(n, t, m, W, E)
           /\ Evolves(n, s, m, t, m)
           /\ Lives(n, s, t)
  <1> USE DEF Counts
  <1>1. s.term \in Nat /\ s.vote.version \in Nat /\ m.term \in Nat
    BY Fields DEF MetaState
  <1>2. NodeAgrees(n, t, m, W, E)
    <2>1. ASSUME s.state = "CANDIDATE"
          PROVE  /\ BallotAgrees(t.vote.ballot)
                 /\ \A v \in t.vote.ballot.new.found : <<v, t.term, n>> \in W
      <3>1. BallotAgrees(s.vote.ballot) /\ \A v \in s.vote.ballot.new.found : <<v, s.term, n>> \in V
        BY <2>1 DEF NodeAgrees, BallotAgrees
      <3> QED
        BY <2>1, <3>1
    <2>2. s.state = "CANDIDATE" => (t.vote.armed => m = [term |-> t.term, voted |-> n])
      BY DEF NodeAgrees
    <2> QED
      BY <2>1, <2>2 DEF NodeAgrees, BallotAgrees
  <1> QED
    BY <1>1, <1>2 DEF Evolves, Lives

\* grant_self_vote of n, which has reached memory s and meta storage u; its
\* vote is saved if it is a candidate.
LEMMA GrantSelfVoteStep ==
    ASSUME ElectionInvariant, NEW n \in Server, NEW s \in NodeState, NEW u \in MetaState,
           s.state # "DOWN", NodeAgrees(n, s, u, votes, elected),
           Evolves(n, node[n], meta[n], s, u), Lives(n, node[n], s),
           s.state = "CANDIDATE" => u = [term |-> s.term, voted |-> n],
           grant_self_vote(n, s), meta' = [meta EXCEPT ![n] = u],
           electing' \subseteq electing,
           \A r \in requests' \ requests :
              r \in Request /\ r.from = n /\ r.to # n /\ r.version = s.vote.version,
           UNCHANGED <<pre_voting, voting, responses, timeout_now, replies, crashes, promise>>
    PROVE  StepIsRight
  <1>1. /\ TypeOK /\ node[n] \in NodeState /\ meta[n] \in MetaState
        /\ s.term \in Nat /\ s.vote \in VoteCtx /\ s.vote.ballot \in BallotType(Server)
        /\ s.vote.version \in Nat
        /\ votes \subseteq Server \X Nat \X Server /\ aborted \in BOOLEAN
    BY NodeTypes, Fields DEF ElectionInvariant, TypeOK
  <1>2. CASE ~Votable(s)
    <2>1. PICK v \in VoteCtx : v = [s.vote EXCEPT !.armed = TRUE]
      BY <1>1 DEF VoteCtx
    <2>2. v.version = s.vote.version /\ v.ballot = s.vote.ballot
      BY <1>1, <2>1 DEF VoteCtx
    <2>3. PICK t : t = [s EXCEPT !.vote = v]
      OBVIOUS
    <2>4. /\ t \in NodeState
          /\ t.state = s.state /\ t.term = s.term /\ t.voted = s.voted /\ t.leader = s.leader
          /\ t.vote = v
      BY <2>3, VoteCtxType
    <2>5. /\ node' = [node EXCEPT ![n] = t]
          /\ UNCHANGED <<log, elected, aborted, votes>>
      BY <1>2, <2>1, <2>3 DEF grant_self_vote
    <2>6. NodeAgrees(n, t, u, votes, elected)
      BY <2>2, <2>4 DEF NodeAgrees
    <2>7. Evolves(n, s, u, t, u) /\ Lives(n, s, t)
      BY SMTT(60), <1>1, <2>2, <2>4 DEF Evolves, Lives, MetaState
    <2>8. Evolves(n, node[n], meta[n], t, u) /\ Lives(n, node[n], t)
      BY <1>1, <2>4, <2>7, EvolvesTransitively
    <2>9. CountingStep(n, t, u)
      BY <1>1, <2>2, <2>4, <2>5, <2>6, <2>8 DEF CountingStep
    <2> QED
      BY <1>1, <2>4, <2>5, <2>9, CountedStep
  <1>3. CASE Votable(s)
    <2>1. PICK ballot : ballot = Grant(s.vote.ballot, n)
      OBVIOUS
    <2>2. /\ ballot \in BallotType(Server)
          /\ BallotAgrees(s.vote.ballot) => /\ BallotAgrees(ballot)
                                            /\ ballot.new.found \subseteq
                                                  s.vote.ballot.new.found \cup {n}
      BY SMTT(60), <1>1, <2>1, BallotGrant
    <2>3. PICK v \in VoteCtx : v = [s.vote EXCEPT !.ballot = ballot]
      BY <1>1, <2>2 DEF VoteCtx
    <2>4. v.version = s.vote.version /\ v.ballot = ballot /\ (v.armed => s.vote.armed)
      BY <1>1, <2>3 DEF VoteCtx
    <2>5. PICK g : g = [s EXCEPT !.vote = v]
      OBVIOUS
    <2>6. /\ g \in NodeState
          /\ g.state = s.state /\ g.term = s.term /\ g.voted = s.voted /\ g.leader = s.leader
          /\ g.vote = v
      BY <2>5, VoteCtxType
    <2>7. /\ vote_granted(n, g)
          /\ votes' = IF s.state = "CANDIDATE" THEN votes \cup {<<n, s.term, n>>} ELSE votes
      BY <1>3, <2>1, <2>3, <2>5 DEF grant_self_vote
    <2>8. /\ NodeAgrees(n, g, u, votes', elected)
          /\ Evolves(n, s, u, g, u)
          /\ Lives(n, s, g)
      <3>1. Counts(n, s, g, votes, votes', {n})
        BY <2>2, <2>4, <2>6, <2>7 DEF Counts
      <3> QED
        BY <2>6, <3>1, CountingAgrees
    <2>9. Evolves(n, node[n], meta[n], g, u) /\ Lives(n, node[n], g)
      BY <1>1, <2>6, <2>8, EvolvesTransitively
    <2>10. CountingStep(n, g, u)
      <3>1. /\ votes \subseteq votes' /\ votes' \subseteq Server \X Nat \X Server
            /\ \A w \in votes' \ votes : w[1] = n /\ u = [term |-> w[2], voted |-> w[3]]
        <4>1. votes \subseteq Server \X Nat \X Server /\ s.term \in Nat
          BY <1>1
        <4>2. PICK w : w = <<n, s.term, n>>
          OBVIOUS
        <4>3. w \in Server \X Nat \X Server /\ w[1] = n /\ w[2] = s.term /\ w[3] = n
          BY <4>1, <4>2
        <4>4. \/ votes' = votes
              \/ votes' = votes \cup {w} /\ u = [term |-> w[2], voted |-> w[3]]
          <5>1. CASE s.state = "CANDIDATE"
            <6>1. votes' = votes \cup {w}
              BY <2>7, <4>2, <5>1
            <6>2. u = [term |-> w[2], voted |-> w[3]]
              BY <4>3, <5>1
            <6> QED
              BY <6>1, <6>2
          <5>2. CASE s.state # "CANDIDATE"
            BY <2>7, <5>2
          <5> QED
            BY <5>1, <5>2
        <4> QED
          BY <4>1, <4>3, <4>4
      <3> QED
        BY <2>4, <2>6, <2>8, <2>9, <3>1 DEF CountingStep
    <2>11. \/ Granted(g.vote.ballot) /\ become_leader(n, g)
           \/ node' = [node EXCEPT ![n] = g] /\ UNCHANGED <<log, elected, aborted>>
      BY <2>7 DEF vote_granted
    <2> QED
      BY <1>1, <2>6, <2>10, <2>11, BecomeLeaderStep, CountedStep
  <1> QED
    BY <1>2, <1>3

\* handle_grant_self_timedout of a candidacy: the own vote counts once the lease
\* it waited for is over.
LEMMA HandleGrantSelfTimedoutVoteKeeps ==
    ASSUME ElectionInvariant, NEW n \in Server, handle_grant_self_timedout_vote(n)
    PROVE  StepIsRight
  <1>1. /\ TypeOK /\ node[n] \in NodeState /\ meta[n] \in MetaState
        /\ NodeAgrees(n, node[n], meta[n], votes, elected)
        /\ node[n].vote \in VoteCtx /\ node[n].vote.version \in Nat /\ node[n].term \in Nat
    BY NodeTypes, Fields DEF ElectionInvariant
  <1>2. node[n].state # "DOWN" /\ node[n].vote.armed
    BY DEF handle_grant_self_timedout_vote, Active, Leading
  <1>3. PICK v \in VoteCtx : v = [node[n].vote EXCEPT !.armed = FALSE]
    BY <1>1 DEF VoteCtx
  <1>4. v.version = node[n].vote.version /\ v.ballot = node[n].vote.ballot /\ ~v.armed
    BY <1>1, <1>3 DEF VoteCtx
  <1>5. PICK s : s = [node[n] EXCEPT !.vote = v]
    OBVIOUS
  <1>6. /\ s \in NodeState
        /\ s.state = node[n].state /\ s.term = node[n].term /\ s.voted = node[n].voted
        /\ s.leader = node[n].leader /\ s.vote = v
    BY <1>1, <1>5, VoteCtxType
  <1>7. NodeAgrees(n, s, meta[n], votes, elected)
    BY <1>1, <1>4, <1>6 DEF NodeAgrees
  <1>8. s.state = "CANDIDATE" => meta[n] = [term |-> s.term, voted |-> n]
    BY <1>1, <1>2, <1>6 DEF NodeAgrees
  <1>9. Evolves(n, node[n], meta[n], s, meta[n]) /\ Lives(n, node[n], s)
    BY SMTT(60), <1>1, <1>4, <1>6 DEF Evolves, Lives, MetaState
  <1>10. grant_self_vote(n, s)
    BY <1>3, <1>5 DEF handle_grant_self_timedout_vote
  <1>11. /\ meta' = meta /\ requests' = requests /\ electing' = electing
         /\ UNCHANGED <<pre_voting, voting, responses, timeout_now, replies, crashes, promise>>
    BY DEF handle_grant_self_timedout_vote, calls, wire
  <1>12. meta' = [meta EXCEPT ![n] = meta[n]]
    BY <1>1, <1>11 DEF TypeOK
  <1> QED
    BY <1>1, <1>2, <1>6, <1>7, <1>8, <1>9, <1>10, <1>11, <1>12, GrantSelfVoteStep

\* The requests are well formed, of this node and of this version.
Carry(n, version, sent) ==
    \A r \in sent : r \in Request /\ r.from = n /\ r.to # n /\ r.version = version

\* The requests of a candidate are well formed and carry its version.
LEMMA RequestsAreKnown ==
    ASSUME NEW n \in Server, NEW ctx \in VoteCtx, NEW term \in Nat, NEW peers \in SUBSET Server
    PROVE  Carry(n, ctx.version, RequestsOf(n, ctx, term, peers))
  <1>1. ctx.version \in Nat /\ ctx.last_log \in LogId /\ ctx.disrupted \in Disrupted
    BY DEF VoteCtx
  <1>2. PICK d \in Disrupted : d = IF ctx.disrupted.peer = Nil THEN NoLeader ELSE ctx.disrupted
    <2>1. NoLeader \in Disrupted
      BY DEF NoLeader, Disrupted, Peer
    <2> QED
      BY <1>1, <2>1
  <1>3. ASSUME NEW p \in peers \ {n}, NEW r,
               r = [from |-> n, to |-> p, term |-> term, version |-> ctx.version,
                    last_log |-> ctx.last_log, disrupted |-> d]
        PROVE  r \in Request /\ r.from = n /\ r.to # n /\ r.version = ctx.version
    BY <1>1, <1>3 DEF Request
  <1> QED
    BY <1>2, <1>3 DEF Carry, RequestsOf

\* elect_self after the lock is taken again, when the vote can be saved
LEMMA ElectSelfFlushedKeeps ==
    ASSUME ElectionInvariant, "elect_self" \notin MetaFailures,
           NEW c \in electing, elect_self_flushed(c)
    PROVE  StepIsRight
  <1>1. PICK n : n = c.node
    OBVIOUS
  <1>2. /\ TypeOK /\ n \in Server /\ node[n] \in NodeState /\ meta[n] \in MetaState
        /\ c.last_log \in LogId /\ log[n] \in LogId
        /\ NodeAgrees(n, node[n], meta[n], votes, elected)
    BY <1>1 DEF ElectionInvariant, TypeOK
  <1>3. /\ node[n].term \in Nat /\ node[n].vote \in VoteCtx /\ meta[n].term \in Nat
        /\ node[n].vote.version \in Nat
    BY <1>2, Fields DEF MetaState
  <1>4. node[n].state # "DOWN" /\ (node[n].term = c.term => node[n].voted = n)
    BY <1>1 DEF ElectionInvariant, ElectingKnown
  <1>5. /\ electing' \subseteq electing
        /\ UNCHANGED <<pre_voting, voting, responses, timeout_now, replies, crashes, promise>>
    BY DEF elect_self_flushed
  <1>6. CASE node[n].term # c.term
    <2>1. UNCHANGED <<node, meta, log, requests, elected, votes, aborted>>
      BY <1>1, <1>6 DEF elect_self_flushed
    <2>2. TypeOK'
      BY <1>2, <1>5, <2>1 DEF TypeOK
    <2>3. NodeStep(n) /\ Lives(n, node[n], node'[n])
      BY <1>2, <2>1, EvolvesTrivially DEF NodeStep
    <2> QED
      BY <1>2, <1>5, <2>1, <2>2, <2>3, StepKeeps
  <1>7. CASE node[n].term = c.term
    <2>1. PICK last \in {c.last_log, log[n]} :
            \E saved \in Saved("elect_self") :
              LET t == [node[n] EXCEPT !.vote.last_log = last]
              IN /\ requests' = requests \cup RequestsOf(n, t.vote, t.term, Member)
                 /\ IF saved
                    THEN /\ meta' = [meta EXCEPT ![n] = [term |-> node[n].term, voted |-> n]]
                         /\ grant_self_vote(n, t)
                    ELSE /\ node' = [node EXCEPT ![n] = [t EXCEPT !.voted = Nil]]
                         /\ UNCHANGED <<meta, log, elected, votes, aborted>>
      BY <1>1, <1>7 DEF elect_self_flushed
    <2>2. PICK v \in VoteCtx : v = [node[n].vote EXCEPT !.last_log = last]
      BY <1>2, <1>3 DEF VoteCtx
    <2>3. v.version = node[n].vote.version /\ v.ballot = node[n].vote.ballot
      BY <1>3, <2>2 DEF VoteCtx
    <2>4. PICK t : t = [node[n] EXCEPT !.vote = v]
      OBVIOUS
    <2>5. /\ t \in NodeState
          /\ t.state = node[n].state /\ t.term = node[n].term /\ t.voted = node[n].voted
          /\ t.leader = node[n].leader /\ t.vote = v
      BY <1>2, <2>4, VoteCtxType
    <2>6. PICK u \in MetaState : u = [term |-> node[n].term, voted |-> n]
      BY <1>2, <1>3 DEF MetaState, Peer
    <2>7. /\ requests' = requests \cup RequestsOf(n, v, t.term, Member)
          /\ meta' = [meta EXCEPT ![n] = u]
          /\ grant_self_vote(n, t)
      <3>1. t = [node[n] EXCEPT !.vote.last_log = last]
        BY <2>2, <2>4
      <3>2. Saved("elect_self") = {TRUE}
        BY DEF Saved
      <3> QED
        BY <2>1, <2>5, <2>6, <3>1, <3>2
    <2>8. NodeAgrees(n, t, u, votes, elected)
      <3>1. u.term = t.term /\ u.voted = n /\ t.voted = n /\ t.term \in Nat
        BY <1>3, <1>4, <1>7, <2>5, <2>6
      <3>2. u = [term |-> t.term, voted |-> n]
        BY <2>5, <2>6
      <3>3. /\ u.term <= t.term
            /\ u.term = t.term => u.voted = t.voted
            /\ t.voted \notin {Nil, n} => u.term = t.term
        BY <3>1
      <3>4. t.vote.ballot = node[n].vote.ballot
        BY <2>3, <2>5
      <3>5. t.state = "CANDIDATE" =>
              /\ t.vote.ballot.new.peers = Conf
              /\ t.vote.ballot.new.found \subseteq Conf
              /\ t.vote.ballot.new.quorum =
                    (Cardinality(Conf) \div 2) + 1 - Cardinality(t.vote.ballot.new.found)
              /\ \A w \in t.vote.ballot.new.found : <<w, t.term, n>> \in votes
        BY <1>2, <2>5, <3>4 DEF NodeAgrees
      <3>6. t.leader # Nil => \E e \in elected : e.term = t.term /\ e.leader = t.leader
        BY <1>2, <2>5 DEF NodeAgrees
      <3> QED
        BY <3>2, <3>3, <3>5, <3>6 DEF NodeAgrees
    <2>9. Evolves(n, node[n], meta[n], t, u) /\ Lives(n, node[n], t)
      <3>1. u.term = node[n].term /\ u.voted = n /\ node[n].voted = n
        BY <1>4, <1>7, <2>6
      <3>2. /\ meta[n].term <= node[n].term
            /\ meta[n].term = node[n].term => meta[n].voted = node[n].voted
        BY <1>2, <1>4 DEF NodeAgrees
      <3>3. meta[n] = [term |-> node[n].term, voted |-> n] => u = meta[n]
        BY <2>6
      <3>4. t.vote.version = node[n].vote.version
        BY <2>3, <2>5
      <3>5. t.vote.version >= node[n].vote.version /\ u.term >= meta[n].term
        BY <1>3, <3>1, <3>2, <3>4
      <3>6. Evolves(n, node[n], meta[n], t, u)
        BY <2>5, <3>1, <3>2, <3>3, <3>5 DEF Evolves
      <3>7. Lives(n, node[n], t)
        BY <1>3, <2>5 DEF Lives
      <3> QED
        BY <3>6, <3>7
    <2>10. \A r \in requests' \ requests :
              r \in Request /\ r.from = n /\ r.to # n /\ r.version = t.vote.version
      <3>1. Member \in SUBSET Server
        BY ServerAssumption DEF Member
      <3>2. t.term \in Nat /\ t.vote.version = v.version
        BY <1>2, <1>3, <2>5
      <3>3. Carry(n, v.version, RequestsOf(n, v, t.term, Member))
        BY <1>2, <3>1, <3>2, RequestsAreKnown
      <3>4. \A r \in requests' \ requests : r \in RequestsOf(n, v, t.term, Member)
        BY <2>7
      <3> QED
        BY <3>2, <3>3, <3>4 DEF Carry
    <2> QED
      BY <1>2, <1>4, <1>5, <2>5, <2>6, <2>7, <2>8, <2>9, <2>10, GrantSelfVoteStep
  <1> QED
    BY <1>6, <1>7

\* elect_self that is cut off after its requests left
LEMMA ElectSelfDiesKeeps ==
    ASSUME ElectionInvariant, NEW c \in electing, elect_self_dies(c)
    PROVE  StepIsRight
  <1>1. PICK n : n = c.node
    OBVIOUS
  <1>2. TypeOK /\ n \in Server /\ c.last_log \in LogId /\ log[n] \in LogId
    BY <1>1 DEF ElectionInvariant, TypeOK
  <1>3. node[n].term \in Nat /\ node[n].vote \in VoteCtx
    BY <1>2, NodeTypes, Fields
  <1>4. PICK last \in {c.last_log, log[n]} : requests' = requests \cup
            RequestsOf(n, [node[n].vote EXCEPT !.last_log = last], node[n].term, Member)
    BY <1>1 DEF elect_self_dies
  <1>5. PICK v \in VoteCtx : v = [node[n].vote EXCEPT !.last_log = last]
    BY <1>2, <1>3 DEF VoteCtx
  <1>6. v.version = node[n].vote.version
    BY <1>3, <1>5 DEF VoteCtx
  <1>7. Carry(n, v.version, RequestsOf(n, v, node[n].term, Member))
    <2>1. Member \in SUBSET Server
      BY ServerAssumption DEF Member
    <2> QED
      BY <1>2, <1>3, <2>1, RequestsAreKnown
  <1>8. \A r \in requests' \ requests :
            r \in Request /\ r.from = n /\ r.to # n /\ r.version = node[n].vote.version
    BY <1>4, <1>5, <1>6, <1>7 DEF Carry
  <1>9. /\ dies(n)
        /\ UNCHANGED <<meta, log, responses, timeout_now, elected, votes, promise, aborted>>
    BY <1>1 DEF elect_self_dies, history
  <1> QED
    BY <1>2, <1>8, <1>9, DiesKeeps

-----------------------------------------------------------------------------
(* Answering requests                                                      *)

\* What answer adds to the responses and the votes
LEMMA AnswerFacts ==
    ASSUME NEW r \in Request, NEW s \in NodeState, NEW disrupted \in BOOLEAN,
           NEW previous_term \in Nat, NEW rejected_by_lease \in BOOLEAN,
           responses \subseteq Response, votes \subseteq Server \X Nat \X Server,
           answer(r, s, disrupted, previous_term, rejected_by_lease)
    PROVE  /\ responses' \subseteq Response
           /\ \A a \in responses' \ responses :
                 /\ a.to = r.from /\ a.version = r.version
                 /\ a.granted => <<a.peer, a.asked, a.to>> \in votes'
           /\ votes \subseteq votes' /\ votes' \subseteq Server \X Nat \X Server
           /\ \A v \in votes' \ votes :
                 v = <<r.to, r.term, r.from>> /\ r.term = s.term /\ s.voted = r.from
  <1>1. /\ r.from \in Server /\ r.to \in Server /\ r.term \in Nat /\ r.version \in Nat
        /\ s.term \in Nat
    BY Fields DEF Request
  <1>2. PICK granted \in BOOLEAN : granted = (r.term = s.term /\ s.voted = r.from)
    OBVIOUS
  <1>3. PICK a : a = [peer |-> r.to, to |-> r.from, asked |-> r.term, version |-> r.version,
                      term |-> s.term, granted |-> granted,
                      rejected_by_lease |-> rejected_by_lease,
                      disrupted |-> disrupted, previous_term |-> previous_term]
    OBVIOUS
  <1>4. a \in Response
    BY <1>1, <1>3 DEF Response
  <1>5. /\ a.to = r.from /\ a.version = r.version /\ a.peer = r.to /\ a.asked = r.term
        /\ a.granted = granted
    BY <1>3
  <1>6. /\ responses' = responses \/ responses' = responses \cup {a}
        /\ votes' = IF granted THEN votes \cup {<<r.to, r.term, r.from>>} ELSE votes
    BY <1>2, <1>3 DEF answer, granted_to
  <1>7. <<r.to, r.term, r.from>> \in Server \X Nat \X Server
    BY <1>1
  <1>8. a.granted => <<a.peer, a.asked, a.to>> \in votes'
    BY <1>5, <1>6
  <1> QED
    BY <1>2, <1>4, <1>5, <1>6, <1>7, <1>8

\* A node answers a request in the state t it has reached.
LEMMA AnswerStep ==
    ASSUME ElectionInvariant, NEW n \in Server, NEW t \in NodeState, NEW u \in MetaState,
           NodeAgrees(n, t, u, votes, elected), Evolves(n, node[n], meta[n], t, u),
           Lives(n, node[n], t), t.state # "DOWN",
           node' = [node EXCEPT ![n] = t], meta' = [meta EXCEPT ![n] = u],
           NEW r \in Request, r.to = n, RequestKnown(r), NEW disrupted \in BOOLEAN,
           NEW previous_term \in Nat, NEW rejected_by_lease \in BOOLEAN,
           answer(r, t, disrupted, previous_term, rejected_by_lease),
           requests' \subseteq requests, voting' \subseteq voting,
           UNCHANGED <<log, pre_voting, electing, timeout_now, replies, crashes, elected,
                       promise, aborted>>
    PROVE  StepIsRight
  <1>1. /\ TypeOK /\ responses \subseteq Response /\ votes \subseteq Server \X Nat \X Server
    BY DEF ElectionInvariant, TypeOK
  <1>2. /\ responses' \subseteq Response
        /\ \A a \in responses' \ responses :
              /\ a.to = r.from /\ a.version = r.version
              /\ a.granted => <<a.peer, a.asked, a.to>> \in votes'
        /\ votes \subseteq votes' /\ votes' \subseteq Server \X Nat \X Server
        /\ \A v \in votes' \ votes :
              v = <<r.to, r.term, r.from>> /\ r.term = t.term /\ t.voted = r.from
    BY <1>1, AnswerFacts
  <1>3. TypeOK'
    BY <1>1, <1>2 DEF TypeOK
  <1>4. node'[n] = t /\ meta'[n] = u
    BY <1>1 DEF TypeOK
  <1>5. NodeAgrees(n, t, u, votes', elected')
    BY <1>2 DEF NodeAgrees
  <1>6. NodeStep(n) /\ Lives(n, node[n], node'[n])
    BY <1>1, <1>2, <1>4, <1>5 DEF NodeStep, TypeOK
  <1>7. RequestKnown(r)'
    BY <1>1, <1>3, <1>6, KnownStays
  <1>8. \A a \in responses' \ responses : ResponseKnown(a)'
    BY <1>2, <1>7 DEF RequestKnown, ResponseKnown
  <1>9. \A v \in votes' \ votes : meta'[v[1]] = [term |-> v[2], voted |-> v[3]]
    <2>1. r.from # n /\ r.from # Nil /\ r.from \in Server /\ r.term \in Nat
      BY ServerAssumption DEF RequestKnown, Request
    <2>2. ASSUME r.term = t.term, t.voted = r.from
          PROVE  u = [term |-> r.term, voted |-> r.from]
      <3>1. u.term = r.term /\ u.voted = r.from
        BY <2>1, <2>2 DEF NodeAgrees
      <3> QED
        BY <3>1 DEF MetaState
    <2>3. ASSUME NEW v \in votes' \ votes
          PROVE  meta'[v[1]] = [term |-> v[2], voted |-> v[3]]
      <3>1. v = <<r.to, r.term, r.from>> /\ r.term = t.term /\ t.voted = r.from
        BY <1>2
      <3>2. v[1] = n /\ v[2] = r.term /\ v[3] = r.from
        BY <3>1
      <3>3. u = [term |-> r.term, voted |-> r.from]
        BY <2>2, <3>1
      <3> QED
        BY <1>4, <3>2, <3>3
    <2> QED
      BY <2>3
  <1> QED
    BY <1>3, <1>6, <1>8, <1>9, StepKeeps

\* handle_request_vote_request up to the unlock
LEMMA HandleRequestVoteRequestKeeps ==
    ASSUME ElectionInvariant, NEW r \in requests, handle_request_vote_request(r)
    PROVE  StepIsRight
  <1>1. PICK n : n = r.to
    OBVIOUS
  <1>2. /\ TypeOK /\ r \in Request /\ n \in Server /\ RequestKnown(r)
        /\ node[n] \in NodeState /\ meta[n] \in MetaState /\ log[n] \in LogId
        /\ NodeAgrees(n, node[n], meta[n], votes, elected)
    BY <1>1 DEF ElectionInvariant, TypeOK, Request
  <1>3. node[n].lease \in BOOLEAN /\ node[n].term \in Nat /\ r.term \in Nat
    BY <1>2, Fields DEF Request
  <1>4. PICK lease \in BOOLEAN :
            lease = (/\ node[n].lease
                     /\ ~(/\ node[n].state = "FOLLOWER"
                          /\ r.disrupted = [peer |-> node[n].leader, term |-> node[n].term]))
    BY <1>3
  <1>5. PICK s : s = [node[n] EXCEPT !.lease = lease]
    OBVIOUS
  <1>6. /\ s \in NodeState
        /\ s.state = node[n].state /\ s.term = node[n].term /\ s.voted = node[n].voted
        /\ s.leader = node[n].leader /\ s.vote = node[n].vote
    BY <1>2, <1>5 DEF NodeState
  <1>7. /\ NodeAgrees(n, s, meta[n], votes, elected)
        /\ Evolves(n, node[n], meta[n], s, meta[n])
        /\ Lives(n, node[n], s)
    BY <1>2, <1>6, MinorKeeps
  <1>8. s.state # "DOWN"
    BY <1>1, <1>6 DEF handle_request_vote_request, Active, Leading
  <1>9. /\ node' = [node EXCEPT ![n] = s]
        /\ requests' = requests \ {r}
        /\ UNCHANGED <<meta, log, pre_voting, electing, timeout_now, replies, crashes, elected,
                       promise, aborted>>
    BY <1>1, <1>4, <1>5 DEF handle_request_vote_request
  <1>10. meta' = [meta EXCEPT ![n] = meta[n]]
    BY <1>2, <1>9 DEF TypeOK
  <1>11. CASE r.term < s.term
    <2>1. answer(r, s, FALSE, s.term, FALSE) /\ voting' = voting
      BY <1>1, <1>4, <1>5, <1>11 DEF handle_request_vote_request
    <2>2. s.term \in Nat /\ FALSE \in BOOLEAN
      BY <1>3, <1>6
    <2> QED
      BY <1>1, <1>2, <1>6, <1>7, <1>8, <1>9, <1>10, <2>1, <2>2, AnswerStep
  <1>12. CASE ~(r.term < s.term)
    <2>1. PICK c : c = [request |-> r, previous_term |-> s.term, last_log |-> log[n]]
      OBVIOUS
    <2>2. /\ voting' = voting \cup {c}
          /\ UNCHANGED <<responses, votes>>
      BY <1>1, <1>4, <1>5, <1>12, <2>1 DEF handle_request_vote_request
    <2>3. /\ c \in [request : Request, previous_term : Nat, last_log : LogId]
          /\ c.request = r
      BY <1>2, <1>3, <1>6, <2>1
    <2>4. TypeOK'
      BY <1>2, <1>6, <1>9, <2>2, <2>3 DEF TypeOK
    <2>5. node'[n] = s /\ meta'[n] = meta[n]
      BY <1>2, <1>9 DEF TypeOK
    <2>6. NodeStep(n) /\ Lives(n, node[n], node'[n])
      BY <1>2, <1>7, <1>9, <2>2, <2>5 DEF NodeStep, TypeOK
    <2>7. RequestKnown(r)'
      BY <1>2, <2>4, <2>6, KnownStays
    <2>8. \A d \in voting' \ voting : node'[d.request.to].state # "DOWN" /\ RequestKnown(d.request)'
      BY <1>1, <1>8, <2>2, <2>3, <2>5, <2>7
    <2> QED
      BY <1>2, <1>9, <2>2, <2>4, <2>6, <2>8, StepKeeps
  <1> QED
    BY <1>11, <1>12

\* A node that has not voted in its term saves its vote.
LEMMA VoteWriteKeeps ==
    ASSUME NEW n \in Server, NEW t \in NodeState, NEW m \in MetaState, NEW V, NEW E,
           NodeAgrees(n, t, m, V, E), t.voted = Nil, t.state \notin {"CANDIDATE", "DOWN"},
           NEW p \in Server, NEW w, w = [t EXCEPT !.voted = p],
           NEW x, x = [term |-> t.term, voted |-> p]
    PROVE  /\ w \in NodeState /\ w.state = t.state /\ x \in MetaState
           /\ NodeAgrees(n, w, x, V, E)
           /\ Evolves(n, t, m, w, x)
           /\ Lives(n, t, w)
  <1>1. t.term \in Nat /\ t.vote.version \in Nat /\ m.term \in Nat
    BY Fields DEF MetaState
  <1>2. /\ w \in NodeState
        /\ w.state = t.state /\ w.term = t.term /\ w.voted = p /\ w.leader = t.leader
        /\ w.vote = t.vote
    BY DEF NodeState, Peer
  <1>3. x \in MetaState
    BY <1>1 DEF MetaState, Peer
  <1>4. NodeAgrees(n, w, x, V, E)
    BY <1>1, <1>2 DEF NodeAgrees
  <1>5. Evolves(n, t, m, w, x) /\ Lives(n, t, w)
    BY <1>1, <1>2, ServerAssumption DEF Evolves, Lives, NodeAgrees
  <1> QED
    BY <1>2, <1>3, <1>4, <1>5

\* cast_vote, as far as it concerns the node: it steps down to the term of the
\* request, and may save its vote.
LEMMA CastVoteKeeps ==
    ASSUME ElectionInvariant, NEW n \in Server, node[n].state # "DOWN",
           NEW r \in Request, NEW log_is_ok \in BOOLEAN, cast_vote(n, r, log_is_ok)
    PROVE  \E t \in NodeState, u \in MetaState, disrupted, rejected \in BOOLEAN :
              /\ NodeAgrees(n, t, u, votes, elected)
              /\ Evolves(n, node[n], meta[n], t, u) /\ Lives(n, node[n], t)
              /\ t.state # "DOWN"
              /\ node' = [node EXCEPT ![n] = t] /\ meta' = [meta EXCEPT ![n] = u]
              /\ answer(r, t, disrupted, node[n].term, rejected)
  <1>1. /\ TypeOK /\ node[n] \in NodeState /\ meta[n] \in MetaState
        /\ NodeAgrees(n, node[n], meta[n], votes, elected)
        /\ node[n].term \in Nat /\ r.term \in Nat /\ r.from \in Server
    BY NodeTypes, Fields DEF ElectionInvariant, Request
  <1>2. PICK raised \in Saved("step_down"), saved \in Saved("request_vote") :
          LET s == IF r.term > node[n].term THEN StepDown(node[n], r.term) ELSE node[n]
              m == StepDownMeta(node[n], meta[n], r.term, raised)
              t == StepDown(s, r.term)
          IN /\ IF log_is_ok /\ s.voted = Nil
                THEN /\ node' = [node EXCEPT ![n] = IF saved THEN [t EXCEPT !.voted = r.from] ELSE t]
                     /\ meta' = [meta EXCEPT ![n] =
                                  IF saved THEN [term |-> t.term, voted |-> r.from] ELSE m]
                ELSE /\ node' = [node EXCEPT ![n] = s]
                     /\ meta' = [meta EXCEPT ![n] = m]
             /\ answer(r, node'[n], r.term > node[n].term /\ node[n].state \in Leading,
                       node[n].term, FALSE)
    BY DEF cast_vote, can_vote
  <1>3. raised \in BOOLEAN /\ saved \in BOOLEAN
    BY SavedType
  <1>4. PICK m : m = StepDownMeta(node[n], meta[n], r.term, raised)
    OBVIOUS
  <1>5. PICK s : s = IF r.term > node[n].term THEN StepDown(node[n], r.term) ELSE node[n]
    OBVIOUS
  <1>6. /\ s \in NodeState /\ m \in MetaState /\ s.state # "DOWN"
        /\ NodeAgrees(n, s, m, votes, elected)
        /\ Evolves(n, node[n], meta[n], s, m)
        /\ Lives(n, node[n], s)
    <2>1. CASE r.term > node[n].term
      <3>1. s = StepDown(node[n], r.term)
        BY <1>5, <2>1
      <3>2. /\ s \in NodeState /\ m \in MetaState
            /\ NodeAgrees(n, s, m, votes, elected)
            /\ Evolves(n, node[n], meta[n], s, m)
            /\ Lives(n, node[n], s)
        <4>1. SteppedDown(node[n], meta[n], r.term, s, m)
          BY <1>3, <1>4, <3>1, SteppedDownBy
        <4> QED
          BY <1>1, <4>1, StepDownKeeps
      <3> QED
        BY <3>2 DEF Lives
    <2>2. CASE ~(r.term > node[n].term)
      <3>1. s = node[n]
        BY <1>5, <2>2
      <3>2. StepDown(node[n], r.term).term = node[n].term
        <4>1. r.term <= node[n].term
          BY <1>1, <2>2
        <4> QED
          BY <1>1, <4>1, StepDownOlder
      <3>3. m = meta[n]
        BY <1>1, <1>4, <3>2, StepDownMetaSame
      <3> QED
        BY <1>1, <3>1, <3>3, EvolvesTrivially
    <2> QED
      BY <2>1, <2>2
  <1>7. PICK disrupted, rejected \in BOOLEAN :
            /\ disrupted = (r.term > node[n].term /\ node[n].state \in Leading)
            /\ rejected = FALSE
    OBVIOUS
  <1>8. PICK t : t = StepDown(s, r.term)
    OBVIOUS
  <1>9. /\ IF log_is_ok /\ s.voted = Nil
           THEN /\ node' = [node EXCEPT ![n] = IF saved THEN [t EXCEPT !.voted = r.from] ELSE t]
                /\ meta' = [meta EXCEPT ![n] =
                                IF saved THEN [term |-> t.term, voted |-> r.from] ELSE m]
           ELSE /\ node' = [node EXCEPT ![n] = s]
                /\ meta' = [meta EXCEPT ![n] = m]
        /\ answer(r, node'[n], disrupted, node[n].term, rejected)
    BY <1>2, <1>4, <1>5, <1>7, <1>8
  <1>10. CASE ~(log_is_ok /\ s.voted = Nil)
    <2>1. node' = [node EXCEPT ![n] = s] /\ meta' = [meta EXCEPT ![n] = m]
      BY <1>9, <1>10
    <2>2. node'[n] = s
      BY <1>1, <2>1 DEF TypeOK
    <2>3. answer(r, s, disrupted, node[n].term, rejected)
      BY <1>9, <2>2
    <2> QED
      BY <1>6, <2>1, <2>3
  <1>11. CASE log_is_ok /\ s.voted = Nil
    <2>1. /\ t \in NodeState /\ t.voted = Nil /\ t.state \notin {"CANDIDATE", "DOWN"}
      <3>1. s.term \in Nat /\ (r.term > s.term \/ r.term <= s.term)
        <4>1. s \in NodeState
          BY <1>6
        <4>2. s.term \in Nat
          BY <4>1, Fields
        <4>3. r.term \in Nat
          BY <1>1
        <4> QED
          BY <4>2, <4>3
      <3>2. t \in NodeState
        BY <1>1, <1>6, <1>8, StepDownFacts
      <3>3. CASE s.state = "ERROR"
        <4>1. t = s
          BY <1>1, <1>6, <1>8, <3>3, StepDownFacts
        <4> QED
          BY <1>11, <3>2, <3>3, <4>1
      <3>4. CASE s.state # "ERROR"
        <4>1. t.state = "FOLLOWER"
          BY <1>1, <1>6, <1>8, <3>4, StepDownFacts
        <4>2. t.voted = Nil
          BY <1>1, <1>6, <1>8, <1>11, <3>1, <3>4, StepDownFacts
        <4> QED
          BY <3>2, <4>1, <4>2
      <3> QED
        BY <3>3, <3>4
    <2>2. PICK z, no : no = FALSE /\ z = StepDownMeta(s, m, r.term, no)
      OBVIOUS
    <2>3. z = m /\ no \in BOOLEAN
      BY <2>2 DEF StepDownMeta
    <2>4. /\ NodeAgrees(n, t, z, votes, elected)
          /\ Evolves(n, s, m, t, z)
          /\ Lives(n, s, t)
      <3>1. SteppedDown(s, m, r.term, t, z)
        BY <1>8, <2>2, <2>3, SteppedDownBy
      <3> QED
        BY <1>1, <1>6, <3>1, StepDownKeeps
    <2>5. /\ NodeAgrees(n, t, m, votes, elected)
          /\ Evolves(n, node[n], meta[n], t, m)
          /\ Lives(n, node[n], t)
      BY <1>1, <1>6, <2>1, <2>3, <2>4, EvolvesTransitively
    <2>6. CASE ~saved
      <3>1. node' = [node EXCEPT ![n] = t] /\ meta' = [meta EXCEPT ![n] = m]
        BY <1>9, <1>11, <2>6
      <3>2. node'[n] = t
        BY <1>1, <3>1 DEF TypeOK
      <3>3. answer(r, t, disrupted, node[n].term, rejected)
        BY <1>9, <3>2
      <3> QED
        BY <1>6, <2>1, <2>5, <3>1, <3>3
    <2>7. CASE saved
      <3>1. PICK w, x : w = [t EXCEPT !.voted = r.from] /\ x = [term |-> t.term, voted |-> r.from]
        OBVIOUS
      <3>2. /\ w \in NodeState /\ w.state = t.state /\ x \in MetaState
            /\ NodeAgrees(n, w, x, votes, elected)
            /\ Evolves(n, t, m, w, x)
            /\ Lives(n, t, w)
        BY <1>1, <1>6, <2>1, <2>5, <3>1, VoteWriteKeeps
      <3>3. Evolves(n, node[n], meta[n], w, x) /\ Lives(n, node[n], w)
        BY <1>1, <1>6, <2>1, <2>5, <3>2, EvolvesTransitively
      <3>4. node' = [node EXCEPT ![n] = w] /\ meta' = [meta EXCEPT ![n] = x]
        BY <1>9, <1>11, <2>7, <3>1
      <3>5. node'[n] = w
        BY <1>1, <3>4 DEF TypeOK
      <3>6. answer(r, w, disrupted, node[n].term, rejected)
        BY <1>9, <3>5
      <3> QED
        BY <2>1, <3>2, <3>3, <3>4, <3>6
    <2> QED
      BY <1>3, <2>6, <2>7
  <1> QED
    BY <1>10, <1>11

\* handle_request_vote_request after the lock is taken again
LEMMA RequestVoteFlushedKeeps ==
    ASSUME ElectionInvariant, NEW c \in voting, request_vote_flushed(c)
    PROVE  StepIsRight
  <1>1. PICK r, n : r = c.request /\ n = r.to
    OBVIOUS
  <1>2. /\ TypeOK /\ r \in Request /\ n \in Server /\ RequestKnown(r)
        /\ c.previous_term \in Nat
        /\ node[n] \in NodeState /\ meta[n] \in MetaState /\ node[n].state # "DOWN"
        /\ NodeAgrees(n, node[n], meta[n], votes, elected)
    BY <1>1 DEF ElectionInvariant, TypeOK, Request
  <1>3. /\ requests' \subseteq requests /\ voting' \subseteq voting
        /\ UNCHANGED <<log, pre_voting, electing, timeout_now, replies, crashes, elected,
                       promise, aborted>>
    BY DEF request_vote_flushed
  <1>4. PICK log_is_ok \in BOOLEAN :
            \/ /\ answer(r, node[n], FALSE, c.previous_term, FALSE)
               /\ UNCHANGED <<node, meta>>
            \/ /\ answer(r, node[n], FALSE, c.previous_term, log_is_ok)
               /\ UNCHANGED <<node, meta>>
            \/ cast_vote(n, r, log_is_ok)
    <2>1. PICK last : LET log_is_ok == LogIdGE(r.last_log, last)
                      IN \/ /\ answer(r, node[n], FALSE, c.previous_term, FALSE)
                            /\ UNCHANGED <<node, meta>>
                         \/ /\ answer(r, node[n], FALSE, c.previous_term, log_is_ok)
                            /\ UNCHANGED <<node, meta>>
                         \/ cast_vote(n, r, log_is_ok)
      BY <1>1 DEF request_vote_flushed
    <2>2. PICK log_is_ok : log_is_ok = LogIdGE(r.last_log, last)
      OBVIOUS
    <2>3. log_is_ok \in BOOLEAN
      BY <2>2 DEF LogIdGE
    <2> QED
      BY <2>1, <2>2, <2>3
  <1>5. PICK t \in NodeState, u \in MetaState, disrupted, rejected \in BOOLEAN,
             previous_term \in Nat :
            /\ NodeAgrees(n, t, u, votes, elected)
            /\ Evolves(n, node[n], meta[n], t, u) /\ Lives(n, node[n], t)
            /\ t.state # "DOWN"
            /\ node' = [node EXCEPT ![n] = t] /\ meta' = [meta EXCEPT ![n] = u]
            /\ answer(r, t, disrupted, previous_term, rejected)
    <2>1. CASE \E disrupted, rejected \in BOOLEAN :
                  /\ answer(r, node[n], disrupted, c.previous_term, rejected)
                  /\ UNCHANGED <<node, meta>>
      <3>1. PICK disrupted, rejected \in BOOLEAN :
              answer(r, node[n], disrupted, c.previous_term, rejected) /\ UNCHANGED <<node, meta>>
        BY <2>1
      <3>2. PICK t \in NodeState, u \in MetaState, previous_term \in Nat :
                t = node[n] /\ u = meta[n] /\ previous_term = c.previous_term
        BY <1>2
      <3>3. node' = [node EXCEPT ![n] = t] /\ meta' = [meta EXCEPT ![n] = u]
        BY <1>2, <3>1, <3>2 DEF TypeOK
      <3>4. Evolves(n, node[n], meta[n], t, u) /\ Lives(n, node[n], t)
        BY <1>2, <3>2, EvolvesTrivially
      <3>5. /\ NodeAgrees(n, t, u, votes, elected) /\ t.state # "DOWN"
            /\ answer(r, t, disrupted, previous_term, rejected)
        BY <1>2, <3>1, <3>2
      <3> QED
        BY <3>3, <3>4, <3>5
    <2>2. CASE cast_vote(n, r, log_is_ok)
      <3>1. node[n].term \in Nat
        BY <1>2, Fields
      <3>2. PICK t \in NodeState, u \in MetaState, disrupted, rejected \in BOOLEAN :
              /\ NodeAgrees(n, t, u, votes, elected)
              /\ Evolves(n, node[n], meta[n], t, u) /\ Lives(n, node[n], t)
              /\ t.state # "DOWN"
              /\ node' = [node EXCEPT ![n] = t] /\ meta' = [meta EXCEPT ![n] = u]
              /\ answer(r, t, disrupted, node[n].term, rejected)
        <4>1. n \in Server /\ r \in Request /\ node[n].state # "DOWN" /\ log_is_ok \in BOOLEAN
          BY <1>2, <1>4
        <4> QED
          BY <2>2, <4>1, CastVoteKeeps
      <3> QED
        BY <3>1, <3>2
    <2> QED
      BY <1>4, <2>1, <2>2
  <1> QED
    BY <1>1, <1>2, <1>3, <1>5, AnswerStep

-----------------------------------------------------------------------------
(* Counting the answers                                                    *)

\* From s to t, n counts the peer that granted its vote, and itself when that
\* peer was the last leader.
CountsAnswer(n, s, a, t) ==
    \E voters \in SUBSET Server :
        /\ t.vote.ballot = GrantAll(s.vote.ballot, voters)
        /\ \A v \in voters : a.granted /\ (v = a.peer \/ (v = n /\ a.peer = s.last_leader))

\* What counting an answer leaves as it was
KeepsAllButVote(s, t) ==
    /\ t \in NodeState
    /\ t.state = s.state /\ t.term = s.term /\ t.voted = s.voted /\ t.leader = s.leader
    /\ t.vote.version = s.vote.version /\ (t.vote.armed => s.vote.armed)

\* What CountVote does to the context
LEMMA CountVoteFacts ==
    ASSUME NEW n \in Server, NEW s \in NodeState, NEW a \in Response,
           NEW t, t = CountVote(s, n, a)
    PROVE  KeepsAllButVote(s, t) /\ CountsAnswer(n, s, a, t)
  <1>1. /\ s.vote \in VoteCtx /\ s.vote.ballot \in BallotType(Server)
        /\ s.vote.armed \in BOOLEAN /\ s.vote.reserved \in SUBSET Server
        /\ s.vote.disrupted \in Disrupted
    BY Fields DEF VoteCtx
  <1>2. a.peer \in Server /\ a.previous_term \in Nat /\ a.granted \in BOOLEAN
    BY DEF Response
  <1>3. PICK own \in BOOLEAN : own = (a.granted /\ a.peer = s.last_leader)
    BY <1>2
  <1>4. PICK voters \in SUBSET Server :
            voters = (IF a.granted THEN {a.peer} ELSE {}) \cup (IF own THEN {n} ELSE {})
    BY <1>2
  <1>5. PICK d \in Disrupted :
            d = IF a.disrupted THEN [peer |-> a.peer, term |-> a.previous_term]
                ELSE s.vote.disrupted
    <2>1. [peer |-> a.peer, term |-> a.previous_term] \in Disrupted
      BY <1>2 DEF Disrupted, Peer
    <2> QED
      BY <1>1, <2>1
  <1>6. PICK reserved \in SUBSET Server :
            reserved = s.vote.reserved \cup (IF a.granted THEN {} ELSE {a.peer})
    BY <1>1, <1>2
  <1>7. PICK armed \in BOOLEAN : armed = (s.vote.armed /\ ~own)
    BY <1>1
  <1>8. PICK ballot \in BallotType(Server) : ballot = GrantAll(s.vote.ballot, voters)
    BY <1>1, BallotGrantAll
  <1>9. PICK v : v = [s.vote EXCEPT !.disrupted = d, !.ballot = ballot, !.armed = armed,
                                    !.reserved = reserved]
    OBVIOUS
  <1>10. /\ v \in VoteCtx /\ v.version = s.vote.version /\ v.ballot = ballot
         /\ v.armed = armed
    BY <1>1, <1>9 DEF VoteCtx
  <1>11. t = [s EXCEPT !.vote = v]
    BY <1>3, <1>4, <1>5, <1>6, <1>7, <1>8, <1>9 DEF CountVote
  <1>12. /\ t \in NodeState
         /\ t.state = s.state /\ t.term = s.term /\ t.voted = s.voted /\ t.leader = s.leader
         /\ t.vote = v
    BY <1>10, <1>11, VoteCtxType
  <1>13. \A w \in voters : a.granted /\ (w = a.peer \/ (w = n /\ a.peer = s.last_leader))
    BY <1>3, <1>4
  <1>14. t.vote.armed => s.vote.armed
    BY <1>7, <1>10, <1>12
  <1>15. CountsAnswer(n, s, a, t)
    BY <1>8, <1>10, <1>12, <1>13 DEF CountsAnswer
  <1> QED
    BY <1>10, <1>12, <1>14, <1>15 DEF KeepsAllButVote

\* An answer that is counted
LEMMA CountVoteKeeps ==
    ASSUME ElectionInvariant, NEW a \in responses, NEW n \in Server, n = a.to,
           node[n].state = "CANDIDATE", a.version = node[n].vote.version,
           a.asked = node[n].term, count_vote(n, a), responses' = responses \ {a},
           UNCHANGED <<calls, timeout_now, replies, crashes, promise>>
    PROVE  StepIsRight
  <1>1. /\ TypeOK /\ a \in Response /\ node[n] \in NodeState /\ meta[n] \in MetaState
        /\ NodeAgrees(n, node[n], meta[n], votes, elected)
        /\ votes \subseteq Server \X Nat \X Server /\ aborted \in BOOLEAN
        /\ node[n].term \in Nat /\ node[n].vote.ballot \in BallotType(Server)
    BY NodeTypes, Fields DEF ElectionInvariant, TypeOK
  <1>2. /\ meta[n] = [term |-> node[n].term, voted |-> n]
        /\ a.granted => <<a.peer, node[n].term, n>> \in votes
    BY DEF ElectionInvariant, ResponseKnown, VersionKnown
  <1>3. PICK g : g = CountVote(node[n], n, a)
    OBVIOUS
  <1>4. /\ g \in NodeState
        /\ g.state = node[n].state /\ g.term = node[n].term /\ g.voted = node[n].voted
        /\ g.leader = node[n].leader
        /\ g.vote.version = node[n].vote.version /\ (g.vote.armed => node[n].vote.armed)
    <2>1. node[n] \in NodeState /\ a \in Response
      BY <1>1
    <2>2. KeepsAllButVote(node[n], g)
      BY <1>3, <2>1, CountVoteFacts
    <2> QED
      BY <2>2 DEF KeepsAllButVote
  <1>5. PICK voters \in SUBSET Server :
            /\ g.vote.ballot = GrantAll(node[n].vote.ballot, voters)
            /\ \A v \in voters :
                  a.granted /\ (v = a.peer \/ (v = n /\ a.peer = node[n].last_leader))
    <2>1. CountsAnswer(n, node[n], a, g)
      BY <1>1, <1>3, CountVoteFacts
    <2> QED
      BY <2>1 DEF CountsAnswer
  <1>6. /\ votes' = IF a.granted /\ a.peer = node[n].last_leader
                    THEN votes \cup {<<n, node[n].term, n>>} ELSE votes
        /\ meta' = meta
    BY <1>3, <1>4 DEF count_vote
  <1>7. /\ votes \subseteq votes' /\ votes' \subseteq Server \X Nat \X Server
        /\ \A v \in votes' \ votes : v[1] = n /\ meta[n] = [term |-> v[2], voted |-> v[3]]
    <2>1. votes \subseteq Server \X Nat \X Server /\ node[n].term \in Nat
      BY <1>1
    <2>2. PICK w : w = <<n, node[n].term, n>>
      OBVIOUS
    <2>3. w \in Server \X Nat \X Server /\ w[1] = n /\ w[2] = node[n].term /\ w[3] = n
      BY <2>1, <2>2
    <2>4. votes' = votes \/ votes' = votes \cup {w}
      BY <1>6, <2>2
    <2>5. meta[n] = [term |-> w[2], voted |-> w[3]]
      BY <1>2, <2>3
    <2> QED
      BY <2>1, <2>3, <2>4, <2>5
  <1>8. Counts(n, node[n], g, votes, votes', voters)
    <2>1. BallotAgrees(node[n].vote.ballot) =>
              /\ BallotAgrees(g.vote.ballot)
              /\ g.vote.ballot.new.found \subseteq node[n].vote.ballot.new.found \cup voters
      BY <1>1, <1>5, BallotGrantAll
    <2>2. \A v \in voters : <<v, node[n].term, n>> \in votes'
      BY <1>2, <1>5, <1>6
    <2> QED
      BY <1>4, <1>7, <2>1, <2>2 DEF Counts
  <1>9. /\ NodeAgrees(n, g, meta[n], votes', elected)
        /\ Evolves(n, node[n], meta[n], g, meta[n])
        /\ Lives(n, node[n], g)
    BY <1>1, <1>4, <1>8, CountingAgrees
  <1>10. /\ meta' = [meta EXCEPT ![n] = meta[n]]
         /\ electing' \subseteq electing /\ responses' \subseteq responses
         /\ UNCHANGED <<pre_voting, voting, timeout_now, replies, crashes, promise>>
    BY <1>1, <1>6 DEF TypeOK, calls
  <1>11. CASE a.granted /\ Granted(g.vote.ballot)
    <2>1. become_leader(n, g) /\ requests' = requests
      BY <1>3, <1>11 DEF count_vote
    <2>2. CountingStep(n, g, meta[n])
      BY <1>4, <1>7, <1>9, <1>10, <2>1 DEF CountingStep
    <2> QED
      BY <1>1, <1>4, <1>11, <2>1, <2>2, BecomeLeaderStep
  <1>12. CASE ~(a.granted /\ Granted(g.vote.ballot))
    <2>1. PICK again : again = GrantablePeers(g.vote)
      OBVIOUS
    <2>2. g.vote \in VoteCtx /\ g.vote.reserved \in SUBSET Server /\ again \in SUBSET Server
      BY <1>4, <2>1, Fields DEF VoteCtx, GrantablePeers
    <2>3. PICK v : v = [g.vote EXCEPT !.reserved = @ \ again]
      OBVIOUS
    <2>4. /\ v \in VoteCtx /\ v.version = g.vote.version /\ v.ballot = g.vote.ballot
          /\ v.armed = g.vote.armed
      BY <2>2, <2>3 DEF VoteCtx
    <2>5. PICK h : h = [g EXCEPT !.vote = v]
      OBVIOUS
    <2>6. /\ h \in NodeState
          /\ h.state = g.state /\ h.term = g.term /\ h.voted = g.voted /\ h.leader = g.leader
          /\ h.vote = v
      BY <1>4, <2>4, <2>5, VoteCtxType
    <2>7. /\ node' = [node EXCEPT ![n] = h]
          /\ requests' = requests \cup RequestsOf(n, g.vote, g.term, again)
          /\ UNCHANGED <<log, elected, aborted>>
      <3>1. h = [g EXCEPT !.vote.reserved = @ \ again]
        BY <2>3, <2>5
      <3> QED
        BY <1>3, <1>12, <2>1, <3>1 DEF count_vote
    <2>8. Counts(n, node[n], h, votes, votes', voters)
      BY <1>8, <2>4, <2>6 DEF Counts
    <2>9. /\ NodeAgrees(n, h, meta[n], votes', elected)
          /\ Evolves(n, node[n], meta[n], h, meta[n])
          /\ Lives(n, node[n], h)
      BY <1>1, <2>6, <2>8, CountingAgrees
    <2>10. \A r \in requests' \ requests :
              r \in Request /\ r.from = n /\ r.to # n /\ r.version = h.vote.version
      <3>1. g.term \in Nat
        BY <1>1, <1>4
      <3>2. Carry(n, g.vote.version, RequestsOf(n, g.vote, g.term, again))
        BY <2>2, <3>1, RequestsAreKnown
      <3>3. h.vote.version = g.vote.version
        BY <2>4, <2>6
      <3>4. \A r \in requests' \ requests : r \in RequestsOf(n, g.vote, g.term, again)
        BY <2>7
      <3> QED
        BY <3>2, <3>3, <3>4 DEF Carry
    <2>11. CountingStep(n, h, meta[n])
      <3>1. h.state = "CANDIDATE" /\ meta[n] = [term |-> h.term, voted |-> n]
        BY <1>2, <1>4, <2>6
      <3> QED
        BY <1>7, <1>10, <2>9, <2>10, <3>1 DEF CountingStep
    <2> QED
      BY <1>1, <2>6, <2>7, <2>11, CountedStep
  <1> QED
    BY <1>11, <1>12

\* handle_request_vote_response
LEMMA HandleRequestVoteResponseKeeps ==
    ASSUME ElectionInvariant, NEW a \in responses, handle_request_vote_response(a)
    PROVE  StepIsRight
  <1>1. PICK n : n = a.to
    OBVIOUS
  <1>2. /\ TypeOK /\ a \in Response /\ n \in Server /\ a.term \in Nat
        /\ node[n] \in NodeState /\ meta[n] \in MetaState /\ node[n].term \in Nat
        /\ NodeAgrees(n, node[n], meta[n], votes, elected)
    BY <1>1, Fields DEF ElectionInvariant, TypeOK, Response
  <1>3. /\ node[n].state = "CANDIDATE" /\ a.version = node[n].vote.version
        /\ a.asked = node[n].term
        /\ responses' = responses \ {a}
        /\ UNCHANGED <<calls, timeout_now, replies, crashes, promise>>
    BY <1>1 DEF handle_request_vote_response
  <1>4. CASE a.term > node[n].term
    <2>1. ~(a.term <= node[n].term)
      BY SMTT(60), <1>2, <1>4
    <2>2. PICK saved \in Saved("step_down") :
            /\ node' = [node EXCEPT ![n] = StepDown(node[n], a.term)]
            /\ meta' = [meta EXCEPT ![n] = StepDownMeta(node[n], meta[n], a.term, saved)]
            /\ UNCHANGED <<log, requests, elected, votes, aborted>>
      BY <1>1, <2>1 DEF handle_request_vote_response
    <2>3. PICK t, u : /\ t = StepDown(node[n], a.term)
                      /\ u = StepDownMeta(node[n], meta[n], a.term, saved)
      OBVIOUS
    <2>4. saved \in BOOLEAN /\ node[n].state # "DOWN"
      BY <1>3, SavedType
    <2>5. /\ t \in NodeState /\ u \in MetaState
          /\ NodeAgrees(n, t, u, votes, elected)
          /\ Evolves(n, node[n], meta[n], t, u)
          /\ Lives(n, node[n], t)
      <3>1. a.term \in Nat /\ n \in Server /\ node[n] \in NodeState /\ meta[n] \in MetaState
        BY <1>2
      <3>2. NodeAgrees(n, node[n], meta[n], votes, elected)
        BY <1>2
      <3> QED
        <4>1. SteppedDown(node[n], meta[n], a.term, t, u)
          BY <2>3, <2>4, SteppedDownBy
        <4> QED
          BY <2>4, <3>1, <3>2, <4>1, StepDownKeeps
    <2>6. node' = [node EXCEPT ![n] = t] /\ meta' = [meta EXCEPT ![n] = u]
      BY <2>2, <2>3
    <2>7. TypeOK'
      BY <1>2, <1>3, <2>2, <2>5, <2>6 DEF TypeOK, calls
    <2>8. node'[n] = t /\ meta'[n] = u
      BY <1>2, <2>6 DEF TypeOK
    <2>9. NodeStep(n) /\ Lives(n, node[n], node'[n])
      BY <1>2, <2>2, <2>5, <2>6, <2>8 DEF NodeStep, TypeOK
    <2>10. /\ UNCHANGED <<pre_voting, electing, voting, requests, votes, elected>>
           /\ responses' \subseteq responses
      BY <1>3, <2>2 DEF calls
    <2> QED
      BY <1>2, <2>7, <2>9, <2>10, StepKeeps
  <1>5. CASE ~(a.term > node[n].term)
    <2>1. count_vote(n, a)
      BY <1>1, <1>5 DEF handle_request_vote_response
    <2> QED
      BY <1>1, <1>2, <1>3, <2>1, CountVoteKeeps
  <1> QED
    BY <1>4, <1>5

-----------------------------------------------------------------------------
(* The theorems.  Every one assumes that elect_self can save its vote; the  *)
(* other two callers of set_term_and_votedfor may fail.                     *)

\* A group of fresh nodes satisfies the invariant.
LEMMA InitiallyRight == Init => ElectionInvariant
  <1> SUFFICES ASSUME Init
               PROVE  ElectionInvariant
    OBVIOUS
  <1>1. NoLeader \in Disrupted
    BY DEF NoLeader, Disrupted, Peer
  <1>2. [term |-> 1, voted |-> Nil] \in MetaState /\ [term |-> 0, index |-> 0] \in LogId
    BY DEF MetaState, LogId, Peer
  <1>3. TypeOK
    BY <1>1, <1>2, EmptyTypes DEF Init, TypeOK
  <1>4. \A n \in Server : NodeAgrees(n, node[n], meta[n], votes, elected)
    <2>1. Down.state = "DOWN" /\ Down.leader = Nil
      BY DEF Down
    <2> QED
      BY <2>1 DEF Init, NodeAgrees
  <1> QED
    BY <1>3, <1>4 DEF Init, ElectionInvariant, VotesOnce

\* One case per action of Next
LEMMA NextIsRight ==
    ASSUME ElectionInvariant, "elect_self" \notin MetaFailures, Next
    PROVE  StepIsRight
  <1>1. ASSUME NEW n \in Server, init(n)
        PROVE  StepIsRight
    BY <1>1, InitKeeps
  <1>2. ASSUME NEW n \in Server, crash(n)
        PROVE  StepIsRight
    BY <1>2, CrashKeeps
  <1>3. ASSUME NEW n \in Server, on_error(n)
        PROVE  StepIsRight
    BY <1>3, OnErrorKeeps
  <1>4. ASSUME NEW n \in Server, handle_election_timeout(n)
        PROVE  StepIsRight
    BY <1>4, HandleElectionTimeoutKeeps
  <1>5. ASSUME NEW n \in Server, handle_vote_timeout(n)
        PROVE  StepIsRight
    BY <1>5, HandleVoteTimeoutKeeps
  <1>6. ASSUME NEW n \in Server, handle_grant_self_timedout_vote(n)
        PROVE  StepIsRight
    BY <1>6, HandleGrantSelfTimedoutVoteKeeps
  <1>7. ASSUME NEW n \in Server, handle_grant_self_timedout_pre(n)
        PROVE  StepIsRight
    BY <1>7, HandleGrantSelfTimedoutPreKeeps
  <1>8. ASSUME NEW n \in Server, lease_expires(n)
        PROVE  StepIsRight
    BY <1>8, LeaseExpiresKeeps
  <1>9. ASSUME NEW n \in Server, handle_stepdown_timeout(n)
        PROVE  StepIsRight
    BY <1>9, HandleStepdownTimeoutKeeps
  <1>10. ASSUME NEW n \in Server, vote(n)
         PROVE  StepIsRight
    BY <1>10, VoteKeeps
  <1>11. ASSUME NEW n \in Server, handle_transfer_timeout(n)
         PROVE  StepIsRight
    BY <1>11, HandleTransferTimeoutKeeps
  <1>12. ASSUME NEW n \in Server, NEW m \in Server, handle_pre_vote_request(m, n)
         PROVE  StepIsRight
    BY <1>12, HandlePreVoteRequestKeeps
  <1>13. ASSUME NEW n \in Server, NEW a \in node[n].pre.answers, handle_pre_vote_response(n, a)
         PROVE  StepIsRight
    BY <1>13, HandlePreVoteResponseKeeps
  <1>14. ASSUME NEW n \in Server, NEW p \in Server, transfer_leadership_to(n, p)
         PROVE  StepIsRight
    BY <1>14, TransferLeadershipToKeeps
  <1>15. ASSUME NEW n \in Server, NEW e \in elected, handle_append_entries_request(n, e)
         PROVE  StepIsRight
    BY <1>15, HandleAppendEntriesRequestKeeps
  <1>16. ASSUME NEW c \in pre_voting, pre_vote_flushed(c)
         PROVE  StepIsRight
    BY <1>16, PreVoteFlushedKeeps
  <1>17. ASSUME NEW c \in electing, elect_self_flushed(c)
         PROVE  StepIsRight
    BY <1>17, ElectSelfFlushedKeeps
  <1>18. ASSUME NEW c \in voting, request_vote_flushed(c)
         PROVE  StepIsRight
    BY <1>18, RequestVoteFlushedKeeps
  <1>19. ASSUME NEW r \in requests, handle_request_vote_request(r)
         PROVE  StepIsRight
    BY <1>19, HandleRequestVoteRequestKeeps
  <1>20. ASSUME NEW a \in responses, handle_request_vote_response(a)
         PROVE  StepIsRight
    BY <1>20, HandleRequestVoteResponseKeeps
  <1>21. ASSUME NEW r \in timeout_now, handle_timeout_now_request(r)
         PROVE  StepIsRight
    BY <1>21, HandleTimeoutNowRequestKeeps
  <1>22. ASSUME NEW a \in replies, increase_term_to(a)
         PROVE  StepIsRight
    BY <1>22, IncreaseTermToKeeps
  <1>23. ASSUME NEW c \in electing, elect_self_dies(c)
         PROVE  StepIsRight
    BY <1>23, ElectSelfDiesKeeps
  <1> QED
    BY <1>1, <1>2, <1>3, <1>4, <1>5, <1>6, <1>7, <1>8, <1>9, <1>10, <1>11, <1>12, <1>13,
       <1>14, <1>15, <1>16, <1>17, <1>18, <1>19, <1>20, <1>21, <1>22, <1>23 DEF Next

\* A step that changes nothing keeps the invariant.
LEMMA StutterKeeps ==
    ASSUME ElectionInvariant, UNCHANGED vars
    PROVE  ElectionInvariant'
  <1>1. UNCHANGED <<node, meta, log, pre_voting, electing, voting, requests, responses,
                    timeout_now, replies, crashes, elected, votes, promise, aborted>>
    BY DEF vars, calls, wire, history
  <1>2. TypeOK'
    BY <1>1 DEF ElectionInvariant, TypeOK
  <1>3. (\A n \in Server : NodeAgrees(n, node[n], meta[n], votes, elected))'
    BY <1>1 DEF ElectionInvariant
  <1>4. /\ (\A d \in pre_voting : node[d.node].state # "DOWN")'
        /\ (\A d \in electing : ElectingKnown(d))'
        /\ (\A d \in voting : node[d.request.to].state # "DOWN" /\ RequestKnown(d.request))'
    BY <1>1 DEF ElectionInvariant, ElectingKnown, RequestKnown
  <1>5. /\ (\A r \in requests : RequestKnown(r))'
        /\ (\A a \in responses : ResponseKnown(a))'
    BY <1>1 DEF ElectionInvariant, RequestKnown, ResponseKnown
  <1>6. /\ (\A v \in votes : VoteSaved(v))'
        /\ VotesOnce'
        /\ (\A e \in elected : LeaderBacked(e))'
    BY <1>1 DEF ElectionInvariant, VoteSaved, VotesOnce, LeaderBacked
  <1> QED
    BY <1>2, <1>3, <1>4, <1>5, <1>6 DEF ElectionInvariant

\* Two majorities of the configuration share a voter, which voted once.
LEMMA InvariantMeansOneLeader == ElectionInvariant => OneLeaderPerTerm
  <1> SUFFICES ASSUME ElectionInvariant, NEW e \in elected, NEW f \in elected, e.term = f.term
               PROVE  e.leader = f.leader
    BY DEF OneLeaderPerTerm
  <1>1. PICK q \in SUBSET Conf : /\ 2 * Cardinality(q) > Cardinality(Conf)
                                 /\ \A v \in q : <<v, e.term, e.leader>> \in votes
    BY DEF ElectionInvariant, LeaderBacked
  <1>2. PICK p \in SUBSET Conf : /\ 2 * Cardinality(p) > Cardinality(Conf)
                                 /\ \A v \in p : <<v, f.term, f.leader>> \in votes
    BY DEF ElectionInvariant, LeaderBacked
  <1>3. IsFiniteSet(Conf) /\ IsFiniteSet(q) /\ IsFiniteSet(p)
    BY ServerAssumption, FS_Subset
  <1>4. Cardinality(Conf) \in Nat /\ Cardinality(q) \in Nat /\ Cardinality(p) \in Nat
    BY <1>3, FS_CardinalityType
  <1>5. Cardinality(q) + Cardinality(p) > Cardinality(Conf)
    BY <1>1, <1>2, <1>4
  <1>6. PICK v : v \in q /\ v \in p
    BY <1>3, <1>5, FS_MajoritiesIntersect
  <1>7. <<v, e.term, e.leader>> \in votes /\ <<v, e.term, f.leader>> \in votes
    BY <1>1, <1>2, <1>6
  <1> QED
    BY <1>7 DEF ElectionInvariant, VotesOnce

\* ElectionInvariant is inductive: it holds in every state of every behaviour,
\* for any number of nodes, terms and crashes.
THEOREM InvariantHolds ==
    ASSUME "elect_self" \notin MetaFailures
    PROVE  Spec => []ElectionInvariant
  <1>1. ElectionInvariant /\ [Next]_vars => ElectionInvariant'
    BY NextIsRight, StutterKeeps DEF StepIsRight
  <1> QED
    BY <1>1, InitiallyRight, PTL DEF Spec

\* Type correctness
THEOREM TypesHold ==
    ASSUME "elect_self" \notin MetaFailures
    PROVE  Spec => []TypeOK
  <1>1. ElectionInvariant => TypeOK
    BY DEF ElectionInvariant
  <1> QED
    BY <1>1, InvariantHolds, PTL

\* No term ever has two leaders (become_leader, node.cc:1918).
THEOREM OneLeader ==
    ASSUME "elect_self" \notin MetaFailures
    PROVE  Spec => []OneLeaderPerTerm
  BY InvariantHolds, InvariantMeansOneLeader, PTL

\* A node gives its vote of a term to one candidate only.
THEOREM OneVote ==
    ASSUME "elect_self" \notin MetaFailures
    PROVE  Spec => []VotesOnce
  <1>1. ElectionInvariant => VotesOnce
    BY DEF ElectionInvariant
  <1> QED
    BY <1>1, InvariantHolds, PTL

\* A node only follows a leader that was elected in the node's own term.
THEOREM OnlyElectedFollowed ==
    ASSUME "elect_self" \notin MetaFailures
    PROVE  Spec => []FollowsElectedLeader
  <1>1. ElectionInvariant => FollowsElectedLeader
    BY DEF ElectionInvariant, NodeAgrees, FollowsElectedLeader
  <1> QED
    BY <1>1, InvariantHolds, PTL

\* A saved vote stays for the rest of its term and the saved term never goes
\* back, although step_down, elect_self and handle_request_vote_request all
\* write the meta storage.
THEOREM SavedVotesStay ==
    ASSUME "elect_self" \notin MetaFailures
    PROVE  Spec => SavedVoteStays
  <1>1. ElectionInvariant /\ [Next]_vars => [SavedVotesKept]_vars
    BY NextIsRight DEF StepIsRight
  <1> QED
    BY <1>1, InvariantHolds, PTL DEF Spec, SavedVoteStays
=============================================================================
