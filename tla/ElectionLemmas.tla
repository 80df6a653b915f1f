--------------------------- MODULE ElectionLemmas ---------------------------
(***************************************************************************)
(* Lemmas for the proof that ElectionInvariant is inductive: what the      *)
(* helpers of Election.tla do to one node (types, then the agreement of    *)
(* its memory with its meta storage), and from which facts about the one   *)
(* node that moves the whole invariant follows (StepKeeps, AnyStepKeeps).  *)
(***************************************************************************)
EXTENDS Election, BallotProofs

\* VoteBallotCtx::init gives a well-typed context.
LEMMA VoteOfType ==
    ASSUME NEW version \in Nat, NEW ballot \in BallotType(Server)
    PROVE  VoteOf(version, ballot) \in VoteCtx
  BY DEF VoteOf, VoteCtx, LogId, NoLeader, Disrupted, Peer

\* The contexts a process starts with are well typed.
LEMMA EmptyTypes ==
    /\ EmptyVote \in VoteCtx
    /\ EmptyPre \in PreVoteCtx
    /\ Down \in NodeState
  <1>1. InitBallot(Conf, OldConf) \in BallotType(Server)
    BY InitBallotType, ServerAssumption
  <1>2. NoLeader \in Disrupted
    BY DEF NoLeader, Disrupted, Peer
  <1>3. EmptyVote \in VoteCtx
    BY <1>1, VoteOfType DEF EmptyVote
  <1>4. EmptyPre \in PreVoteCtx
    BY <1>1, <1>2 DEF EmptyPre, PreVoteCtx, LogId
  <1> QED
    BY <1>3, <1>4 DEF Down, NodeState, Peer

\* VoteBallotCtx::reset raises the version and keeps the type.
LEMMA ResetVoteFacts ==
    ASSUME NEW ctx \in VoteCtx
    PROVE  /\ ResetVote(ctx) \in VoteCtx
           /\ ResetVote(ctx).version = ctx.version + 1
           /\ ~ResetVote(ctx).armed
  BY VoteOfType DEF ResetVote, VoteOf, VoteCtx

\* VoteBallotCtx::init raises the version, with nobody found yet.
LEMMA InitVoteFacts ==
    ASSUME NEW ctx \in VoteCtx
    PROVE  /\ InitVote(ctx) \in VoteCtx
           /\ InitVote(ctx).version = ctx.version + 1
           /\ ~InitVote(ctx).armed
           /\ InitVote(ctx).ballot = InitBallot(Conf, OldConf)
  <1>1. InitBallot(Conf, OldConf) \in BallotType(Server)
    BY InitBallotType, ServerAssumption
  <1> QED
    BY <1>1, VoteOfType DEF InitVote, VoteOf, VoteCtx

\* The types of the fields of a node.
LEMMA Fields ==
    ASSUME NEW s \in NodeState
    PROVE  /\ s.state \in {"LEADER", "TRANSFERRING", "CANDIDATE", "FOLLOWER", "ERROR", "DOWN"}
           /\ s.term \in Nat
           /\ s.voted \in Peer
           /\ s.leader \in Peer
           /\ s.vote \in VoteCtx
           /\ s.vote.version \in Nat
           /\ s.vote.ballot \in BallotType(Server)
           /\ s.pre \in PreVoteCtx
           /\ s.lease \in BOOLEAN
           /\ s.last_leader \in Peer
           /\ s.triggered \in BOOLEAN
  BY DEF NodeState, VoteCtx

\* What step_down does to the memory and the meta storage of a node.
LEMMA StepDownFacts ==
    ASSUME NEW s \in NodeState, NEW term \in Nat
    PROVE  /\ StepDown(s, term) \in NodeState
           /\ s.state \in {"ERROR", "DOWN"} => StepDown(s, term) = s
           /\ s.state \notin {"ERROR", "DOWN"} =>
                /\ StepDown(s, term).state = "FOLLOWER"
                /\ StepDown(s, term).leader = Nil
                /\ term > s.term => /\ StepDown(s, term).term = term
                                    /\ StepDown(s, term).voted = Nil
                /\ term <= s.term => /\ StepDown(s, term).term = s.term
                                     /\ StepDown(s, term).voted = s.voted
                /\ StepDown(s, term).vote.version >= s.vote.version
  <1>1. PICK v \in VoteCtx : /\ v = (IF s.state = "CANDIDATE" THEN ResetVote(s.vote) ELSE s.vote)
                             /\ v.version >= s.vote.version
    <2>1. s.vote \in VoteCtx /\ s.vote.version \in Nat
      BY DEF NodeState, VoteCtx
    <2>2. CASE s.state = "CANDIDATE"
      <3>1. ResetVote(s.vote) \in VoteCtx /\ ResetVote(s.vote).version = s.vote.version + 1
        BY <2>1, ResetVoteFacts
      <3>2. ResetVote(s.vote).version >= s.vote.version
        BY <2>1, <3>1
      <3> QED
        BY <2>2, <3>1, <3>2
    <2>3. CASE s.state # "CANDIDATE"
      BY <2>1, <2>3
    <2> QED
      BY <2>2, <2>3
  <1>2. PICK p \in PreVoteCtx : p = (IF s.state = "FOLLOWER" THEN EmptyPre ELSE s.pre)
    BY EmptyTypes DEF NodeState
  <1>3. PICK t \in Nat : t = (IF term > s.term THEN term ELSE s.term)
    BY DEF NodeState
  <1>4. PICK u \in Peer : u = (IF term > s.term THEN Nil ELSE s.voted)
    BY DEF NodeState, Peer
  <1>5. CASE s.state \notin {"ERROR", "DOWN"}
    <2>1. StepDown(s, term) = [s EXCEPT !.vote = v, !.pre = p, !.state = "FOLLOWER",
                                        !.leader = Nil, !.term = t, !.voted = u]
      BY <1>1, <1>2, <1>3, <1>4, <1>5 DEF StepDown, Leading, NodeState
    <2>2. PICK d : d = StepDown(s, term)
      OBVIOUS
    <2>3. /\ d \in NodeState
          /\ d.state = "FOLLOWER" /\ d.leader = Nil /\ d.term = t /\ d.voted = u /\ d.vote = v
      <3>1. Nil \in Peer
        BY DEF Peer
      <3> QED
        BY ZenonT(60), <3>1, <2>1, <2>2 DEF NodeState
    <2>4. s.term \in Nat
      BY Fields
    <2>5. /\ term > s.term => t = term /\ u = Nil
          /\ term <= s.term => t = s.term /\ u = s.voted
      BY <1>3, <1>4, <2>4
    <2> QED
      BY <1>1, <1>5, <2>2, <2>3, <2>5
  <1>6. CASE s.state \in {"ERROR", "DOWN"}
    BY <1>6 DEF StepDown, Leading
  <1> QED
    BY <1>5, <1>6
\* What the first part of elect_self does to a node, up to the flush of its log.
LEMMA ElectSelfFacts ==
    ASSUME NEW s \in NodeState, NEW n \in Server, NEW old_leader_stepped_down \in BOOLEAN,
           NEW t, t = ElectSelf(s, n, old_leader_stepped_down)
    PROVE  /\ t \in NodeState
           /\ t.state = "CANDIDATE" /\ t.term = s.term + 1 /\ t.voted = n /\ t.leader = Nil
           /\ t.vote.version = s.vote.version + 1
           /\ ~t.vote.armed
           /\ t.vote.ballot = InitBallot(Conf, OldConf)
  <1>1. s.vote \in VoteCtx
    BY DEF NodeState
  <1>2. PICK d \in Disrupted : d = (IF old_leader_stepped_down
                                    THEN [peer |-> s.leader, term |-> s.term] ELSE NoLeader)
    <2>1. [peer |-> s.leader, term |-> s.term] \in Disrupted
      BY DEF NodeState, Disrupted
    <2>2. NoLeader \in Disrupted
      BY DEF Disrupted, NoLeader, Peer
    <2> QED
      BY <2>1, <2>2
  <1>3. PICK i \in VoteCtx : i = InitVote(s.vote)
    BY <1>1, InitVoteFacts
  <1>4. PICK v \in VoteCtx : v = [i EXCEPT !.disrupted = d]
    BY DEF VoteCtx
  <1>5. /\ v.version = s.vote.version + 1
        /\ ~v.armed
        /\ v.ballot = InitBallot(Conf, OldConf)
    BY <1>1, <1>3, <1>4, InitVoteFacts DEF VoteCtx
  <1>6. PICK l \in BOOLEAN : l = (IF old_leader_stepped_down THEN FALSE ELSE s.lease)
    BY DEF NodeState
  <1>7. ElectSelf(s, n, old_leader_stepped_down) =
            [s EXCEPT !.state = "CANDIDATE", !.term = s.term + 1, !.voted = n, !.leader = Nil,
                      !.pre = EmptyPre, !.vote = v, !.lease = l]
    BY <1>2, <1>3, <1>4, <1>6 DEF ElectSelf, NodeState
  <1>8. s.term + 1 \in Nat
    BY DEF NodeState
  <1>9. n \in Peer /\ Nil \in Peer /\ EmptyPre \in PreVoteCtx
    BY EmptyTypes DEF Peer
  <1>10. /\ t \in NodeState
         /\ t.state = "CANDIDATE" /\ t.term = s.term + 1 /\ t.voted = n /\ t.leader = Nil
         /\ t.vote = v
    BY ZenonT(60), <1>7, <1>8, <1>9 DEF NodeState
  <1> QED
    BY <1>5, <1>10

\* A step down to a term that is not newer leaves the term alone ...
LEMMA StepDownOlder ==
    ASSUME NEW s \in NodeState, NEW term \in Nat, term <= s.term
    PROVE  StepDown(s, term).term = s.term
  <1>1. CASE s.state \in {"ERROR", "DOWN"}
    BY <1>1, StepDownFacts
  <1>2. CASE s.state \notin {"ERROR", "DOWN"}
    BY <1>2, StepDownFacts
  <1> QED
    BY <1>1, <1>2

\* ... and saves nothing.
LEMMA StepDownMetaSame ==
    ASSUME NEW s \in NodeState, NEW m, NEW term, NEW saved, StepDown(s, term).term = s.term
    PROVE  StepDownMeta(s, m, term, saved) = m
  <1>1. s.term \in Nat
    BY Fields
  <1> QED
    BY <1>1 DEF StepDownMeta

\* What become_leader does to a node.
LEMMA BecomeLeaderFacts ==
    ASSUME NEW s \in NodeState, NEW n \in Server, NEW t, t = BecomeLeader(s, n)
    PROVE  /\ t \in NodeState
           /\ t.state = "LEADER" /\ t.term = s.term /\ t.voted = s.voted /\ t.leader = n
           /\ t.vote.version = s.vote.version + 1
  <1>1. PICK v \in VoteCtx : v = ResetVote(s.vote) /\ v.version = s.vote.version + 1
    BY ResetVoteFacts DEF NodeState
  <1>2. BecomeLeader(s, n) = [s EXCEPT !.state = "LEADER", !.leader = n, !.vote = v,
                                       !.lease = FALSE, !.last_leader = Nil]
    BY <1>1 DEF BecomeLeader, NodeState
  <1> QED
    BY ZenonT(60), <1>1, <1>2 DEF NodeState, Peer

\* After check_step_down the node is a follower in the term of the request.
LEMMA CheckStepDownFacts ==
    ASSUME NEW s \in NodeState, NEW term \in Nat, NEW leader \in Server,
           s.state \notin {"ERROR", "DOWN"}, term >= s.term,
           NEW t, t = CheckStepDown(s, term, leader)
    PROVE  /\ t \in NodeState
           /\ t.state = "FOLLOWER" /\ t.term = term
           /\ t.leader = leader \/ (t.leader = s.leader /\ term = s.term)
           /\ term > s.term => t.voted = Nil
           /\ term = s.term => t.voted = s.voted
           /\ t.vote.version >= s.vote.version
  <1>1. PICK d \in NodeState : d = (IF term > s.term \/ s.state # "FOLLOWER" \/ s.leader = Nil
                                    THEN StepDown(s, term) ELSE s)
    BY StepDownFacts
  <1>2. /\ d.state = "FOLLOWER" /\ d.term = term
        /\ d.leader = Nil \/ (d.leader = s.leader /\ term = s.term)
        /\ term > s.term => d.voted = Nil
        /\ term = s.term => d.voted = s.voted
        /\ d.vote.version >= s.vote.version
    <2>1. CASE d = StepDown(s, term)
      <3>1. s.term \in Nat
        BY Fields
      <3>2. (term > s.term /\ term # s.term) \/ (term = s.term /\ ~(term > s.term))
        BY <3>1
      <3> QED
        BY <2>1, <3>1, <3>2, StepDownFacts
    <2>2. CASE d = s /\ term = s.term /\ s.state = "FOLLOWER"
      BY <2>2 DEF NodeState, VoteCtx
    <2>3. d = StepDown(s, term) \/ (d = s /\ term = s.term /\ s.state = "FOLLOWER")
      BY <1>1 DEF NodeState
    <2> QED
      BY <2>1, <2>2, <2>3
  <1>3. CheckStepDown(s, term, leader) =
            IF d.leader = Nil THEN [d EXCEPT !.leader = leader, !.pre = EmptyPre] ELSE d
    BY <1>1 DEF CheckStepDown
  <1>4. CASE d.leader = Nil
    <2>1. t = [d EXCEPT !.leader = leader, !.pre = EmptyPre]
      BY <1>3, <1>4
    <2>2. /\ t \in NodeState
          /\ t.state = d.state /\ t.term = d.term /\ t.leader = leader /\ t.voted = d.voted
          /\ t.vote = d.vote
      BY <2>1, EmptyTypes DEF NodeState, Peer
    <2> QED
      BY <1>2, <2>2
  <1>5. CASE d.leader # Nil
    BY <1>2, <1>3, <1>5
  <1> QED
    BY <1>4, <1>5

-----------------------------------------------------------------------------
(* How one node may change, from memory s and meta storage m to t and u.    *)

\* Versions grow, and within a version a candidacy stays what it was.
\* The meta storage does not go back and keeps the vote of its term.
Evolves(n, s, m, t, u) ==
    /\ t.vote.version >= s.vote.version
    /\ t.state = "CANDIDATE" /\ t.vote.version = s.vote.version =>
          /\ s.state = "CANDIDATE"
          /\ t.term = s.term
          /\ m = [term |-> s.term, voted |-> n] => u = m
    /\ u.term >= m.term
    /\ u.term = m.term /\ m.voted # Nil => u.voted = m.voted

\* A process that runs goes on running and keeps the own vote of its term.
Lives(n, s, t) ==
    s.state # "DOWN" =>
        /\ t.state # "DOWN"
        /\ t.term >= s.term
        /\ t.term = s.term /\ s.voted = n => t.voted = n

\* What a node and its meta storage are after step_down, saved or not.
SteppedDown(s, m, term, t, u) ==
    t = StepDown(s, term) /\ \E saved \in BOOLEAN : u = StepDownMeta(s, m, term, saved)

\* How step_down is recognised in a handler.
LEMMA SteppedDownBy ==
    ASSUME NEW s, NEW m, NEW term, NEW saved \in BOOLEAN,
           NEW t, t = StepDown(s, term), NEW u, u = StepDownMeta(s, m, term, saved)
    PROVE  SteppedDown(s, m, term, t, u)
  BY DEF SteppedDown

\* step_down keeps the agreement of memory and meta storage, whether or not the
\* term was saved.
LEMMA StepDownKeeps ==
    ASSUME NEW n \in Server, NEW s \in NodeState, NEW m \in MetaState, NEW V, NEW E,
           NEW term \in Nat, s.state # "DOWN", NodeAgrees(n, s, m, V, E),
           NEW t, NEW u, SteppedDown(s, m, term, t, u)
    PROVE  /\ t \in NodeState
           /\ u \in MetaState
           /\ NodeAgrees(n, t, u, V, E)
           /\ Evolves(n, s, m, t, u)
           /\ Lives(n, s, t)
  <1>0. t = StepDown(s, term)
    BY DEF SteppedDown
  <1>1. t \in NodeState
    BY <1>0, StepDownFacts
  <1>3. /\ s.term \in Nat /\ t.term \in Nat /\ s.vote.version \in Nat /\ t.vote.version \in Nat
        /\ m.term \in Nat /\ m.voted \in Peer
    BY <1>1, Fields DEF MetaState
  <1>4. \/ u = m
        \/ t.term > s.term /\ u = [term |-> term, voted |-> Nil]
    BY <1>0 DEF SteppedDown, StepDownMeta
  <1>5. CASE s.state = "ERROR"
    <2>1. t = s
      BY <1>0, <1>1, <1>5, StepDownFacts
    <2>2. u = m
      BY <1>3, <1>4, <2>1
    <2> QED
      BY <1>3, <1>5, <2>1, <2>2 DEF Evolves, Lives
  <1>6. CASE s.state # "ERROR"
    <2>1. /\ t.state = "FOLLOWER" /\ t.leader = Nil
          /\ term > s.term => t.term = term /\ t.voted = Nil
          /\ term <= s.term => t.term = s.term /\ t.voted = s.voted
          /\ t.vote.version >= s.vote.version
      BY <1>0, <1>1, <1>6, StepDownFacts
    <2>2. CASE term > s.term
      <3>1. u = m \/ u = [term |-> term, voted |-> Nil]
        BY <1>4
      <3>2. u \in MetaState
        BY <3>1 DEF MetaState, Peer
      <3>3. m.term <= s.term /\ t.term = term /\ t.voted = Nil
        BY <2>1, <2>2 DEF NodeAgrees
      <3>4. u.term >= m.term /\ u.term <= t.term /\ (u.term = m.term => u = m)
            /\ (u.term = t.term => u.voted = Nil)
        BY <1>3, <2>2, <3>1, <3>3
      <3> QED
        BY <1>1, <1>3, <2>1, <2>2, <3>2, <3>3, <3>4 DEF NodeAgrees, Evolves, Lives
    <2>3. CASE term <= s.term
      <3>1. t.term = s.term /\ t.voted = s.voted /\ u = m
        BY <1>3, <1>4, <2>1, <2>3
      <3> QED
        BY <1>1, <1>3, <2>1, <3>1 DEF NodeAgrees, Evolves, Lives
    <2> QED
      BY <1>3, <2>2, <2>3
  <1> QED
    BY <1>5, <1>6

\* elect_self keeps the agreement of memory and meta storage.
LEMMA ElectSelfKeeps ==
    ASSUME NEW n \in Server, NEW s \in NodeState, NEW m \in MetaState, NEW V, NEW E,
           NEW old_leader_stepped_down \in BOOLEAN,
           s.state # "DOWN", NodeAgrees(n, s, m, V, E),
           NEW t, t = ElectSelf(s, n, old_leader_stepped_down)
    PROVE  /\ t \in NodeState
           /\ NodeAgrees(n, t, m, V, E)
           /\ Evolves(n, s, m, t, m)
           /\ Lives(n, s, t)
  <1>1. t \in NodeState
    BY ElectSelfFacts
  <1>2. /\ t.state = "CANDIDATE" /\ t.term = s.term + 1 /\ t.voted = n /\ t.leader = Nil
        /\ t.vote.version = s.vote.version + 1
        /\ ~t.vote.armed
        /\ t.vote.ballot = InitBallot(Conf, OldConf)
    BY ElectSelfFacts
  <1>3. s.term \in Nat /\ s.vote.version \in Nat /\ m.term \in Nat
    BY Fields DEF MetaState
  <1>4. /\ t.vote.ballot.new.peers = Conf
        /\ t.vote.ballot.new.found = {}
        /\ t.vote.ballot.new.quorum = (Cardinality(Conf) \div 2) + 1
    BY <1>2 DEF InitBallot, Half
  <1>5. (Cardinality(Conf) \div 2) + 1 = (Cardinality(Conf) \div 2) + 1 - Cardinality({})
    BY FS_EmptySet, FS_Subset, FS_CardinalityType, ServerAssumption
  <1>6. NodeAgrees(n, t, m, V, E)
    BY <1>2, <1>3, <1>4, <1>5 DEF NodeAgrees
  <1>7. Evolves(n, s, m, t, m) /\ Lives(n, s, t)
    BY SMTT(60), <1>2, <1>3 DEF Evolves, Lives
  <1> QED
    BY <1>1, <1>6, <1>7

\* Neither do changes that concern only _pre_vote_ctx, the lease, the leader
\* that is forgotten or a flag.
LEMMA MinorKeeps ==
    ASSUME NEW n \in Server, NEW s \in NodeState, NEW t \in NodeState, NEW m \in MetaState,
           NEW V, NEW E, NodeAgrees(n, s, m, V, E),
           t.state = s.state \/ (s.state \in Leading /\ t.state \in Leading),
           t.term = s.term, t.voted = s.voted, t.leader \in {s.leader, Nil}, t.vote = s.vote
    PROVE  /\ NodeAgrees(n, t, m, V, E)
           /\ Evolves(n, s, m, t, m)
           /\ Lives(n, s, t)
  <1>1. s.term \in Nat /\ s.vote.version \in Nat /\ m.term \in Nat
    BY Fields DEF MetaState
  <1>2. /\ t.state = "DOWN" <=> s.state = "DOWN"
        /\ t.state = "CANDIDATE" <=> s.state = "CANDIDATE"
    BY DEF Leading
  <1>3. NodeAgrees(n, t, m, V, E)
    BY <1>1, <1>2 DEF NodeAgrees
  <1> QED
    BY <1>1, <1>2, <1>3 DEF Evolves, Lives

-----------------------------------------------------------------------------
(* What a step of node n leaves true of the rest.                          *)

\* Only node n changes, and as allowed.
NodeStep(n) ==
    /\ \A k \in Server : k # n => node'[k] = node[k] /\ meta'[k] = meta[k]
    /\ NodeAgrees(n, node'[n], meta'[n], votes', elected')
    /\ Evolves(n, node[n], meta[n], node'[n], meta'[n])
    /\ votes \subseteq votes' /\ elected \subseteq elected'

\* A node that does not change has evolved.
LEMMA EvolvesTrivially ==
    ASSUME NEW n, NEW s \in NodeState, NEW m \in MetaState
    PROVE  Evolves(n, s, m, s, m) /\ Lives(n, s, s)
  <1>1. s.term \in Nat /\ s.vote.version \in Nat /\ m.term \in Nat
    BY Fields DEF MetaState
  <1> QED
    BY <1>1 DEF Evolves, Lives

\* Two changes of a node in a row, as in a handler that steps down first, make one.
LEMMA EvolvesTransitively ==
    ASSUME NEW n, NEW s \in NodeState, NEW m \in MetaState, NEW t \in NodeState,
           NEW u \in MetaState, NEW w \in NodeState, NEW x \in MetaState
    PROVE  /\ Evolves(n, s, m, t, u) /\ Evolves(n, t, u, w, x) => Evolves(n, s, m, w, x)
           /\ Lives(n, s, t) /\ Lives(n, t, w) => Lives(n, s, w)
  <1>1. /\ s.term \in Nat /\ s.vote.version \in Nat /\ m.term \in Nat
        /\ t.term \in Nat /\ t.vote.version \in Nat /\ u.term \in Nat
        /\ w.term \in Nat /\ w.vote.version \in Nat /\ x.term \in Nat
    BY Fields DEF MetaState
  <1>2. ASSUME Evolves(n, s, m, t, u), Evolves(n, t, u, w, x)
        PROVE  Evolves(n, s, m, w, x)
    <2>1. w.vote.version >= s.vote.version /\ x.term >= m.term
      BY <1>1, <1>2 DEF Evolves
    <2>2. ASSUME x.term = m.term, m.voted # Nil
          PROVE  x.voted = m.voted
      BY <1>1, <1>2, <2>2 DEF Evolves
    <2>3. ASSUME w.state = "CANDIDATE", w.vote.version = s.vote.version
          PROVE  /\ s.state = "CANDIDATE"
                 /\ w.term = s.term
                 /\ m = [term |-> s.term, voted |-> n] => x = m
      <3>1. w.vote.version = t.vote.version /\ t.vote.version = s.vote.version
        BY <1>1, <1>2, <2>3 DEF Evolves
      <3>2. t.state = "CANDIDATE" /\ w.term = t.term
            /\ (u = [term |-> t.term, voted |-> n] => x = u)
        BY <1>2, <2>3, <3>1 DEF Evolves
      <3>3. s.state = "CANDIDATE" /\ t.term = s.term
            /\ (m = [term |-> s.term, voted |-> n] => u = m)
        BY <1>2, <3>1, <3>2 DEF Evolves
      <3> QED
        BY <3>2, <3>3
    <2> QED
      BY <2>1, <2>2, <2>3 DEF Evolves
  <1>3. ASSUME Lives(n, s, t), Lives(n, t, w)
        PROVE  Lives(n, s, w)
    BY <1>1, <1>3 DEF Lives
  <1> QED
    BY <1>2, <1>3

\* What a request in flight knows of the context it was sent for stays true.
LEMMA VersionStaysKnown ==
    ASSUME NEW n, NEW s \in NodeState, NEW m \in MetaState, NEW t \in NodeState,
           NEW u \in MetaState, Evolves(n, s, m, t, u),
           NEW version \in Nat, VersionKnown(n, version, s, m)
    PROVE  VersionKnown(n, version, t, u)
  <1>1. s.vote.version \in Nat /\ t.vote.version \in Nat
    BY Fields
  <1>2. version <= t.vote.version
    BY <1>1 DEF Evolves, VersionKnown
  <1>3. ASSUME t.state = "CANDIDATE", version = t.vote.version
        PROVE  u = [term |-> t.term, voted |-> n]
    <2>1. t.vote.version = s.vote.version
      BY <1>1, <1>3 DEF Evolves, VersionKnown
    <2>2. s.state = "CANDIDATE" /\ t.term = s.term /\ version = s.vote.version
      BY <1>3, <2>1 DEF Evolves
    <2>3. m = [term |-> s.term, voted |-> n]
      BY <2>2 DEF VersionKnown
    <2> QED
      BY <1>3, <2>1, <2>2, <2>3 DEF Evolves
  <1> QED
    BY <1>2, <1>3 DEF VersionKnown

\* After a step of node n every node has evolved.
LEMMA AllEvolve ==
    ASSUME TypeOK, TypeOK', NEW n \in Server, NodeStep(n)
    PROVE  \A k \in Server : Evolves(k, node[k], meta[k], node'[k], meta'[k])
  <1> SUFFICES ASSUME NEW k \in Server
               PROVE  Evolves(k, node[k], meta[k], node'[k], meta'[k])
    OBVIOUS
  <1>1. node[k] \in NodeState /\ meta[k] \in MetaState
    BY DEF TypeOK
  <1>2. CASE k = n
    BY <1>2 DEF NodeStep
  <1>3. CASE k # n
    BY <1>1, <1>3, EvolvesTrivially DEF NodeStep
  <1> QED
    BY <1>2, <1>3

\* What was known of a message, a vote or a leadership stays known.
LEMMA KnownStays ==
    ASSUME TypeOK, TypeOK', NEW n \in Server, NodeStep(n)
    PROVE  /\ \A r \in Request : RequestKnown(r) => RequestKnown(r)'
           /\ \A a \in Response : ResponseKnown(a) => ResponseKnown(a)'
           /\ \A v \in votes : VoteSaved(v) => VoteSaved(v)'
           /\ \A e \in elected : LeaderBacked(e) => LeaderBacked(e)'
  <1>1. \A k \in Server : /\ node[k] \in NodeState /\ node'[k] \in NodeState
                          /\ meta[k] \in MetaState /\ meta'[k] \in MetaState
    BY DEF TypeOK
  <1>2. \A k \in Server : Evolves(k, node[k], meta[k], node'[k], meta'[k])
    BY AllEvolve
  <1>3. ASSUME NEW r \in Request, RequestKnown(r)
        PROVE  RequestKnown(r)'
    <2>1. r.from \in Server /\ r.version \in Nat
      BY DEF Request
    <2>2. VersionKnown(r.from, r.version, node'[r.from], meta'[r.from])
      BY <1>1, <1>2, <1>3, <2>1, VersionStaysKnown DEF RequestKnown
    <2> QED
      BY <1>3, <2>2 DEF RequestKnown
  <1>4. ASSUME NEW a \in Response, ResponseKnown(a)
        PROVE  ResponseKnown(a)'
    <2>1. a.to \in Server /\ a.version \in Nat
      BY DEF Response
    <2>2. VersionKnown(a.to, a.version, node'[a.to], meta'[a.to])
      BY <1>1, <1>2, <1>4, <2>1, VersionStaysKnown DEF ResponseKnown
    <2> QED
      BY <1>4, <2>2 DEF ResponseKnown, NodeStep
  <1>5. ASSUME NEW v \in votes, VoteSaved(v)
        PROVE  VoteSaved(v)'
    <2>1. v[1] \in Server /\ v[2] \in Nat /\ v[3] \in Server
      BY DEF TypeOK
    <2>2. /\ meta'[v[1]].term >= meta[v[1]].term
          /\ meta'[v[1]].term = meta[v[1]].term /\ meta[v[1]].voted # Nil
                => meta'[v[1]].voted = meta[v[1]].voted
      BY <1>2, <2>1 DEF Evolves
    <2>3. meta[v[1]].term \in Nat /\ meta'[v[1]].term \in Nat
      BY <1>1, <2>1 DEF MetaState
    <2>4. CASE v[2] < meta[v[1]].term
      BY <2>1, <2>2, <2>3, <2>4 DEF VoteSaved
    <2>5. CASE meta[v[1]] = [term |-> v[2], voted |-> v[3]]
      <3>1. v[3] # Nil
        BY <2>1, ServerAssumption
      <3>2. CASE meta'[v[1]].term = v[2]
        <4>1. meta'[v[1]].voted = v[3]
          BY <2>2, <2>5, <3>1, <3>2
        <4>2. meta'[v[1]] \in [term : Nat, voted : Peer]
          BY <1>1, <2>1 DEF MetaState
        <4>3. meta'[v[1]] = [term |-> v[2], voted |-> v[3]]
          BY <3>2, <4>1, <4>2
        <4> QED
          BY <4>3 DEF VoteSaved
      <3>3. CASE meta'[v[1]].term # v[2]
        BY <2>1, <2>2, <2>3, <2>5, <3>3 DEF VoteSaved
      <3> QED
        BY <3>2, <3>3
    <2> QED
      BY <1>5, <2>4, <2>5 DEF VoteSaved
  <1>6. ASSUME NEW e \in elected, LeaderBacked(e)
        PROVE  LeaderBacked(e)'
    BY <1>6 DEF LeaderBacked, NodeStep
  <1> QED
    BY <1>3, <1>4, <1>5, <1>6

\* A step of node n leaves the other nodes in agreement with their meta storage.
LEMMA OthersAgree ==
    ASSUME ElectionInvariant, TypeOK', NEW n \in Server, NodeStep(n)
    PROVE  \A k \in Server : NodeAgrees(k, node'[k], meta'[k], votes', elected')
  <1>1. ASSUME NEW k \in Server, k # n
        PROVE  NodeAgrees(k, node'[k], meta'[k], votes', elected')
    <2>1. NodeAgrees(k, node[k], meta[k], votes, elected)
      BY DEF ElectionInvariant
    <2>2. NodeAgrees(k, node[k], meta[k], votes', elected')
      BY <2>1 DEF NodeAgrees, NodeStep
    <2> QED
      BY <1>1, <2>2 DEF NodeStep
  <1> QED
    BY <1>1 DEF NodeStep

\* A step keeps the invariant, and the saved votes.
StepIsRight == ElectionInvariant' /\ SavedVotesKept

\* What is left to show of a step of n: that it is a NodeStep, that the calls
\* that go on are known, and what is new.
LEMMA AnyStepKeeps ==
    ASSUME ElectionInvariant, TypeOK', NEW n \in Server, NodeStep(n),
           \A d \in pre_voting' : node'[d.node].state # "DOWN",
           \A d \in electing' : ElectingKnown(d)',
           \A d \in voting' : node'[d.request.to].state # "DOWN",
           \A d \in voting' \ voting : RequestKnown(d.request)',
           \A r \in requests' \ requests : RequestKnown(r)',
           \A a \in responses' \ responses : ResponseKnown(a)',
           \A v \in votes' \ votes : meta'[v[1]] = [term |-> v[2], voted |-> v[3]],
           \A e \in elected' \ elected : LeaderBacked(e)'
    PROVE  StepIsRight
  <1>1. /\ TypeOK
        /\ voting \subseteq [request : Request, previous_term : Nat, last_log : LogId]
        /\ requests \subseteq Request
        /\ responses \subseteq Response
    BY DEF ElectionInvariant, TypeOK
  <1>2. \A k \in Server : NodeAgrees(k, node'[k], meta'[k], votes', elected')
    BY OthersAgree
  <1>3. \A d \in voting' : node'[d.request.to].state # "DOWN" /\ RequestKnown(d.request)'
    <2>1. ASSUME NEW d \in voting
          PROVE  RequestKnown(d.request)'
      <3>1. d.request \in Request
        BY <1>1
      <3>2. RequestKnown(d.request)
        BY DEF ElectionInvariant
      <3> QED
        BY <1>1, <3>1, <3>2, KnownStays
    <2> QED
      BY <2>1
  <1>4. \A r \in requests' : RequestKnown(r)'
    BY <1>1, KnownStays DEF ElectionInvariant
  <1>5. \A a \in responses' : ResponseKnown(a)'
    BY <1>1, KnownStays DEF ElectionInvariant
  <1>6. \A v \in votes : VoteSaved(v)'
    BY <1>1, KnownStays DEF ElectionInvariant
  <1>7. \A v \in votes' : VoteSaved(v)'
    BY <1>6 DEF VoteSaved
  <1>8. VotesOnce'
    <2> SUFFICES ASSUME NEW v \in votes', NEW w \in votes', v[1] = w[1], v[2] = w[2]
                 PROVE  v[3] = w[3]
      BY DEF VotesOnce
    <2>1. v[2] \in Nat /\ w[2] \in Nat
      BY DEF TypeOK
    <2>2. CASE v \in votes /\ w \in votes
      BY <2>2 DEF ElectionInvariant, VotesOnce
    <2>3. CASE v \notin votes
      <3>1. meta'[v[1]] = [term |-> v[2], voted |-> v[3]]
        BY <2>3
      <3>2. \/ w[2] < meta'[w[1]].term
            \/ meta'[w[1]] = [term |-> w[2], voted |-> w[3]]
        BY <1>7 DEF VoteSaved
      <3> QED
        BY SMTT(60), <2>1, <3>1, <3>2
    <2>4. CASE w \notin votes
      <3>1. meta'[w[1]] = [term |-> w[2], voted |-> w[3]]
        BY <2>4
      <3>2. \/ v[2] < meta'[v[1]].term
            \/ meta'[v[1]] = [term |-> v[2], voted |-> v[3]]
        BY <1>7 DEF VoteSaved
      <3> QED
        BY <2>1, <3>1, <3>2
    <2> QED
      BY <2>2, <2>3, <2>4
  <1>9. \A e \in elected' : LeaderBacked(e)'
    BY <1>1, KnownStays DEF ElectionInvariant
  <1>10. SavedVotesKept
    <2>1. \A k \in Server : Evolves(k, node[k], meta[k], node'[k], meta'[k])
      BY <1>1, AllEvolve
    <2> QED
      BY <2>1 DEF Evolves, SavedVotesKept
  <1> QED
    BY <1>2, <1>3, <1>4, <1>5, <1>7, <1>8, <1>9, <1>10 DEF ElectionInvariant, StepIsRight

\* A candidacy that elect_self left to its flush is known after a step of a node
\* that runs on.
LEMMA ElectingStaysKnown ==
    ASSUME TypeOK, TypeOK', NEW n \in Server, NodeStep(n), Lives(n, node[n], node'[n]),
           NEW d, d.node \in Server, d.term \in Nat, ElectingKnown(d)
    PROVE  ElectingKnown(d)'
  <1>1. CASE d.node = n
    <2>1. node[n].term \in Nat /\ node'[n].term \in Nat
      BY Fields DEF TypeOK
    <2> QED
      BY <1>1, <2>1 DEF ElectingKnown, Lives
  <1>2. CASE d.node # n
    BY <1>2 DEF ElectingKnown, NodeStep
  <1> QED
    BY <1>1, <1>2

\* The same for a step after which the process of n still runs.
LEMMA StepKeeps ==
    ASSUME ElectionInvariant, TypeOK', NEW n \in Server, NodeStep(n),
           Lives(n, node[n], node'[n]),
           \A d \in pre_voting' \ pre_voting : node'[d.node].state # "DOWN",
           \A d \in electing' \ electing : ElectingKnown(d)',
           \A d \in voting' \ voting : /\ node'[d.request.to].state # "DOWN"
                                       /\ RequestKnown(d.request)',
           \A r \in requests' \ requests : RequestKnown(r)',
           \A a \in responses' \ responses : ResponseKnown(a)',
           \A v \in votes' \ votes : meta'[v[1]] = [term |-> v[2], voted |-> v[3]],
           \A e \in elected' \ elected : LeaderBacked(e)'
    PROVE  StepIsRight
  <1>1. \A k \in Server : node[k].state # "DOWN" => node'[k].state # "DOWN"
    BY DEF Lives, NodeStep
  <1>2. ASSUME NEW d \in electing
        PROVE  ElectingKnown(d)'
    <2>1. d.node \in Server /\ d.term \in Nat
      BY DEF ElectionInvariant, TypeOK
    <2>2. ElectingKnown(d)
      BY DEF ElectionInvariant
    <2> QED
      BY <2>1, <2>2, ElectingStaysKnown DEF ElectionInvariant
  <1>3. ASSUME NEW d \in pre_voting
        PROVE  node'[d.node].state # "DOWN"
    <2>1. d.node \in Server /\ node[d.node].state # "DOWN"
      BY DEF ElectionInvariant, TypeOK
    <2> QED
      BY <1>1, <2>1
  <1>4. ASSUME NEW d \in voting
        PROVE  node'[d.request.to].state # "DOWN"
    <2>1. d.request.to \in Server /\ node[d.request.to].state # "DOWN"
      BY DEF ElectionInvariant, TypeOK, Request
    <2> QED
      BY <1>1, <2>1
  <1>5. /\ \A d \in pre_voting' : node'[d.node].state # "DOWN"
        /\ \A d \in electing' : ElectingKnown(d)'
        /\ \A d \in voting' : node'[d.request.to].state # "DOWN"
    BY <1>2, <1>3, <1>4
  <1> QED
    BY <1>5, AnyStepKeeps

\* Steps that send, call, vote and elect nothing.
LEMMA QuietStep ==
    ASSUME ElectionInvariant, TypeOK', NEW n \in Server, NEW t \in NodeState, NEW u \in MetaState,
           node' = [node EXCEPT ![n] = t], meta' = [meta EXCEPT ![n] = u],
           NodeAgrees(n, t, u, votes, elected), Evolves(n, node[n], meta[n], t, u),
           Lives(n, node[n], t),
           UNCHANGED <<pre_voting, electing, voting, requests, responses, votes, elected>>
    PROVE  StepIsRight
  <1>1. node'[n] = t /\ meta'[n] = u
    BY DEF ElectionInvariant, TypeOK
  <1>2. NodeStep(n)
    BY <1>1 DEF NodeStep, ElectionInvariant, TypeOK
  <1>3. Lives(n, node[n], node'[n])
    BY <1>1
  <1> QED
    BY <1>2, <1>3, StepKeeps

\* Whether the meta storage saved is a Boolean.
LEMMA SavedType ==
    ASSUME NEW caller
    PROVE  Saved(caller) \subseteq BOOLEAN
  BY DEF Saved

\* The memory and the meta storage of a node are well typed.
LEMMA NodeTypes ==
    ASSUME TypeOK, NEW n \in Server
    PROVE  /\ node[n] \in NodeState
           /\ meta[n] \in MetaState
           /\ log[n] \in LogId
  BY DEF TypeOK
=============================================================================
