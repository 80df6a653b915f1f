--------------------------- MODULE ElectionActions --------------------------
(***************************************************************************)
(* One lemma per action of Election.tla, for the actions that count no     *)
(* vote of a candidacy: a step from a state that satisfies                 *)
(* ElectionInvariant is right (StepIsRight).                               *)
(***************************************************************************)
EXTENDS ElectionLemmas

-----------------------------------------------------------------------------
(* The actions                                                             *)

\* FollowerLease: the lease of a follower ends.
LEMMA LeaseExpiresKeeps ==
    ASSUME ElectionInvariant, NEW n \in Server, lease_expires(n)
    PROVE  StepIsRight
  <1>1. TypeOK /\ NodeAgrees(n, node[n], meta[n], votes, elected)
    BY DEF ElectionInvariant
  <1>2. PICK t \in NodeState : t = [node[n] EXCEPT !.lease = FALSE]
    BY <1>1, NodeTypes DEF NodeState
  <1>3. node' = [node EXCEPT ![n] = t] /\ meta' = [meta EXCEPT ![n] = meta[n]]
    BY <1>1, <1>2 DEF lease_expires, TypeOK
  <1>4. TypeOK'
    <2>1. NoLeader \in Disrupted
      BY DEF NoLeader, Disrupted, Peer
    <2> QED
      BY <1>1, <1>2, <1>3, <2>1 DEF lease_expires, TypeOK, calls, wire, history
  <1>5. /\ t.state = node[n].state /\ t.term = node[n].term /\ t.voted = node[n].voted
        /\ t.leader = node[n].leader /\ t.vote = node[n].vote
    BY <1>1, <1>2, NodeTypes DEF NodeState
  <1>6. /\ NodeAgrees(n, t, meta[n], votes, elected)
        /\ Evolves(n, node[n], meta[n], t, meta[n])
        /\ Lives(n, node[n], t)
    BY <1>1, <1>5, NodeTypes, MinorKeeps
  <1>7. UNCHANGED <<pre_voting, electing, voting, requests, responses, votes, elected>>
    BY DEF lease_expires, calls, wire, history
  <1> QED
    BY <1>1, <1>3, <1>4, <1>6, <1>7, NodeTypes, QuietStep

\* NodeImpl::vote shortens the election timeout.
LEMMA VoteKeeps ==
    ASSUME ElectionInvariant, NEW n \in Server, vote(n)
    PROVE  StepIsRight
  <1>1. TypeOK /\ NodeAgrees(n, node[n], meta[n], votes, elected)
    BY DEF ElectionInvariant
  <1>2. PICK t \in NodeState : t = [node[n] EXCEPT !.triggered = TRUE]
    BY <1>1, NodeTypes DEF NodeState
  <1>3. node' = [node EXCEPT ![n] = t] /\ meta' = [meta EXCEPT ![n] = meta[n]]
    BY <1>1, <1>2 DEF vote, TypeOK
  <1>4. TypeOK'
    BY <1>1, <1>2, <1>3 DEF vote, TypeOK, calls, wire, history
  <1>5. /\ t.state = node[n].state /\ t.term = node[n].term /\ t.voted = node[n].voted
        /\ t.leader = node[n].leader /\ t.vote = node[n].vote
    BY <1>1, <1>2, NodeTypes DEF NodeState
  <1>6. /\ NodeAgrees(n, t, meta[n], votes, elected)
        /\ Evolves(n, node[n], meta[n], t, meta[n])
        /\ Lives(n, node[n], t)
    BY <1>1, <1>5, NodeTypes, MinorKeeps
  <1>7. UNCHANGED <<pre_voting, electing, voting, requests, responses, votes, elected>>
    BY DEF vote, calls, wire, history
  <1> QED
    BY <1>1, <1>3, <1>4, <1>6, <1>7, NodeTypes, QuietStep

\* handle_transfer_timeout ends a transfer.
LEMMA HandleTransferTimeoutKeeps ==
    ASSUME ElectionInvariant, NEW n \in Server, handle_transfer_timeout(n)
    PROVE  StepIsRight
  <1>1. TypeOK /\ NodeAgrees(n, node[n], meta[n], votes, elected)
    BY DEF ElectionInvariant
  <1>2. PICK t \in NodeState : t = [node[n] EXCEPT !.state = "LEADER"]
    BY <1>1, NodeTypes DEF NodeState
  <1>3. node' = [node EXCEPT ![n] = t] /\ meta' = [meta EXCEPT ![n] = meta[n]]
    BY <1>1, <1>2 DEF handle_transfer_timeout, TypeOK
  <1>4. TypeOK'
    BY <1>1, <1>2, <1>3 DEF handle_transfer_timeout, TypeOK, calls, wire, history
  <1>5. /\ t.state \in Leading /\ node[n].state \in Leading
        /\ t.term = node[n].term /\ t.voted = node[n].voted
        /\ t.leader = node[n].leader /\ t.vote = node[n].vote
    BY <1>1, <1>2, NodeTypes DEF NodeState, handle_transfer_timeout, Leading
  <1>6. /\ NodeAgrees(n, t, meta[n], votes, elected)
        /\ Evolves(n, node[n], meta[n], t, meta[n])
        /\ Lives(n, node[n], t)
    BY <1>1, <1>5, NodeTypes, MinorKeeps
  <1>7. UNCHANGED <<pre_voting, electing, voting, requests, responses, votes, elected>>
    BY DEF handle_transfer_timeout, calls, wire, history
  <1> QED
    BY <1>1, <1>3, <1>4, <1>6, <1>7, NodeTypes, QuietStep

\* transfer_leadership_to begins a transfer.
LEMMA TransferLeadershipToKeeps ==
    ASSUME ElectionInvariant, NEW n \in Server, NEW peer \in Server,
           transfer_leadership_to(n, peer)
    PROVE  StepIsRight
  <1>1. TypeOK /\ NodeAgrees(n, node[n], meta[n], votes, elected)
    BY DEF ElectionInvariant
  <1>2. PICK t \in NodeState : t = [node[n] EXCEPT !.state = "TRANSFERRING"]
    BY <1>1, NodeTypes DEF NodeState
  <1>3. node' = [node EXCEPT ![n] = t] /\ meta' = [meta EXCEPT ![n] = meta[n]]
    BY <1>1, <1>2 DEF transfer_leadership_to, TypeOK
  <1>4. TypeOK'
    <2>1. node[n].term \in Nat
      BY <1>1, NodeTypes, Fields
    <2>2. [from |-> n, to |-> peer, term |-> node[n].term, old_leader_stepped_down |-> FALSE]
            \in [from : Server, to : Server, term : Nat, old_leader_stepped_down : BOOLEAN]
      BY <2>1
    <2>3. timeout_now' \subseteq [from : Server, to : Server, term : Nat,
                                  old_leader_stepped_down : BOOLEAN]
      BY <1>1, <2>2 DEF transfer_leadership_to, TypeOK
    <2> QED
      BY <1>1, <1>2, <1>3, <2>3 DEF transfer_leadership_to, TypeOK, calls, history
  <1>5. /\ t.state \in Leading /\ node[n].state \in Leading
        /\ t.term = node[n].term /\ t.voted = node[n].voted
        /\ t.leader = node[n].leader /\ t.vote = node[n].vote
    BY <1>1, <1>2, NodeTypes DEF NodeState, transfer_leadership_to, Leading
  <1>6. /\ NodeAgrees(n, t, meta[n], votes, elected)
        /\ Evolves(n, node[n], meta[n], t, meta[n])
        /\ Lives(n, node[n], t)
    BY <1>1, <1>5, NodeTypes, MinorKeeps
  <1>7. UNCHANGED <<pre_voting, electing, voting, requests, responses, votes, elected>>
    BY DEF transfer_leadership_to, calls, history
  <1> QED
    BY <1>1, <1>3, <1>4, <1>6, <1>7, NodeTypes, QuietStep

\* handle_stepdown_timeout: a leader that hears of no quorum steps down.
LEMMA HandleStepdownTimeoutKeeps ==
    ASSUME ElectionInvariant, NEW n \in Server, handle_stepdown_timeout(n)
    PROVE  StepIsRight
  <1>1. TypeOK /\ NodeAgrees(n, node[n], meta[n], votes, elected)
    BY DEF ElectionInvariant
  <1>2. node[n].term \in Nat /\ node[n].state \notin {"ERROR", "DOWN"}
    BY <1>1, NodeTypes, Fields DEF handle_stepdown_timeout, Leading
  <1>3. PICK t \in NodeState : t = StepDown(node[n], node[n].term)
    BY <1>1, <1>2, NodeTypes, StepDownFacts
  <1>4. PICK u : \E saved \in BOOLEAN : u = StepDownMeta(node[n], meta[n], node[n].term, saved)
    OBVIOUS
  <1>5. u = meta[n]
    <2>1. node[n] \in NodeState /\ node[n].term <= node[n].term
      BY <1>1, <1>2, NodeTypes
    <2>2. StepDown(node[n], node[n].term).term = node[n].term
      BY <1>2, <2>1, StepDownFacts
    <2> QED
      BY <1>2, <1>4, <2>2 DEF StepDownMeta
  <1>6. node' = [node EXCEPT ![n] = t] /\ meta' = [meta EXCEPT ![n] = u]
    BY <1>1, <1>3, <1>5 DEF handle_stepdown_timeout, TypeOK
  <1>7. TypeOK'
    BY <1>1, <1>3, <1>6 DEF handle_stepdown_timeout, TypeOK, calls, wire, history
  <1>8. /\ u \in MetaState
        /\ NodeAgrees(n, t, u, votes, elected)
        /\ Evolves(n, node[n], meta[n], t, u)
        /\ Lives(n, node[n], t)
    <2>1. SteppedDown(node[n], meta[n], node[n].term, t, u)
      BY <1>3, <1>4, SteppedDownBy
    <2>2. node[n] \in NodeState /\ meta[n] \in MetaState
      BY <1>1, NodeTypes
    <2> QED
      BY <1>1, <1>2, <2>1, <2>2, StepDownKeeps
  <1>9. UNCHANGED <<pre_voting, electing, voting, requests, responses, votes, elected>>
    BY DEF handle_stepdown_timeout, calls, wire, history
  <1> QED
    BY <1>6, <1>7, <1>8, <1>9, QuietStep

\* increase_term_to: an answer with a higher term.
LEMMA IncreaseTermToKeeps ==
    ASSUME ElectionInvariant, NEW a \in replies, increase_term_to(a)
    PROVE  StepIsRight
  <1> DEFINE n == a.to
  <1>1. /\ TypeOK /\ n \in Server /\ a.term \in Nat
        /\ NodeAgrees(n, node[n], meta[n], votes, elected)
    BY DEF ElectionInvariant, TypeOK
  <1>2. node[n].state # "DOWN"
    BY DEF increase_term_to, Active, Leading
  <1>3. PICK saved \in Saved("step_down") :
            meta' = [meta EXCEPT ![n] = StepDownMeta(node[n], meta[n], a.term, saved)]
    BY DEF increase_term_to
  <1>4. saved \in BOOLEAN
    BY SavedType
  <1> DEFINE t == StepDown(node[n], a.term)
             u == StepDownMeta(node[n], meta[n], a.term, saved)
  <1>5. /\ t \in NodeState /\ u \in MetaState
        /\ NodeAgrees(n, t, u, votes, elected)
        /\ Evolves(n, node[n], meta[n], t, u)
        /\ Lives(n, node[n], t)
    <2>1. SteppedDown(node[n], meta[n], a.term, t, u)
      BY <1>4, SteppedDownBy
    <2>2. node[n] \in NodeState /\ meta[n] \in MetaState
      BY <1>1, NodeTypes
    <2> HIDE DEF t, u
    <2> QED
      BY <1>1, <1>2, <2>1, <2>2, StepDownKeeps
  <1>6. node' = [node EXCEPT ![n] = t] /\ meta' = [meta EXCEPT ![n] = u]
    BY <1>3 DEF increase_term_to
  <1> HIDE DEF t, u, n
  <1>7. TypeOK'
    BY <1>1, <1>5, <1>6 DEF increase_term_to, TypeOK, calls, history
  <1>8. UNCHANGED <<pre_voting, electing, voting, requests, responses, votes, elected>>
    BY DEF increase_term_to, calls, history
  <1> QED
    BY <1>1, <1>5, <1>6, <1>7, <1>8, QuietStep

\* The process dies: the memory and the running handlers are gone.  Requests that
\* it sent at last are of a version that no later context has.
LEMMA DiesKeeps ==
    ASSUME ElectionInvariant, NEW n \in Server, dies(n),
           UNCHANGED <<meta, log, responses, timeout_now, elected, votes, promise, aborted>>,
           \A r \in requests' \ requests :
                r \in Request /\ r.from = n /\ r.to # n /\ r.version = node[n].vote.version
    PROVE  StepIsRight
  <1>1. TypeOK /\ node[n] \in NodeState /\ meta[n] \in MetaState
    BY NodeTypes DEF ElectionInvariant
  <1>2. node[n].vote.version \in Nat /\ meta[n].term \in Nat
    BY <1>1, Fields DEF MetaState
  <1>3. PICK t \in NodeState : t = [Down EXCEPT !.vote.version = node[n].vote.version + 1]
    <2>1. PICK v \in VoteCtx : v = [EmptyVote EXCEPT !.version = node[n].vote.version + 1]
      <3>1. node[n].vote.version + 1 \in Nat
        BY <1>2
      <3> QED
        BY <3>1, EmptyTypes DEF VoteCtx
    <2>2. [Down EXCEPT !.vote = v] \in NodeState
      BY EmptyTypes DEF NodeState
    <2>3. Down.vote = EmptyVote
      BY DEF Down
    <2>4. [Down EXCEPT !.vote.version = node[n].vote.version + 1] = [Down EXCEPT !.vote = v]
      BY <2>1, <2>3
    <2> QED
      BY <2>2, <2>4
  <1>4. t.state = "DOWN" /\ t.leader = Nil /\ t.vote.version = node[n].vote.version + 1
    BY <1>3, EmptyTypes DEF Down, NodeState, VoteCtx
  <1>5. node' = [node EXCEPT ![n] = t] /\ meta' = [meta EXCEPT ![n] = meta[n]]
    BY <1>1, <1>3 DEF dies, TypeOK
  <1>6. TypeOK'
    <2>1. requests' \subseteq Request
      BY <1>1 DEF TypeOK
    <2>2. node' \in [Server -> NodeState] /\ crashes' \in Nat
      BY <1>1, <1>3, <1>5 DEF dies, TypeOK
    <2>3. /\ pre_voting' \subseteq pre_voting /\ electing' \subseteq electing
          /\ voting' \subseteq voting /\ replies' \subseteq replies
      BY DEF dies
    <2> QED
      BY <1>1, <2>1, <2>2, <2>3 DEF TypeOK
  <1>7. NodeStep(n)
    <2>1. node'[n] = t /\ meta'[n] = meta[n] /\ votes' = votes /\ elected' = elected
      BY <1>1, <1>5 DEF TypeOK
    <2>2. NodeAgrees(n, t, meta[n], votes, elected)
      BY <1>4 DEF NodeAgrees
    <2>3. Evolves(n, node[n], meta[n], t, meta[n])
      BY <1>2, <1>4 DEF Evolves
    <2> QED
      BY <1>1, <1>5, <2>1, <2>2, <2>3 DEF NodeStep, TypeOK
  <1>8. /\ \A d \in pre_voting' : node'[d.node].state # "DOWN"
        /\ \A d \in electing' : ElectingKnown(d)'
        /\ \A d \in voting' : node'[d.request.to].state # "DOWN"
    <2>1. ASSUME NEW d \in pre_voting'
          PROVE  node'[d.node].state # "DOWN"
      BY <1>1, <1>5 DEF dies, ElectionInvariant, TypeOK
    <2>2. ASSUME NEW d \in electing'
          PROVE  ElectingKnown(d)'
      BY <1>1, <1>5 DEF dies, ElectionInvariant, TypeOK, ElectingKnown
    <2>3. ASSUME NEW d \in voting'
          PROVE  node'[d.request.to].state # "DOWN"
      BY <1>1, <1>5 DEF dies, ElectionInvariant, TypeOK, Request
    <2> QED
      BY <2>1, <2>2, <2>3
  <1>9. voting' \subseteq voting
    BY DEF dies
  <1>10. ASSUME NEW r \in requests' \ requests
         PROVE  RequestKnown(r)'
    <2>1. node'[n] = t
      BY <1>1, <1>5 DEF TypeOK
    <2>2. r.version = node[n].vote.version /\ r.from = n /\ r.to # n
      OBVIOUS
    <2>3. VersionKnown(n, r.version, t, meta'[n])
      BY <1>2, <1>4, <2>2 DEF VersionKnown
    <2> QED
      BY <2>1, <2>2, <2>3 DEF RequestKnown
  <1> QED
    BY <1>6, <1>7, <1>8, <1>9, <1>10, AnyStepKeeps

\* A process dies between two handlers.
LEMMA CrashKeeps ==
    ASSUME ElectionInvariant, NEW n \in Server, crash(n)
    PROVE  StepIsRight
  BY DiesKeeps DEF crash, history

\* NodeImpl::on_error stops a node.
LEMMA OnErrorKeeps ==
    ASSUME ElectionInvariant, NEW n \in Server, on_error(n)
    PROVE  StepIsRight
  <1>1. /\ TypeOK /\ node[n] \in NodeState /\ meta[n] \in MetaState
        /\ NodeAgrees(n, node[n], meta[n], votes, elected)
    BY NodeTypes DEF ElectionInvariant
  <1>2. node[n].term \in Nat /\ node[n].vote.version \in Nat /\ node[n].term <= node[n].term
        /\ node[n].state \notin {"ERROR", "DOWN"}
    BY <1>1, Fields DEF on_error, Active, Leading
  <1>3. PICK s \in NodeState : s = StepDown(node[n], node[n].term)
    BY <1>1, <1>2, StepDownFacts
  <1>4. s.term = node[n].term /\ s.voted = node[n].voted /\ s.leader = Nil
        /\ s.vote.version >= node[n].vote.version
    BY <1>1, <1>2, <1>3, StepDownFacts
  <1>5. PICK t \in NodeState : t = [s EXCEPT !.state = "ERROR"]
    BY DEF NodeState
  <1>6. /\ t.state = "ERROR" /\ t.term = node[n].term /\ t.voted = node[n].voted
        /\ t.leader = Nil /\ t.vote.version >= node[n].vote.version
    BY <1>4, <1>5 DEF NodeState
  <1>7. node' = [node EXCEPT ![n] = t] /\ meta' = [meta EXCEPT ![n] = meta[n]]
    BY <1>1, <1>3, <1>5 DEF on_error, TypeOK
  <1>8. TypeOK'
    <2>1. ASSUME NEW p \in Member \ {n}
          PROVE  [from |-> n, to |-> p, term |-> node[n].term, old_leader_stepped_down |-> TRUE]
                    \in [from : Server, to : Server, term : Nat, old_leader_stepped_down : BOOLEAN]
      BY <1>2, ServerAssumption DEF Member
    <2>2. timeout_now' \subseteq [from : Server, to : Server, term : Nat,
                                  old_leader_stepped_down : BOOLEAN]
      BY <1>1, <2>1 DEF on_error, TypeOK
    <2> QED
      BY <1>1, <1>7, <2>2 DEF on_error, TypeOK, calls, history
  <1>9. /\ NodeAgrees(n, t, meta[n], votes, elected)
        /\ Evolves(n, node[n], meta[n], t, meta[n])
        /\ Lives(n, node[n], t)
    <2>1. meta[n].term \in Nat
      BY <1>1 DEF MetaState
    <2>2. NodeAgrees(n, t, meta[n], votes, elected)
      BY <1>1, <1>2, <1>6 DEF NodeAgrees
    <2> QED
      BY <1>2, <1>6, <2>1, <2>2 DEF Evolves, Lives
  <1>10. UNCHANGED <<pre_voting, electing, voting, requests, responses, votes, elected>>
    BY DEF on_error, calls, history
  <1> QED
    BY <1>1, <1>7, <1>8, <1>9, <1>10, QuietStep

\* handle_pre_vote_request changes nothing but the answers.
LEMMA HandlePreVoteRequestKeeps ==
    ASSUME ElectionInvariant, NEW m \in Server, NEW n \in Server, handle_pre_vote_request(m, n)
    PROVE  StepIsRight
  <1>1. /\ TypeOK /\ node[n] \in NodeState /\ meta[n] \in MetaState /\ node[m] \in NodeState
        /\ NodeAgrees(n, node[n], meta[n], votes, elected)
    BY NodeTypes DEF ElectionInvariant
  <1>2. node[n].pre \in PreVoteCtx /\ node[m].term \in Nat
    BY <1>1, Fields
  <1>3. PICK p \in PreVoteCtx : node' = [node EXCEPT ![n].pre = p]
    <2>1. PreVoteAnswers(m, n) \subseteq PreVoteAnswer
      <3>1. \A granted, rejected, disrupted \in BOOLEAN :
                [peer |-> m, term |-> node[m].term, granted |-> granted,
                 rejected_by_lease |-> rejected, disrupted |-> disrupted] \in PreVoteAnswer
        BY <1>2 DEF PreVoteAnswer
      <3> QED
        BY <3>1 DEF PreVoteAnswers
    <2>2. node[n].pre.asked \ {m} \in SUBSET Server
      BY <1>2 DEF PreVoteCtx
    <2>3. node[n].pre.answers \cup PreVoteAnswers(m, n) \in SUBSET PreVoteAnswer
      BY <1>2, <2>1 DEF PreVoteCtx
    <2>4. [node[n].pre EXCEPT !.asked = @ \ {m}, !.answers = @ \cup PreVoteAnswers(m, n)]
            \in PreVoteCtx
      BY <1>2, <2>2, <2>3 DEF PreVoteCtx
    <2> QED
      BY <2>4 DEF handle_pre_vote_request
  <1>4. PICK t \in NodeState : t = [node[n] EXCEPT !.pre = p]
    BY <1>1 DEF NodeState
  <1>5. node' = [node EXCEPT ![n] = t] /\ meta' = [meta EXCEPT ![n] = meta[n]]
    BY <1>1, <1>3, <1>4 DEF handle_pre_vote_request, TypeOK
  <1>6. TypeOK'
    BY <1>1, <1>4, <1>5 DEF handle_pre_vote_request, TypeOK, calls, wire, history
  <1>7. /\ t.state = node[n].state /\ t.term = node[n].term /\ t.voted = node[n].voted
        /\ t.leader = node[n].leader /\ t.vote = node[n].vote
    BY <1>1, <1>4 DEF NodeState
  <1>8. /\ NodeAgrees(n, t, meta[n], votes, elected)
        /\ Evolves(n, node[n], meta[n], t, meta[n])
        /\ Lives(n, node[n], t)
    BY <1>1, <1>7, MinorKeeps
  <1>9. UNCHANGED <<pre_voting, electing, voting, requests, responses, votes, elected>>
    BY DEF handle_pre_vote_request, calls, wire, history
  <1> QED
    BY <1>1, <1>5, <1>6, <1>8, <1>9, QuietStep

\* handle_append_entries_request and handle_install_snapshot_request up to the
\* choice of the leader.
LEMMA HandleAppendEntriesRequestKeeps ==
    ASSUME ElectionInvariant, NEW n \in Server, NEW e \in elected,
           handle_append_entries_request(n, e)
    PROVE  StepIsRight
  <1>1. /\ TypeOK /\ node[n] \in NodeState /\ meta[n] \in MetaState
        /\ NodeAgrees(n, node[n], meta[n], votes, elected)
    BY NodeTypes DEF ElectionInvariant
  <1>2. e.term \in Nat /\ e.leader \in Server /\ e.log \in LogId
    BY <1>1 DEF TypeOK
  <1>3. node[n].state \notin {"ERROR", "DOWN"} /\ node[n].term \in Nat
        /\ node[n].vote.version \in Nat /\ meta[n].term \in Nat
    BY <1>1, Fields DEF handle_append_entries_request, Active, Leading, MetaState
  <1>4. UNCHANGED <<pre_voting, electing, voting, requests, responses, votes, elected>>
        /\ UNCHANGED <<timeout_now, crashes, aborted>>
    BY DEF handle_append_entries_request, calls, history
  <1>5. CASE e.term < node[n].term
    <2>1. UNCHANGED <<node, meta, log, promise>>
          /\ replies' = replies \cup {[to |-> e.leader, term |-> node[n].term]}
      BY <1>2, <1>3, <1>5 DEF handle_append_entries_request
    <2>2. TypeOK'
      <3>1. [to |-> e.leader, term |-> node[n].term]
              \in [to : Server, term : Nat]
        BY <1>2, <1>3
      <3> QED
        BY <1>1, <1>4, <2>1, <3>1 DEF TypeOK
    <2>3. node' = [node EXCEPT ![n] = node[n]] /\ meta' = [meta EXCEPT ![n] = meta[n]]
      BY <1>1, <2>1 DEF TypeOK
    <2> QED
      BY <1>1, <1>4, <2>2, <2>3, EvolvesTrivially, QuietStep
  <1>6. CASE e.term >= node[n].term
    <2>1. PICK t \in NodeState : t = CheckStepDown(node[n], e.term, e.leader)
      BY <1>1, <1>2, <1>3, <1>6, CheckStepDownFacts
    <2>2. /\ t.state = "FOLLOWER" /\ t.term = e.term
          /\ t.leader = e.leader \/ (t.leader = node[n].leader /\ e.term = node[n].term)
          /\ e.term > node[n].term => t.voted = Nil
          /\ e.term = node[n].term => t.voted = node[n].voted
          /\ t.vote.version >= node[n].vote.version
      BY <1>1, <1>2, <1>3, <1>6, <2>1, CheckStepDownFacts
    <2>3. CASE t.leader # e.leader
      <3>1. PICK saved \in Saved("step_down") :
              /\ node' = [node EXCEPT ![n] = StepDown(t, e.term + 1)]
              /\ meta' = [meta EXCEPT ![n] = StepDownMeta(t, meta[n], e.term + 1, saved)]
        BY <1>2, <1>3, <1>6, <2>1, <2>3 DEF handle_append_entries_request
      <3>2. /\ UNCHANGED <<log, promise>>
            /\ replies' = replies \cup {[to |-> e.leader, term |-> e.term + 1]}
        BY <1>2, <1>3, <1>6, <2>1, <2>3 DEF handle_append_entries_request
      <3>3. saved \in BOOLEAN /\ e.term + 1 \in Nat
        BY <1>2, SavedType
      <3>4. /\ NodeAgrees(n, t, meta[n], votes, elected)
            /\ Evolves(n, node[n], meta[n], t, meta[n])
            /\ Lives(n, node[n], t)
        <4>1. t.leader = node[n].leader /\ t.term = node[n].term /\ t.voted = node[n].voted
          BY <2>2, <2>3
        <4>2. NodeAgrees(n, t, meta[n], votes, elected)
          BY <1>1, <1>3, <2>2, <4>1 DEF NodeAgrees
        <4> QED
          BY SMTT(60), <1>3, <2>2, <4>1, <4>2 DEF Evolves, Lives
      <3>5. PICK r, u : r = StepDown(t, e.term + 1) /\ u = StepDownMeta(t, meta[n], e.term + 1, saved)
        OBVIOUS
      <3>6. /\ r \in NodeState /\ u \in MetaState
            /\ NodeAgrees(n, r, u, votes, elected)
            /\ Evolves(n, t, meta[n], r, u)
            /\ Lives(n, t, r)
        <4>1. SteppedDown(t, meta[n], e.term + 1, r, u)
          BY <3>3, <3>5, SteppedDownBy
        <4> QED
          BY <1>1, <2>2, <3>3, <3>4, <4>1, StepDownKeeps
      <3>7. Evolves(n, node[n], meta[n], r, u) /\ Lives(n, node[n], r)
        BY <1>1, <3>4, <3>6, EvolvesTransitively
      <3>8. node' = [node EXCEPT ![n] = r] /\ meta' = [meta EXCEPT ![n] = u]
        BY <3>1, <3>5
      <3>9. TypeOK'
        <4>1. [to |-> e.leader, term |-> e.term + 1]
                \in [to : Server, term : Nat]
          BY <1>2
        <4> QED
          BY <1>1, <1>4, <3>2, <3>6, <3>8, <4>1 DEF TypeOK
      <3> QED
        BY <1>4, <3>6, <3>7, <3>8, <3>9, QuietStep
    <2>4. CASE t.leader = e.leader
      <3>1. PICK r \in NodeState : r = [t EXCEPT !.lease = TRUE, !.last_leader = e.leader]
        BY <1>2 DEF NodeState, Peer
      <3>2. /\ r.state = "FOLLOWER" /\ r.term = e.term /\ r.leader = e.leader /\ r.voted = t.voted
            /\ r.vote = t.vote
        BY <2>2, <2>4, <3>1 DEF NodeState
      <3>3. PICK saved \in Saved("step_down") :
              meta' = [meta EXCEPT ![n] = StepDownMeta(node[n], meta[n], e.term, saved)]
        BY <1>2, <1>3, <1>6, <2>1, <2>4 DEF handle_append_entries_request
      <3>4. PICK u : u = StepDownMeta(node[n], meta[n], e.term, saved)
        OBVIOUS
      <3>5. \/ u = meta[n]
            \/ e.term > node[n].term /\ u = [term |-> e.term, voted |-> Nil]
        <4>1. StepDown(node[n], e.term).term > node[n].term => e.term > node[n].term
          <5>1. e.term > node[n].term \/ (e.term <= node[n].term /\ ~(node[n].term > node[n].term))
            BY <1>2, <1>3
          <5> QED
            BY SMTT(60), <1>1, <1>2, <1>3, <5>1, StepDownFacts
        <4> QED
          BY <3>4, <4>1 DEF StepDownMeta
      <3>6. u \in MetaState
        BY <1>1, <1>2, <3>5 DEF MetaState, Peer
      <3>7. /\ meta[n].term <= node[n].term
            /\ meta[n].term = node[n].term => meta[n].voted = node[n].voted
            /\ node[n].voted \notin {Nil, n} => meta[n].term = node[n].term
        BY <1>1, <1>3 DEF NodeAgrees
      <3>8. NodeAgrees(n, r, u, votes, elected)
        <4>1. /\ u.term <= r.term
              /\ u.term = r.term => u.voted = r.voted
              /\ r.voted \notin {Nil, n} => u.term = r.term
          BY <1>2, <1>3, <1>6, <2>2, <3>2, <3>5, <3>7
        <4> QED
          BY <3>2, <4>1 DEF NodeAgrees
      <3>9. Evolves(n, node[n], meta[n], r, u) /\ Lives(n, node[n], r)
        <4>1. u.term >= meta[n].term /\ (u.term = meta[n].term => u = meta[n])
          BY SMTT(60), <1>2, <1>3, <3>5, <3>7
        <4> QED
          BY <1>2, <1>3, <1>6, <2>2, <3>2, <4>1 DEF Evolves, Lives
      <3>10. node' = [node EXCEPT ![n] = r] /\ meta' = [meta EXCEPT ![n] = u]
        BY <1>2, <1>3, <1>6, <2>1, <2>4, <3>1, <3>3, <3>4 DEF handle_append_entries_request
      <3>11. TypeOK'
        <4>1. replies' = replies /\ \E last \in {log[n], e.log} : log' = [log EXCEPT ![n] = last]
          BY <1>2, <1>3, <1>6, <2>1, <2>4 DEF handle_append_entries_request
        <4>2. log' \in [Server -> LogId]
          BY <1>1, <1>2, <4>1 DEF TypeOK
        <4>3. promise' \in [Server -> Disrupted]
          <5>1. [peer |-> e.leader, term |-> e.term] \in Disrupted
            BY <1>2 DEF Disrupted, Peer
          <5>2. promise' = promise
                \/ promise' = [promise EXCEPT ![n] = [peer |-> e.leader, term |-> e.term]]
            BY <1>2, <1>3, <1>6, <2>1, <2>4 DEF handle_append_entries_request
          <5> QED
            BY <1>1, <5>1, <5>2 DEF TypeOK
        <4> QED
          BY <1>1, <1>4, <3>1, <3>6, <3>10, <4>1, <4>2, <4>3 DEF TypeOK
      <3> QED
        BY <1>4, <3>6, <3>8, <3>9, <3>10, <3>11, QuietStep
    <2> QED
      BY <2>3, <2>4
  <1> QED
    BY <1>2, <1>3, <1>5, <1>6

-----------------------------------------------------------------------------
(* elect_self and the actions that call it                                 *)

\* The rest of the state that a step with elect_self in it may change.
OtherTypes ==
    /\ timeout_now \subseteq [from : Server, to : Server, term : Nat,
                              old_leader_stepped_down : BOOLEAN]
    /\ replies \subseteq [to : Server, term : Nat]
    /\ crashes \in Nat
    /\ promise \in [Server -> Disrupted]
    /\ aborted \in BOOLEAN

\* What elect_self leaves behind for the disk and log reads it starts.
LEMMA ElectingType ==
    ASSUME NEW n \in Server, NEW term \in Nat, NEW last_log \in LogId,
           NEW d, d = [node |-> n, term |-> term + 1, last_log |-> last_log]
    PROVE  d \in [node : Server, term : Nat, last_log : LogId]
  <1>1. term + 1 \in Nat
    OBVIOUS
  <1> QED
    BY <1>1

\* elect_self makes the node a candidate of the next term with its own vote.
LEMMA ElectSelfCandidate ==
    ASSUME NEW s \in NodeState, NEW n \in Server, NEW old_leader_stepped_down \in BOOLEAN,
           NEW t, t = ElectSelf(s, n, old_leader_stepped_down)
    PROVE  t.state = "CANDIDATE" /\ t.term = s.term + 1 /\ t.voted = n
  BY ElectSelfFacts

\* The step of a handler that calls elect_self.
LEMMA ElectSelfStep ==
    ASSUME ElectionInvariant, NEW n \in Server, NEW s \in NodeState, NEW u \in MetaState,
           NEW old_leader_stepped_down \in BOOLEAN,
           s.state # "DOWN", NodeAgrees(n, s, u, votes, elected),
           Evolves(n, node[n], meta[n], s, u), Lives(n, node[n], s),
           elect_self(n, s, old_leader_stepped_down), meta' = [meta EXCEPT ![n] = u],
           pre_voting' \subseteq pre_voting,
           UNCHANGED <<log, voting, requests, responses, votes, elected>>, OtherTypes'
    PROVE  StepIsRight
  <1>1. TypeOK /\ node[n] \in NodeState /\ meta[n] \in MetaState /\ log[n] \in LogId
    BY NodeTypes DEF ElectionInvariant
  <1>2. s.term \in Nat /\ node[n].term \in Nat
    BY <1>1, Fields
  <1>3. CASE n \in Member
    <2>1. PICK t : t = ElectSelf(s, n, old_leader_stepped_down)
      OBVIOUS
    <2>2. /\ t \in NodeState
          /\ NodeAgrees(n, t, u, votes, elected)
          /\ Evolves(n, s, u, t, u) /\ Lives(n, s, t)
      BY <2>1, ElectSelfKeeps
    <2>3. Evolves(n, node[n], meta[n], t, u) /\ Lives(n, node[n], t)
      BY <1>1, <2>2, EvolvesTransitively
    <2>4. t.state = "CANDIDATE" /\ t.term = s.term + 1 /\ t.voted = n
      BY <2>1, ElectSelfCandidate
    <2>5. PICK d : d = [node |-> n, term |-> s.term + 1, last_log |-> log[n]]
      OBVIOUS
    <2>6. node' = [node EXCEPT ![n] = t] /\ electing' = electing \cup {d}
      BY <1>3, <2>1, <2>5 DEF elect_self
    <2>7. d \in [node : Server, term : Nat, last_log : LogId]
      BY <1>1, <1>2, <2>5, ElectingType
    <2>8. TypeOK'
      BY <1>1, <2>2, <2>6, <2>7 DEF TypeOK, OtherTypes
    <2>9. node'[n] = t /\ meta'[n] = u
      BY <1>1, <2>6 DEF TypeOK
    <2>10. NodeStep(n) /\ Lives(n, node[n], node'[n])
      BY <1>1, <2>2, <2>3, <2>6, <2>9 DEF NodeStep, TypeOK
    <2>11. ElectingKnown(d)'
      <3>1. d.node = n /\ d.term = s.term + 1
        BY <2>5
      <3>2. d.term <= t.term
        BY <1>2, <2>4, <3>1
      <3> QED
        BY <2>4, <2>9, <3>1, <3>2 DEF ElectingKnown
    <2> QED
      BY <2>6, <2>8, <2>10, <2>11, StepKeeps
  <1>4. CASE n \notin Member
    <2>1. node' = [node EXCEPT ![n] = s] /\ electing' = electing
      BY <1>4 DEF elect_self
    <2>2. TypeOK'
      BY <1>1, <2>1 DEF TypeOK, OtherTypes
    <2>3. node'[n] = s /\ meta'[n] = u
      BY <1>1, <2>1 DEF TypeOK
    <2>4. NodeStep(n) /\ Lives(n, node[n], node'[n])
      BY <1>1, <2>1, <2>3 DEF NodeStep, TypeOK
    <2> QED
      BY <2>1, <2>2, <2>4, StepKeeps
  <1> QED
    BY <1>3, <1>4

\* A step that changes no message, no call but the end of a pre-vote, no vote
\* and no leadership.
LEMMA QuietPreVoteStep ==
    ASSUME ElectionInvariant, NEW n \in Server, NEW t \in NodeState, NEW u \in MetaState,
           node' = [node EXCEPT ![n] = t], meta' = [meta EXCEPT ![n] = u],
           NodeAgrees(n, t, u, votes, elected), Evolves(n, node[n], meta[n], t, u),
           Lives(n, node[n], t), pre_voting' \subseteq pre_voting,
           UNCHANGED <<log, electing, voting, requests, responses, votes, elected>>, OtherTypes'
    PROVE  StepIsRight
  <1>1. TypeOK
    BY DEF ElectionInvariant
  <1>2. TypeOK'
    BY <1>1 DEF TypeOK, OtherTypes
  <1>3. node'[n] = t /\ meta'[n] = u
    BY <1>1 DEF TypeOK
  <1>4. NodeStep(n) /\ Lives(n, node[n], node'[n])
    BY <1>1, <1>3 DEF NodeStep, TypeOK
  <1> QED
    BY <1>2, <1>4, StepKeeps

\* NodeImpl::init loads term and vote.
LEMMA InitKeeps ==
    ASSUME ElectionInvariant, NEW n \in Server, init(n)
    PROVE  StepIsRight
  <1>1. TypeOK /\ node[n] \in NodeState /\ meta[n] \in MetaState /\ log[n] \in LogId
    BY NodeTypes DEF ElectionInvariant
  <1>2. OtherTypes'
    BY <1>1 DEF init, wire, TypeOK, OtherTypes
  <1>3. PICK m \in MetaState :
            m = (IF meta[n].term < log[n].term THEN [term |-> log[n].term + 1, voted |-> Nil]
                 ELSE meta[n])
    <2>1. [term |-> log[n].term + 1, voted |-> Nil] \in MetaState
      BY SMTT(60), <1>1 DEF MetaState, LogId, Peer
    <2> QED
      BY <1>1, <2>1
  <1>4. m.term \in Nat /\ m.voted \in Peer /\ meta[n].term \in Nat /\ node[n].vote.version \in Nat
    BY <1>1, Fields DEF MetaState
  <1>5. m.term >= meta[n].term /\ (m.term = meta[n].term => m = meta[n])
    BY <1>1, <1>3 DEF MetaState, LogId
  <1>6. PICK s \in NodeState :
            s = [Down EXCEPT !.state = "FOLLOWER", !.term = m.term, !.voted = m.voted,
                             !.lease = ~(m.term = 1 /\ m.voted = Nil), !.vote = node[n].vote]
    <2>1. node[n].vote \in VoteCtx
      BY <1>1, Fields
    <2> QED
      BY <1>4, <2>1, EmptyTypes DEF NodeState
  <1>7. /\ s.state = "FOLLOWER" /\ s.term = m.term /\ s.voted = m.voted
        /\ s.leader = Nil /\ s.vote = node[n].vote
    <2>1. Down.leader = Nil
      BY DEF Down
    <2> QED
      BY <1>6, <2>1, EmptyTypes DEF NodeState
  <1>8. NodeAgrees(n, s, m, votes, elected)
    <2>1. CASE meta[n].term < log[n].term
      BY <1>3, <1>4, <1>7, <2>1 DEF NodeAgrees
    <2>2. CASE ~(meta[n].term < log[n].term)
      BY <1>3, <1>4, <1>7, <2>2 DEF NodeAgrees
    <2> QED
      BY <2>1, <2>2
  <1>9. Evolves(n, node[n], meta[n], s, m) /\ Lives(n, node[n], s)
    <2>1. node[n].state = "DOWN"
      BY DEF init
    <2> QED
      BY SMTT(60), <1>4, <1>5, <1>7, <2>1 DEF Evolves, Lives
  <1>10. /\ meta' = [meta EXCEPT ![n] = m]
         /\ UNCHANGED <<log, pre_voting, voting, requests, responses, votes, elected>>
    BY <1>3 DEF init, wire, history
  <1>11. CASE OldConf = {} /\ Conf = {n}
    <2>1. elect_self(n, s, FALSE)
      BY <1>3, <1>6, <1>11 DEF init
    <2> QED
      BY <1>2, <1>7, <1>8, <1>9, <1>10, <2>1, ElectSelfStep
  <1>12. CASE ~(OldConf = {} /\ Conf = {n})
    <2>1. node' = [node EXCEPT ![n] = s] /\ electing' = electing
      BY <1>3, <1>6, <1>12 DEF init
    <2> QED
      BY <1>2, <1>8, <1>9, <1>10, <2>1, QuietPreVoteStep
  <1> QED
    BY <1>11, <1>12

\* The pre-vote ballot of a node is well typed.
LEMMA PreBallotType ==
    ASSUME NEW s \in NodeState, NEW ballot \in BallotType(Server), NEW t,
           t = [s EXCEPT !.pre.ballot = ballot]
    PROVE  /\ t \in NodeState
           /\ t.state = s.state /\ t.term = s.term /\ t.voted = s.voted /\ t.leader = s.leader
           /\ t.vote = s.vote
  <1>1. s.pre \in PreVoteCtx
    BY Fields
  <1>2. PICK p \in PreVoteCtx : p = [s.pre EXCEPT !.ballot = ballot]
    BY <1>1 DEF PreVoteCtx
  <1>3. t = [s EXCEPT !.pre = p]
    BY <1>2
  <1> QED
    BY <1>3 DEF NodeState

\* The pre-vote context stays well typed when its timer is armed.
LEMMA PreArmedType ==
    ASSUME NEW s \in NodeState, NEW armed \in BOOLEAN, NEW t, t = [s EXCEPT !.pre.armed = armed]
    PROVE  /\ t \in NodeState
           /\ t.state = s.state /\ t.term = s.term /\ t.voted = s.voted /\ t.leader = s.leader
           /\ t.vote = s.vote
  <1>1. s.pre \in PreVoteCtx
    BY Fields
  <1>2. PICK p \in PreVoteCtx : p = [s.pre EXCEPT !.armed = armed]
    BY <1>1 DEF PreVoteCtx
  <1>3. t = [s EXCEPT !.pre = p]
    BY <1>2
  <1> QED
    BY <1>3 DEF NodeState

\* grant_self of a pre-vote: the own vote counts, or its timer is armed.
LEMMA GrantSelfPreStep ==
    ASSUME ElectionInvariant, NEW n \in Server, node[n].state # "DOWN", NEW s \in NodeState,
           s.state = node[n].state, s.term = node[n].term, s.voted = node[n].voted,
           s.leader = node[n].leader, s.vote = node[n].vote,
           grant_self_pre(n, s), meta' = meta, pre_voting' \subseteq pre_voting,
           UNCHANGED <<log, voting, requests, responses, votes, elected>>, OtherTypes'
    PROVE  StepIsRight
  <1>1. /\ TypeOK /\ node[n] \in NodeState /\ meta[n] \in MetaState
        /\ NodeAgrees(n, node[n], meta[n], votes, elected)
    BY NodeTypes DEF ElectionInvariant
  <1>2. meta' = [meta EXCEPT ![n] = meta[n]]
    BY <1>1 DEF TypeOK
  <1>3. PICK t : t = [s EXCEPT !.pre.armed = TRUE]
    OBVIOUS
  <1>4. /\ t \in NodeState
        /\ t.state = s.state /\ t.term = s.term /\ t.voted = s.voted /\ t.leader = s.leader
        /\ t.vote = s.vote
    BY <1>3, PreArmedType
  <1>5. s.pre.ballot \in BallotType(Server)
    BY DEF NodeState, PreVoteCtx
  <1>6. PICK g : g = [s EXCEPT !.pre.ballot = Grant(@, n)]
    OBVIOUS
  <1>7. /\ g \in NodeState
        /\ g.state = s.state /\ g.term = s.term /\ g.voted = s.voted /\ g.leader = s.leader
        /\ g.vote = s.vote
    <2>1. PICK ballot \in BallotType(Server) : ballot = Grant(s.pre.ballot, n)
      BY <1>5, GrantType
    <2>2. g = [s EXCEPT !.pre.ballot = ballot]
      BY <1>6, <2>1
    <2> QED
      BY <2>2, PreBallotType
  <1>8. \A w \in {t, g} :
            /\ NodeAgrees(n, w, meta[n], votes, elected)
            /\ Evolves(n, node[n], meta[n], w, meta[n])
            /\ Lives(n, node[n], w)
    BY <1>1, <1>4, <1>7, MinorKeeps
  <1>9. \/ node' = [node EXCEPT ![n] = t] /\ electing' = electing
        \/ elect_self(n, g, FALSE)
        \/ node' = [node EXCEPT ![n] = g] /\ electing' = electing
    BY <1>3, <1>6 DEF grant_self_pre
  <1>10. CASE node' = [node EXCEPT ![n] = t] /\ electing' = electing
    BY <1>1, <1>2, <1>4, <1>8, <1>10, QuietPreVoteStep
  <1>11. CASE elect_self(n, g, FALSE)
    BY <1>1, <1>2, <1>7, <1>8, <1>11, ElectSelfStep
  <1>12. CASE node' = [node EXCEPT ![n] = g] /\ electing' = electing
    BY <1>1, <1>2, <1>7, <1>8, <1>12, QuietPreVoteStep
  <1> QED
    BY <1>9, <1>10, <1>11, <1>12

\* handle_grant_self_timedout of a pre-vote.
LEMMA HandleGrantSelfTimedoutPreKeeps ==
    ASSUME ElectionInvariant, NEW n \in Server, handle_grant_self_timedout_pre(n)
    PROVE  StepIsRight
  <1>1. TypeOK /\ node[n] \in NodeState
    BY NodeTypes DEF ElectionInvariant
  <1>2. node[n].state # "DOWN"
    BY DEF handle_grant_self_timedout_pre, Active, Leading
  <1>3. PICK s : s = [node[n] EXCEPT !.pre.armed = FALSE]
    OBVIOUS
  <1>4. /\ s \in NodeState
        /\ s.state = node[n].state /\ s.term = node[n].term /\ s.voted = node[n].voted
        /\ s.leader = node[n].leader /\ s.vote = node[n].vote
    BY <1>1, <1>3, PreArmedType
  <1>5. OtherTypes'
    BY <1>1 DEF handle_grant_self_timedout_pre, wire, TypeOK, OtherTypes
  <1>6. /\ grant_self_pre(n, s)
        /\ UNCHANGED <<meta, log, pre_voting, voting, requests, responses, votes, elected>>
    BY <1>3 DEF handle_grant_self_timedout_pre, wire, history
  <1> QED
    BY <1>2, <1>4, <1>5, <1>6, GrantSelfPreStep

\* pre_vote after the flush of the log.
LEMMA PreVoteFlushedKeeps ==
    ASSUME ElectionInvariant, NEW c \in pre_voting, pre_vote_flushed(c)
    PROVE  StepIsRight
  <1> DEFINE n == c.node
  <1>1. /\ TypeOK /\ n \in Server /\ node[n] \in NodeState /\ meta[n] \in MetaState
        /\ c.triggered \in BOOLEAN /\ c.last_log \in LogId /\ log[n] \in LogId
        /\ node[n].state # "DOWN" /\ NodeAgrees(n, node[n], meta[n], votes, elected)
    BY DEF ElectionInvariant, TypeOK
  <1>2. OtherTypes'
    BY <1>1 DEF pre_vote_flushed, wire, TypeOK, OtherTypes
  <1>3. /\ pre_voting' \subseteq pre_voting
        /\ UNCHANGED <<meta, log, voting, requests, responses, votes, elected>>
    BY DEF pre_vote_flushed, wire, history
  <1>4. CASE node[n].term = c.term
    <2>1. PICK last \in {c.last_log, log[n]} :
            grant_self_pre(n, [node[n] EXCEPT !.pre =
                [InitPre(c.triggered) EXCEPT !.asked = Member \ {n}, !.last_log = last]])
      BY <1>4 DEF pre_vote_flushed
    <2>2. PICK p \in PreVoteCtx :
            p = [InitPre(c.triggered) EXCEPT !.asked = Member \ {n}, !.last_log = last]
      <3>1. InitPre(c.triggered) \in PreVoteCtx
        BY <1>1, EmptyTypes DEF InitPre, PreVoteCtx
      <3>2. Member \ {n} \in SUBSET Server
        BY ServerAssumption DEF Member
      <3>3. last \in LogId
        BY <1>1
      <3> QED
        BY <3>1, <3>2, <3>3 DEF PreVoteCtx
    <2>3. PICK s : s = [node[n] EXCEPT !.pre = p]
      OBVIOUS
    <2>4. /\ s \in NodeState
          /\ s.state = node[n].state /\ s.term = node[n].term /\ s.voted = node[n].voted
          /\ s.leader = node[n].leader /\ s.vote = node[n].vote
      BY <1>1, <2>3 DEF NodeState
    <2>5. grant_self_pre(n, s)
      BY <2>1, <2>2, <2>3
    <2> HIDE DEF n
    <2> QED
      BY <1>1, <1>2, <1>3, <2>4, <2>5, GrantSelfPreStep
  <1>5. CASE node[n].term # c.term
    <2>1. node' = node /\ electing' = electing
      BY <1>5 DEF pre_vote_flushed
    <2> HIDE DEF n
    <2>2. node' = [node EXCEPT ![n] = node[n]] /\ meta' = [meta EXCEPT ![n] = meta[n]]
      BY <1>1, <1>3, <2>1 DEF TypeOK
    <2> QED
      BY <1>1, <1>2, <1>3, <2>1, <2>2, EvolvesTrivially, QuietPreVoteStep
  <1> QED
    BY <1>4, <1>5

\* The step of a handler that calls pre_vote.
LEMMA PreVoteStep ==
    ASSUME ElectionInvariant, NEW n \in Server, NEW s \in NodeState, NEW triggered \in BOOLEAN,
           s.state # "DOWN", NodeAgrees(n, s, meta[n], votes, elected),
           Evolves(n, node[n], meta[n], s, meta[n]), Lives(n, node[n], s),
           pre_vote(n, s, triggered),
           UNCHANGED <<meta, log, electing, voting, requests, responses, votes, elected>>,
           OtherTypes'
    PROVE  StepIsRight
  <1>1. TypeOK /\ node[n] \in NodeState /\ meta[n] \in MetaState /\ log[n] \in LogId
        /\ s.term \in Nat
    BY NodeTypes, Fields DEF ElectionInvariant
  <1>2. PICK d : d = [node |-> n, term |-> s.term, triggered |-> triggered, last_log |-> log[n]]
    OBVIOUS
  <1>3. d \in [node : Server, term : Nat, triggered : BOOLEAN, last_log : LogId]
    BY <1>1, <1>2
  <1>4. node' = [node EXCEPT ![n] = s] /\ pre_voting' \subseteq pre_voting \cup {d}
    BY <1>2 DEF pre_vote
  <1>5. TypeOK'
    BY <1>1, <1>3, <1>4 DEF TypeOK, OtherTypes
  <1>6. node'[n] = s
    BY <1>1, <1>4 DEF TypeOK
  <1>7. NodeStep(n) /\ Lives(n, node[n], node'[n])
    BY <1>1, <1>4, <1>6 DEF NodeStep, TypeOK
  <1>8. \A e \in pre_voting' \ pre_voting : node'[e.node].state # "DOWN"
    BY SMTT(60), <1>2, <1>4, <1>6
  <1> QED
    BY <1>5, <1>7, <1>8, StepKeeps

\* handle_election_timeout begins a pre-vote.
LEMMA HandleElectionTimeoutKeeps ==
    ASSUME ElectionInvariant, NEW n \in Server, handle_election_timeout(n)
    PROVE  StepIsRight
  <1>1. /\ TypeOK /\ node[n] \in NodeState /\ meta[n] \in MetaState
        /\ NodeAgrees(n, node[n], meta[n], votes, elected)
    BY NodeTypes DEF ElectionInvariant
  <1>2. OtherTypes'
    BY <1>1 DEF handle_election_timeout, wire, TypeOK, OtherTypes
  <1>3. PICK s \in NodeState : s = [node[n] EXCEPT !.triggered = FALSE, !.leader = Nil]
    BY <1>1 DEF NodeState, Peer
  <1>4. /\ s.state = node[n].state /\ s.term = node[n].term /\ s.voted = node[n].voted
        /\ s.leader = Nil /\ s.vote = node[n].vote
    BY <1>1, <1>3 DEF NodeState
  <1>5. /\ NodeAgrees(n, s, meta[n], votes, elected)
        /\ Evolves(n, node[n], meta[n], s, meta[n])
        /\ Lives(n, node[n], s)
    BY <1>1, <1>4, MinorKeeps
  <1>6. s.state # "DOWN" /\ node[n].triggered \in BOOLEAN
    BY <1>1, <1>4, Fields DEF handle_election_timeout
  <1>7. /\ pre_vote(n, s, node[n].triggered)
        /\ UNCHANGED <<meta, log, electing, voting, requests, responses, votes, elected>>
    BY <1>3 DEF handle_election_timeout, wire, history
  <1> QED
    BY <1>2, <1>5, <1>6, <1>7, PreVoteStep

\* A node that steps down in its own term leaves the meta storage alone.
LEMMA StepDownHere ==
    ASSUME NEW n \in Server, NEW s \in NodeState, NEW m \in MetaState, NEW V, NEW E,
           s.state \notin {"DOWN", "ERROR"}, NodeAgrees(n, s, m, V, E),
           NEW t, t = StepDown(s, s.term)
    PROVE  /\ t \in NodeState
           /\ t.state = "FOLLOWER" /\ t.term = s.term /\ t.voted = s.voted /\ t.leader = Nil
           /\ NodeAgrees(n, t, m, V, E)
           /\ Evolves(n, s, m, t, m)
           /\ Lives(n, s, t)
  <1>1. s.term \in Nat /\ m.term \in Nat /\ s.term <= s.term /\ s.vote.version \in Nat
    BY SMTT(60), Fields DEF MetaState
  <1>2. /\ t \in NodeState
        /\ t.state = "FOLLOWER" /\ t.term = s.term /\ t.voted = s.voted /\ t.leader = Nil
        /\ t.vote.version >= s.vote.version
    BY <1>1, StepDownFacts
  <1>3. NodeAgrees(n, t, m, V, E)
    BY <1>1, <1>2 DEF NodeAgrees
  <1> QED
    BY SMTT(60), <1>1, <1>2, <1>3 DEF Evolves, Lives

\* handle_vote_timeout ends a candidacy and begins the next.
LEMMA HandleVoteTimeoutKeeps ==
    ASSUME ElectionInvariant, NEW n \in Server, handle_vote_timeout(n)
    PROVE  StepIsRight
  <1>1. /\ TypeOK /\ node[n] \in NodeState /\ meta[n] \in MetaState
        /\ NodeAgrees(n, node[n], meta[n], votes, elected)
        /\ node[n].state = "CANDIDATE"
    BY NodeTypes DEF ElectionInvariant, handle_vote_timeout
  <1>2. OtherTypes'
    BY <1>1 DEF handle_vote_timeout, wire, TypeOK, OtherTypes
  <1>3. UNCHANGED <<meta, log, voting, requests, responses, votes, elected>>
    BY DEF handle_vote_timeout, wire, history
  <1>4. CASE StepDownWhenVoteTimedout
    <2>1. pre_vote(n, StepDown(node[n], node[n].term), FALSE) /\ electing' = electing
      BY <1>4 DEF handle_vote_timeout
    <2>2. PICK t : t = StepDown(node[n], node[n].term)
      OBVIOUS
    <2>3. /\ t \in NodeState /\ t.state # "DOWN"
          /\ NodeAgrees(n, t, meta[n], votes, elected)
          /\ Evolves(n, node[n], meta[n], t, meta[n])
          /\ Lives(n, node[n], t)
      BY SMTT(60), <1>1, <2>2, StepDownHere
    <2> QED
      BY <1>2, <1>3, <2>1, <2>2, <2>3, PreVoteStep
  <1>5. CASE ~StepDownWhenVoteTimedout
    <2>1. elect_self(n, node[n], FALSE) /\ pre_voting' = pre_voting
      BY <1>5 DEF handle_vote_timeout
    <2>2. meta' = [meta EXCEPT ![n] = meta[n]]
      BY <1>1, <1>3 DEF TypeOK
    <2> QED
      BY <1>1, <1>2, <1>3, <2>1, <2>2, EvolvesTrivially, ElectSelfStep
  <1> QED
    BY <1>4, <1>5

\* handle_timeout_now_request begins a candidacy without a pre-vote.
LEMMA HandleTimeoutNowRequestKeeps ==
    ASSUME ElectionInvariant, NEW r \in timeout_now, handle_timeout_now_request(r)
    PROVE  StepIsRight
  <1> DEFINE n == r.to
  <1>1. /\ TypeOK /\ n \in Server /\ node[n] \in NodeState /\ meta[n] \in MetaState
        /\ NodeAgrees(n, node[n], meta[n], votes, elected)
        /\ r.from \in Server /\ r.term \in Nat /\ r.old_leader_stepped_down \in BOOLEAN
    BY DEF ElectionInvariant, TypeOK
  <1>2. node[n].state # "DOWN" /\ node[n].term \in Nat
    BY <1>1, Fields DEF handle_timeout_now_request, Active, Leading
  <1>3. /\ timeout_now' \subseteq timeout_now
        /\ UNCHANGED <<log, pre_voting, voting, requests, responses, votes, elected>>
        /\ UNCHANGED <<crashes, promise, aborted>>
    BY DEF handle_timeout_now_request, history
  <1>4. OtherTypes'
    <2>1. \A t \in Nat : [to |-> r.from, term |-> t]
                            \in [to : Server, term : Nat]
      BY <1>1
    <2>2. node[n].term + 1 \in Nat
      BY SMTT(60), <1>2
    <2>3. \/ replies' = replies
          \/ \E t \in Nat : replies' = replies \cup {[to |-> r.from, term |-> t]}
      BY <1>2, <2>2 DEF handle_timeout_now_request
    <2>4. replies' \subseteq [to : Server, term : Nat]
      BY <1>1, <2>1, <2>3 DEF TypeOK
    <2> QED
      BY <1>1, <1>3, <2>4 DEF TypeOK, OtherTypes
  <1>5. \/ /\ r.term > node[n].term
           /\ node' = [node EXCEPT ![n] = StepDown(node[n], r.term)]
           /\ \E saved \in Saved("step_down") :
                  meta' = [meta EXCEPT ![n] = StepDownMeta(node[n], meta[n], r.term, saved)]
           /\ electing' = electing
        \/ UNCHANGED <<node, meta, electing>>
        \/ elect_self(n, node[n], r.old_leader_stepped_down) /\ meta' = meta
    BY DEF handle_timeout_now_request
  <1> HIDE DEF n
  <1>6. CASE /\ r.term > node[n].term
             /\ node' = [node EXCEPT ![n] = StepDown(node[n], r.term)]
             /\ \E saved \in Saved("step_down") :
                    meta' = [meta EXCEPT ![n] = StepDownMeta(node[n], meta[n], r.term, saved)]
             /\ electing' = electing
    <2>1. PICK saved \in BOOLEAN :
              meta' = [meta EXCEPT ![n] = StepDownMeta(node[n], meta[n], r.term, saved)]
      BY <1>6, SavedType
    <2>2. PICK t, u : /\ t = StepDown(node[n], r.term)
                      /\ u = StepDownMeta(node[n], meta[n], r.term, saved)
      OBVIOUS
    <2>3. /\ t \in NodeState /\ u \in MetaState
          /\ NodeAgrees(n, t, u, votes, elected)
          /\ Evolves(n, node[n], meta[n], t, u)
          /\ Lives(n, node[n], t)
      <3>1. SteppedDown(node[n], meta[n], r.term, t, u)
        BY <2>1, <2>2, SteppedDownBy
      <3> QED
        BY <1>1, <1>2, <3>1, StepDownKeeps
    <2> QED
      BY <1>1, <1>3, <1>4, <1>6, <2>1, <2>2, <2>3, QuietPreVoteStep
  <1>7. CASE UNCHANGED <<node, meta, electing>>
    <2>1. node' = [node EXCEPT ![n] = node[n]] /\ meta' = [meta EXCEPT ![n] = meta[n]]
      BY <1>1, <1>7 DEF TypeOK
    <2> QED
      BY <1>1, <1>3, <1>4, <1>7, <2>1, EvolvesTrivially, QuietPreVoteStep
  <1>8. CASE elect_self(n, node[n], r.old_leader_stepped_down) /\ meta' = meta
    <2>1. meta' = [meta EXCEPT ![n] = meta[n]]
      BY <1>1, <1>8 DEF TypeOK
    <2> QED
      BY ZenonT(60), <1>1, <1>2, <1>3, <1>4, <1>8, <2>1, EvolvesTrivially, ElectSelfStep
  <1> QED
    BY <1>5, <1>6, <1>7, <1>8

\* What an answer to a pre-vote does to the context.
LEMMA CountPreVoteFacts ==
    ASSUME NEW s \in NodeState, NEW n \in Server, NEW a \in PreVoteAnswer,
           NEW t, t = CountPreVote(s, n, a)
    PROVE  /\ t \in NodeState
           /\ t.state = s.state /\ t.term = s.term /\ t.voted = s.voted /\ t.leader = s.leader
           /\ t.vote = s.vote
  <1>1. /\ s.pre \in PreVoteCtx
        /\ s.pre.ballot \in BallotType(Server) /\ s.pre.disrupted \in Disrupted
        /\ s.pre.reserved \in SUBSET Server /\ s.pre.armed \in BOOLEAN
    BY Fields DEF PreVoteCtx
  <1>2. a.peer \in Server /\ a.term \in Nat
    BY DEF PreVoteAnswer
  <1>3. PICK disrupted \in Disrupted :
            disrupted = (IF a.disrupted THEN [peer |-> a.peer, term |-> a.term]
                         ELSE s.pre.disrupted)
    <2>1. [peer |-> a.peer, term |-> a.term] \in Disrupted
      BY <1>2 DEF Disrupted, Peer
    <2> QED
      BY <1>1, <2>1
  <1>4. PICK reserved \in SUBSET Server :
            reserved = s.pre.reserved \cup (IF a.rejected_by_lease THEN {a.peer} ELSE {})
    BY <1>1, <1>2
  <1>5. PICK popped \in SUBSET Server : popped = (IF disrupted.term = -1 THEN {} ELSE reserved)
    OBVIOUS
  <1>6. PICK peers \in SUBSET Server :
            peers = popped \cup (IF a.rejected_by_lease THEN {} ELSE {a.peer})
    BY <1>2
  <1>7. PICK armed \in BOOLEAN : armed = (s.pre.armed /\ ~(s.last_leader \in peers))
    BY <1>1
  <1>8. PICK voters \in SUBSET Server :
            voters = peers \cup (IF s.last_leader \in peers THEN {n} ELSE {})
    OBVIOUS
  <1>9. PICK ballot \in BallotType(Server) : ballot = GrantAll(s.pre.ballot, voters)
    BY <1>1, GrantAllType, ServerAssumption
  <1>10. t = [s EXCEPT !.pre.disrupted = disrupted, !.pre.reserved = reserved \ popped,
                       !.pre.armed = armed, !.pre.ballot = ballot]
    BY <1>3, <1>4, <1>5, <1>6, <1>7, <1>8, <1>9 DEF CountPreVote
  <1>11. PICK p \in PreVoteCtx : p = [s.pre EXCEPT !.disrupted = disrupted,
                                        !.reserved = reserved \ popped,
                                        !.armed = armed, !.ballot = ballot]
    <2>1. reserved \ popped \in SUBSET Server
      OBVIOUS
    <2> QED
      BY <1>1, <2>1 DEF PreVoteCtx
  <1>12. t = [s EXCEPT !.pre = p]
    BY <1>10, <1>11
  <1> QED
    BY <1>12 DEF NodeState

\* handle_pre_vote_response counts an answer and may begin a candidacy.
LEMMA HandlePreVoteResponseKeeps ==
    ASSUME ElectionInvariant, NEW n \in Server, NEW a \in node[n].pre.answers,
           handle_pre_vote_response(n, a)
    PROVE  StepIsRight
  <1>1. /\ TypeOK /\ node[n] \in NodeState /\ meta[n] \in MetaState
        /\ NodeAgrees(n, node[n], meta[n], votes, elected)
    BY NodeTypes DEF ElectionInvariant
  <1>2. node[n].pre \in PreVoteCtx /\ a \in PreVoteAnswer /\ a.term \in Nat
    BY <1>1 DEF NodeState, PreVoteCtx, PreVoteAnswer
  <1>3. PICK s : s = [node[n] EXCEPT !.pre.answers = @ \ {a}]
    OBVIOUS
  <1>4. /\ s \in NodeState
        /\ s.state = node[n].state /\ s.term = node[n].term /\ s.voted = node[n].voted
        /\ s.leader = node[n].leader /\ s.vote = node[n].vote
    <2>1. PICK p \in PreVoteCtx : p = [node[n].pre EXCEPT !.answers = @ \ {a}]
      BY <1>2 DEF PreVoteCtx
    <2>2. s = [node[n] EXCEPT !.pre = p]
      BY <1>3, <2>1
    <2> QED
      BY <1>1, <2>2 DEF NodeState
  <1>5. /\ NodeAgrees(n, s, meta[n], votes, elected)
        /\ Evolves(n, node[n], meta[n], s, meta[n])
        /\ Lives(n, node[n], s)
    BY <1>1, <1>4, MinorKeeps
  <1>6. s.state = "FOLLOWER"
    BY <1>3 DEF handle_pre_vote_response
  <1>7. OtherTypes'
    BY <1>1 DEF handle_pre_vote_response, wire, TypeOK, OtherTypes
  <1>8. UNCHANGED <<log, pre_voting, voting, requests, responses, votes, elected>>
    BY DEF handle_pre_vote_response, wire, history
  <1>9. CASE a.term > s.term
    <2>1. /\ node' = [node EXCEPT ![n] = StepDown(s, a.term)] /\ electing' = electing
          /\ \E saved \in Saved("step_down") :
                  meta' = [meta EXCEPT ![n] = StepDownMeta(s, meta[n], a.term, saved)]
      <3>1. s.term \in Nat
        BY <1>4, Fields
      <3>2. ~(a.term <= s.term)
        BY SMTT(60), <1>2, <1>9, <3>1
      <3> QED
        BY <1>3, <3>2 DEF handle_pre_vote_response
    <2>2. PICK saved \in Saved("step_down") :
              meta' = [meta EXCEPT ![n] = StepDownMeta(s, meta[n], a.term, saved)]
      BY <2>1
    <2>3. PICK t, u : t = StepDown(s, a.term) /\ u = StepDownMeta(s, meta[n], a.term, saved)
      OBVIOUS
    <2>4. saved \in BOOLEAN
      BY SavedType
    <2>5. /\ t \in NodeState /\ u \in MetaState
          /\ NodeAgrees(n, t, u, votes, elected)
          /\ Evolves(n, s, meta[n], t, u)
          /\ Lives(n, s, t)
      <3>1. s.state # "DOWN" /\ a.term \in Nat
        BY <1>2, <1>6
      <3>2. SteppedDown(s, meta[n], a.term, t, u)
        BY <2>3, <2>4, SteppedDownBy
      <3>3. s \in NodeState /\ meta[n] \in MetaState /\ NodeAgrees(n, s, meta[n], votes, elected)
        BY <1>1, <1>4, <1>5
      <3> QED
        BY <3>1, <3>2, <3>3, StepDownKeeps
    <2>6. Evolves(n, node[n], meta[n], t, u) /\ Lives(n, node[n], t)
      BY <1>1, <1>4, <1>5, <2>5, EvolvesTransitively
    <2> QED
      BY <1>7, <1>8, <2>1, <2>2, <2>3, <2>5, <2>6, QuietPreVoteStep
  <1>10. CASE ~(a.term > s.term)
    <2>1. PICK g : g = CountPreVote(s, n, a)
      OBVIOUS
    <2>2. /\ g \in NodeState
          /\ g.state = s.state /\ g.term = s.term /\ g.voted = s.voted /\ g.leader = s.leader
          /\ g.vote = s.vote
      BY SMTT(60), <1>2, <1>4, <2>1, CountPreVoteFacts
    <2>3. /\ NodeAgrees(n, g, meta[n], votes, elected)
          /\ Evolves(n, node[n], meta[n], g, meta[n])
          /\ Lives(n, node[n], g)
      BY <1>1, <1>4, <2>2, MinorKeeps
    <2>4. /\ meta' = meta
          /\ \/ elect_self(n, g, FALSE)
             \/ node' = [node EXCEPT ![n] = g] /\ electing' = electing
      BY <1>3, <1>10, <2>1 DEF handle_pre_vote_response
    <2>5. meta' = [meta EXCEPT ![n] = meta[n]]
      BY <1>1, <2>4 DEF TypeOK
    <2>6. CASE elect_self(n, g, FALSE)
      BY <1>1, <1>6, <1>7, <1>8, <2>2, <2>3, <2>5, <2>6, ElectSelfStep
    <2>7. CASE node' = [node EXCEPT ![n] = g] /\ electing' = electing
      BY <1>1, <1>7, <1>8, <2>2, <2>3, <2>5, <2>7, QuietPreVoteStep
    <2> QED
      BY <2>4, <2>6, <2>7
  <1> QED
    BY <1>9, <1>10

-----------------------------------------------------------------------------
(* Counting votes                                                          *)
=============================================================================
