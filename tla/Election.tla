------------------------------ MODULE Election ------------------------------
(***************************************************************************)
(* Leader election of melon/raft (node.cc): pre-vote, vote, follower lease, *)
(* leadership transfer, crashes and restarts, for one raft group whose      *)
(* configuration does not change.                                           *)
(*                                                                          *)
(* NodeImpl::_mutex makes a handler atomic except where the handler unlocks *)
(* it: pre_vote, elect_self and handle_request_vote_request release it      *)
(* while LogManager::last_log_id(true) waits for the disk.  Each of them is *)
(* two actions here, and the sets pre_voting, electing and voting hold the  *)
(* calls that are between the two.                                          *)
(*                                                                          *)
(* RPCs are lost, delayed and reordered: a request or response stays in its *)
(* set until it is handled, which may be never.  The log is represented by  *)
(* the id of its last entry.                                                *)
(***************************************************************************)
EXTENDS Ballot

CONSTANTS
    Server,                     \* the nodes
    Conf, OldConf,              \* ConfigurationEntry::conf and old_conf ({} when stable)
    Nil,                        \* PeerId(): nobody
    LeaseEnabled,               \* FLAGS_raft_enable_leader_lease
    StepDownWhenVoteTimedout,   \* FLAGS_raft_step_down_when_vote_timedout
    MetaFailures,               \* the callers whose set_term_and_votedfor may fail
    Timeouts,                   \* the nodes whose lease may be found expired by the timer
    Transfers,                  \* <<leader, peer>>: the calls of transfer_leadership_to
    Triggers,                   \* the nodes vote() may be called on
    Crashing, Failing,          \* the nodes that may crash, and that may report an error
    MaxTerm,                    \* bound on the terms
    MaxCrash                    \* bound on the crashes and errors

ASSUME ServerAssumption ==
    /\ IsFiniteSet(Server)
    /\ Nil \notin Server
    /\ Conf \in (SUBSET Server) \ {{}}
    /\ OldConf \in SUBSET Server
ASSUME OptionsAssumption ==
    /\ LeaseEnabled \in BOOLEAN
    /\ StepDownWhenVoteTimedout \in BOOLEAN
    /\ MetaFailures \subseteq {"elect_self", "request_vote", "step_down"}
    /\ Timeouts \subseteq Server
    /\ Transfers \subseteq Server \X Server
    /\ Triggers \subseteq Server
    /\ Crashing \subseteq Server
    /\ Failing \subseteq Server
ASSUME BoundAssumption == MaxTerm \in Nat \ {0} /\ MaxCrash \in Nat

VARIABLES
    node,           \* the volatile state of each node
    meta,           \* what RaftMetaStorage holds: term and votedfor
    log,            \* the id of each node's last log entry
    pre_voting,     \* calls of pre_vote waiting for the disk
    electing,       \* calls of elect_self waiting for the disk
    voting,         \* calls of handle_request_vote_request waiting for the disk
    requests,       \* RequestVote requests on the wire
    responses,      \* RequestVote responses on the wire
    timeout_now,    \* TimeoutNow requests on the wire
    replies,        \* replies that tell a leader of a higher term
    crashes,        \* the number of crashes so far
    elected,        \* history: every leadership, with the leader's last log id
    votes,          \* history: every vote counted or answered, <<voter, term, candidate>>
    promise,        \* history: the leadership each node's unexpired lease was granted to
    aborted         \* a CHECK failed and ended a process

calls == <<pre_voting, electing, voting>>
wire == <<requests, responses, timeout_now, replies>>
history == <<elected, votes>>
vars == <<node, meta, log, calls, wire, crashes, history, promise, aborted>>

Member == Conf \cup OldConf
Peer == Server \cup {Nil}

\* DisruptedLeader(), whose term is -1
NoLeader == [peer |-> Nil, term |-> -1]

\* LogId orders by term, then by index.
LogIdGE(a, b) == a.term > b.term \/ (a.term = b.term /\ a.index >= b.index)

\* is_active_state; a leader that transfers its leadership still leads.
Leading == {"LEADER", "TRANSFERRING"}
Active(n) == node[n].state \in Leading \cup {"CANDIDATE", "FOLLOWER"}

\* What a call of set_term_and_votedfor by |caller| may return.
Saved(caller) == IF caller \in MetaFailures THEN BOOLEAN ELSE {TRUE}

-----------------------------------------------------------------------------
(* VoteBallotCtx.  A response carries the version of the context that asked *)
(* for it.  The version of _vote_ctx is kept, and survives a restart: a     *)
(* response to a dead process must match no context.  For _pre_vote_ctx the *)
(* peers asked and their answers are kept in the context and go with it.    *)

VoteOf(version, ballot) ==
    [version |-> version, ballot |-> ballot, reserved |-> {}, disrupted |-> NoLeader,
     last_log |-> [term |-> 0, index |-> 0], armed |-> FALSE]
EmptyVote == VoteOf(0, InitBallot(Conf, OldConf))
EmptyPre ==
    [ballot |-> InitBallot(Conf, OldConf), reserved |-> {}, disrupted |-> NoLeader,
     triggered |-> FALSE, last_log |-> [term |-> 0, index |-> 0], armed |-> FALSE,
     asked |-> {}, answers |-> {}]

\* A reset that leaves the grant-self timer running
ResetVote_timer_runs(ctx) == [ctx EXCEPT !.version = @ + 1]

\* VoteBallotCtx::reset.  The ballot keeps its counts; nobody looks at those of
\* _pre_vote_ctx before the next init.
ResetVote(ctx) == VoteOf(ctx.version + 1, ctx.ballot)

\* VoteBallotCtx::init
InitVote(ctx) == VoteOf(ctx.version + 1, InitBallot(Conf, OldConf))
InitPre(triggered) == [EmptyPre EXCEPT !.triggered = triggered]

\* VoteBallotCtx::pop_grantable_peers: the reserved peers once a leader is
\* known to be disrupted.
GrantablePeers(ctx) == IF ctx.disrupted.term = -1 THEN {} ELSE ctx.reserved

\* A follower that votes whatever its lease says
Votable_always(s) == TRUE

\* FollowerLease::votable_time_from_now() == 0
Votable(s) == ~LeaseEnabled \/ ~s.lease

\* A process that is not running, or has just started
Down ==
    [state |-> "DOWN", term |-> 1, voted |-> Nil, leader |-> Nil, lease |-> FALSE,
     last_leader |-> Nil, triggered |-> FALSE, vote |-> EmptyVote, pre |-> EmptyPre]

-----------------------------------------------------------------------------
(* NodeImpl, on the volatile state of one node                             *)

\* step_down: what it does to the memory of the node.
StepDown(s, term) ==
    IF s.state \notin Leading \cup {"CANDIDATE", "FOLLOWER"} THEN s
    ELSE [s EXCEPT !.vote = IF s.state = "CANDIDATE" THEN ResetVote(@) ELSE @,
                   !.pre = IF s.state = "FOLLOWER" THEN EmptyPre ELSE @,
                   !.state = "FOLLOWER",
                   !.leader = Nil,
                   !.term = IF term > s.term THEN term ELSE @,
                   !.voted = IF term > s.term THEN Nil ELSE @]

\* Saving although the term is not higher
StepDownMeta_always(s, m, term, saved) ==
    IF StepDown(s, term).term = term /\ saved THEN [term |-> term, voted |-> Nil] ELSE m

\* step_down: what it leaves in the meta storage.  A failure is only logged.
StepDownMeta(s, m, term, saved) ==
    IF StepDown(s, term).term > s.term /\ saved THEN [term |-> term, voted |-> Nil] ELSE m

\* elect_self without reset_leader_id
ElectSelf_keeps_leader(s, n, old_leader_stepped_down) ==
    [s EXCEPT !.state = "CANDIDATE", !.term = @ + 1, !.voted = n, !.pre = EmptyPre,
              !.vote = InitVote(@)]

\* elect_self up to the unlock
ElectSelf(s, n, old_leader_stepped_down) ==
    [s EXCEPT !.state = "CANDIDATE",
              !.term = @ + 1,
              !.voted = n,
              !.leader = Nil,
              !.pre = EmptyPre,
              !.vote = [InitVote(@) EXCEPT !.disrupted =
                            IF old_leader_stepped_down
                            THEN [peer |-> s.leader, term |-> s.term] ELSE NoLeader],
              !.lease = IF old_leader_stepped_down THEN FALSE ELSE @]

\* become_leader, apart from the log
BecomeLeader(s, n) ==
    [s EXCEPT !.state = "LEADER", !.leader = n, !.vote = ResetVote(@),
              !.lease = FALSE, !.last_leader = Nil]

\* check_step_down, for a message of |leader| at |term| >= s.term
CheckStepDown(s, term, leader) ==
    LET t == IF term > s.term \/ s.state # "FOLLOWER" \/ s.leader = Nil
             THEN StepDown(s, term) ELSE s
    IN IF t.leader = Nil THEN [t EXCEPT !.leader = leader, !.pre = EmptyPre] ELSE t

\* request_peers_to_vote
RequestsOf(n, ctx, term, peers) ==
    {[from |-> n, to |-> p, term |-> term, version |-> ctx.version,
      last_log |-> ctx.last_log,
      disrupted |-> IF ctx.disrupted.peer = Nil THEN NoLeader ELSE ctx.disrupted] :
        p \in peers \ {n}}

-----------------------------------------------------------------------------
(* Parts of the actions: |s| is the state node n has reached so far.        *)

\* elect_self; the bound MaxTerm stops the elections of a run.
elect_self(n, s, old_leader_stepped_down) ==
    IF n \in Member
    THEN /\ s.term < MaxTerm
         /\ node' = [node EXCEPT ![n] = ElectSelf(s, n, old_leader_stepped_down)]
         /\ electing' = electing \cup
                {[node |-> n, term |-> s.term + 1, last_log |-> log[n]]}
    ELSE /\ node' = [node EXCEPT ![n] = s]
         /\ UNCHANGED electing

\* pre_vote up to the unlock; there is none for a term beyond MaxTerm.
pre_vote(n, s, triggered) ==
    /\ node' = [node EXCEPT ![n] = s]
    /\ pre_voting' = IF n \notin Member \/ s.term >= MaxTerm THEN pre_voting
                     ELSE pre_voting \cup
                        {[node |-> n, term |-> s.term, triggered |-> triggered,
                          last_log |-> log[n]]}

\* become_leader: it CHECKs that the node is a candidate, and _conf_ctx.flush
\* appends the configuration as the first entry of the term.
become_leader(n, s) ==
    IF s.state = "CANDIDATE"
    THEN LET last == [term |-> s.term, index |-> log[n].index + 1]
         IN /\ node' = [node EXCEPT ![n] = BecomeLeader(s, n)]
            /\ log' = [log EXCEPT ![n] = last]
            /\ elected' = elected \cup {[term |-> s.term, leader |-> n, log |-> last]}
            /\ UNCHANGED aborted
    ELSE /\ node' = [node EXCEPT ![n] = s]
         /\ aborted' = TRUE
         /\ UNCHANGED <<log, elected>>

\* What follows a grant in _vote_ctx.
vote_granted(n, s) ==
    IF Granted(s.vote.ballot)
    THEN become_leader(n, s)
    ELSE /\ node' = [node EXCEPT ![n] = s]
         /\ UNCHANGED <<log, elected, aborted>>

\* grant_self(&_vote_ctx): at once when the lease allows, else by a timer.
grant_self_vote(n, s) ==
    IF Votable(s)
    THEN /\ vote_granted(n, [s EXCEPT !.vote.ballot = Grant(@, n)])
         /\ votes' = IF s.state = "CANDIDATE" THEN votes \cup {<<n, s.term, n>>} ELSE votes
    ELSE /\ node' = [node EXCEPT ![n] = [s EXCEPT !.vote.armed = TRUE]]
         /\ UNCHANGED <<log, elected, aborted, votes>>

\* grant_self(&_pre_vote_ctx)
grant_self_pre(n, s) ==
    LET g == [s EXCEPT !.pre.ballot = Grant(@, n)]
    IN IF ~Votable(s)
       THEN node' = [node EXCEPT ![n] = [s EXCEPT !.pre.armed = TRUE]] /\ UNCHANGED electing
       ELSE IF Granted(g.pre.ballot)
       THEN elect_self(n, g, FALSE)
       ELSE node' = [node EXCEPT ![n] = g] /\ UNCHANGED electing

\* The death of a process: its memory is gone, and its calls end with it.
dies(n) ==
    /\ n \in Crashing /\ crashes < MaxCrash
    /\ crashes' = crashes + 1
    /\ node' = [node EXCEPT ![n] =
            [Down EXCEPT !.vote.version = node[n].vote.version + 1]]
    /\ pre_voting' = {c \in pre_voting : c.node # n}
    /\ electing' = {c \in electing : c.node # n}
    /\ voting' = {c \in voting : c.request.to # n}
    /\ replies' = {a \in replies : a.to # n}

-----------------------------------------------------------------------------
(* Timers                                                                  *)

\* handle_election_timeout
handle_election_timeout(n) ==
    /\ node[n].state = "FOLLOWER"
    /\ node[n].triggered \/ (~node[n].lease /\ n \in Timeouts)
    /\ pre_vote(n, [node[n] EXCEPT !.triggered = FALSE, !.leader = Nil], node[n].triggered)
    /\ UNCHANGED <<meta, log, electing, voting, wire, crashes, history, promise, aborted>>

\* handle_vote_timeout
handle_vote_timeout(n) ==
    /\ node[n].state = "CANDIDATE"
    /\ \/ /\ StepDownWhenVoteTimedout
          /\ pre_vote(n, StepDown(node[n], node[n].term), FALSE)
          /\ UNCHANGED electing
       \/ /\ ~StepDownWhenVoteTimedout
          /\ elect_self(n, node[n], FALSE)
          /\ UNCHANGED pre_voting
    /\ UNCHANGED <<meta, log, voting, wire, crashes, history, promise, aborted>>

\* handle_grant_self_timedout of _vote_ctx.  A timer of an earlier version does
\* nothing, so only the timer of the current version is kept.
handle_grant_self_timedout_vote(n) ==
    /\ Active(n)
    /\ node[n].vote.armed
    /\ grant_self_vote(n, [node[n] EXCEPT !.vote.armed = FALSE])
    /\ UNCHANGED <<meta, calls, wire, crashes, promise>>

\* handle_grant_self_timedout of _pre_vote_ctx
handle_grant_self_timedout_pre(n) ==
    /\ Active(n)
    /\ node[n].pre.armed
    /\ grant_self_pre(n, [node[n] EXCEPT !.pre.armed = FALSE])
    /\ UNCHANGED <<meta, log, pre_voting, voting, wire, crashes, history, promise, aborted>>

\* The election timeout plus the clock drift pass since the last message of the
\* leader: FollowerLease::expired().
lease_expires(n) ==
    /\ node[n].lease \/ promise[n] # NoLeader
    /\ node' = [node EXCEPT ![n].lease = FALSE]
    /\ promise' = [promise EXCEPT ![n] = NoLeader]
    /\ UNCHANGED <<meta, log, calls, wire, crashes, history, aborted>>

\* handle_stepdown_timeout that finds no quorum alive (check_dead_nodes), or
\* get_leader_lease_status that finds the lease expired.
handle_stepdown_timeout(n) ==
    /\ node[n].state \in Leading
    /\ node' = [node EXCEPT ![n] = StepDown(@, @.term)]
    /\ UNCHANGED <<meta, log, calls, wire, crashes, history, promise, aborted>>

\* Node::vote, the manual trigger of an election
vote(n) ==
    /\ node[n].state = "FOLLOWER"
    /\ n \in Triggers
    /\ node' = [node EXCEPT ![n].triggered = TRUE]
    /\ UNCHANGED <<meta, log, calls, wire, crashes, history, promise, aborted>>

-----------------------------------------------------------------------------
(* Pre-vote                                                                *)

\* pre_vote after the lock is taken again
pre_vote_flushed(c) ==
    LET n == c.node
    IN /\ pre_voting' = pre_voting \ {c}
       /\ IF node[n].term = c.term
          THEN \E last \in {c.last_log, log[n]} :
                  grant_self_pre(n, [node[n] EXCEPT !.pre =
                      [InitPre(c.triggered) EXCEPT !.asked = Member \ {n}, !.last_log = last]])
          ELSE UNCHANGED <<node, electing>>
       /\ UNCHANGED <<meta, log, voting, wire, crashes, history, promise, aborted>>

\* What |m| answers the pre-vote request of |n|, if the answer is of any use.
PreVoteAnswers(m, n) ==
    LET s == node[m]
        grantable == /\ node[n].term + 1 >= s.term
                     /\ LogIdGE(node[n].pre.last_log, log[m])
    IN IF grantable \/ s.term > node[n].term
       THEN {[peer |-> m, term |-> s.term,
              granted |-> grantable /\ Votable(s),
              rejected_by_lease |-> grantable /\ ~Votable(s),
              disrupted |-> s.state = "LEADER"]}
       ELSE {}

\* handle_pre_vote_request at |m| of the request of |n|.  It changes nothing at
\* |m|; its unlock is invisible, as an answer of a higher term is not counted.
handle_pre_vote_request(m, n) ==
    LET ctx == [node[n].pre EXCEPT !.asked = @ \ {m}, !.answers = @ \cup PreVoteAnswers(m, n)]
    IN /\ Active(m)
       /\ m \in node[n].pre.asked
       /\ node' = [node EXCEPT ![n].pre = ctx]
       /\ UNCHANGED <<meta, log, calls, wire, crashes, history, promise, aborted>>

\* handle_pre_vote_response: what a granted or lease-rejected answer adds to
\* the context.  A vote of the last leader also releases the own vote.
CountPreVote(s, n, a) ==
    LET disrupted == IF a.disrupted THEN [peer |-> a.peer, term |-> a.term]
                     ELSE s.pre.disrupted
        reserved == s.pre.reserved \cup (IF a.rejected_by_lease THEN {a.peer} ELSE {})
        popped == IF disrupted.term = -1 THEN {} ELSE reserved
        peers == popped \cup (IF a.rejected_by_lease THEN {} ELSE {a.peer})
        own == s.last_leader \in peers
    IN [s EXCEPT !.pre.disrupted = disrupted,
                 !.pre.reserved = reserved \ popped,
                 !.pre.armed = @ /\ ~own,
                 !.pre.ballot = GrantAll(@, peers \cup (IF own THEN {n} ELSE {}))]

handle_pre_vote_response(n, a) ==
    LET s == [node[n] EXCEPT !.pre.answers = @ \ {a}]
    IN /\ a \in node[n].pre.answers
       /\ s.state = "FOLLOWER"
       /\ \/ /\ a.term > s.term
             /\ \E saved \in Saved("step_down") :
                    meta' = [meta EXCEPT ![n] = StepDownMeta(s, @, a.term, saved)]
             /\ node' = [node EXCEPT ![n] = StepDown(s, a.term)]
             /\ UNCHANGED electing
          \/ /\ a.term <= s.term
             /\ \/ a.granted
                \/ a.rejected_by_lease /\ s.pre.triggered
             /\ LET g == CountPreVote(s, n, a)
                IN IF Granted(g.pre.ballot) THEN elect_self(n, g, FALSE)
                   ELSE node' = [node EXCEPT ![n] = g] /\ UNCHANGED electing
             /\ UNCHANGED meta
       /\ UNCHANGED <<log, pre_voting, voting, wire, crashes, history, promise, aborted>>

-----------------------------------------------------------------------------
(* Vote                                                                    *)

\* elect_self after the lock is taken again.  The requests leave before the
\* vote is saved; a failed save takes the own vote back.
elect_self_flushed(c) ==
    LET n == c.node
        s == node[n]
    IN /\ electing' = electing \ {c}
       /\ \/ /\ s.term # c.term
             /\ UNCHANGED <<node, meta, log, requests, elected, votes, aborted>>
          \/ /\ s.term = c.term
             /\ \E last \in {c.last_log, log[n]}, saved \in Saved("elect_self") :
                  LET t == [s EXCEPT !.vote.last_log = last]
                  IN /\ requests' = requests \cup RequestsOf(n, t.vote, t.term, Member)
                     /\ IF saved
                        THEN /\ meta' = [meta EXCEPT ![n] = [term |-> s.term, voted |-> n]]
                             /\ grant_self_vote(n, t)
                        ELSE /\ node' = [node EXCEPT ![n] = [t EXCEPT !.voted = Nil]]
                             /\ UNCHANGED <<meta, log, elected, votes, aborted>>
       /\ UNCHANGED <<pre_voting, voting, responses, timeout_now, replies, crashes, promise>>

\* The process dies in elect_self once its requests left, before the vote is saved.
elect_self_dies(c) ==
    LET n == c.node
        s == node[n]
    IN /\ s.term = c.term
       /\ \E last \in {c.last_log, log[n]} :
            requests' = requests \cup
                RequestsOf(n, [s.vote EXCEPT !.last_log = last], s.term, Member)
       /\ dies(n)
       /\ UNCHANGED <<meta, log, responses, timeout_now, history, promise, aborted>>

\* A vote that is granted to whoever asks in the term
granted_to_any(r, s) == r.term = s.term

\* Whether the response says that the vote is granted
granted_to(r, s) == r.term = s.term /\ s.voted = r.from

\* The end of handle_request_vote_request: the node, now in state s, answers r.
\* An answer the candidate would drop unread is not put on the wire.
answer(r, s, disrupted, previous_term, rejected_by_lease) ==
    LET granted == granted_to(r, s)
    IN /\ responses' =
            IF granted \/ rejected_by_lease \/ s.term > r.term
            THEN responses \cup
                {[peer |-> r.to, to |-> r.from, asked |-> r.term, version |-> r.version,
                  term |-> s.term, granted |-> granted,
                  rejected_by_lease |-> rejected_by_lease,
                  disrupted |-> disrupted, previous_term |-> previous_term]}
            ELSE responses
       /\ votes' = IF granted THEN votes \cup {<<r.to, r.term, r.from>>} ELSE votes

\* handle_request_vote_request up to the unlock.  A candidate that disrupted
\* the leader this node follows ends the node's lease.
handle_request_vote_request(r) ==
    LET n == r.to
        s == [node[n] EXCEPT !.lease =
                @ /\ ~(/\ node[n].state = "FOLLOWER"
                       /\ r.disrupted = [peer |-> node[n].leader, term |-> node[n].term])]
    IN /\ Active(n)
       /\ requests' = requests \ {r}
       /\ node' = [node EXCEPT ![n] = s]
       /\ IF r.term < s.term
          THEN answer(r, s, FALSE, s.term, FALSE) /\ UNCHANGED voting
          ELSE /\ voting' = voting \cup
                    {[request |-> r, previous_term |-> s.term, last_log |-> log[n]]}
               /\ UNCHANGED <<responses, votes>>
       /\ UNCHANGED <<meta, log, pre_voting, electing, timeout_now, replies, crashes, elected,
                      promise, aborted>>

\* A node that votes again in a term
can_vote_again(s, log_is_ok) == log_is_ok

\* Whether handle_request_vote_request takes the vote
can_vote(s, log_is_ok) == log_is_ok /\ s.voted = Nil

\* The vote itself: step_down to the term of the request, then save the vote if
\* none is taken.  A vote that could not be saved is taken back.
cast_vote(n, r, log_is_ok) ==
    \E raised \in Saved("step_down"), saved \in Saved("request_vote") :
        LET s == IF r.term > node[n].term THEN StepDown(node[n], r.term) ELSE node[n]
            m == StepDownMeta(node[n], meta[n], r.term, raised)
            t == StepDown(s, r.term)
        IN /\ IF can_vote(s, log_is_ok)
              THEN /\ node' = [node EXCEPT ![n] = IF saved THEN [t EXCEPT !.voted = r.from] ELSE t]
                   /\ meta' = [meta EXCEPT ![n] =
                                IF saved THEN [term |-> t.term, voted |-> r.from] ELSE m]
              ELSE /\ node' = [node EXCEPT ![n] = s]
                   /\ meta' = [meta EXCEPT ![n] = m]
           /\ answer(r, node'[n], r.term > node[n].term /\ node[n].state \in Leading,
                     node[n].term, FALSE)

\* handle_request_vote_request after the lock is taken again.  The log was read
\* at some point in between.
request_vote_flushed(c) ==
    LET r == c.request
        n == r.to
    IN /\ voting' = voting \ {c}
       /\ \E last \in {c.last_log, log[n]} :
            LET log_is_ok == LogIdGE(r.last_log, last)
            IN \/ /\ node[n].term # c.previous_term
                  /\ answer(r, node[n], FALSE, c.previous_term, FALSE)
                  /\ UNCHANGED <<node, meta>>
               \/ /\ node[n].term = c.previous_term
                  /\ ~Votable(node[n])
                  /\ answer(r, node[n], FALSE, c.previous_term, log_is_ok)
                  /\ UNCHANGED <<node, meta>>
               \/ /\ node[n].term = c.previous_term
                  /\ Votable(node[n])
                  /\ cast_vote(n, r, log_is_ok)
       /\ UNCHANGED <<log, pre_voting, electing, requests, timeout_now, replies, crashes,
                      elected, promise, aborted>>

\* handle_request_vote_response: what a granted or lease-rejected answer does
\* to the context.  A vote of the last leader also releases the own vote.
CountVote(s, n, a) ==
    LET own == a.granted /\ a.peer = s.last_leader
    IN [s EXCEPT !.vote.disrupted = IF a.disrupted THEN [peer |-> a.peer,
                                                         term |-> a.previous_term] ELSE @,
                 !.vote.ballot = GrantAll(@, (IF a.granted THEN {a.peer} ELSE {}) \cup
                                             (IF own THEN {n} ELSE {})),
                 !.vote.armed = @ /\ ~own,
                 !.vote.reserved = @ \cup (IF a.granted THEN {} ELSE {a.peer})]

\* A vote counted for a candidate: become leader, or ask the peers that
\* refused because of their lease again once the old leader is disrupted.
count_vote(n, a) ==
    LET s == CountVote(node[n], n, a)
        again == GrantablePeers(s.vote)
        asked == [s EXCEPT !.vote.reserved = @ \ again]
    IN /\ a.granted \/ a.rejected_by_lease
       /\ votes' = IF a.granted /\ a.peer = node[n].last_leader
                   THEN votes \cup {<<n, s.term, n>>} ELSE votes
       /\ IF a.granted /\ Granted(s.vote.ballot)
          THEN become_leader(n, s) /\ UNCHANGED requests
          ELSE /\ node' = [node EXCEPT ![n] = asked]
               /\ requests' = requests \cup RequestsOf(n, s.vote, s.term, again)
               /\ UNCHANGED <<log, elected, aborted>>
       /\ UNCHANGED meta

\* handle_request_vote_response
handle_request_vote_response(a) ==
    LET n == a.to
        s == node[n]
    IN /\ Active(n)
       /\ responses' = responses \ {a}
       /\ a.version = s.vote.version
       /\ s.state = "CANDIDATE"
       /\ a.asked = s.term
       /\ \/ /\ a.term > s.term
             /\ \E saved \in Saved("step_down") :
                    meta' = [meta EXCEPT ![n] = StepDownMeta(s, @, a.term, saved)]
             /\ node' = [node EXCEPT ![n] = StepDown(s, a.term)]
             /\ UNCHANGED <<log, requests, elected, votes, aborted>>
          \/ /\ a.term <= s.term
             /\ count_vote(n, a)
       /\ UNCHANGED <<calls, timeout_now, replies, crashes, promise>>

-----------------------------------------------------------------------------
(* Leader and followers                                                    *)

\* handle_append_entries_request from the leader of |e|, late or not.  The
\* follower's log stays or becomes the leader's.
handle_append_entries_request(n, e) ==
    LET s == node[n]
        t == CheckStepDown(s, e.term, e.leader)
    IN /\ Active(n)
       /\ e.leader # n
       /\ \/ /\ e.term < s.term
             /\ replies' = replies \cup {[to |-> e.leader, term |-> s.term]}
             /\ UNCHANGED <<node, meta, log, promise>>
          \/ /\ e.term >= s.term
             /\ t.leader # e.leader
             /\ e.term < MaxTerm
             /\ node' = [node EXCEPT ![n] = StepDown(t, e.term + 1)]
             /\ replies' = replies \cup {[to |-> e.leader, term |-> e.term + 1]}
             /\ \E saved \in Saved("step_down") :
                    meta' = [meta EXCEPT ![n] = StepDownMeta(t, @, e.term + 1, saved)]
             /\ UNCHANGED <<log, promise>>
          \/ /\ e.term >= s.term
             /\ t.leader = e.leader
             /\ node' = [node EXCEPT ![n] = [t EXCEPT !.lease = TRUE, !.last_leader = e.leader]]
             /\ \E saved \in Saved("step_down") :
                    meta' = [meta EXCEPT ![n] = StepDownMeta(s, @, e.term, saved)]
             /\ \E last \in {log[n], e.log} : log' = [log EXCEPT ![n] = last]
             /\ promise' = IF LeaseEnabled
                           THEN [promise EXCEPT ![n] = [peer |-> e.leader, term |-> e.term]]
                           ELSE promise
             /\ UNCHANGED replies
       /\ UNCHANGED <<calls, requests, responses, timeout_now, crashes, history, aborted>>

\* increase_term_to, called by a replicator that was answered a higher term.  The
\* replicator is destroyed before the call, which may find that the node does not
\* lead any more.
increase_term_to(a) ==
    LET n == a.to
    IN /\ Active(n)
       /\ a.term > node[n].term
       /\ node' = [node EXCEPT ![n] = StepDown(@, a.term)]
       /\ \E saved \in Saved("step_down") :
            meta' = [meta EXCEPT ![n] = StepDownMeta(node[n], @, a.term, saved)]
       /\ replies' = replies \ {a}
       /\ UNCHANGED <<log, calls, requests, responses, timeout_now, crashes, history, promise,
                      aborted>>

\* transfer_leadership_to: the replicator of the peer sends TimeoutNow.
transfer_leadership_to(n, peer) ==
    /\ <<n, peer>> \in Transfers
    /\ node[n].state = "LEADER"
    /\ peer \in Member \ {n}
    /\ node' = [node EXCEPT ![n].state = "TRANSFERRING"]
    /\ timeout_now' = timeout_now \cup
            {[from |-> n, to |-> peer, term |-> node[n].term, old_leader_stepped_down |-> FALSE]}
    /\ UNCHANGED <<meta, log, calls, requests, responses, replies, crashes, history, promise,
                   aborted>>

\* handle_transfer_timeout: the leader goes on leading.
handle_transfer_timeout(n) ==
    /\ node[n].state = "TRANSFERRING"
    /\ node' = [node EXCEPT ![n].state = "LEADER"]
    /\ UNCHANGED <<meta, log, calls, wire, crashes, history, promise, aborted>>

\* handle_timeout_now_request.  Without leases the answer of a node that starts
\* an election makes the old leader step down.
handle_timeout_now_request(r) ==
    LET n == r.to
        s == node[n]
        reply(t) == replies' = IF t > r.term
                               THEN replies \cup {[to |-> r.from, term |-> t]}
                               ELSE replies
    IN /\ Active(n)
       /\ timeout_now' = timeout_now \ {r}
       /\ \/ /\ r.term > s.term
             /\ node' = [node EXCEPT ![n] = StepDown(s, r.term)]
             /\ \E saved \in Saved("step_down") :
                    meta' = [meta EXCEPT ![n] = StepDownMeta(s, @, r.term, saved)]
             /\ UNCHANGED <<electing, replies>>
          \/ /\ r.term < s.term \/ (r.term = s.term /\ s.state # "FOLLOWER")
             /\ reply(s.term)
             /\ UNCHANGED <<node, meta, electing>>
          \/ /\ r.term = s.term
             /\ s.state = "FOLLOWER"
             /\ reply(IF LeaseEnabled THEN s.term ELSE s.term + 1)
             /\ elect_self(n, s, r.old_leader_stepped_down)
             /\ UNCHANGED meta
       /\ UNCHANGED <<log, pre_voting, voting, requests, responses, crashes, history, promise,
                      aborted>>

-----------------------------------------------------------------------------
(* Crashes and restarts                                                    *)

\* The process dies; what it had in memory is gone.
crash(n) ==
    /\ node[n].state # "DOWN"
    /\ dies(n)
    /\ UNCHANGED <<meta, log, requests, responses, timeout_now, history, promise, aborted>>

\* on_error, and shutdown: the node steps down and answers nothing any more;
\* calls in progress go on.  A leader wakes a candidate up, if it finds one.
on_error(n) ==
    /\ Active(n)
    /\ n \in Failing /\ crashes < MaxCrash
    /\ crashes' = crashes + 1
    /\ node' = [node EXCEPT ![n] = [StepDown(@, @.term) EXCEPT !.state = "ERROR"]]
    /\ \/ UNCHANGED timeout_now
       \/ /\ node[n].state = "LEADER"
          /\ \E p \in Member \ {n} :
                timeout_now' = timeout_now \cup
                    {[from |-> n, to |-> p, term |-> node[n].term,
                      old_leader_stepped_down |-> TRUE]}
    /\ UNCHANGED <<meta, log, calls, requests, responses, replies, history, promise, aborted>>

\* NodeImpl::init: init_meta_storage loads term and vote, and leaves a term the
\* log has outgrown.  The lease starts anew unless the node never saw a leader,
\* and the only member of a group starts an election at once.
init(n) ==
    LET grown == meta[n].term < log[n].term
        m == IF grown THEN [term |-> log[n].term + 1, voted |-> Nil] ELSE meta[n]
        s == [Down EXCEPT !.state = "FOLLOWER", !.term = m.term, !.voted = m.voted,
                          !.lease = ~(m.term = 1 /\ m.voted = Nil), !.vote = node[n].vote]
    IN /\ node[n].state = "DOWN"
       /\ m.term <= MaxTerm
       /\ meta' = [meta EXCEPT ![n] = m]
       /\ IF OldConf = {} /\ Conf = {n}
          THEN elect_self(n, s, FALSE)
          ELSE node' = [node EXCEPT ![n] = s] /\ UNCHANGED electing
       /\ UNCHANGED <<log, pre_voting, voting, wire, crashes, history, promise, aborted>>

-----------------------------------------------------------------------------
Init ==
    /\ node = [n \in Server |-> Down]
    /\ meta = [n \in Server |-> [term |-> 1, voted |-> Nil]]
    /\ log = [n \in Server |-> [term |-> 0, index |-> 0]]
    /\ pre_voting = {} /\ electing = {} /\ voting = {}
    /\ requests = {} /\ responses = {} /\ timeout_now = {} /\ replies = {}
    /\ crashes = 0
    /\ elected = {} /\ votes = {}
    /\ promise = [n \in Server |-> NoLeader]
    /\ aborted = FALSE

\* A failed CHECK ends the story.
Next ==
    /\ ~aborted
    /\ \/ \E n \in Server :
             \/ init(n)
             \/ crash(n)
             \/ on_error(n)
             \/ handle_election_timeout(n)
             \/ handle_vote_timeout(n)
             \/ handle_grant_self_timedout_vote(n)
             \/ handle_grant_self_timedout_pre(n)
             \/ lease_expires(n)
             \/ handle_stepdown_timeout(n)
             \/ vote(n)
             \/ handle_transfer_timeout(n)
             \/ \E m \in Server : handle_pre_vote_request(m, n)
             \/ \E a \in node[n].pre.answers : handle_pre_vote_response(n, a)
             \/ \E p \in Server : transfer_leadership_to(n, p)
             \/ \E e \in elected : handle_append_entries_request(n, e)
       \/ \E c \in pre_voting : pre_vote_flushed(c)
       \/ \E c \in electing : elect_self_flushed(c) \/ elect_self_dies(c)
       \/ \E c \in voting : request_vote_flushed(c)
       \/ \E r \in requests : handle_request_vote_request(r)
       \/ \E a \in responses : handle_request_vote_response(a)
       \/ \E r \in timeout_now : handle_timeout_now_request(r)
       \/ \E a \in replies : increase_term_to(a)

Spec == Init /\ [][Next]_vars

-----------------------------------------------------------------------------
(* Properties                                                              *)

\* The type of _vote_ctx and _pre_vote_ctx
LogId == [term : Nat, index : Nat]
Disrupted == [peer : Peer, term : Int]
VoteCtx ==
    [version : Nat, ballot : BallotType(Server), reserved : SUBSET Server,
     disrupted : Disrupted, last_log : LogId, armed : BOOLEAN]
PreVoteAnswer ==
    [peer : Server, term : Nat, granted : BOOLEAN, rejected_by_lease : BOOLEAN,
     disrupted : BOOLEAN]
PreVoteCtx ==
    [ballot : BallotType(Server), reserved : SUBSET Server, disrupted : Disrupted,
     triggered : BOOLEAN, last_log : LogId, armed : BOOLEAN, asked : SUBSET Server,
     answers : SUBSET PreVoteAnswer]
NodeState ==
    [state : {"LEADER", "TRANSFERRING", "CANDIDATE", "FOLLOWER", "ERROR", "DOWN"},
     term : Nat, voted : Peer, leader : Peer, lease : BOOLEAN, last_leader : Peer,
     triggered : BOOLEAN, vote : VoteCtx, pre : PreVoteCtx]
MetaState == [term : Nat, voted : Peer]
Request ==
    [from : Server, to : Server, term : Nat, version : Nat, last_log : LogId,
     disrupted : Disrupted]
Response ==
    [peer : Server, to : Server, asked : Nat, version : Nat, term : Nat, granted : BOOLEAN,
     rejected_by_lease : BOOLEAN, disrupted : BOOLEAN, previous_term : Nat]

TypeOK ==
    /\ node \in [Server -> NodeState]
    /\ meta \in [Server -> MetaState]
    /\ log \in [Server -> LogId]
    /\ pre_voting \subseteq [node : Server, term : Nat, triggered : BOOLEAN, last_log : LogId]
    /\ electing \subseteq [node : Server, term : Nat, last_log : LogId]
    /\ voting \subseteq [request : Request, previous_term : Nat, last_log : LogId]
    /\ requests \subseteq Request
    /\ responses \subseteq Response
    /\ timeout_now \subseteq [from : Server, to : Server, term : Nat,
                              old_leader_stepped_down : BOOLEAN]
    /\ replies \subseteq [to : Server, term : Nat]
    /\ crashes \in Nat
    /\ elected \subseteq [term : Nat, leader : Server, log : LogId]
    /\ votes \subseteq Server \X Nat \X Server
    /\ promise \in [Server -> Disrupted]
    /\ aborted \in BOOLEAN

\* No term ever has two leaders, whatever is lost, delayed, crashed or
\* interleaved with the unlocked parts of the handlers (node.cc:1660-1729).
OneLeaderPerTerm ==
    \A e, f \in elected : e.term = f.term => e.leader = f.leader

\* A node gives its vote of a term to one candidate only, its own candidacy
\* included, also when it restarts in between: what it answered or counted is
\* what set_term_and_votedfor saved.
VotesOnce ==
    \A v, w \in votes : v[1] = w[1] /\ v[2] = w[2] => v[3] = w[3]

\* A node only ever follows a leader that was elected in the node's own term,
\* so the ELEADERCONFLICT branch of handle_append_entries_request is dead.
FollowsElectedLeader ==
    \A n \in Server : node[n].leader # Nil =>
        \E e \in elected : e.term = node[n].term /\ e.leader = node[n].leader

\* The CHECK at the top of become_leader never fails.
CandidateBecomesLeader == ~aborted

\* While the unexpired leases of a quorum were granted to a leader that still
\* leads, no later leadership exists: reads under the leader's lease are safe.
LeaseExcludesOthers ==
    LeaseEnabled =>
        \A n \in Server :
            (/\ node[n].state \in Leading
             /\ JointQuorum({n} \cup {m \in Server : promise[m] =
                                        [peer |-> n, term |-> node[n].term]}, Conf, OldConf))
            => \A e \in elected : e.term <= node[n].term

(***************************************************************************)
(* What keeps these true, as an inductive invariant.                        *)
(***************************************************************************)

\* Node n, with memory s and meta storage m, where V are the votes and E the
\* leaderships so far.  The memory is never behind the meta storage, agrees
\* with it in the same term, and only the own vote may still be unsaved.  What
\* a candidate has counted are votes of its term.
NodeAgrees(n, s, m, V, E) ==
    /\ s.state # "DOWN" =>
          /\ m.term <= s.term
          /\ m.term = s.term => m.voted = s.voted
          /\ s.voted \notin {Nil, n} => m.term = s.term
    /\ s.state = "CANDIDATE" =>
          /\ s.vote.armed => m = [term |-> s.term, voted |-> n]
          /\ s.vote.ballot.new.peers = Conf
          /\ s.vote.ballot.new.found \subseteq Conf
          /\ s.vote.ballot.new.quorum =
                (Cardinality(Conf) \div 2) + 1 - Cardinality(s.vote.ballot.new.found)
          /\ \A v \in s.vote.ballot.new.found : <<v, s.term, n>> \in V
    /\ s.leader # Nil => \E e \in E : e.term = s.term /\ e.leader = s.leader

\* A version of a message the candidate n has sent, or is answered.  The
\* requests of a running candidacy left in the step that saved its vote.
VersionKnown(n, version, s, m) ==
    /\ version <= s.vote.version
    /\ s.state = "CANDIDATE" /\ version = s.vote.version =>
          m = [term |-> s.term, voted |-> n]

RequestKnown(r) ==
    r.from # r.to /\ VersionKnown(r.from, r.version, node[r.from], meta[r.from])

ResponseKnown(a) ==
    /\ VersionKnown(a.to, a.version, node[a.to], meta[a.to])
    /\ a.granted => <<a.peer, a.asked, a.to>> \in votes

\* A call of elect_self that waits for the disk still has the node's own vote.
ElectingKnown(d) ==
    /\ node[d.node].state # "DOWN"
    /\ d.term <= node[d.node].term
    /\ d.term = node[d.node].term => node[d.node].voted = d.node

\* A vote that was answered or counted is in the meta storage until a later
\* term replaces it.
VoteSaved(v) ==
    \/ v[2] < meta[v[1]].term
    \/ meta[v[1]] = [term |-> v[2], voted |-> v[3]]

\* A leader was elected by the votes of a majority.
LeaderBacked(e) ==
    \E q \in SUBSET Conf : /\ 2 * Cardinality(q) > Cardinality(Conf)
                           /\ \A v \in q : <<v, e.term, e.leader>> \in votes

ElectionInvariant ==
    /\ TypeOK
    /\ \A n \in Server : NodeAgrees(n, node[n], meta[n], votes, elected)
    /\ \A d \in pre_voting : node[d.node].state # "DOWN"
    /\ \A d \in electing : ElectingKnown(d)
    /\ \A d \in voting : node[d.request.to].state # "DOWN" /\ RequestKnown(d.request)
    /\ \A r \in requests : RequestKnown(r)
    /\ \A a \in responses : ResponseKnown(a)
    /\ \A v \in votes : VoteSaved(v)
    /\ VotesOnce
    /\ \A e \in elected : LeaderBacked(e)

\* A vote that reached the meta storage stays there for the rest of its term,
\* and the stored term never goes back: no handler writes an older term or
\* another vote over it (set_term_and_votedfor at node.cc:1718, 1822 and 2257).
SavedVotesKept ==
    \A n \in Server :
        /\ meta'[n].term >= meta[n].term
        /\ meta'[n].term = meta[n].term /\ meta[n].voted # Nil
              => meta'[n].voted = meta[n].voted
SavedVoteStays == [][SavedVotesKept]_vars
=============================================================================
