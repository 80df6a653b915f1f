--------------------------- MODULE MCElectionLed ---------------------------
(***************************************************************************)
(* Three nodes after a calm first election, and what may then trouble them. *)
(***************************************************************************)
EXTENDS MCElection

\* Node a leads in term 2 with the vote of b; b and c follow it, hold the first
\* entry of the term and have heard from a within the election timeout.
Following == [Down EXCEPT !.state = "FOLLOWER", !.term = 2, !.leader = a, !.lease = TRUE,
                          !.last_leader = a]
LedInit ==
    /\ node = [n \in Server |->
                IF n = a
                THEN [Down EXCEPT !.state = "LEADER", !.term = 2, !.voted = a, !.leader = a,
                                  !.vote = [EmptyVote EXCEPT !.version = 2, !.ballot =
                                                GrantAll(@, {a, b})]]
                ELSE IF n = b THEN [Following EXCEPT !.voted = a] ELSE Following]
    /\ meta = [n \in Server |-> [term |-> 2, voted |-> IF n = c THEN Nil ELSE a]]
    /\ log = [n \in Server |-> [term |-> 2, index |-> 1]]
    /\ pre_voting = {} /\ electing = {} /\ voting = {}
    /\ requests = {} /\ responses = {} /\ timeout_now = {} /\ replies = {}
    /\ crashes = 0
    /\ elected = {[term |-> 2, leader |-> a, log |-> [term |-> 2, index |-> 1]]}
    /\ votes = {<<a, 2, a>>, <<b, 2, a>>}
    /\ promise = [n \in Server |-> IF n # a /\ LeaseEnabled THEN [peer |-> a, term |-> 2]
                                   ELSE NoLeader]
    /\ aborted = FALSE
    /\ trouble \in {"failure", "restart", "transfer"}

\* Node a or b crashes, a fails or c is told to vote; or c crashes and stands after that;
\* or the leader is told to hand over and no AppendEntries reaches or leaves it any more.
LedNext ==
    /\ Next
    /\ trouble # "transfer" => \A n \in Server : node'[n].state # "TRANSFERRING"
    /\ trouble = "failure" => (crashes' # crashes => node'[c] = node[c])
    /\ trouble = "restart" =>
        /\ crashes' # crashes => node'[c] # node[c]
        /\ crashes' = 0 => node'[c].state = "FOLLOWER"
        /\ \A n \in Server : node'[n].state # "ERROR"
    /\ trouble = "transfer" =>
        /\ crashes' = 0
        /\ \A n \in Server :
              /\ ~node'[n].triggered
              /\ node'[n].lease => node[n].lease \/ (n # a /\ node'[n].term > 2)
    /\ UNCHANGED trouble
LedSpec == LedInit /\ [][LedNext]_<<vars, trouble>>
=============================================================================
