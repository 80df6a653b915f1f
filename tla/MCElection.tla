----------------------------- MODULE MCElection -----------------------------
\* Three nodes, from processes that never ran, and what troubles their election.
EXTENDS Election
CONSTANTS a, b, c

MCServer == {a, b, c}
MCTimeouts == {a, b}
MCTrigger == {c}
MCTransfer == {<<a, b>>}
MCNone == {}
MCAlone == {a}
MCFollowers == {b, c}
MCDying == {a, c}
MCTwoFailures == {"request_vote", "step_down"}
MCUnsaved == {"elect_self"}

\* Either the voter c crashes at some time and saves fail; or the candidate a dies
\* in elect_self between its requests and its save, and stands for no other election.
VARIABLE trouble

MemoryIsSaved ==
    \A n \in Server :
        node[n].state # "DOWN" /\ (\A d \in electing : d.node # n) =>
            meta[n] = [term |-> node[n].term, voted |-> node[n].voted]

StartInit == Init /\ trouble \in {"voter", "candidate"}
StartNext ==
    /\ Next
    /\ trouble = "voter" /\ crashes' # crashes => node'[a] = node[a]
    /\ trouble = "candidate" =>
        /\ MemoryIsSaved'
        /\ crashes' # crashes => requests' # requests
        /\ crashes' = 1 => \A d \in pre_voting' : d.node # a
    /\ UNCHANGED trouble
StartSpec == StartInit /\ [][StartNext]_<<vars, trouble>>
=============================================================================
