------------------------------ MODULE MCSession ------------------------------
(***************************************************************************)
(* Threads that share the sessions of one slot.                            *)
(***************************************************************************)
EXTENDS Session
CONSTANTS a, b, c
MCThread == {a, b, c}
MCSlot == {1}
Calm == [create |-> 2, lock |-> 0, trylock |-> 0, error |-> 0, about |-> 0, join |-> 0,
         cancel |-> 0, ranges |-> {1}, resets |-> {0}, raced |-> TRUE]

\* Three threads contend for a session; errors and joins meet the end of a session and
\* the next one; a lock makes the range larger; versions start near the top and again
\* at 1, when nobody looks at the slot.
MCScenarios ==
    {[butex |-> 0, budget |-> [Calm EXCEPT !.lock = 3, !.about = 1]],
     [butex |-> 0, budget |-> [Calm EXCEPT !.lock = 2, !.error = 2, !.join = 1]],
     [butex |-> 0, budget |-> [Calm EXCEPT !.lock = 2, !.join = 1, !.cancel = 1,
                                           !.ranges = {1, 2}]],
     [butex |-> 0, budget |-> [Calm EXCEPT !.lock = 2, !.resets = {0, 3}]],
     [butex |-> 11, budget |-> [Calm EXCEPT !.lock = 2, !.trylock = 1, !.error = 1,
                                            !.ranges = {1, 2}, !.raced = FALSE]]}

\* Versions start again while an old identifier is looked up.
MCStartsAgain == {[butex |-> 11, budget |-> [Calm EXCEPT !.lock = 2]]}

\* A lock makes the range larger by one while another thread is about to wait.
MCGrows == {[butex |-> 0, budget |-> [Calm EXCEPT !.create = 1, !.lock = 3, !.resets = {0, 2}]]}
=============================================================================
