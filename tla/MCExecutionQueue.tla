-------------------------- MODULE MCExecutionQueue --------------------------
(***************************************************************************)
(* Three threads for the ExecutionQueue runs.                              *)
(***************************************************************************)
EXTENDS ExecutionQueue
CONSTANTS a, b, c, t1, t2, t3, u
MCThread == {a, b, c}
MCTask == {t1, t2, t3, u}
MCHigh == {u}
MCInPlace == {t3}
execute(t) == [op |-> "execute", task |-> t]
stop_queue == [op |-> "stop"]
cancel_of(t) == [op |-> "cancel", task |-> t]
joins == [op |-> "join"]
Programs(x, y, z) == [p \in Thread |-> IF p = a THEN x ELSE IF p = b THEN y ELSE z]
Fibers(x, y, z) == [program |-> Programs(x, y, z), use_pthread |-> FALSE]
Pthread(x, y, z) == [program |-> Programs(x, y, z), use_pthread |-> TRUE]
MCScenarios == {
    Fibers(<<execute(t1), execute(t2)>>, <<execute(u)>>, <<stop_queue, joins>>),
    Fibers(<<execute(t3), execute(t1)>>, <<execute(u)>>, <<cancel_of(u), stop_queue>>),
    Fibers(<<execute(t1)>>, <<execute(t2), cancel_of(t1)>>, <<execute(t3), stop_queue>>),
    Pthread(<<execute(t1), execute(t3), execute(t2), stop_queue, joins>>, << >>, << >>)}
MCRace == {Pthread(<<execute(t1)>>, <<execute(t2)>>, << >>)}
=============================================================================
