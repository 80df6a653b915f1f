----------------------------- MODULE TaskQueue -----------------------------
(***************************************************************************)
(* What execution_queue.h promises of an ExecutionQueue: tasks of one      *)
(* priority are executed in the order they were added, each once unless it *)
(* was cancelled before, one at a time; after stop the executor is called  *)
(* once more, when all tasks are done, and never again.                    *)
(***************************************************************************)
EXTENDS Sequences, SequencesExt

CONSTANTS Task, High

VARIABLES
    pending,    \* added, neither executed nor cancelled
    executed,   \* tasks in the order of their execution
    ended       \* the call that says is_queue_stopped was made

queue == <<pending, executed, ended>>

SamePriority(t, u) == (t \in High) = (u \in High)

TQInit == pending = << >> /\ executed = << >> /\ ended = FALSE

Add(t) ==
    /\ ~ended /\ t \notin ToSet(pending) \cup ToSet(executed)
    /\ pending' = Append(pending, t)
    /\ UNCHANGED <<executed, ended>>

\* t is the first of its priority.
Execute(t) ==
    /\ \E i \in DOMAIN pending :
          /\ pending[i] = t
          /\ \A j \in 1 .. i - 1 : ~SamePriority(pending[j], t)
          /\ pending' = RemoveAt(pending, i)
    /\ executed' = Append(executed, t)
    /\ UNCHANGED ended

Cancel(t) ==
    /\ \E i \in DOMAIN pending : pending[i] = t /\ pending' = RemoveAt(pending, i)
    /\ UNCHANGED <<executed, ended>>

End ==
    /\ pending = << >> /\ ~ended
    /\ ended' = TRUE
    /\ UNCHANGED <<pending, executed>>

TQNext == (\E t \in Task : Add(t) \/ Execute(t) \/ Cancel(t)) \/ End
TQSpec == TQInit /\ [][TQNext]_queue
=============================================================================
