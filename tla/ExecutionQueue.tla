--------------------------- MODULE ExecutionQueue ---------------------------
(***************************************************************************)
(* ExecutionQueue (melon/fiber/execution_queue.cc): a wait-free queue of    *)
(* tasks that many threads add to and one executor at a time drains.  The  *)
(* executor exists only while there are tasks: who adds to an empty queue  *)
(* starts it.  The queue lives in a slot with a versioned reference count; *)
(* after stop, who drops the last reference adds the stop task.            *)
(*                                                                         *)
(* One action is one atomic operation on shared memory (_head, the next of *)
(* a node another thread links, _versioned_ref, _stopped,                  *)
(* _high_priority_tasks, a task's status, _join_butex, and in pthread mode *)
(* _current_head and _pthread_started) together with the private work      *)
(* before the next one.                                                    *)
(***************************************************************************)
EXTENDS Integers, Sequences, FiniteSets, SequencesExt

CONSTANTS
    Task,       \* the tasks that may be added
    Thread,     \* the threads that use the queue
    High,       \* those with high_priority
    InPlace,    \* those with in_place_if_possible
    Scenarios,  \* what the threads do, and whether a pthread executes
    Stop,       \* the stop task
    NULL, UNCONNECTED

Node == Task \cup {Stop}
ASSUME ExecutionQueueAssumption ==
    /\ Stop \notin Task /\ NULL \notin Node /\ UNCONNECTED \notin Node /\ NULL # UNCONNECTED
    /\ High \subseteq Task /\ InPlace \subseteq Task
    /\ \A s \in Scenarios : s.use_pthread \in BOOLEAN /\ DOMAIN s.program = Thread

VARIABLES
    opt,        \* the scenario
    head,       \* _head: the node that was added last
    node,       \* the TaskNodes
    vref,       \* _versioned_ref: version and count of references
    stopped,    \* _stopped
    high,       \* _high_priority_tasks
    joinable,   \* _join_butex: the stop task was executed and the slot returned
    th,         \* the threads that use the queue
    ex,         \* the executor each node started, if it did
    pt,         \* pthread mode: _pthread_started, _current_head, the mutex, the pthreads
    order,      \* history: nodes in the order they were added
    executed,   \* history: nodes in the order they were executed
    cancelled,  \* history: tasks that cancel prevented
    aborted     \* a CHECK failed

shared == <<head, node, vref, stopped, high, joinable>>
history == <<order, executed, cancelled>>
vars == <<opt, head, node, vref, stopped, high, joinable, th, ex, pt, order, executed,
          cancelled, aborted>>

NewNode == [next |-> UNCONNECTED, iterated |-> FALSE, status |-> "UNEXECUTED", returned |-> FALSE]
NoExecutor == [pc |-> "none", head |-> NULL, tail |-> NULL, cur |-> NULL, high |-> FALSE,
               breaks |-> FALSE, count |-> 0, destroy |-> FALSE, in_place |-> FALSE,
               p |-> NULL, reversed |-> NULL, new_tail |-> NULL]

Init ==
    /\ opt \in Scenarios
    /\ head = NULL /\ node = [n \in Node |-> NewNode]
    /\ vref = [ver |-> 0, ref |-> 1]
    /\ stopped = FALSE /\ high = 0 /\ joinable = FALSE
    /\ th = [p \in Thread |-> [pc |-> "idle", ops |-> opt.program[p], task |-> NULL,
                               ver |-> 0, prev |-> NULL, derefs |-> 0]]
    /\ ex = [n \in Node |-> NoExecutor]
    /\ pt = [started |-> FALSE, current |-> NULL, mutex |-> NULL,
             pc |-> [n \in Node |-> "none"], arg |-> [n \in Node |-> NULL], pid |-> NULL]
    /\ order = << >> /\ executed = << >> /\ cancelled = {} /\ aborted = FALSE

Goto(p, pc) == th' = [th EXCEPT ![p].pc = pc]
Op(p) == Head(th[p].ops)
\* A thread that has dropped a reference, or had none to drop: the next one, or the end
\* of its operation
After(t) == IF t.derefs > 0 THEN [t EXCEPT !.pc = "deref"]
            ELSE [pc |-> "idle", ops |-> Tail(t.ops), task |-> NULL, ver |-> 0, prev |-> NULL,
                  derefs |-> 0]

-----------------------------------------------------------------------------
(* The versioned reference                                                 *)

\* address: a reference to the queue whose id has version 0
address(p) ==
    /\ th[p].pc = "idle" /\ th[p].ops # << >> /\ Op(p).op \in {"execute", "stop"}
    /\ vref' = [vref EXCEPT !.ref = @ + 1]
    /\ th' = [th EXCEPT ![p].pc = IF vref.ver # 0 THEN "unaddress"
                                  ELSE IF Op(p).op = "stop" THEN "stop" ELSE "check",
                        ![p].ver = vref.ver,
                        ![p].task = IF Op(p).op = "stop" THEN NULL ELSE Op(p).task,
                        ![p].derefs = 1]
    /\ UNCHANGED <<opt, head, node, stopped, high, joinable, ex, pt, history, aborted>>

\* A reference is dropped.  With the last one the thread tries to recycle the queue;
\* only some versions are legal then.
DropRef(p, legal, recycles) ==
    LET t == [th[p] EXCEPT !.derefs = @ - 1]
    IN  /\ vref' = [vref EXCEPT !.ref = @ - 1]
        /\ th' = [th EXCEPT ![p] = IF vref.ref > 1 \/ ~recycles THEN After(t)
                                   ELSE [t EXCEPT !.pc = "recycle", !.ver = vref.ver]]
        /\ aborted' = (vref.ref < 1 \/ (vref.ref = 1 /\ ~legal))

\* The version did not match: the reference is dropped again.
unaddress(p) ==
    /\ th[p].pc = "unaddress"
    /\ DropRef(p, \/ vref.ver = th[p].ver
                  \/ vref.ver % 2 = 1 /\ vref.ver = th[p].ver + 1, vref.ver % 2 = 1)
    /\ UNCHANGED <<opt, head, node, stopped, high, joinable, ex, pt, history>>

dereference(p) ==
    /\ th[p].pc = "deref"
    /\ DropRef(p, vref.ver \in {0, 1}, TRUE)
    /\ UNCHANGED <<opt, head, node, stopped, high, joinable, ex, pt, history>>

\* Who takes the version further adds the stop task, one thread only.
Recyclable(p) == vref = [ver |-> th[p].ver, ref |-> 0]
recycle(p) ==
    /\ th[p].pc = "recycle"
    /\ IF Recyclable(p)
       THEN /\ vref' = [ver |-> 2, ref |-> 0]
            /\ th' = [th EXCEPT ![p].pc = "push", ![p].task = Stop]
       ELSE /\ th' = [th EXCEPT ![p] = After(@)]
            /\ UNCHANGED vref
    /\ UNCHANGED <<opt, head, node, stopped, high, joinable, ex, pt, history, aborted>>

\* stop: version 1, then _stopped, then the additional reference and its own
stop(p) ==
    /\ th[p].pc = "stop"
    /\ IF vref.ver # 0 THEN Goto(p, "deref") /\ UNCHANGED vref
       ELSE /\ vref' = [vref EXCEPT !.ver = 1]
            /\ th' = [th EXCEPT ![p].pc = "set_stopped", ![p].derefs = 2]
    /\ UNCHANGED <<opt, head, node, stopped, high, joinable, ex, pt, history, aborted>>

set_stopped_never(p) ==
    /\ th[p].pc = "set_stopped"
    /\ Goto(p, "deref")
    /\ UNCHANGED <<opt, shared, ex, pt, history, aborted>>
set_stopped(p) ==
    /\ th[p].pc = "set_stopped"
    /\ stopped' = TRUE
    /\ Goto(p, "deref")
    /\ UNCHANGED <<opt, head, node, vref, high, joinable, ex, pt, history, aborted>>

-----------------------------------------------------------------------------
(* execute and start_execute                                               *)

\* execute checks _stopped, and counts a task of high priority before it is added.
check(p) ==
    /\ th[p].pc = "check"
    /\ Goto(p, IF stopped THEN "deref" ELSE IF th[p].task \in High THEN "count" ELSE "push")
    /\ UNCHANGED <<opt, shared, ex, pt, history, aborted>>

count(p) ==
    /\ th[p].pc = "count"
    /\ high' = high + 1
    /\ Goto(p, "push")
    /\ UNCHANGED <<opt, head, node, vref, stopped, joinable, ex, pt, history, aborted>>

\* The exchange of _head; the node is not linked yet.
push(p) ==
    /\ th[p].pc = "push"
    /\ head' = th[p].task
    /\ order' = Append(order, th[p].task)
    /\ th' = [th EXCEPT ![p].pc = "link", ![p].prev = head]
    /\ UNCHANGED <<opt, node, vref, stopped, high, joinable, ex, pt, executed, cancelled,
                   aborted>>

\* Linked to the node before it, or first and to be executed by this thread (in place)
\* or by an executor it starts
Iterating(n) == [NoExecutor EXCEPT !.pc = "iterate", !.head = n, !.tail = n, !.cur = n,
                                   !.high = n \in High, !.in_place = TRUE]
Started(n) == [NoExecutor EXCEPT !.pc = IF opt.use_pthread THEN "ready" ELSE "loop",
                                 !.head = n]
link(p) ==
    LET n == th[p].task IN
    /\ th[p].pc = "link"
    /\ node' = [node EXCEPT ![n].next = th[p].prev]
    /\ IF th[p].prev # NULL
       THEN th' = [th EXCEPT ![p] = After(@)] /\ UNCHANGED ex
       ELSE IF n \in InPlace
       THEN Goto(p, "in_place") /\ ex' = [ex EXCEPT ![n] = Iterating(n)]
       ELSE /\ ex' = [ex EXCEPT ![n] = Started(n)]
            /\ th' = [th EXCEPT ![p] = IF opt.use_pthread THEN [@ EXCEPT !.pc = "launch"]
                                       ELSE After(@)]
    /\ UNCHANGED <<opt, head, vref, stopped, high, joinable, pt, history, aborted>>

\* The in-place execution is over, or is continued by an executor.
in_place_done(p) ==
    /\ th[p].pc = "in_place" /\ ~ex[th[p].task].in_place
    /\ th' = [th EXCEPT ![p] = IF opt.use_pthread /\ ex[th[p].task].pc = "ready"
                               THEN [@ EXCEPT !.pc = "launch"] ELSE After(@)]
    /\ UNCHANGED <<opt, shared, ex, pt, history, aborted>>

\* cancel of a task that was added; a returned node has another version.
cancel(p) ==
    /\ th[p].pc = "idle" /\ th[p].ops # << >> /\ Op(p).op = "cancel"
    /\ LET t == Op(p).task
           succeeds == ~node[t].returned /\ node[t].status = "UNEXECUTED"
       IN  /\ t \in ToSet(order)
           /\ node' = IF succeeds THEN [node EXCEPT ![t].status = "EXECUTED"] ELSE node
           /\ cancelled' = IF succeeds THEN cancelled \cup {t} ELSE cancelled
    /\ th' = [th EXCEPT ![p] = After(@)]
    /\ UNCHANGED <<opt, head, vref, stopped, high, joinable, ex, pt, order, executed, aborted>>

\* join returns when the stop task was executed.
join(p) ==
    /\ th[p].pc = "idle" /\ th[p].ops # << >> /\ Op(p).op = "join"
    /\ joinable /\ (pt.pid # NULL => pt.pc[pt.pid] = "exited")
    /\ th' = [th EXCEPT ![p] = After(@)]
    /\ UNCHANGED <<opt, shared, ex, pt, history, aborted>>

-----------------------------------------------------------------------------
(* _execute_tasks and the TaskIterator                                     *)

\* The nodes from n on, in the private part of the list
ListFrom(n) ==
    LET at[k \in 0 .. Cardinality(Node)] ==
            IF k = 0 THEN n ELSE IF at[k - 1] \in Node THEN node[at[k - 1]].next ELSE NULL
    IN  SelectSeq([k \in 1 .. Cardinality(Node) |-> at[k - 1]], LAMBDA m : m \in Node)

\* The end of what the iterator walks: the stop task or the end of the list
Walk(n) == LET list == ListFrom(n)
           IN  IF list # << >> /\ Last(list) = Stop THEN Front(list) ELSE list

\* The top of the loop: the executed first node is returned, high priority goes first,
\* and the stop task is executed by itself.
loop(n) ==
    LET e == ex[n]
        h == IF node[e.head].iterated THEN node[e.head].next ELSE e.head
        freed == IF h = e.head THEN node ELSE [node EXCEPT ![e.head].returned = TRUE]
    IN  /\ e.pc = "loop"
        /\ IF h = NULL THEN aborted' = TRUE /\ UNCHANGED <<ex, node, executed>>
           ELSE IF h = Stop
           THEN /\ aborted' = (node[h].next # NULL)
                /\ node' = [freed EXCEPT ![h].iterated = TRUE, ![h].status = "EXECUTED"]
                /\ executed' = Append(executed, Stop)
                /\ ex' = [ex EXCEPT ![n].pc = "finish", ![n].head = h, ![n].cur = h,
                                    ![n].high = high > 0, ![n].count = 1, ![n].destroy = TRUE]
           ELSE /\ node' = freed
                /\ ex' = [ex EXCEPT ![n].pc = "iterate", ![n].head = h, ![n].cur = h,
                                    ![n].high = high > 0, ![n].count = 0, ![n].breaks = FALSE]
                /\ UNCHANGED <<executed, aborted>>
        /\ UNCHANGED <<opt, head, vref, stopped, high, joinable, th, pt, order, cancelled>>

\* operator++ of the iterator, and the execution of the task it stops at.  Tasks of the
\* other priority are passed over; cancelled ones count as iterated.
NextToExecuteCancelled(e, list) ==
    {k \in DOMAIN list : (list[k] \in High) = e.high /\ ~node[list[k]].iterated}
NextToExecute(e, list) ==
    {k \in DOMAIN list : /\ (list[k] \in High) = e.high /\ ~node[list[k]].iterated
                         /\ node[list[k]].status = "UNEXECUTED"}
Passed(e, list, k) ==
    {m \in {list[i] : i \in 1 .. k} : (m \in High) = e.high /\ ~node[m].iterated}
iterate(n) ==
    LET e == ex[n]
        from == IF node[e.cur].iterated THEN node[e.cur].next ELSE e.cur
        list == Walk(from)
        found == NextToExecute(e, list)
        k == IF found = {} THEN Len(list) ELSE CHOOSE i \in found : \A j \in found : i <= j
        passed == Passed(e, list, k)
        past == IF ListFrom(from) # list THEN Stop ELSE NULL
    IN  /\ e.pc = "iterate"
        /\ IF e.cur \in {NULL, Stop} \/ e.breaks
           THEN ex' = [ex EXCEPT ![n].pc = "finish"] /\ UNCHANGED <<node, executed>>
           ELSE IF ~e.high /\ high > 0
           THEN /\ ex' = [ex EXCEPT ![n].pc = "finish", ![n].cur = from, ![n].breaks = TRUE]
                /\ UNCHANGED <<node, executed>>
           ELSE /\ node' = [m \in Node |->
                               IF m \notin passed THEN node[m]
                               ELSE [node[m] EXCEPT !.iterated = TRUE, !.status =
                                        IF found # {} /\ m = list[k] THEN "EXECUTING" ELSE @]]
                /\ executed' = IF found = {} THEN executed ELSE Append(executed, list[k])
                /\ ex' = [ex EXCEPT ![n].pc = IF found = {} THEN "finish" ELSE "iterate",
                                    ![n].cur = IF found = {} THEN past ELSE list[k],
                                    ![n].count = @ + Cardinality(passed)]
        /\ UNCHANGED <<opt, head, vref, stopped, high, joinable, th, pt, order, cancelled, aborted>>

\* The iterator is destroyed, the tasks of high priority are counted off, and the nodes
\* up to one that is not iterated, or the last, are returned.
Before(n, m) == {x \in ToSet(ListFrom(n)) : x \notin ToSet(ListFrom(m))}
FirstKept(e, list) ==
    LET rest == SelectSeq(list, LAMBDA m : ~node[m].iterated)
    IN  IF e.in_place THEN e.head ELSE IF rest = << >> THEN Last(list) ELSE Head(rest)
CountedOff(e) == IF e.high THEN high - e.count ELSE high
finish(n) ==
    LET e == ex[n]
        list == ListFrom(e.head)
        first == FirstKept(e, list)
        over == {m \in Before(e.head, e.cur) : node[m].iterated /\ (m \in High) = e.high}
    IN  /\ e.pc = "finish"
        /\ node' = [m \in Node |->
                      [node[m] EXCEPT !.status = IF m \in over THEN "EXECUTED" ELSE @,
                                      !.returned = @ \/ m \in Before(e.head, first)]]
        /\ high' = CountedOff(e)
        /\ ex' = [ex EXCEPT ![n].pc = "more", ![n].head = first,
                            ![n].tail = IF @ = NULL THEN Last(list) ELSE @]
        /\ UNCHANGED <<opt, head, vref, stopped, joinable, th, pt, history, aborted>>

\* _more_tasks: with nothing new the executor ends, unless a task is left to execute.
ContinuedNowhere(n, tail) == IF ex[n].in_place THEN [NoExecutor EXCEPT !.pc = "done"]
                             ELSE [ex[n] EXCEPT !.pc = "loop", !.tail = tail]
Continued(n, tail) == IF ex[n].in_place THEN Started(n)
                      ELSE [ex[n] EXCEPT !.pc = "loop", !.tail = tail]
more_ends_anyway(n) ==
    LET e == ex[n]
        new == head # e.tail
    IN  /\ e.pc = "more"
        /\ head' = NULL
        /\ ex' = [ex EXCEPT ![n] =
                    IF new THEN [@ EXCEPT !.pc = "reverse", !.p = head, !.reversed = NULL,
                                          !.new_tail = head]
                    ELSE [NoExecutor EXCEPT !.pc = IF e.destroy THEN "destroy" ELSE "done"]]
        /\ UNCHANGED <<opt, node, vref, stopped, high, joinable, th, pt, history, aborted>>
more(n) ==
    LET e == ex[n]
        left == ~node[e.head].iterated
        new == head # e.tail
    IN  /\ e.pc = "more"
        /\ head' = IF new \/ left THEN head ELSE NULL
        /\ ex' = [ex EXCEPT ![n] =
                    IF new THEN [@ EXCEPT !.pc = "reverse", !.p = head, !.reversed = NULL,
                                          !.new_tail = head]
                    ELSE IF left THEN Continued(n, e.tail)
                    ELSE [NoExecutor EXCEPT !.pc = IF e.destroy THEN "destroy" ELSE "done"]]
        /\ node' = IF new \/ left THEN node ELSE [node EXCEPT ![e.head].returned = TRUE]
        /\ aborted' = \/ node[e.tail].next # NULL
                      \/ ~new /\ ~left /\ e.tail # e.head
        /\ UNCHANGED <<opt, vref, stopped, high, joinable, th, pt, history>>

\* One node of those that were added is turned around, once it is linked.
reverse(n) ==
    LET e == ex[n]
        next == node[e.p].next
    IN  /\ e.pc = "reverse" /\ next # UNCONNECTED
        /\ IF next = e.tail
           THEN /\ node' = [node EXCEPT ![e.p].next = e.reversed, ![e.tail].next = e.p]
                /\ ex' = [ex EXCEPT ![n] = Continued(n, e.new_tail)]
           ELSE /\ node' = [node EXCEPT ![e.p].next = e.reversed]
                /\ ex' = [ex EXCEPT ![n].p = next, ![n].reversed = e.p]
        /\ aborted' = (next = NULL)
        /\ UNCHANGED <<opt, head, vref, stopped, high, joinable, th, pt, history>>

\* The stop task was executed: joiners are woken and the slot is returned.
destroy(n) ==
    /\ ex[n].pc = "destroy"
    /\ ex' = [ex EXCEPT ![n].pc = "done"]
    /\ joinable' = TRUE
    /\ aborted' = (head # NULL \/ ~stopped)
    /\ UNCHANGED <<opt, head, node, vref, stopped, high, th, pt, history>>

-----------------------------------------------------------------------------
(* use_pthread: a resident pthread is started once and handed first nodes   *)

\* The end of start_execute: hand the node over, or create the pthread.
launch(p) ==
    LET n == th[p].task IN
    /\ th[p].pc = "launch"
    /\ IF pt.started
       THEN /\ pt.mutex = NULL
            /\ pt' = [pt EXCEPT !.current = n]
            /\ th' = [th EXCEPT ![p] = After(@)]
       ELSE /\ pt' = [pt EXCEPT !.pc[n] = "begin", !.pid = n]
            /\ Goto(p, "set_started")
    /\ UNCHANGED <<opt, shared, ex, history, aborted>>

set_started(p) ==
    /\ th[p].pc = "set_started"
    /\ pt' = [pt EXCEPT !.started = TRUE]
    /\ th' = [th EXCEPT ![p] = After(@)]
    /\ UNCHANGED <<opt, shared, ex, history, aborted>>

\* _execute_tasks_pthread: its own first node, without the mutex
pthread_begin(n) ==
    /\ pt.pc[n] = "begin"
    /\ pt' = [pt EXCEPT !.current = n, !.pc[n] = "wait"]
    /\ UNCHANGED <<opt, shared, th, ex, history, aborted>>

pthread_run(n) ==
    /\ pt.pc[n] = "wait" /\ pt.mutex = NULL /\ pt.current # NULL
    /\ pt' = [pt EXCEPT !.mutex = n, !.pc[n] = "run", !.arg[n] = pt.current]
    /\ ex' = [ex EXCEPT ![pt.current].pc = "loop"]
    /\ UNCHANGED <<opt, shared, th, history, aborted>>

pthread_done(n) ==
    /\ pt.pc[n] = "run" /\ ex[pt.arg[n]].pc = "done"
    /\ pt' = [pt EXCEPT !.current = NULL, !.mutex = NULL, !.arg[n] = NULL,
                        !.pc[n] = IF joinable THEN "exited" ELSE "wait"]
    /\ UNCHANGED <<opt, shared, th, ex, history, aborted>>

-----------------------------------------------------------------------------
ThreadStep(p) ==
    \/ address(p) \/ unaddress(p) \/ dereference(p) \/ recycle(p)
    \/ stop(p) \/ set_stopped(p) \/ check(p) \/ count(p) \/ push(p) \/ link(p)
    \/ in_place_done(p) \/ cancel(p) \/ join(p) \/ launch(p) \/ set_started(p)
ExecutorStep(n) ==
    \/ loop(n) \/ iterate(n) \/ finish(n) \/ more(n) \/ reverse(n) \/ destroy(n)
    \/ pthread_begin(n) \/ pthread_run(n) \/ pthread_done(n)
Next == ~aborted /\ (\/ \E p \in Thread : ThreadStep(p)
                     \/ \E n \in Node : ExecutorStep(n))

\* Threads and executors are scheduled.  An executor spins while a task of high priority
\* is counted and not yet added; the threads, which take finitely many steps, go on
\* meanwhile.
Fairness == /\ WF_vars(~aborted /\ \E p \in Thread : ThreadStep(p))
            /\ WF_vars(Next)
Spec == Init /\ [][Next]_vars /\ Fairness

-----------------------------------------------------------------------------
(* Properties                                                              *)

\* No CHECK of the queue fails, nor will that of the next create: no task is counted as
\* high priority any more when the slot is returned.
ChecksHold == ~aborted /\ (joinable => high = 0)

\* There is at most one executor, and while there is one _head is not NULL: who finds it
\* NULL has the right to start one.
Executing(n) == ex[n].pc \notin {"none", "done", "destroy"}
OneExecutor == \A n \in Node : Executing(n) => /\ head # NULL
                                               /\ \A m \in Node : Executing(m) => m = n

\* The queue implements what execution_queue.h says: tasks of one priority in order,
\* each once unless cancelled, the stop task last.
Queue == INSTANCE TaskQueue WITH
    pending <- SelectSeq(order, LAMBDA n : n \notin {Stop} \cup ToSet(executed) \cup cancelled),
    executed <- SelectSeq(executed, LAMBDA n : n # Stop),
    ended <- Stop \in ToSet(executed)
RunsInOrder == Queue!TQSpec

\* Every task that was added is executed or cancelled in the end, as the threads add
\* finitely many; after stop the stop task is executed and joiners return.
AllExecuted ==
    /\ <>[](ToSet(order) \ {Stop} \subseteq ToSet(executed) \cup cancelled)
    /\ stopped ~> joinable
=============================================================================
