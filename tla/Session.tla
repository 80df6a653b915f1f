------------------------------- MODULE Session -------------------------------
(***************************************************************************)
(* fiber_session_t (session.cc): 64-bit identifiers of a slot and a        *)
(* version that can be locked, joined, given errors and destroyed from any *)
(* thread, and whose slots are used again.  Several consecutive versions   *)
(* name one session; the butex of a slot holds its first version when it   *)
(* is unlocked and versions past its range when it is locked, contended or *)
(* about to be destroyed.                                                  *)
(*                                                                         *)
(* A step is one section under the mutex of a slot, one butex_wait, one    *)
(* butex_wake, or what a create writes that others could see.              *)
(* The callers lock, and unlock or destroy what they locked;               *)
(* on_error is called with the session locked and does the same.  Threads  *)
(* use identifiers for ever, also of sessions long destroyed.              *)
(***************************************************************************)
EXTENDS Integers, Sequences, FiniteSets

CONSTANTS
    Thread,
    Slot,           \* the resource pool
    Width,          \* versions are below Width (2^32)
    MaxRange,       \* ID_MAX_RANGE
    Scenarios       \* what a butex holds at first and the calls that are made

\* How often each call is made, and the ranges given to create and to lock; the range 0
\* leaves a session's range alone.  "raced": other threads may look at a slot while a
\* create, which does not lock it, starts its versions again.
Budgets == [create : Nat, lock : Nat, trylock : Nat, error : Nat, about : Nat, join : Nat,
            cancel : Nat, ranges : SUBSET (1 .. MaxRange), resets : SUBSET (0 .. MaxRange),
            raced : BOOLEAN]

ASSUME SessionAssumption ==
    /\ MaxRange \in Nat \ {0} /\ Width \in Nat /\ Width > MaxRange + 3
    /\ \A s \in Scenarios : s.butex \in 0 .. Width - 1 /\ s.budget \in Budgets

VARIABLES
    meta,       \* the Id of every slot
    free,       \* the slots in the pool
    th,         \* what every thread does
    session,    \* history: the sessions created so far
    error,      \* history: the errors issued so far
    budget      \* the scenario, less the calls made so far

vars == <<meta, free, th, session, error, budget>>

-----------------------------------------------------------------------------
(* An Id                                                                   *)

HasVersion(m, v) == v >= m.first_ver /\ v < m.locked_ver
ContendedVer(m) == m.locked_ver + 1
UnlockableVer(m) == m.locked_ver + 2
EndVer(m) == IF m.locked_ver + 3 = Width THEN 0 ELSE m.locked_ver + 3
Unlocked(m) == m.butex = m.first_ver

\* id_create_impl, id_create_ranged_impl: versions start again at 1 before they overflow.
FirstVer(m) == IF m.butex = 0 \/ m.butex + MaxRange + 2 >= Width THEN 1 ELSE m.butex
Created(m, range) ==
    [m EXCEPT !.butex = FirstVer(m), !.join_butex = FirstVer(m), !.first_ver = FirstVer(m),
              !.locked_ver = FirstVer(m) + range]

\* lock_and_reset_range when unlocked: a range is only ever made larger.
LockedForgetful(m, range, ever_contended) ==
    LET l == IF m.first_ver + range > m.locked_ver THEN m.first_ver + range ELSE m.locked_ver
    IN  [m EXCEPT !.locked_ver = l, !.butex = l]
Locked(m, range, ever_contended) ==
    LET l == IF m.first_ver + range > m.locked_ver THEN m.first_ver + range ELSE m.locked_ver
    IN  [m EXCEPT !.locked_ver = l, !.butex = IF ever_contended THEN l + 1 ELSE l]

\* unlock_and_destroy and cancel
DestroyedNextVersion(m) ==
    [m EXCEPT !.butex = m.first_ver + 1, !.first_ver = m.first_ver + 1,
              !.locked_ver = m.first_ver + 1, !.join_butex = m.first_ver + 1, !.pending_q = << >>]
Destroyed(m) ==
    [m EXCEPT !.butex = EndVer(m), !.first_ver = EndVer(m), !.locked_ver = EndVer(m),
              !.join_butex = EndVer(m), !.pending_q = << >>]
Cancelled(m) ==
    [m EXCEPT !.butex = EndVer(m), !.first_ver = EndVer(m), !.locked_ver = EndVer(m)]

-----------------------------------------------------------------------------
\* A thread in a call: the identifier, the range to set, the value it waits on.  An
\* identifier is a slot and a version; "of" is history, the session it was issued for.
At(pc, id) ==
    [pc |-> pc, slot |-> id.slot, ver |-> id.ver, of |-> id.of, range |-> 0, expected |-> 0]
Idle == At("idle", [slot |-> 0, ver |-> 0, of |-> 0])
Go(t, pc) == th' = [th EXCEPT ![t].pc = pc]
Return(t) == th' = [th EXCEPT ![t] = Idle]
SlotOf(t) == th[t].slot

\* The identifiers that were handed out: any version of the range of any session
Issued == UNION {{[slot |-> session[e].slot, ver |-> v, of |-> e] :
                     v \in session[e].first .. session[e].last} :
                 e \in {x \in DOMAIN session : session[x].shared}}
\* The session that lives in a slot
Living(slot) == {e \in DOMAIN session : session[e].slot = slot /\ session[e].lives}
Ends(slot) == [e \in DOMAIN session |-> IF e \in Living(slot)
                                         THEN [session[e] EXCEPT !.lives = FALSE]
                                         ELSE session[e]]
Spend(what) == budget[what] > 0 /\ budget' = [budget EXCEPT ![what] = @ - 1]

Init ==
    /\ \E s \in Scenarios :
          /\ meta = [x \in Slot |-> [butex |-> s.butex, join_butex |-> s.butex,
                                     first_ver |-> s.butex, locked_ver |-> s.butex,
                                     pending_q |-> << >>]]
          /\ budget = s.budget
    /\ free = Slot
    /\ th = [t \in Thread |-> Idle]
    /\ session = << >>
    /\ error = << >>

-----------------------------------------------------------------------------
(* Creating                                                                *)

NewSession(t, slot, first, range) ==
    /\ session' = Append(session, [slot |-> slot, first |-> first, last |-> first + range - 1,
                                   lives |-> TRUE, shared |-> FALSE])
    /\ th' = [th EXCEPT ![t] = At("created", [slot |-> slot, ver |-> first,
                                              of |-> Len(session) + 1])]

\* The fields are written without the mutex, locked_ver last.  Until then the slot has
\* no version, unless its versions start again: only then others could tell.
fiber_session_create(t, slot, range) ==
    /\ th[t] = Idle /\ slot \in free /\ Spend("create")
    /\ free' = free \ {slot}
    /\ IF FirstVer(meta[slot]) # meta[slot].butex /\ budget.raced
       THEN /\ meta' = [meta EXCEPT ![slot] =
                            [Created(@, range) EXCEPT !.locked_ver = meta[slot].locked_ver]]
            /\ th' = [th EXCEPT ![t] = [Idle EXCEPT !.pc = "creating", !.slot = slot,
                                                    !.range = range]]
            /\ UNCHANGED session
       ELSE /\ meta' = [meta EXCEPT ![slot] = Created(@, range)]
            /\ NewSession(t, slot, FirstVer(meta[slot]), range)
    /\ UNCHANGED error

\* The rest of a create that could be seen: it reads the butex again.
create_ends(t) ==
    /\ th[t].pc = "creating"
    /\ LET first == meta[SlotOf(t)].butex
       IN  /\ meta' = [meta EXCEPT ![SlotOf(t)].locked_ver = first + th[t].range]
           /\ NewSession(t, SlotOf(t), first, th[t].range)
    /\ UNCHANGED <<free, error, budget>>

\* The creator hands the identifier out.
share(t) ==
    /\ th[t].pc = "created"
    /\ session' = [e \in DOMAIN session |-> IF e \in Living(SlotOf(t))
                                             THEN [session[e] EXCEPT !.shared = TRUE]
                                             ELSE session[e]]
    /\ Return(t)
    /\ UNCHANGED <<meta, free, error, budget>>

\* The creator gives an identifier up that nobody else has.
fiber_session_cancel(t) ==
    /\ th[t].pc = "created" /\ Spend("cancel")
    /\ LET m == meta[SlotOf(t)]
       IN  IF ~HasVersion(m, th[t].ver) \/ ~Unlocked(m)
           THEN Return(t) /\ UNCHANGED <<meta, session>>
           ELSE /\ meta' = [meta EXCEPT ![SlotOf(t)] = Cancelled(@)]
                /\ session' = Ends(SlotOf(t))
                /\ Go(t, "return_resource")
    /\ UNCHANGED <<free, error>>

-----------------------------------------------------------------------------
(* Locking                                                                 *)

fiber_session_lock(t, id, range) ==
    /\ th[t] = Idle /\ Spend("lock")
    /\ th' = [th EXCEPT ![t] = [At("lock", id) EXCEPT !.range = range]]
    /\ UNCHANGED <<meta, free, session, error>>

\* One section of fiber_session_lock_and_reset_range, the first or after a wait
lock_section(t) ==
    /\ th[t].pc \in {"lock", "relock"}
    /\ LET slot == SlotOf(t)  m == meta[slot]  ver == th[t].ver
       IN  \/ /\ ~HasVersion(m, ver) \/ m.butex = UnlockableVer(m)
              /\ Return(t) /\ UNCHANGED <<meta, session>>
           \/ /\ HasVersion(m, ver) /\ Unlocked(m)
              /\ meta' = [meta EXCEPT ![slot] = Locked(@, th[t].range, th[t].pc = "relock")]
              /\ session' = [e \in DOMAIN session |->
                                IF e \in Living(slot)
                                THEN [session[e] EXCEPT !.last = meta'[slot].locked_ver - 1]
                                ELSE session[e]]
              /\ th' = [th EXCEPT ![t] = [th[t] EXCEPT !.pc = "locked", !.range = 0, !.expected = 0]]
           \/ /\ HasVersion(m, ver) /\ ~Unlocked(m) /\ m.butex # UnlockableVer(m)
              /\ meta' = [meta EXCEPT ![slot].butex = ContendedVer(m)]
              /\ th' = [th EXCEPT ![t].pc = "wait", ![t].expected = ContendedVer(m)]
              /\ UNCHANGED session
    /\ UNCHANGED <<free, error, budget>>

\* butex_wait: asleep unless the value has changed
lock_wait(t) ==
    /\ th[t].pc = "wait"
    /\ Go(t, IF meta[SlotOf(t)].butex = th[t].expected THEN "asleep" ELSE "relock")
    /\ UNCHANGED <<meta, free, session, error, budget>>

fiber_session_trylock_contended(t, id) ==
    /\ th[t] = Idle /\ Spend("trylock")
    /\ LET m == meta[id.slot]
       IN  IF HasVersion(m, id.ver) /\ m.butex # m.locked_ver
           THEN /\ meta' = [meta EXCEPT ![id.slot].butex = m.locked_ver]
                /\ th' = [th EXCEPT ![t] = At("locked", id)]
           ELSE UNCHANGED <<meta, th>>
    /\ UNCHANGED <<free, session, error>>
fiber_session_trylock(t, id) ==
    /\ th[t] = Idle /\ Spend("trylock")
    /\ LET m == meta[id.slot]
       IN  IF HasVersion(m, id.ver) /\ Unlocked(m)
           THEN /\ meta' = [meta EXCEPT ![id.slot].butex = m.locked_ver]
                /\ th' = [th EXCEPT ![t] = At("locked", id)]
           ELSE UNCHANGED <<meta, th>>
    /\ UNCHANGED <<free, session, error>>

-----------------------------------------------------------------------------
(* Errors                                                                  *)

\* fiber_session_error2: on_error runs at once with the session locked, or is left to
\* who holds the lock.
fiber_session_error(t, id) ==
    /\ th[t] = Idle /\ Spend("error")
    /\ LET m == meta[id.slot]
       IN  IF ~HasVersion(m, id.ver)
           THEN error' = Append(error, "refused") /\ UNCHANGED <<meta, th>>
           ELSE IF Unlocked(m)
           THEN /\ meta' = [meta EXCEPT ![id.slot].butex = m.locked_ver]
                /\ th' = [th EXCEPT ![t] = At("locked", id)]
                /\ error' = Append(error, "handled")
           ELSE /\ meta' = [meta EXCEPT ![id.slot].pending_q =
                                Append(@, [id |-> id, error |-> Len(error) + 1])]
                /\ error' = Append(error, "pending")
                /\ UNCHANGED th
    /\ UNCHANGED <<free, session>>

-----------------------------------------------------------------------------
(* What a thread does that holds the lock                                  *)

Holds(t) == th[t].pc = "locked"

\* The locker goes on to on_error of a pending error, with the session still locked.
fiber_session_unlock_drops_errors(t) ==
    /\ Holds(t)
    /\ LET m == meta[SlotOf(t)]
       IN  /\ meta' = [meta EXCEPT ![SlotOf(t)].butex = m.first_ver]
           /\ IF m.butex = ContendedVer(m) THEN Go(t, "wake") ELSE Return(t)
    /\ UNCHANGED <<free, session, error, budget>>
fiber_session_unlock(t) ==
    /\ Holds(t)
    /\ LET m == meta[SlotOf(t)]
       IN  IF m.pending_q # << >>
           THEN /\ meta' = [meta EXCEPT ![SlotOf(t)].pending_q = Tail(@)]
                /\ th' = [th EXCEPT ![t] = At("locked", Head(m.pending_q).id)]
                /\ error' = [error EXCEPT ![Head(m.pending_q).error] = "handled"]
           ELSE /\ meta' = [meta EXCEPT ![SlotOf(t)].butex = m.first_ver]
                /\ IF m.butex = ContendedVer(m) THEN Go(t, "wake") ELSE Return(t)
                /\ UNCHANGED error
    /\ UNCHANGED <<free, session, budget>>

fiber_session_about_to_destroy(t) ==
    /\ Holds(t) /\ Spend("about")
    /\ LET m == meta[SlotOf(t)]
       IN  /\ meta' = [meta EXCEPT ![SlotOf(t)].butex = UnlockableVer(m)]
           /\ Go(t, IF m.butex = ContendedVer(m) THEN "wake_lockers" ELSE "locked")
    /\ UNCHANGED <<free, session, error>>

fiber_session_unlock_and_destroy(t) ==
    /\ Holds(t)
    /\ LET m == meta[SlotOf(t)]
       IN  /\ error' = [x \in DOMAIN error |->
                            IF \E k \in DOMAIN m.pending_q : m.pending_q[k].error = x
                            THEN "dropped" ELSE error[x]]
           /\ meta' = [meta EXCEPT ![SlotOf(t)] = Destroyed(m)]
    /\ session' = Ends(SlotOf(t))
    /\ Go(t, "wake_all")
    /\ UNCHANGED <<free, budget>>

-----------------------------------------------------------------------------
(* Waking: the slot may hold another session by now.                       *)

Asleep(pc, slot) == {u \in Thread : th[u].pc = pc /\ th[u].slot = slot}

\* butex_wake: one of those asleep
wake(t) ==
    /\ th[t].pc = "wake"
    /\ IF Asleep("asleep", SlotOf(t)) = {} THEN Return(t)
       ELSE \E u \in Asleep("asleep", SlotOf(t)) :
                th' = [th EXCEPT ![t] = Idle, ![u].pc = "relock"]
    /\ UNCHANGED <<meta, free, session, error, budget>>

\* butex_wake_except(butex, 0), of about_to_destroy and of unlock_and_destroy
WakeLockers(t, next) ==
    th' = [u \in Thread |-> IF u = t THEN [th[t] EXCEPT !.pc = next]
                            ELSE IF u \in Asleep("asleep", SlotOf(t))
                            THEN [th[u] EXCEPT !.pc = "relock"] ELSE th[u]]
wake_lockers(t) ==
    /\ th[t].pc \in {"wake_lockers", "wake_all"}
    /\ WakeLockers(t, IF th[t].pc = "wake_all" THEN "wake_joiners" ELSE "locked")
    /\ UNCHANGED <<meta, free, session, error, budget>>

wake_joiners(t) ==
    /\ th[t].pc = "wake_joiners"
    /\ th' = [u \in Thread |-> IF u = t THEN [th[t] EXCEPT !.pc = "return_resource"]
                               ELSE IF u \in Asleep("join_asleep", SlotOf(t))
                               THEN [th[u] EXCEPT !.pc = "join"] ELSE th[u]]
    /\ UNCHANGED <<meta, free, session, error, budget>>

return_resource(t) ==
    /\ th[t].pc = "return_resource"
    /\ free' = free \cup {SlotOf(t)}
    /\ Return(t)
    /\ UNCHANGED <<meta, session, error, budget>>

-----------------------------------------------------------------------------
(* Joining                                                                 *)

fiber_session_join(t, id) ==
    /\ th[t] = Idle /\ Spend("join")
    /\ th' = [th EXCEPT ![t] = At("join", id)]
    /\ UNCHANGED <<meta, free, session, error>>

\* One section of fiber_session_join, which reads the value to wait on
join_section_first_only(t) ==
    /\ th[t].pc = "join"
    /\ LET m == meta[SlotOf(t)]
       IN  IF m.first_ver # th[t].ver THEN Return(t)
           ELSE th' = [th EXCEPT ![t].pc = "join_wait", ![t].expected = m.join_butex]
    /\ UNCHANGED <<meta, free, session, error, budget>>
join_section(t) ==
    /\ th[t].pc = "join"
    /\ LET m == meta[SlotOf(t)]
       IN  IF ~HasVersion(m, th[t].ver) THEN Return(t)
           ELSE th' = [th EXCEPT ![t].pc = "join_wait", ![t].expected = m.join_butex]
    /\ UNCHANGED <<meta, free, session, error, budget>>

join_wait(t) ==
    /\ th[t].pc = "join_wait"
    /\ Go(t, IF meta[SlotOf(t)].join_butex = th[t].expected THEN "join_asleep" ELSE "join")
    /\ UNCHANGED <<meta, free, session, error, budget>>

-----------------------------------------------------------------------------
Calls(t) ==
    \/ \E slot \in Slot, range \in budget.ranges : fiber_session_create(t, slot, range)
    \/ \E id \in Issued : \/ \E range \in budget.resets : fiber_session_lock(t, id, range)
                          \/ fiber_session_trylock(t, id)
                          \/ fiber_session_error(t, id)
                          \/ fiber_session_join(t, id)

\* What goes on by itself, the caller's promise to unlock or destroy included
Goes(t) ==
    \/ create_ends(t) \/ share(t) \/ fiber_session_cancel(t)
    \/ lock_wait(t) \/ lock_section(t)
    \/ fiber_session_unlock(t) \/ fiber_session_about_to_destroy(t)
    \/ fiber_session_unlock_and_destroy(t)
    \/ wake(t) \/ wake_lockers(t) \/ wake_joiners(t) \/ return_resource(t)
    \/ join_wait(t) \/ join_section(t)

Next == \E t \in Thread : Calls(t) \/ Goes(t)

\* A thread that is not asleep is scheduled, and one that holds a session releases it:
\* the calls are finitely many, so that it is enough that one of the threads goes on.
Fairness == WF_vars(\E t \in Thread : Goes(t))
Spec == Init /\ [][Next]_vars
FairSpec == Spec /\ Fairness

-----------------------------------------------------------------------------
(* Properties                                                              *)

\* The thread has the data of the session for itself.
Owns(t) == th[t].pc \in {"locked", "wake_lockers"}

\* A locked session has one owner, and it is neither destroyed nor unlocked under it:
\* the owner's unlock and unlock_and_destroy never find it so (LOG(FATAL)).
LockedByOne ==
    \A t \in Thread : Owns(t) =>
        /\ \A u \in Thread : Owns(u) /\ th[u].slot = th[t].slot => u = t
        /\ HasVersion(meta[th[t].slot], th[t].ver) /\ ~Unlocked(meta[th[t].slot])

\* An identifier of a destroyed session is never taken for the session that uses its
\* slot now: what a thread owns is what its identifier was issued for.
NoABA == \A t \in Thread : Owns(t) => session[th[t].of].lives

\* The states of the lock are told apart although versions are finite, and no
\* identifier is 0.
VersionsDistinct ==
    \A s \in Slot \ free : LET m == meta[s] IN
        m.first_ver < m.locked_ver => m.first_ver > 0 /\ UnlockableVer(m) < Width

\* on_error of an accepted error is run or the session destroyed: no error is left to a
\* lock that nobody holds.
ErrorsHaveAnOwner ==
    \A s \in Slot : meta[s].pending_q # << >> =>
        \E t \in Thread : Owns(t) /\ th[t].slot = s

\* fiber_session_join returns only when the session it was called for is destroyed.
JoinedIsDestroyed ==
    [][\A t \in Thread : th[t].pc = "join" /\ th'[t] = Idle => ~session[th[t].of].lives]_vars

\* No wake-up is lost: in the end no thread sleeps in fiber_session_lock, and none in
\* fiber_session_join but of a session that nobody destroyed.
EveryoneWakes ==
    <>[](\A t \in Thread : \/ th[t] = Idle
                           \/ th[t].pc = "join_asleep" /\ session[th[t].of].lives)
=============================================================================
