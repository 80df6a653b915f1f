--------------------------- MODULE SessionProofs ---------------------------
(***************************************************************************)
(* For any threads, slots, ranges and width of versions: a session has one *)
(* owner at a time, no accepted error is left without one, and the states  *)
(* of the lock are told apart.                                             *)
(*                                                                         *)
(* None of these needs that identifiers are unique over time: a thread     *)
(* that owns a slot, or is on its way to return it, keeps it out of the    *)
(* pool, and what the thread's identifier names is decided under the mutex *)
(* by has_version, whichever session it was issued for.  They do need that *)
(* nobody looks at a slot while a create starts its versions again at 1    *)
(* (NotRaced): until the new locked_ver is written such a slot has         *)
(* versions that nobody created.                                           *)
(***************************************************************************)
EXTENDS Session, TLAPS

\* No create that starts the versions of a slot again is looked at half way.
NotRaced == \A s \in Scenarios : ~s.budget.raced

-----------------------------------------------------------------------------
(* The inductive invariant                                                 *)

Ident == [slot : Slot, ver : Nat, of : Nat]
PendingError == [id : Ident, error : Nat]
IdType == [butex : Nat, join_butex : Nat, first_ver : Nat, locked_ver : Nat,
           pending_q : Seq(PendingError)]
Places == {"idle", "created", "lock", "wait", "asleep", "relock", "locked", "wake",
             "wake_lockers", "wake_all", "wake_joiners", "return_resource", "join",
             "join_wait", "join_asleep"}
Outcomes == {"refused", "handled", "pending", "dropped"}
ThreadType == [pc : Places, slot : Slot \cup {0}, ver : Nat, of : Nat, range : 0 .. MaxRange,
               expected : Nat]
SessionType == [slot : Slot, first : Nat, last : Int, lives : BOOLEAN, shared : BOOLEAN]

ThreadTypes ==
    /\ th \in [Thread -> ThreadType]
    /\ \A t \in Thread : th[t].pc = "idle" \/ th[t].slot \in Slot
Types ==
    /\ meta \in [Slot -> IdType] /\ free \in SUBSET Slot /\ ThreadTypes
    /\ session \in Seq(SessionType) /\ error \in Seq(Outcomes) /\ budget \in Budgets

\* The thread destroyed the session and has yet to wake others or to return the slot.
Releasing(t) == th[t].pc \in {"wake_all", "wake_joiners", "return_resource"}
Uses(t) == Owns(t) \/ Releasing(t)

\* An Id without versions is unlocked, one in the pool has none, and pending errors are
\* those of a locked session.
SlotOK(m, s) ==
    /\ m.first_ver <= m.locked_ver
    /\ s \in free \/ m.first_ver = m.locked_ver => m.first_ver = m.locked_ver /\ Unlocked(m)
    /\ m.first_ver < m.locked_ver =>
          /\ m.first_ver > 0 /\ m.first_ver + MaxRange + 2 < Width
          /\ m.locked_ver <= m.first_ver + MaxRange
    /\ Unlocked(m) => m.pending_q = << >>
    /\ \A k \in DOMAIN m.pending_q :
          m.pending_q[k].id.slot = s /\ HasVersion(m, m.pending_q[k].id.ver)

SlotsOK == \A s \in Slot : SlotOK(meta[s], s)
OwnersOK ==
    \A t \in Thread : Owns(t) =>
        HasVersion(meta[th[t].slot], th[t].ver) /\ ~Unlocked(meta[th[t].slot])
ReleasersOK ==
    \A t \in Thread : Releasing(t) =>
        th[t].slot \notin free /\ meta[th[t].slot].first_ver = meta[th[t].slot].locked_ver
Alone == \A t, u \in Thread : Uses(t) /\ Uses(u) /\ th[t].slot = th[u].slot => t = u
Held == \A s \in Slot : ~Unlocked(meta[s]) => \E t \in Thread : Owns(t) /\ th[t].slot = s

Locks == SlotsOK /\ OwnersOK /\ ReleasersOK /\ Alone /\ Held
SessionInvariant == Types /\ Locks

-----------------------------------------------------------------------------
(* How a step may change the slots and the threads that use them           *)

\* A thread keeps what it does with the slot it uses.
SameUse(u) ==
    /\ (Owns(u)' <=> Owns(u)) /\ (Releasing(u)' <=> Releasing(u))
    /\ Uses(u) => th'[u].slot = th[u].slot

\* A thread stays where it is.
SameThread(u) ==
    /\ (Owns(u)' <=> Owns(u)) /\ (Releasing(u)' <=> Releasing(u))
    /\ th'[u].slot = th[u].slot /\ th'[u].ver = th[u].ver

\* A step that leaves the slots alone and neither takes nor gives up one
LEMMA Quiet ==
    ASSUME Types, Locks, UNCHANGED <<meta, free>>,
           \A u \in Thread : SameUse(u) /\ (Owns(u) => th'[u].ver = th[u].ver)
    PROVE  Locks'
  <1>1. SlotsOK'
    BY DEF Locks, SlotsOK, SlotOK, Unlocked, HasVersion
  <1>2. OwnersOK'
    BY DEF Locks, OwnersOK, SameUse, Uses, Unlocked, HasVersion
  <1>3. ReleasersOK'
    BY DEF Locks, ReleasersOK, SameUse, Uses
  <1>4. Alone'
    BY DEF Locks, Alone, SameUse, Uses
  <1>5. Held'
    BY DEF Locks, Held, SameUse, Uses, Unlocked
  <1> QED
    BY <1>1, <1>2, <1>3, <1>4, <1>5 DEF Locks

\* A step that changes an Id that is locked before and after
LEMMA Stays ==
    ASSUME Types, Locks, free' = free, NEW s \in Slot, NEW m \in IdType,
           meta' = [meta EXCEPT ![s] = m], SlotOK(m, s)',
           ~Unlocked(meta[s]), ~Unlocked(m),
           m.first_ver = meta[s].first_ver, m.locked_ver = meta[s].locked_ver,
           \A u \in Thread : SameUse(u) /\ (Owns(u) => HasVersion(meta'[th[u].slot], th'[u].ver))
    PROVE  Locks'
  <1>0. \A x \in Slot : meta'[x] = IF x = s THEN m ELSE meta[x]
    BY DEF Types
  <1>u. \A u \in Thread : Uses(u) => th[u].slot \in Slot
    BY DEF Types, ThreadTypes, Uses, Owns, Releasing
  <1>1. SlotsOK'
    BY <1>0 DEF Locks, SlotsOK, SlotOK, Unlocked, HasVersion
  <1>2. OwnersOK'
    BY <1>0, <1>u DEF Locks, OwnersOK, SameUse, Uses, Unlocked
  <1>3. ReleasersOK'
    BY <1>0, <1>u DEF Locks, ReleasersOK, SameUse, Uses
  <1>4. Alone'
    BY DEF Locks, Alone, SameUse, Uses
  <1>5. Held'
    BY <1>0 DEF Locks, Held, SameUse, Uses, Unlocked
  <1> QED
    BY <1>1, <1>2, <1>3, <1>4, <1>5 DEF Locks

\* A thread that uses no slot locks an unlocked session.
LEMMA Takes ==
    ASSUME Types, Locks, free' = free, NEW s \in Slot, NEW m \in IdType, NEW t \in Thread,
           meta' = [meta EXCEPT ![s] = m], SlotOK(m, s)',
           Unlocked(meta[s]), ~Unlocked(m), meta[s].first_ver < meta[s].locked_ver,
           ~Uses(t), Owns(t)', ~Releasing(t)', th'[t].slot = s, HasVersion(m, th'[t].ver),
           \A u \in Thread \ {t} : th'[u] = th[u]
    PROVE  Locks'
  <1>0. \A x \in Slot : meta'[x] = IF x = s THEN m ELSE meta[x]
    BY DEF Types
  <1>u. \A u \in Thread : Uses(u) => th[u].slot \in Slot
    BY DEF Types, ThreadTypes, Uses, Owns, Releasing
  <1>n. \A u \in Thread : Uses(u) => th[u].slot # s
    <2>1. meta[s].first_ver # meta[s].locked_ver
      BY DEF Types, IdType
    <2> QED
      BY <2>1 DEF Locks, OwnersOK, ReleasersOK, Uses
  <1>s. \A u \in Thread \ {t} : SameThread(u)
    BY DEF SameThread, Owns, Releasing
  <1>1. SlotsOK'
    BY <1>0 DEF Locks, SlotsOK, SlotOK, Unlocked, HasVersion
  <1>2. OwnersOK'
    BY <1>0, <1>u, <1>n, <1>s DEF Locks, OwnersOK, Uses, SameThread
  <1>3. ReleasersOK'
    BY <1>0, <1>u, <1>n, <1>s DEF Locks, ReleasersOK, Uses, SameThread
  <1>4. Alone'
    BY <1>n, <1>s DEF Locks, Alone, Uses, SameThread
  <1>5. Held'
    BY <1>0, <1>n, <1>s DEF Locks, Held, Uses, Unlocked, SameThread
  <1> QED
    BY <1>1, <1>2, <1>3, <1>4, <1>5 DEF Locks

\* The owner gives up a session that stays, without pending errors.
LEMMA Releases ==
    ASSUME Types, Locks, free' = free, NEW s \in Slot, NEW m \in IdType, NEW t \in Thread,
           meta' = [meta EXCEPT ![s] = m], SlotOK(m, s)', Unlocked(m),
           m.first_ver = meta[s].first_ver, m.locked_ver = meta[s].locked_ver,
           Owns(t), th[t].slot = s, ~Uses(t)',
           \A u \in Thread \ {t} : th'[u] = th[u]
    PROVE  Locks'
  <1>0. \A x \in Slot : meta'[x] = IF x = s THEN m ELSE meta[x]
    BY DEF Types
  <1>u. \A u \in Thread : Uses(u) => th[u].slot \in Slot
    BY DEF Types, ThreadTypes, Uses, Owns, Releasing
  <1>n. \A u \in Thread \ {t} : Uses(u) => th[u].slot # s
    BY DEF Locks, Alone, Uses
  <1>s. \A u \in Thread \ {t} : SameThread(u)
    BY DEF SameThread, Owns, Releasing
  <1>1. SlotsOK'
    BY <1>0 DEF Locks, SlotsOK, SlotOK, Unlocked, HasVersion
  <1>2. OwnersOK'
    BY <1>0, <1>u, <1>n, <1>s DEF Locks, OwnersOK, Uses, SameThread
  <1>3. ReleasersOK'
    BY <1>0, <1>u, <1>n, <1>s DEF Locks, ReleasersOK, Uses, SameThread
  <1>4. Alone'
    BY <1>n, <1>s DEF Locks, Alone, Uses, SameThread
  <1>5. Held'
    BY <1>0, <1>n, <1>s DEF Locks, Held, Uses, Unlocked, SameThread
  <1> QED
    BY <1>1, <1>2, <1>3, <1>4, <1>5 DEF Locks

\* A thread ends the session of a slot that nobody else uses.
LEMMA EndsIt ==
    ASSUME Types, Locks, free' = free, NEW s \in Slot, NEW m \in IdType, NEW t \in Thread,
           meta' = [meta EXCEPT ![s] = m], s \notin free,
           m.first_ver = m.locked_ver, Unlocked(m), m.pending_q = << >>,
           \A u \in Thread \ {t} : Uses(u) => th[u].slot # s,
           ~Owns(t)', Releasing(t)', th'[t].slot = s, ~Uses(t) \/ th[t].slot = s,
           \A u \in Thread \ {t} : th'[u] = th[u]
    PROVE  Locks'
  <1>0. \A x \in Slot : meta'[x] = IF x = s THEN m ELSE meta[x]
    BY DEF Types
  <1>u. \A u \in Thread : Uses(u) => th[u].slot \in Slot
    BY DEF Types, ThreadTypes, Uses, Owns, Releasing
  <1>s. \A u \in Thread \ {t} : SameThread(u)
    BY DEF SameThread, Owns, Releasing
  <1>m. m.first_ver \in Nat /\ m.locked_ver \in Nat
    BY DEF IdType
  <1>1. SlotsOK'
    BY <1>0, <1>m DEF Locks, SlotsOK, SlotOK, Unlocked, HasVersion
  <1>2. OwnersOK'
    BY <1>0, <1>u, <1>s DEF Locks, OwnersOK, Uses, SameThread
  <1>3. ReleasersOK'
    BY <1>0, <1>u, <1>s DEF Locks, ReleasersOK, Uses, SameThread
  <1>4. Alone'
    BY <1>s DEF Locks, Alone, Uses, SameThread
  <1>5. Held'
    BY <1>0, <1>s DEF Locks, Held, Uses, Unlocked, SameThread
  <1> QED
    BY <1>1, <1>2, <1>3, <1>4, <1>5 DEF Locks

-----------------------------------------------------------------------------
(* Types                                                                   *)

\* A call of a thread is of the type of threads.
LEMMA AtType ==
    ASSUME NEW id \in Ident, NEW pc \in Places
    PROVE  /\ At(pc, id) \in ThreadType
           /\ At(pc, id).pc = pc /\ At(pc, id).slot = id.slot /\ At(pc, id).ver = id.ver
           /\ id.slot \in Slot /\ id.ver \in Nat
  <1>1. 0 \in 0 .. MaxRange
    BY SessionAssumption
  <1>2. id.slot \in Slot /\ id.ver \in Nat /\ id.of \in Nat
    BY DEF Ident
  <1>3. PICK x : x = [pc |-> pc, slot |-> id.slot, ver |-> id.ver, of |-> id.of, range |-> 0,
                      expected |-> 0]
    OBVIOUS
  <1>4. x \in ThreadType /\ x.pc = pc /\ x.slot = id.slot /\ x.ver = id.ver
    BY <1>1, <1>2, <1>3 DEF ThreadType
  <1> QED
    BY <1>2, <1>3, <1>4 DEF At

\* A thread that returns is of the type of threads.
LEMMA IdleType == Idle \in ThreadType /\ Idle.pc = "idle"
  <1>1. 0 \in 0 .. MaxRange
    BY SessionAssumption
  <1>2. Idle = [pc |-> "idle", slot |-> 0, ver |-> 0, of |-> 0, range |-> 0, expected |-> 0]
    BY DEF Idle, At
  <1> QED
    BY <1>1, <1>2 DEF ThreadType, Places

\* One thread goes on to x.
LEMMA Moves ==
    ASSUME ThreadTypes, NEW t \in Thread, NEW x \in ThreadType, x.pc = "idle" \/ x.slot \in Slot,
           th' = [th EXCEPT ![t] = x]
    PROVE  /\ ThreadTypes' /\ th'[t] = x
           /\ \A u \in Thread \ {t} : th'[u] = th[u]
  BY DEF ThreadTypes

\* Go: one thread goes on within its call.
LEMMA GoMoves ==
    ASSUME ThreadTypes, NEW t \in Thread, NEW pc \in Places, th[t].pc # "idle", Go(t, pc)
    PROVE  /\ ThreadTypes' /\ \A u \in Thread \ {t} : th'[u] = th[u]
           /\ th'[t].pc = pc /\ th'[t].slot = th[t].slot /\ th'[t].ver = th[t].ver
  <1>1. PICK x : x = [th[t] EXCEPT !.pc = pc]
    OBVIOUS
  <1>2. th[t] \in ThreadType /\ th[t].slot \in Slot
    BY DEF ThreadTypes
  <1>3. x \in ThreadType /\ x.pc = pc /\ x.slot = th[t].slot /\ x.ver = th[t].ver
    BY <1>1, <1>2 DEF ThreadType, Places
  <1>4. th' = [th EXCEPT ![t] = x]
    BY <1>1 DEF Go
  <1> QED
    BY <1>2, <1>3, <1>4, Moves

\* Return: the call is over.
LEMMA ReturnMoves ==
    ASSUME ThreadTypes, NEW t \in Thread, Return(t)
    PROVE  /\ ThreadTypes' /\ \A u \in Thread \ {t} : th'[u] = th[u]
           /\ th'[t].pc = "idle"
  BY IdleType, Moves DEF Return

\* An identifier that was handed out names a slot and a version.
LEMMA IssuedType ==
    ASSUME Types, NEW id \in Issued
    PROVE  id \in Ident
  <1>1. PICK e \in DOMAIN session : \E v \in session[e].first .. session[e].last :
            id = [slot |-> session[e].slot, ver |-> v, of |-> e]
    BY DEF Issued
  <1>2. e \in Nat /\ session[e] \in SessionType
    BY DEF Types
  <1>3. session[e].slot \in Slot /\ session[e].first \in Nat /\ session[e].last \in Int
    BY <1>2 DEF SessionType
  <1>4. PICK v \in session[e].first .. session[e].last :
            id = [slot |-> session[e].slot, ver |-> v, of |-> e]
    BY <1>1
  <1>5. v \in Nat
    BY <1>3, <1>4
  <1> QED
    BY <1>2, <1>3, <1>4, <1>5 DEF Ident

\* A sequence whose elements are replaced is a sequence.
LEMMA Replaced ==
    ASSUME NEW S, NEW q \in Seq(S), NEW p, DOMAIN p = DOMAIN q,
           p = [e \in DOMAIN q |-> p[e]], \A e \in DOMAIN q : p[e] \in S
    PROVE  p \in Seq(S)
  <1>1. DOMAIN q = 1 .. Len(q) /\ Len(q) \in Nat
    OBVIOUS
  <1>2. p \in [1 .. Len(q) -> S]
    BY <1>1
  <1> QED
    BY <1>1, <1>2

\* A call that is counted leaves the bounds well-typed.
LEMMA Spent ==
    ASSUME budget \in Budgets,
           NEW what \in {"create", "lock", "trylock", "error", "about", "join", "cancel"},
           Spend(what)
    PROVE  budget' \in Budgets /\ budget'.raced = budget.raced
  <1>1. CASE what = "create"  BY <1>1 DEF Spend, Budgets
  <1>2. CASE what = "lock"  BY <1>2 DEF Spend, Budgets
  <1>3. CASE what = "trylock"  BY <1>3 DEF Spend, Budgets
  <1>4. CASE what = "error"  BY <1>4 DEF Spend, Budgets
  <1>5. CASE what = "about"  BY <1>5 DEF Spend, Budgets
  <1>6. CASE what = "join"  BY <1>6 DEF Spend, Budgets
  <1>7. CASE what = "cancel"  BY <1>7 DEF Spend, Budgets
  <1> QED
    BY <1>1, <1>2, <1>3, <1>4, <1>5, <1>6, <1>7

-----------------------------------------------------------------------------
(* Steps that leave the slots alone                                        *)

\* One thread goes on, and uses the same slot as before or none.
LEMMA QuietMove ==
    ASSUME SessionInvariant, UNCHANGED <<meta, free>>, NEW t \in Thread,
           ThreadTypes', \A u \in Thread \ {t} : th'[u] = th[u],
           ~Uses(t), ~Uses(t)',
           session' \in Seq(SessionType), error' \in Seq(Outcomes), budget' \in Budgets
    PROVE  SessionInvariant'
  <1>1. ASSUME NEW u \in Thread
        PROVE  SameUse(u) /\ (Owns(u) => th'[u].ver = th[u].ver)
    <2>1. CASE u = t
      BY <2>1 DEF SameUse, Uses
    <2>2. CASE u # t
      BY <2>2 DEF SameUse, Uses, Owns, Releasing
    <2> QED
      BY <2>1, <2>2
  <1>2. Locks'
    BY <1>1, Quiet DEF SessionInvariant
  <1>3. Types'
    BY DEF SessionInvariant, Types
  <1> QED
    BY <1>2, <1>3 DEF SessionInvariant

\* fiber_session_join and fiber_session_lock up to their first section
LEMMA CallKeeps ==
    ASSUME SessionInvariant, NEW t \in Thread, NEW id \in Issued, NEW range \in 0 .. MaxRange,
           fiber_session_lock(t, id, range) \/ fiber_session_join(t, id)
    PROVE  SessionInvariant'
  <1>1. id \in Ident /\ ThreadTypes /\ budget \in Budgets /\ th[t].pc = "idle"
    BY IssuedType, IdleType DEF SessionInvariant, Types, fiber_session_lock, fiber_session_join
  <1>3. PICK x : x = IF fiber_session_join(t, id) THEN At("join", id)
                     ELSE [At("lock", id) EXCEPT !.range = range]
    OBVIOUS
  <1>4. x \in ThreadType /\ x.slot \in Slot /\ x.pc \in {"join", "lock"}
    BY <1>1, <1>3, AtType DEF ThreadType, Places
  <1>5. th' = [th EXCEPT ![t] = x]
    BY <1>3 DEF fiber_session_lock, fiber_session_join
  <1>6. ThreadTypes' /\ th'[t] = x /\ \A u \in Thread \ {t} : th'[u] = th[u]
    BY <1>1, <1>4, <1>5, Moves
  <1>7. ~Uses(t) /\ ~Uses(t)'
    BY <1>1, <1>4, <1>6 DEF Uses, Owns, Releasing
  <1>8. budget' \in Budgets
    BY <1>1, Spent DEF fiber_session_lock, fiber_session_join
  <1> QED
    BY <1>6, <1>7, <1>8, QuietMove
       DEF fiber_session_lock, fiber_session_join, SessionInvariant, Types

\* share
LEMMA ShareKeeps ==
    ASSUME SessionInvariant, NEW t \in Thread, share(t)
    PROVE  SessionInvariant'
  <1>1. session' \in Seq(SessionType)
    <2>1. session \in Seq(SessionType)
      BY DEF SessionInvariant, Types
    <2>2. /\ DOMAIN session' = DOMAIN session
          /\ session' = [e \in DOMAIN session |-> session'[e]]
          /\ \A e \in DOMAIN session :
                session'[e] = session[e] \/ session'[e] = [session[e] EXCEPT !.shared = TRUE]
      BY DEF share
    <2>3. \A e \in DOMAIN session : session[e] \in SessionType
      BY <2>1
    <2>4. \A e \in DOMAIN session : session'[e] \in SessionType
      BY <2>2, <2>3 DEF SessionType
    <2> QED
      BY <2>1, <2>2, <2>4, Replaced
  <1>2. ThreadTypes' /\ th'[t].pc = "idle" /\ \A u \in Thread \ {t} : th'[u] = th[u]
    BY ReturnMoves DEF share, SessionInvariant, Types
  <1>3. ~Uses(t) /\ ~Uses(t)'
    BY <1>2 DEF share, Uses, Owns, Releasing
  <1> QED
    BY <1>1, <1>2, <1>3, QuietMove DEF share, SessionInvariant, Types

\* butex_wait of lock and join, and the section of join
LEMMA WaitKeeps ==
    ASSUME SessionInvariant, NEW t \in Thread,
           lock_wait(t) \/ join_wait(t) \/ join_section(t)
    PROVE  SessionInvariant'
  <1>1. ThreadTypes /\ meta \in [Slot -> IdType]
    BY DEF SessionInvariant, Types
  <1>2. th[t].pc \in {"wait", "join", "join_wait"}
    BY DEF lock_wait, join_wait, join_section
  <1>3. th[t] \in ThreadType /\ th[t].slot \in Slot
    BY <1>1, <1>2 DEF ThreadTypes
  <1>4. /\ ThreadTypes' /\ \A u \in Thread \ {t} : th'[u] = th[u]
        /\ th'[t].pc \in {"idle", "asleep", "relock", "join_asleep", "join", "join_wait"}
    <2>1. CASE lock_wait(t)
      <3>1. Go(t, "asleep") \/ Go(t, "relock")
        BY <2>1 DEF lock_wait
      <3> QED
        BY <1>1, <1>2, <3>1, GoMoves DEF Places
    <2>2. CASE join_wait(t)
      <3>1. Go(t, "join_asleep") \/ Go(t, "join")
        BY <2>2 DEF join_wait
      <3> QED
        BY <1>1, <1>2, <3>1, GoMoves DEF Places
    <2>3. CASE join_section(t) /\ Return(t)
      BY <1>1, <2>3, ReturnMoves
    <2>4. CASE join_section(t) /\ ~Return(t)
      <3>1. PICK x : x = [th[t] EXCEPT !.pc = "join_wait", !.expected = meta[th[t].slot].join_butex]
        OBVIOUS
      <3>2. meta[th[t].slot].join_butex \in Nat
        BY <1>1, <1>3 DEF IdType
      <3>3. x \in ThreadType /\ x.slot \in Slot /\ x.pc = "join_wait"
        BY <1>3, <3>1, <3>2 DEF ThreadType, Places
      <3>4. th' = [th EXCEPT ![t] = x]
        BY <2>4, <3>1 DEF join_section, SlotOf
      <3> QED
        BY <1>1, <3>3, <3>4, Moves
    <2> QED
      BY <2>1, <2>2, <2>3, <2>4
  <1>5. ~Uses(t) /\ ~Uses(t)'
    BY <1>2, <1>4 DEF Uses, Owns, Releasing
  <1> QED
    BY <1>4, <1>5, QuietMove
       DEF lock_wait, join_wait, join_section, SessionInvariant, Types

\* Threads that are asleep are woken up; who wakes them goes on.
Woken(t) ==
    \A u \in Thread \ {t} :
        \/ th'[u] = th[u]
        \/ th[u].pc = "asleep" /\ th'[u] = [th[u] EXCEPT !.pc = "relock"]
        \/ th[u].pc = "join_asleep" /\ th'[u] = [th[u] EXCEPT !.pc = "join"]

\* Waking others leaves the slots and their users alone.
LEMMA WokenKeeps ==
    ASSUME SessionInvariant, NEW t \in Thread, Woken(t), DOMAIN th' = Thread,
           th' = [u \in Thread |-> th'[u]],
           th'[t] \in ThreadType, th'[t].pc = "idle" \/ th'[t].slot \in Slot,
           SameUse(t), Owns(t) => th'[t].ver = th[t].ver,
           UNCHANGED <<meta, free, session, error, budget>>
    PROVE  SessionInvariant'
  <1>1. \A u \in Thread : th[u] \in ThreadType /\ (th[u].pc = "idle" \/ th[u].slot \in Slot)
    BY DEF SessionInvariant, Types, ThreadTypes
  <1>2. ASSUME NEW u \in Thread \ {t}
        PROVE  /\ th'[u] \in ThreadType /\ th'[u].slot = th[u].slot /\ th'[u].ver = th[u].ver
               /\ th'[u].pc = th[u].pc \/ (/\ th[u].pc \in {"asleep", "join_asleep"}
                                          /\ th'[u].pc \in {"relock", "join"})
    <2>1. CASE th'[u] = th[u]
      BY <1>1, <2>1
    <2>2. CASE th[u].pc = "asleep" /\ th'[u] = [th[u] EXCEPT !.pc = "relock"]
      BY <1>1, <2>2 DEF ThreadType, Places
    <2>3. CASE th[u].pc = "join_asleep" /\ th'[u] = [th[u] EXCEPT !.pc = "join"]
      BY <1>1, <2>3 DEF ThreadType, Places
    <2> QED
      BY <2>1, <2>2, <2>3 DEF Woken
  <1>3. \A u \in Thread : SameUse(u) /\ (Owns(u) => th'[u].ver = th[u].ver)
    BY <1>2 DEF SameUse, Uses, Owns, Releasing
  <1>4. Locks'
    BY <1>3, Quiet DEF SessionInvariant
  <1>5. th' \in [Thread -> ThreadType]
    BY <1>2
  <1>6. \A u \in Thread : th'[u].pc = "idle" \/ th'[u].slot \in Slot
    BY <1>1, <1>2
  <1>7. Types'
    BY <1>5, <1>6 DEF SessionInvariant, Types, ThreadTypes
  <1> QED
    BY <1>4, <1>7 DEF SessionInvariant

\* wake, wake_lockers, wake_joiners
LEMMA WakeKeeps ==
    ASSUME SessionInvariant, NEW t \in Thread,
           wake(t) \/ wake_lockers(t) \/ wake_joiners(t)
    PROVE  SessionInvariant'
  <1>1. /\ th \in [Thread -> ThreadType] /\ th[t] \in ThreadType
        /\ th[t].pc # "idle" => th[t].slot \in Slot
        /\ Idle \in ThreadType /\ Idle.pc = "idle"
    BY IdleType DEF SessionInvariant, Types, ThreadTypes
  <1>2. UNCHANGED <<meta, free, session, error, budget>>
    BY DEF wake, wake_lockers, wake_joiners
  <1>3. CASE wake(t)
    <2>1. th[t].pc = "wake"
      BY <1>3 DEF wake
    <2>2. CASE th' = [th EXCEPT ![t] = Idle]
      <3>1. Woken(t) /\ DOMAIN th' = Thread /\ th' = [u \in Thread |-> th'[u]] /\ th'[t] = Idle
        BY <1>1, <2>2 DEF Woken
      <3>2. SameUse(t) /\ ~Owns(t)
        BY <1>1, <2>1, <3>1 DEF SameUse, Uses, Owns, Releasing
      <3> QED
        BY <1>1, <1>2, <3>1, <3>2, WokenKeeps
    <2>3. ASSUME NEW u \in Thread, th[u].pc = "asleep",
                 th' = [th EXCEPT ![t] = Idle, ![u].pc = "relock"]
          PROVE  SessionInvariant'
      <3>1. u # t
        BY <2>1, <2>3
      <3>2. /\ DOMAIN th' = Thread /\ th' = [v \in Thread |-> th'[v]] /\ th'[t] = Idle
            /\ th'[u] = [th[u] EXCEPT !.pc = "relock"]
            /\ \A v \in Thread \ {t, u} : th'[v] = th[v]
        BY <1>1, <2>3, <3>1
      <3>3. Woken(t)
        BY <2>3, <3>2 DEF Woken
      <3>4. SameUse(t) /\ ~Owns(t)
        BY <1>1, <2>1, <3>2 DEF SameUse, Uses, Owns, Releasing
      <3> QED
        BY <1>1, <1>2, <3>2, <3>3, <3>4, WokenKeeps
    <2> QED
      BY <1>3, <2>2, <2>3 DEF wake, Return, Asleep
  <1>4. ASSUME NEW pc \in {"locked", "wake_joiners", "return_resource"},
               th'[t] = [th[t] EXCEPT !.pc = pc], Woken(t), DOMAIN th' = Thread,
               th' = [u \in Thread |-> th'[u]],
               IF pc = "locked" THEN th[t].pc = "wake_lockers" ELSE Releasing(t)
        PROVE  SessionInvariant'
    <2>1. th[t].pc # "idle"
      BY <1>4 DEF Releasing
    <2>2. /\ th'[t] \in ThreadType /\ th'[t].slot = th[t].slot /\ th'[t].ver = th[t].ver
          /\ th'[t].pc = pc
      BY <1>1, <1>4 DEF ThreadType, Places
    <2>3. SameUse(t)
      BY <1>4, <2>2 DEF SameUse, Uses, Owns, Releasing
    <2> QED
      BY <1>1, <1>2, <1>4, <2>1, <2>2, <2>3, WokenKeeps
  <1>5. CASE wake_lockers(t)
    <2>1. PICK pc \in {"locked", "wake_joiners"} :
              /\ WakeLockers(t, pc)
              /\ IF pc = "locked" THEN th[t].pc = "wake_lockers" ELSE th[t].pc = "wake_all"
      <3>1. CASE th[t].pc = "wake_all"
        BY <1>5, <3>1 DEF wake_lockers
      <3>2. CASE th[t].pc = "wake_lockers"
        BY <1>5, <3>2 DEF wake_lockers
      <3> QED
        BY <1>5, <3>1, <3>2 DEF wake_lockers
    <2>2. /\ DOMAIN th' = Thread /\ th' = [u \in Thread |-> th'[u]]
          /\ th'[t] = [th[t] EXCEPT !.pc = pc] /\ Woken(t)
      BY <2>1 DEF WakeLockers, Woken, Asleep
    <2> QED
      BY <1>4, <2>1, <2>2 DEF Releasing
  <1>6. CASE wake_joiners(t)
    <2>1. /\ DOMAIN th' = Thread /\ th' = [u \in Thread |-> th'[u]]
          /\ th'[t] = [th[t] EXCEPT !.pc = "return_resource"] /\ Woken(t)
      BY <1>6 DEF wake_joiners, Woken, Asleep
    <2>2. Releasing(t)
      BY <1>6 DEF wake_joiners, Releasing
    <2> QED
      BY <1>4, <2>1, <2>2
  <1> QED
    BY <1>3, <1>5, <1>6

-----------------------------------------------------------------------------
(* Steps that change a slot                                                *)

\* What is known of an Id
LEMMA IdFacts ==
    ASSUME SessionInvariant, NEW s \in Slot
    PROVE  /\ meta[s] \in IdType /\ SlotOK(meta[s], s)
           /\ meta[s].butex \in Nat /\ meta[s].join_butex \in Nat
           /\ meta[s].first_ver \in Nat /\ meta[s].locked_ver \in Nat
           /\ meta[s].pending_q \in Seq(PendingError)
           /\ EndVer(meta[s]) \in Nat
  BY DEF SessionInvariant, Types, IdType, Locks, SlotsOK, EndVer

\* An Id with another butex
LEMMA WithButex ==
    ASSUME NEW x \in IdType, NEW b \in Nat
    PROVE  LET m == [x EXCEPT !.butex = b] IN
           /\ m \in IdType /\ m.butex = b /\ m.first_ver = x.first_ver
           /\ m.locked_ver = x.locked_ver /\ m.pending_q = x.pending_q
  BY DEF IdType

\* A thread t takes the unlocked slot s, and makes its range larger at most.
LEMMA TakesIt ==
    ASSUME SessionInvariant, NEW t \in Thread, NEW s \in Slot, NEW m \in IdType,
           Unlocked(meta[s]), HasVersion(meta[s], th'[t].ver), th'[t].ver \in Nat,
           m.first_ver = meta[s].first_ver, m.pending_q = meta[s].pending_q,
           meta[s].locked_ver <= m.locked_ver, m.locked_ver <= meta[s].first_ver + MaxRange,
           m.butex >= m.locked_ver,
           meta' = [meta EXCEPT ![s] = m],
           free' = free, ThreadTypes', \A u \in Thread \ {t} : th'[u] = th[u],
           ~Uses(t), th'[t].pc = "locked", th'[t].slot = s,
           session' \in Seq(SessionType), error' \in Seq(Outcomes), budget' \in Budgets
    PROVE  SessionInvariant'
  <1>1. m.butex \in Nat /\ m.locked_ver \in Nat
    BY DEF IdType
  <1>2. /\ meta[s].first_ver \in Nat /\ meta[s].locked_ver \in Nat
        /\ SlotOK(meta[s], s)
    BY IdFacts
  <1>4. meta[s].first_ver < meta[s].locked_ver
    BY <1>2 DEF HasVersion
  <1>5. HasVersion(m, th'[t].ver) /\ m.butex # m.first_ver /\ m.first_ver < m.locked_ver
    BY <1>1, <1>2, <1>4 DEF HasVersion
  <1>6. m.pending_q = << >> /\ s \notin free
    BY <1>2, <1>4 DEF SlotOK
  <1>7. SlotOK(m, s)'
    <2>1. meta[s].first_ver > 0 /\ meta[s].first_ver + MaxRange + 2 < Width
      BY <1>2, <1>4 DEF SlotOK
    <2>2. m.first_ver <= m.locked_ver /\ m.first_ver # m.locked_ver
      BY <1>1, <1>2, <1>5
    <2> QED
      BY <1>5, <1>6, <2>1, <2>2 DEF SlotOK, Unlocked
  <1>8. Owns(t)' /\ ~Releasing(t)' /\ ~Unlocked(m)
    BY <1>5 DEF Owns, Releasing, Unlocked
  <1>9. Locks'
    BY <1>4, <1>5, <1>7, <1>8, Takes DEF SessionInvariant
  <1>10. Types'
    BY DEF SessionInvariant, Types
  <1> QED
    BY <1>9, <1>10 DEF SessionInvariant

\* A locked slot changes in its butex or in its pending errors, and stays locked.
LEMMA StaysLocked ==
    ASSUME SessionInvariant, NEW t \in Thread, NEW s \in Slot, NEW m \in IdType,
           ~Unlocked(meta[s]), ~Unlocked(m),
           m.first_ver = meta[s].first_ver, m.locked_ver = meta[s].locked_ver,
           \A k \in DOMAIN m.pending_q :
              m.pending_q[k].id.slot = s /\ HasVersion(m, m.pending_q[k].id.ver),
           meta' = [meta EXCEPT ![s] = m], free' = free,
           ThreadTypes', \A u \in Thread \ {t} : th'[u] = th[u],
           SameUse(t), Owns(t) => HasVersion(meta[th[t].slot], th'[t].ver),
           session' \in Seq(SessionType), error' \in Seq(Outcomes), budget' \in Budgets
    PROVE  SessionInvariant'
  <1>6. SlotOK(m, s)'
    BY IdFacts DEF SlotOK, Unlocked
  <1>7. ASSUME NEW u \in Thread
        PROVE  SameUse(u) /\ (Owns(u) => HasVersion(meta'[th[u].slot], th'[u].ver))
    <2>1. SameUse(u)
      <3>1. CASE u = t
        BY <3>1
      <3>2. CASE u # t
        BY <3>2 DEF SameUse, Uses, Owns, Releasing
      <3> QED
        BY <3>1, <3>2
    <2>2. Owns(u) => HasVersion(meta[th[u].slot], th'[u].ver) /\ th[u].slot \in Slot
      <3>1. Owns(u) => HasVersion(meta[th[u].slot], th[u].ver) /\ th[u].slot \in Slot
        BY DEF SessionInvariant, Locks, OwnersOK, Types, ThreadTypes, Owns
      <3>2. CASE u = t
        BY <3>1, <3>2
      <3>3. CASE u # t
        BY <3>1, <3>3
      <3> QED
        BY <3>2, <3>3
    <2>3. \A x \in Slot : meta'[x] = IF x = s THEN m ELSE meta[x]
      BY DEF SessionInvariant, Types
    <2> QED
      BY <2>1, <2>2, <2>3 DEF HasVersion
  <1>8. Locks'
    BY <1>6, <1>7, Stays DEF SessionInvariant
  <1>9. Types'
    BY DEF SessionInvariant, Types
  <1> QED
    BY <1>8, <1>9 DEF SessionInvariant

\* lock_and_reset_range: what locking makes of an Id
LEMMA LockedFacts ==
    ASSUME NEW x \in IdType, NEW range \in 0 .. MaxRange, NEW e,
           x.locked_ver <= x.first_ver + MaxRange
    PROVE  LET m == Locked(x, range, e) IN
           /\ m \in IdType /\ m.first_ver = x.first_ver /\ m.pending_q = x.pending_q
           /\ x.locked_ver <= m.locked_ver /\ m.locked_ver <= x.first_ver + MaxRange
           /\ m.butex >= m.locked_ver
  <1>1. x.first_ver \in Nat /\ x.locked_ver \in Nat /\ MaxRange \in Nat
    BY SessionAssumption DEF IdType
  <1>3. PICK l \in Nat : /\ l = IF x.first_ver + range > x.locked_ver
                                THEN x.first_ver + range ELSE x.locked_ver
                         /\ x.locked_ver <= l /\ l <= x.first_ver + MaxRange
    BY <1>1
  <1>4. PICK b \in Nat : b = (IF e THEN l + 1 ELSE l) /\ b >= l
    BY <1>3
  <1>5. Locked(x, range, e) = [x EXCEPT !.locked_ver = l, !.butex = b]
    BY <1>3, <1>4 DEF Locked
  <1>6. PICK m : m = [x EXCEPT !.locked_ver = l, !.butex = b]
    OBVIOUS
  <1>7. /\ m \in IdType /\ m.first_ver = x.first_ver /\ m.pending_q = x.pending_q
        /\ m.locked_ver = l /\ m.butex = b
    BY <1>6 DEF IdType
  <1>8. m = Locked(x, range, e)
    BY <1>5, <1>6
  <1> QED
    BY <1>3, <1>4, <1>7, <1>8

\* A session whose range is made larger is one.
LEMMA Extended ==
    ASSUME session \in Seq(SessionType), NEW s, NEW l \in Int,
           session' = [e \in DOMAIN session |->
                          IF e \in Living(s) THEN [session[e] EXCEPT !.last = l]
                          ELSE session[e]]
    PROVE  session' \in Seq(SessionType)
  <1>1. ASSUME NEW e \in DOMAIN session
        PROVE  session'[e] \in SessionType
    <2>1. session[e] \in SessionType
      OBVIOUS
    <2> QED
      BY <2>1 DEF SessionType
  <1>2. DOMAIN session' = DOMAIN session /\ session' = [e \in DOMAIN session |-> session'[e]]
    OBVIOUS
  <1> QED
    BY <1>1, <1>2, Replaced

\* A session that ends is one.
LEMMA Ended ==
    ASSUME session \in Seq(SessionType), NEW s, session' = Ends(s)
    PROVE  session' \in Seq(SessionType)
  <1>1. ASSUME NEW e \in DOMAIN session
        PROVE  session'[e] \in SessionType
    <2>1. session[e] \in SessionType
      OBVIOUS
    <2> QED
      BY <2>1 DEF SessionType, Ends
  <1>2. DOMAIN session' = DOMAIN session /\ session' = [e \in DOMAIN session |-> session'[e]]
    BY DEF Ends
  <1> QED
    BY <1>1, <1>2, Replaced

\* A thread that has locked is of the type of threads.
LEMMA TakerType ==
    ASSUME NEW y \in ThreadType, NEW x,
           x = [y EXCEPT !.pc = "locked", !.range = 0, !.expected = 0]
    PROVE  x \in ThreadType /\ x.pc = "locked" /\ x.slot = y.slot /\ x.ver = y.ver
  <1>1. 0 \in 0 .. MaxRange /\ "locked" \in Places
    BY SessionAssumption DEF Places
  <1> QED
    BY <1>1 DEF ThreadType

\* One section of lock_and_reset_range: refused, taken, or the butex becomes contended.
LEMMA LockSectionKeeps ==
    ASSUME SessionInvariant, NEW t \in Thread, lock_section(t)
    PROVE  SessionInvariant'
  <1> DEFINE s == th[t].slot
  <1>0. th[t].pc \in {"lock", "relock"} /\ UNCHANGED <<free, error, budget>>
    BY DEF lock_section
  <1>1. /\ th[t] \in ThreadType /\ s \in Slot /\ ThreadTypes
        /\ session \in Seq(SessionType) /\ error' \in Seq(Outcomes) /\ budget' \in Budgets
    BY <1>0 DEF SessionInvariant, Types, ThreadTypes
  <1>2. /\ meta[s] \in IdType /\ SlotOK(meta[s], s)
        /\ meta[s].first_ver \in Nat /\ meta[s].locked_ver \in Nat
    BY <1>1, IdFacts
  <1>3. ~Uses(t) /\ ~Owns(t) /\ ~Releasing(t)
    BY <1>0 DEF Uses, Owns, Releasing
  <1>4. CASE Return(t) /\ UNCHANGED <<meta, session>>
    <2>1. /\ ThreadTypes' /\ \A u \in Thread \ {t} : th'[u] = th[u]
          /\ th'[t].pc = "idle"
      BY <1>1, <1>4, ReturnMoves
    <2>2. ~Uses(t)'
      BY <2>1 DEF Uses, Owns, Releasing
    <2> QED
      BY <1>0, <1>1, <1>3, <1>4, <2>1, <2>2, QuietMove
  <1>5. CASE /\ HasVersion(meta[s], th[t].ver) /\ Unlocked(meta[s])
             /\ meta' = [meta EXCEPT ![s] = Locked(@, th[t].range, th[t].pc = "relock")]
             /\ session' = [e \in DOMAIN session |->
                               IF e \in Living(s)
                               THEN [session[e] EXCEPT !.last = meta'[s].locked_ver - 1]
                               ELSE session[e]]
             /\ th' = [th EXCEPT ![t] = [th[t] EXCEPT !.pc = "locked", !.range = 0,
                                                      !.expected = 0]]
    <2>1. PICK x : x = [th[t] EXCEPT !.pc = "locked", !.range = 0, !.expected = 0]
      OBVIOUS
    <2>2. x \in ThreadType /\ x.pc = "locked" /\ x.slot = s /\ x.ver = th[t].ver
      BY <1>1, <2>1, TakerType
    <2>3. th' = [th EXCEPT ![t] = x]
      BY <1>5, <2>1
    <2>4. /\ ThreadTypes' /\ \A u \in Thread \ {t} : th'[u] = th[u]
          /\ th'[t].pc = "locked" /\ th'[t].slot = s /\ th'[t].ver = th[t].ver
      BY <1>1, <2>2, <2>3, Moves
    <2>5. th[t].range \in 0 .. MaxRange /\ th[t].ver \in Nat
      BY <1>1 DEF ThreadType
    <2>6. meta[s].first_ver < meta[s].locked_ver
      BY <1>2, <1>5, <2>5 DEF HasVersion
    <2>7. meta[s].locked_ver <= meta[s].first_ver + MaxRange
      BY <1>2, <2>6 DEF SlotOK
    <2>8. PICK m : m = Locked(meta[s], th[t].range, th[t].pc = "relock")
      OBVIOUS
    <2>9. /\ m \in IdType /\ m.first_ver = meta[s].first_ver
          /\ m.pending_q = meta[s].pending_q /\ meta[s].locked_ver <= m.locked_ver
          /\ m.locked_ver <= meta[s].first_ver + MaxRange /\ m.butex >= m.locked_ver
      BY <1>2, <2>5, <2>7, <2>8, LockedFacts
    <2>10. meta' = [meta EXCEPT ![s] = m]
      BY <1>5, <2>8
    <2>11. meta'[s].locked_ver - 1 \in Int
      BY <1>1, <2>9, <2>10 DEF SessionInvariant, Types, IdType
    <2>12. session' \in Seq(SessionType)
      BY <1>1, <1>5, <2>11, Extended
    <2> QED
      BY <1>0, <1>1, <1>3, <1>5, <2>4, <2>5, <2>9, <2>10, <2>12, TakesIt
  <1>6. CASE /\ HasVersion(meta[s], th[t].ver) /\ ~Unlocked(meta[s])
             /\ meta' = [meta EXCEPT ![s].butex = ContendedVer(meta[s])]
             /\ th' = [th EXCEPT ![t].pc = "wait", ![t].expected = ContendedVer(meta[s])]
             /\ UNCHANGED session
    <2>1. ContendedVer(meta[s]) \in Nat /\ ContendedVer(meta[s]) # meta[s].first_ver
      BY <1>2 DEF ContendedVer, SlotOK
    <2>2. PICK m : m = [meta[s] EXCEPT !.butex = ContendedVer(meta[s])]
      OBVIOUS
    <2>3. /\ m \in IdType /\ m.butex = ContendedVer(meta[s])
          /\ m.first_ver = meta[s].first_ver /\ m.locked_ver = meta[s].locked_ver
          /\ m.pending_q = meta[s].pending_q
      BY <1>2, <2>1, <2>2, WithButex
    <2>4. meta' = [meta EXCEPT ![s] = m] /\ ~Unlocked(m)
      BY <1>6, <2>1, <2>2, <2>3 DEF Unlocked
    <2>5. \A k \in DOMAIN m.pending_q :
             m.pending_q[k].id.slot = s /\ HasVersion(m, m.pending_q[k].id.ver)
      BY <1>2, <2>3 DEF SlotOK, HasVersion
    <2>6. PICK x : x = [th[t] EXCEPT !.pc = "wait", !.expected = ContendedVer(meta[s])]
      OBVIOUS
    <2>7. x \in ThreadType /\ x.pc = "wait" /\ x.slot = s
      BY <1>1, <2>1, <2>6 DEF ThreadType, Places
    <2>8. th' = [th EXCEPT ![t] = x]
      BY <1>1, <1>6, <2>6 DEF ThreadTypes
    <2>9. /\ ThreadTypes' /\ \A u \in Thread \ {t} : th'[u] = th[u] /\ th'[t].pc = "wait"
      BY <1>1, <2>7, <2>8, Moves
    <2>10. th'[t].pc = "wait"
      BY <1>1, <2>7, <2>8, Moves
    <2>11. SameUse(t)
      BY <1>3, <2>10 DEF SameUse, Uses, Owns, Releasing
    <2> QED
      BY <1>0, <1>1, <1>3, <1>6, <2>3, <2>4, <2>5, <2>9, <2>11, StaysLocked
  <1> QED
    BY <1>4, <1>5, <1>6 DEF lock_section, SlotOf

\* trylock and error2 on an unlocked session: the caller has it.
LEMMA LocksAtOnce ==
    ASSUME SessionInvariant, NEW t \in Thread, NEW id \in Ident, th[t].pc = "idle",
           HasVersion(meta[id.slot], id.ver), Unlocked(meta[id.slot]),
           meta' = [meta EXCEPT ![id.slot].butex = meta[id.slot].locked_ver],
           th' = [th EXCEPT ![t] = At("locked", id)],
           UNCHANGED <<free, session>>, error' \in Seq(Outcomes), budget' \in Budgets
    PROVE  SessionInvariant'
  <1> DEFINE s == id.slot
  <1>1. /\ "locked" \in Places /\ ThreadTypes /\ session' \in Seq(SessionType) /\ free' = free
    BY DEF Places, SessionInvariant, Types
  <1>2. PICK x : x = At("locked", id)
    OBVIOUS
  <1>3. /\ x \in ThreadType /\ x.pc = "locked" /\ x.slot = s /\ x.ver = id.ver
        /\ s \in Slot /\ id.ver \in Nat
    BY <1>1, <1>2, AtType
  <1>4. /\ ThreadTypes' /\ \A u \in Thread \ {t} : th'[u] = th[u]
        /\ th'[t].pc = "locked" /\ th'[t].slot = s /\ th'[t].ver = id.ver
    BY <1>1, <1>2, <1>3, Moves
  <1>5. /\ meta[s] \in IdType /\ SlotOK(meta[s], s)
        /\ meta[s].first_ver \in Nat /\ meta[s].locked_ver \in Nat
    BY <1>3, IdFacts
  <1>6. PICK m : m = [meta[s] EXCEPT !.butex = meta[s].locked_ver]
    OBVIOUS
  <1>7. /\ m \in IdType /\ m.butex = meta[s].locked_ver
        /\ m.first_ver = meta[s].first_ver /\ m.locked_ver = meta[s].locked_ver
        /\ m.pending_q = meta[s].pending_q
    BY <1>5, <1>6, WithButex
  <1>8. meta' = [meta EXCEPT ![s] = m]
    BY <1>6
  <1>9. meta[s].first_ver < meta[s].locked_ver
    BY <1>3, <1>5 DEF HasVersion
  <1>10. meta[s].locked_ver <= meta[s].first_ver + MaxRange
    BY <1>5, <1>9 DEF SlotOK
  <1>11. ~Uses(t)
    BY DEF Uses, Owns, Releasing
  <1>12. meta[s].locked_ver <= m.locked_ver /\ m.butex >= m.locked_ver
    BY <1>5, <1>7
  <1>13. HasVersion(meta[s], th'[t].ver) /\ th'[t].ver \in Nat
    BY <1>3, <1>4
  <1> QED
    BY <1>1, <1>3, <1>4, <1>7, <1>8, <1>10, <1>11, <1>12, <1>13, TakesIt

\* A call that is refused
LEMMA RefusedKeeps ==
    ASSUME SessionInvariant, UNCHANGED <<meta, free, th, session>>,
           error' \in Seq(Outcomes), budget' \in Budgets
    PROVE  SessionInvariant'
  <1>1. \A u \in Thread : SameUse(u) /\ (Owns(u) => th'[u].ver = th[u].ver)
    BY DEF SameUse, Owns, Releasing, Uses
  <1>2. Locks'
    BY <1>1, Quiet DEF SessionInvariant
  <1> QED
    BY <1>2 DEF SessionInvariant, Types, ThreadTypes

\* fiber_session_trylock
LEMMA TrylockKeeps ==
    ASSUME SessionInvariant, NEW t \in Thread, NEW id \in Issued, fiber_session_trylock(t, id)
    PROVE  SessionInvariant'
  <1>1. id \in Ident /\ th[t].pc = "idle" /\ UNCHANGED <<free, session>>
    BY IssuedType, IdleType DEF SessionInvariant, fiber_session_trylock
  <1>2. budget' \in Budgets /\ error' \in Seq(Outcomes)
    BY Spent DEF SessionInvariant, Types, fiber_session_trylock
  <1>3. CASE UNCHANGED <<meta, th>>
    BY <1>1, <1>2, <1>3, RefusedKeeps
  <1>4. CASE /\ HasVersion(meta[id.slot], id.ver) /\ Unlocked(meta[id.slot])
             /\ meta' = [meta EXCEPT ![id.slot].butex = meta[id.slot].locked_ver]
             /\ th' = [th EXCEPT ![t] = At("locked", id)]
    BY <1>1, <1>2, <1>4, LocksAtOnce
  <1> QED
    BY <1>3, <1>4 DEF fiber_session_trylock

\* fiber_session_error2: refused, handled at once, or left to the owner
LEMMA ErrorKeeps ==
    ASSUME SessionInvariant, NEW t \in Thread, NEW id \in Issued, fiber_session_error(t, id)
    PROVE  SessionInvariant'
  <1> DEFINE s == id.slot
  <1>1. id \in Ident /\ th[t].pc = "idle" /\ UNCHANGED <<free, session>>
    BY IssuedType, IdleType DEF SessionInvariant, fiber_session_error
  <1>2. budget' \in Budgets
    BY Spent DEF SessionInvariant, Types, fiber_session_error
  <1>3. \A o \in Outcomes : Append(error, o) \in Seq(Outcomes)
    BY DEF SessionInvariant, Types
  <1>4. CASE error' = Append(error, "refused") /\ UNCHANGED <<meta, th>>
    <2>1. error' \in Seq(Outcomes)
      BY <1>3, <1>4 DEF Outcomes
    <2> QED
      BY <1>1, <1>2, <1>4, <2>1, RefusedKeeps
  <1>5. CASE /\ HasVersion(meta[s], id.ver) /\ Unlocked(meta[s])
             /\ meta' = [meta EXCEPT ![s].butex = meta[s].locked_ver]
             /\ th' = [th EXCEPT ![t] = At("locked", id)]
             /\ error' = Append(error, "handled")
    <2>1. error' \in Seq(Outcomes)
      BY <1>3, <1>5 DEF Outcomes
    <2> QED
      BY <1>1, <1>2, <1>5, <2>1, LocksAtOnce
  <1>6. CASE /\ HasVersion(meta[s], id.ver) /\ ~Unlocked(meta[s])
             /\ meta' = [meta EXCEPT ![s].pending_q =
                            Append(@, [id |-> id, error |-> Len(error) + 1])]
             /\ error' = Append(error, "pending") /\ UNCHANGED th
    <2>1. error' \in Seq(Outcomes) /\ Len(error) \in Nat
      BY <1>3, <1>6 DEF Outcomes, SessionInvariant, Types
    <2>2. s \in Slot
      BY <1>1 DEF Ident
    <2>3. meta[s] \in IdType /\ SlotOK(meta[s], s) /\ meta[s].pending_q \in Seq(PendingError)
      BY <2>2, IdFacts
    <2>4. PICK p : p = [id |-> id, error |-> Len(error) + 1]
      OBVIOUS
    <2>5. p \in PendingError /\ p.id = id
      BY <1>1, <2>1, <2>4 DEF PendingError
    <2>6. PICK q : q = Append(meta[s].pending_q, p)
      OBVIOUS
    <2>7. q \in Seq(PendingError)
      BY <2>3, <2>5, <2>6
    <2>8. ASSUME NEW k \in DOMAIN q
          PROVE  q[k].id.slot = s /\ HasVersion(meta[s], q[k].id.ver)
      <3>1. q[k] = p \/ (k \in DOMAIN meta[s].pending_q /\ q[k] = meta[s].pending_q[k])
        BY <2>3, <2>5, <2>6
      <3> QED
        BY <1>6, <2>3, <2>5, <3>1 DEF SlotOK
    <2>9. PICK m : m = [meta[s] EXCEPT !.pending_q = q]
      OBVIOUS
    <2>10. /\ m \in IdType /\ m.butex = meta[s].butex /\ m.first_ver = meta[s].first_ver
           /\ m.locked_ver = meta[s].locked_ver /\ m.pending_q = q
      BY <2>3, <2>7, <2>9 DEF IdType
    <2>11. meta' = [meta EXCEPT ![s] = m]
      BY <1>6, <2>4, <2>6, <2>9
    <2>12. ~Unlocked(m) /\ \A k \in DOMAIN m.pending_q :
              m.pending_q[k].id.slot = s /\ HasVersion(m, m.pending_q[k].id.ver)
      BY <1>6, <2>8, <2>10 DEF Unlocked, HasVersion
    <2>13. /\ SameUse(t) /\ ThreadTypes' /\ ~Owns(t) /\ session' \in Seq(SessionType)
      BY <1>1, <1>6 DEF SameUse, Uses, Owns, Releasing, SessionInvariant, Types, ThreadTypes
    <2>14. free' = free /\ \A u \in Thread \ {t} : th'[u] = th[u]
      BY <1>1, <1>6
    <2> QED
      BY <1>2, <1>6, <2>1, <2>2, <2>10, <2>11, <2>12, <2>13, <2>14, StaysLocked
  <1> QED
    BY <1>4, <1>5, <1>6 DEF fiber_session_error

\* What is known of a thread that has a session locked
LEMMA Holder ==
    ASSUME SessionInvariant, NEW t \in Thread, Holds(t)
    PROVE  /\ ThreadTypes /\ th[t].pc = "locked" /\ th[t].slot \in Slot /\ th[t].ver \in Nat
           /\ Owns(t) /\ ~Releasing(t) /\ Uses(t)
           /\ HasVersion(meta[th[t].slot], th[t].ver) /\ ~Unlocked(meta[th[t].slot])
           /\ meta[th[t].slot].first_ver < meta[th[t].slot].locked_ver
           /\ th[t].slot \notin free
           /\ \A u \in Thread \ {t} : Uses(u) => th[u].slot # th[t].slot
  <1>1. ThreadTypes /\ th[t].pc = "locked" /\ th[t].slot \in Slot /\ th[t].ver \in Nat
    BY DEF Holds, SessionInvariant, Types, ThreadTypes, ThreadType
  <1>2. Owns(t) /\ ~Releasing(t) /\ Uses(t)
    BY <1>1 DEF Owns, Releasing, Uses
  <1>3. HasVersion(meta[th[t].slot], th[t].ver) /\ ~Unlocked(meta[th[t].slot])
    BY <1>2 DEF SessionInvariant, Locks, OwnersOK
  <1>4. meta[th[t].slot].first_ver < meta[th[t].slot].locked_ver
    BY <1>1, <1>3, IdFacts DEF HasVersion
  <1>5. th[t].slot \notin free
    BY <1>1, <1>3, IdFacts DEF SlotOK
  <1>6. \A u \in Thread \ {t} : Uses(u) => th[u].slot # th[t].slot
    BY <1>2 DEF SessionInvariant, Locks, Alone
  <1> QED
    BY <1>1, <1>2, <1>3, <1>4, <1>5, <1>6

\* fiber_session_unlock with pending errors: on_error of the first, still locked
LEMMA UnlockGoesOn ==
    ASSUME SessionInvariant, NEW t \in Thread, Holds(t), NEW s \in Slot, s = th[t].slot,
           meta[s].pending_q # << >>,
           meta' = [meta EXCEPT ![s].pending_q = Tail(@)],
           th' = [th EXCEPT ![t] = At("locked", Head(meta[s].pending_q).id)],
           error' = [error EXCEPT ![Head(meta[s].pending_q).error] = "handled"],
           UNCHANGED <<free, session, budget>>
    PROVE  SessionInvariant'
  <1>1. meta[s] \in IdType /\ SlotOK(meta[s], s) /\ meta[s].pending_q \in Seq(PendingError)
    BY IdFacts
  <1>2. PICK q : q = meta[s].pending_q
    OBVIOUS
  <1>3. q \in Seq(PendingError) /\ q # << >>
    BY <1>1, <1>2
  <1>4. /\ Tail(q) \in Seq(PendingError) /\ 1 \in DOMAIN q /\ Head(q) = q[1]
        /\ \A k \in DOMAIN Tail(q) : k + 1 \in DOMAIN q /\ Tail(q)[k] = q[k + 1]
    BY <1>3
  <1>5. \A k \in DOMAIN q : q[k].id.slot = s /\ HasVersion(meta[s], q[k].id.ver)
    BY <1>1, <1>2 DEF SlotOK
  <1>6. q[1] \in PendingError
    BY <1>3, <1>4
  <1>7. PICK id \in Ident : id = q[1].id
    BY <1>6 DEF PendingError
  <1>8. id.slot = s /\ HasVersion(meta[s], id.ver)
    BY <1>4, <1>5, <1>7
  <1>9. PICK x : x = At("locked", id)
    OBVIOUS
  <1>10. "locked" \in Places
    BY DEF Places
  <1>11. x \in ThreadType /\ x.pc = "locked" /\ x.slot = s /\ x.ver = id.ver
    BY <1>8, <1>9, <1>10, AtType
  <1>12. th' = [th EXCEPT ![t] = x]
    BY <1>2, <1>4, <1>7, <1>9
  <1>13. /\ ThreadTypes' /\ \A u \in Thread \ {t} : th'[u] = th[u]
         /\ th'[t].pc = "locked" /\ th'[t].slot = s /\ th'[t].ver = id.ver
    <2>1. ThreadTypes /\ x.slot \in Slot
      BY <1>11, Holder
    <2>2. /\ ThreadTypes' /\ th'[t] = x
          /\ \A u \in Thread \ {t} : th'[u] = th[u]
      BY <1>11, <1>12, <2>1, Moves
    <2> QED
      BY <1>11, <2>2
  <1>14. SameUse(t)
    BY <1>13, Holder DEF SameUse, Owns, Releasing
  <1>15. PICK m : m = [meta[s] EXCEPT !.pending_q = Tail(q)]
    OBVIOUS
  <1>16. /\ m \in IdType /\ m.butex = meta[s].butex /\ m.first_ver = meta[s].first_ver
         /\ m.locked_ver = meta[s].locked_ver /\ m.pending_q = Tail(q)
    BY <1>1, <1>4, <1>15 DEF IdType
  <1>17. meta' = [meta EXCEPT ![s] = m]
    BY <1>2, <1>15
  <1>18. ~Unlocked(meta[s]) /\ ~Unlocked(m)
    BY <1>16, Holder DEF Unlocked
  <1>19. \A k \in DOMAIN m.pending_q :
            m.pending_q[k].id.slot = s /\ HasVersion(m, m.pending_q[k].id.ver)
    BY <1>4, <1>5, <1>16 DEF HasVersion
  <1>20. error' \in Seq(Outcomes)
    <2>1. error \in Seq(Outcomes) /\ "handled" \in Outcomes
      BY DEF SessionInvariant, Types, Outcomes
    <2>2. DOMAIN error' = DOMAIN error /\ error' = [e \in DOMAIN error |-> error'[e]]
      OBVIOUS
    <2>3. \A e \in DOMAIN error : error'[e] \in Outcomes
      BY <2>1
    <2> QED
      BY <2>1, <2>2, <2>3, Replaced
  <1>21. HasVersion(meta[th[t].slot], th'[t].ver)
    BY <1>8, <1>13
  <1>22. session' \in Seq(SessionType) /\ budget' \in Budgets /\ free' = free
    BY DEF SessionInvariant, Types
  <1> QED
    BY <1>13, <1>14, <1>16, <1>17, <1>18, <1>19, <1>20, <1>21, <1>22, StaysLocked

\* fiber_session_unlock without pending errors: the session is free, one waiter is woken.
LEMMA UnlockReleases ==
    ASSUME SessionInvariant, NEW t \in Thread, Holds(t), NEW s \in Slot, s = th[t].slot,
           meta[s].pending_q = << >>,
           meta' = [meta EXCEPT ![s].butex = meta[s].first_ver],
           Go(t, "wake") \/ Return(t),
           UNCHANGED <<free, session, error, budget>>
    PROVE  SessionInvariant'
  <1>1. /\ meta[s] \in IdType /\ SlotOK(meta[s], s)
        /\ meta[s].first_ver \in Nat /\ meta[s].locked_ver \in Nat
    BY IdFacts
  <1>2. PICK m : m = [meta[s] EXCEPT !.butex = meta[s].first_ver]
    OBVIOUS
  <1>3. /\ m \in IdType /\ m.butex = meta[s].first_ver
        /\ m.first_ver = meta[s].first_ver /\ m.locked_ver = meta[s].locked_ver
        /\ m.pending_q = << >>
    BY <1>1, <1>2, WithButex
  <1>4. meta' = [meta EXCEPT ![s] = m] /\ Unlocked(m)
    BY <1>2, <1>3 DEF Unlocked
  <1>5. /\ ThreadTypes' /\ \A u \in Thread \ {t} : th'[u] = th[u]
        /\ th'[t].pc \in {"wake", "idle"}
    <2>1. "wake" \in Places /\ ThreadTypes /\ th[t].pc # "idle"
      BY Holder DEF Places
    <2>2. CASE Go(t, "wake")
      BY <2>1, <2>2, GoMoves
    <2>3. CASE Return(t)
      BY <2>1, <2>3, ReturnMoves
    <2> QED
      BY <2>2, <2>3
  <1>6. ~Uses(t)'
    BY <1>5 DEF Uses, Owns, Releasing
  <1>7. SlotOK(m, s)'
    BY <1>1, <1>3, <1>4, Holder DEF SlotOK
  <1>8. Locks'
    BY <1>3, <1>4, <1>5, <1>6, <1>7, Holder, Releases DEF SessionInvariant
  <1>9. Types'
    BY <1>3, <1>4, <1>5 DEF SessionInvariant, Types
  <1> QED
    BY <1>8, <1>9 DEF SessionInvariant

\* fiber_session_unlock
LEMMA UnlockKeeps ==
    ASSUME SessionInvariant, NEW t \in Thread, fiber_session_unlock(t)
    PROVE  SessionInvariant'
  <1>1. Holds(t)
    BY DEF fiber_session_unlock
  <1>2. PICK s \in Slot : s = th[t].slot
    BY <1>1, Holder
  <1>3. CASE meta[s].pending_q # << >>
    BY <1>1, <1>2, <1>3, UnlockGoesOn DEF fiber_session_unlock, SlotOf
  <1>4. CASE meta[s].pending_q = << >>
    <2>1. /\ Go(t, "wake") \/ Return(t)
          /\ meta' = [meta EXCEPT ![s].butex = meta[s].first_ver]
          /\ UNCHANGED <<free, session, error, budget>>
      BY <1>2, <1>4 DEF fiber_session_unlock, SlotOf
    <2> QED
      BY <1>1, <1>2, <1>4, <2>1, UnlockReleases
  <1> QED
    BY <1>3, <1>4

\* fiber_session_about_to_destroy
LEMMA AboutToDestroyKeeps ==
    ASSUME SessionInvariant, NEW t \in Thread, fiber_session_about_to_destroy(t)
    PROVE  SessionInvariant'
  <1>1. Holds(t) /\ UNCHANGED <<free, session, error>>
    BY DEF fiber_session_about_to_destroy
  <1>2. PICK s \in Slot : s = th[t].slot
    BY <1>1, Holder
  <1>3. /\ meta[s] \in IdType /\ SlotOK(meta[s], s)
        /\ meta[s].first_ver \in Nat /\ meta[s].locked_ver \in Nat
    BY IdFacts
  <1>4. UnlockableVer(meta[s]) \in Nat /\ UnlockableVer(meta[s]) # meta[s].first_ver
    BY <1>3 DEF UnlockableVer, SlotOK
  <1>5. PICK m : m = [meta[s] EXCEPT !.butex = UnlockableVer(meta[s])]
    OBVIOUS
  <1>6. /\ m \in IdType /\ m.butex = UnlockableVer(meta[s])
        /\ m.first_ver = meta[s].first_ver /\ m.locked_ver = meta[s].locked_ver
        /\ m.pending_q = meta[s].pending_q
    BY <1>3, <1>4, <1>5, WithButex
  <1>7. meta' = [meta EXCEPT ![s] = m]
    BY <1>2, <1>5 DEF fiber_session_about_to_destroy, SlotOf
  <1>8. ~Unlocked(meta[s]) /\ ~Unlocked(m)
    <2>1. ~Unlocked(meta[s])
      BY <1>1, <1>2, Holder
    <2> QED
      BY <1>4, <1>6, <2>1 DEF Unlocked
  <1>9. \A k \in DOMAIN m.pending_q :
           m.pending_q[k].id.slot = s /\ HasVersion(m, m.pending_q[k].id.ver)
    BY <1>3, <1>6 DEF SlotOK, HasVersion
  <1>10. Go(t, "wake_lockers") \/ Go(t, "locked")
    BY DEF fiber_session_about_to_destroy
  <1>11. /\ ThreadTypes' /\ \A u \in Thread \ {t} : th'[u] = th[u]
         /\ th'[t].pc \in {"wake_lockers", "locked"} /\ th'[t].slot = th[t].slot
         /\ th'[t].ver = th[t].ver
    <2>1. {"wake_lockers", "locked"} \subseteq Places /\ ThreadTypes /\ th[t].pc # "idle"
      BY <1>1, Holder DEF Places
    <2>2. CASE Go(t, "wake_lockers")
      BY <2>1, <2>2, GoMoves
    <2>3. CASE Go(t, "locked")
      BY <2>1, <2>3, GoMoves
    <2> QED
      BY <1>10, <2>2, <2>3
  <1>12. SameUse(t) /\ HasVersion(meta[th[t].slot], th'[t].ver)
    <2>1. Owns(t) /\ ~Releasing(t) /\ HasVersion(meta[th[t].slot], th[t].ver)
      BY <1>1, Holder
    <2> QED
      BY <1>11, <2>1 DEF SameUse, Owns, Releasing
  <1>13. /\ session' \in Seq(SessionType) /\ error' \in Seq(Outcomes) /\ budget' \in Budgets
         /\ free' = free
    BY <1>1, Spent DEF SessionInvariant, Types, fiber_session_about_to_destroy
  <1> QED
    BY <1>6, <1>7, <1>8, <1>9, <1>11, <1>12, <1>13, StaysLocked

\* What destroying and cancelling make of an Id
LEMMA DestroyedFacts ==
    ASSUME NEW x \in IdType
    PROVE  /\ Destroyed(x) \in IdType /\ Destroyed(x).first_ver = Destroyed(x).locked_ver
           /\ Unlocked(Destroyed(x)) /\ Destroyed(x).pending_q = << >>
  <1>1. EndVer(x) \in Nat
    BY DEF EndVer, IdType
  <1>2. PICK v \in Nat : v = EndVer(x)
    BY <1>1
  <1>3. << >> \in Seq(PendingError)
    OBVIOUS
  <1>4. PICK m : m = [x EXCEPT !.butex = v, !.first_ver = v, !.locked_ver = v,
                               !.join_butex = v, !.pending_q = << >>]
    OBVIOUS
  <1>5. /\ m \in IdType /\ m.first_ver = v /\ m.locked_ver = v /\ m.butex = v
        /\ m.pending_q = << >>
    BY <1>3, <1>4 DEF IdType
  <1>6. Destroyed(x) = m
    BY <1>2, <1>4 DEF Destroyed
  <1> QED
    BY <1>5, <1>6 DEF Unlocked

\* What cancelling makes of an Id
LEMMA CancelledFacts ==
    ASSUME NEW x \in IdType
    PROVE  /\ Cancelled(x) \in IdType /\ Cancelled(x).first_ver = Cancelled(x).locked_ver
           /\ Unlocked(Cancelled(x)) /\ Cancelled(x).pending_q = x.pending_q
  <1>1. EndVer(x) \in Nat
    BY DEF EndVer, IdType
  <1>2. PICK v \in Nat : v = EndVer(x)
    BY <1>1
  <1>4. PICK m : m = [x EXCEPT !.butex = v, !.first_ver = v, !.locked_ver = v]
    OBVIOUS
  <1>5. /\ m \in IdType /\ m.first_ver = v /\ m.locked_ver = v /\ m.butex = v
        /\ m.pending_q = x.pending_q
    BY <1>4 DEF IdType
  <1>6. Cancelled(x) = m
    BY <1>2, <1>4 DEF Cancelled
  <1> QED
    BY <1>5, <1>6 DEF Unlocked

\* fiber_session_unlock_and_destroy
LEMMA DestroyKeeps ==
    ASSUME SessionInvariant, NEW t \in Thread, fiber_session_unlock_and_destroy(t)
    PROVE  SessionInvariant'
  <1>1. Holds(t) /\ UNCHANGED <<free, budget>> /\ Go(t, "wake_all")
    BY DEF fiber_session_unlock_and_destroy
  <1>2. PICK s \in Slot : s = th[t].slot
    BY <1>1, Holder
  <1>3. PICK m : m = Destroyed(meta[s])
    OBVIOUS
  <1>4. m \in IdType /\ m.first_ver = m.locked_ver /\ Unlocked(m) /\ m.pending_q = << >>
    BY <1>3, IdFacts, DestroyedFacts
  <1>5. meta' = [meta EXCEPT ![s] = m] /\ session' = Ends(s)
    BY <1>2, <1>3 DEF fiber_session_unlock_and_destroy, SlotOf
  <1>6. /\ ThreadTypes' /\ \A u \in Thread \ {t} : th'[u] = th[u]
        /\ th'[t].pc = "wake_all" /\ th'[t].slot = th[t].slot
    <2>1. "wake_all" \in Places /\ ThreadTypes /\ th[t].pc # "idle"
      BY <1>1, Holder DEF Places
    <2> QED
      BY <1>1, <2>1, GoMoves
  <1>7. /\ s \notin free /\ \A u \in Thread \ {t} : Uses(u) => th[u].slot # s
    BY <1>1, <1>2, Holder
  <1>8. ~Owns(t)' /\ Releasing(t)' /\ th'[t].slot = s
    BY <1>2, <1>6 DEF Owns, Releasing
  <1>9. Locks'
    BY <1>1, <1>2, <1>4, <1>5, <1>6, <1>7, <1>8, EndsIt DEF SessionInvariant
  <1>10. session' \in Seq(SessionType)
    BY <1>5, Ended DEF SessionInvariant, Types
  <1>11. error' \in Seq(Outcomes)
    <2>1. error \in Seq(Outcomes) /\ "dropped" \in Outcomes
      BY DEF SessionInvariant, Types, Outcomes
    <2>2. DOMAIN error' = DOMAIN error /\ error' = [e \in DOMAIN error |-> error'[e]]
      BY DEF fiber_session_unlock_and_destroy
    <2>3. \A e \in DOMAIN error : error'[e] \in {"dropped", error[e]}
      BY DEF fiber_session_unlock_and_destroy
    <2>4. \A e \in DOMAIN error : error'[e] \in Outcomes
      BY <2>1, <2>3
    <2> QED
      BY <2>1, <2>2, <2>4, Replaced
  <1>12. Types'
    BY <1>1, <1>4, <1>5, <1>6, <1>10, <1>11 DEF SessionInvariant, Types
  <1> QED
    BY <1>9, <1>12 DEF SessionInvariant

\* fiber_session_cancel: refused, or the session ends with nobody else using its slot
LEMMA CancelKeeps ==
    ASSUME SessionInvariant, NEW t \in Thread, fiber_session_cancel(t)
    PROVE  SessionInvariant'
  <1>1. /\ th[t].pc = "created" /\ free' = free
        /\ error' \in Seq(Outcomes) /\ budget' \in Budgets
    BY Spent DEF fiber_session_cancel, SessionInvariant, Types
  <1>2. ThreadTypes /\ th[t].slot \in Slot /\ th[t].ver \in Nat /\ session \in Seq(SessionType)
    BY <1>1 DEF SessionInvariant, Types, ThreadTypes, ThreadType
  <1>3. PICK s \in Slot : s = th[t].slot
    BY <1>2
  <1>4. ~Uses(t) /\ ~Owns(t) /\ ~Releasing(t)
    BY <1>1 DEF Uses, Owns, Releasing
  <1>5. CASE Return(t) /\ UNCHANGED <<meta, session>>
    <2>1. /\ ThreadTypes' /\ \A u \in Thread \ {t} : th'[u] = th[u]
          /\ th'[t].pc = "idle"
      BY <1>2, <1>5, ReturnMoves
    <2>2. ~Uses(t)'
      BY <2>1 DEF Uses, Owns, Releasing
    <2> QED
      BY <1>1, <1>2, <1>4, <1>5, <2>1, <2>2, QuietMove
  <1>6. CASE /\ HasVersion(meta[s], th[t].ver) /\ Unlocked(meta[s])
             /\ meta' = [meta EXCEPT ![s] = Cancelled(@)]
             /\ session' = Ends(s) /\ Go(t, "return_resource")
    <2>1. /\ meta[s] \in IdType /\ SlotOK(meta[s], s)
          /\ meta[s].first_ver \in Nat /\ meta[s].locked_ver \in Nat
      BY IdFacts
    <2>2. meta[s].first_ver # meta[s].locked_ver
      BY <1>2, <1>6, <2>1 DEF HasVersion
    <2>3. meta[s].pending_q = << >> /\ s \notin free
      BY <1>6, <2>1, <2>2 DEF SlotOK
    <2>4. PICK m : m = Cancelled(meta[s])
      OBVIOUS
    <2>5. m \in IdType /\ m.first_ver = m.locked_ver /\ Unlocked(m) /\ m.pending_q = << >>
      BY <2>1, <2>3, <2>4, CancelledFacts
    <2>6. meta' = [meta EXCEPT ![s] = m]
      BY <1>6, <2>4
    <2>7. \A u \in Thread \ {t} : Uses(u) => th[u].slot # s
      BY <1>6, <2>2 DEF SessionInvariant, Locks, OwnersOK, ReleasersOK, Uses
    <2>8. /\ ThreadTypes' /\ \A u \in Thread \ {t} : th'[u] = th[u]
          /\ th'[t].pc = "return_resource" /\ th'[t].slot = s
      <3>1. "return_resource" \in Places /\ th[t].pc # "idle"
        BY <1>1 DEF Places
      <3> QED
        BY <1>2, <1>3, <1>6, <3>1, GoMoves
    <2>9. ~Owns(t)' /\ Releasing(t)'
      BY <2>8 DEF Owns, Releasing
    <2>10. Locks'
      BY <1>1, <1>4, <2>3, <2>5, <2>6, <2>7, <2>8, <2>9, EndsIt DEF SessionInvariant
    <2>11. session' \in Seq(SessionType)
      BY <1>2, <1>6, Ended
    <2>12. Types'
      BY <1>1, <2>5, <2>6, <2>8, <2>11 DEF SessionInvariant, Types
    <2> QED
      BY <2>10, <2>12 DEF SessionInvariant
  <1> QED
    BY <1>3, <1>5, <1>6 DEF fiber_session_cancel, SlotOf

\* return_resource: the slot goes back to the pool, without versions and without users.
LEMMA ReturnResourceKeeps ==
    ASSUME SessionInvariant, NEW t \in Thread, return_resource(t)
    PROVE  SessionInvariant'
  <1>1. /\ th[t].pc = "return_resource" /\ Return(t) /\ free' = free \cup {th[t].slot}
        /\ UNCHANGED <<meta, session, error, budget>>
    BY DEF return_resource, SlotOf
  <1>2. ThreadTypes /\ th[t].slot \in Slot
    BY <1>1 DEF SessionInvariant, Types, ThreadTypes
  <1>3. PICK s \in Slot : s = th[t].slot
    BY <1>2
  <1>4. Releasing(t) /\ Uses(t)
    BY <1>1 DEF Uses, Releasing
  <1>5. /\ ThreadTypes' /\ \A u \in Thread \ {t} : th'[u] = th[u]
        /\ th'[t].pc = "idle"
    BY <1>1, <1>2, ReturnMoves
  <1>6. ~Uses(t)' /\ ~Owns(t)' /\ ~Releasing(t)'
    BY <1>5 DEF Uses, Owns, Releasing
  <1>7. \A u \in Thread \ {t} : SameThread(u)
    BY <1>5 DEF SameThread, Owns, Releasing
  <1>8. meta[s].first_ver = meta[s].locked_ver
    BY <1>3, <1>4 DEF SessionInvariant, Locks, ReleasersOK
  <1>9. Unlocked(meta[s])
    BY <1>8, IdFacts DEF SlotOK
  <1>10. \A u \in Thread \ {t} : Uses(u) => th[u].slot # s
    BY <1>3, <1>4 DEF SessionInvariant, Locks, Alone
  <1>11. SlotsOK'
    BY <1>1, <1>3, <1>8, <1>9 DEF SessionInvariant, Locks, SlotsOK, SlotOK, Unlocked, HasVersion
  <1>12. OwnersOK'
    BY <1>1, <1>6, <1>7 DEF SessionInvariant, Locks, OwnersOK, SameThread, Unlocked, HasVersion
  <1>13. ReleasersOK'
    BY <1>1, <1>3, <1>6, <1>7, <1>10
       DEF SessionInvariant, Locks, ReleasersOK, SameThread, Uses
  <1>14. Alone'
    BY <1>6, <1>7 DEF SessionInvariant, Locks, Alone, SameThread, Uses
  <1>15. Held'
    <2>1. ASSUME NEW x \in Slot, ~Unlocked(meta[x])
          PROVE  \E u \in Thread : Owns(u)' /\ th'[u].slot = x
      <3>1. PICK u \in Thread : Owns(u) /\ th[u].slot = x
        BY <2>1 DEF SessionInvariant, Locks, Held
      <3>2. u # t
        BY <1>3, <1>9, <2>1, <3>1
      <3> QED
        BY <1>7, <3>1, <3>2 DEF SameThread
    <2> QED
      BY <1>1, <2>1 DEF Held, Unlocked
  <1>16. Types'
    BY <1>1, <1>2, <1>5 DEF SessionInvariant, Types
  <1> QED
    BY <1>11, <1>12, <1>13, <1>14, <1>15, <1>16 DEF SessionInvariant, Locks

\* id_create_impl: what creating makes of an Id, with versions that do not overflow
LEMMA CreatedFacts ==
    ASSUME NEW x \in IdType, NEW range \in 1 .. MaxRange, NEW m, m = Created(x, range)
    PROVE  /\ m \in IdType /\ m.butex = m.first_ver /\ m.pending_q = x.pending_q
           /\ m.first_ver > 0 /\ m.first_ver + MaxRange + 2 < Width
           /\ m.first_ver < m.locked_ver /\ m.locked_ver <= m.first_ver + MaxRange
           /\ m.first_ver \in Nat /\ m.locked_ver \in Nat
  <1>1. x.butex \in Nat /\ MaxRange \in Nat /\ Width \in Nat /\ Width > MaxRange + 3
    BY SessionAssumption DEF IdType
  <1>2. /\ FirstVer(x) \in Nat /\ FirstVer(x) > 0 /\ FirstVer(x) + MaxRange + 2 < Width
    BY <1>1 DEF FirstVer
  <1>3. PICK f \in Nat : f = FirstVer(x) /\ f > 0 /\ f + MaxRange + 2 < Width
    BY <1>2
  <1>4. PICK l \in Nat : l = f + range /\ f < l /\ l <= f + MaxRange
    BY <1>1, <1>3
  <1>5. m = [x EXCEPT !.butex = f, !.join_butex = f, !.first_ver = f, !.locked_ver = l]
    BY <1>3, <1>4 DEF Created
  <1>6. /\ m \in IdType /\ m.first_ver = f /\ m.locked_ver = l /\ m.butex = f
        /\ m.pending_q = x.pending_q
    BY <1>5 DEF IdType
  <1> QED
    BY <1>3, <1>4, <1>6

\* fiber_session_create takes a slot that nobody uses out of the pool.
LEMMA CreateKeeps ==
    ASSUME SessionInvariant, NEW t \in Thread, NEW s \in Slot, NEW range \in budget.ranges,
           fiber_session_create(t, s, range), ~budget.raced
    PROVE  SessionInvariant'
  <1>1. /\ th[t] = Idle /\ s \in free /\ free' = free \ {s} /\ error' \in Seq(Outcomes)
        /\ budget' \in Budgets
    BY Spent DEF fiber_session_create, SessionInvariant, Types
  <1>2. range \in 1 .. MaxRange
    BY DEF SessionInvariant, Types, Budgets
  <1>3. PICK m : m = Created(meta[s], range)
    OBVIOUS
  <1>4. meta[s] \in IdType /\ SlotOK(meta[s], s)
    BY IdFacts
  <1>5. /\ m \in IdType /\ m.butex = m.first_ver /\ m.pending_q = meta[s].pending_q
        /\ m.first_ver > 0 /\ m.first_ver + MaxRange + 2 < Width
        /\ m.first_ver < m.locked_ver /\ m.locked_ver <= m.first_ver + MaxRange
        /\ m.first_ver \in Nat /\ m.locked_ver \in Nat
    BY <1>2, <1>3, <1>4, CreatedFacts
  <1>6. meta' = [meta EXCEPT ![s] = m]
    BY <1>3 DEF fiber_session_create, NewSession
  <1>7. \A x \in Slot : meta'[x] = IF x = s THEN m ELSE meta[x]
    BY <1>6 DEF SessionInvariant, Types
  <1>8. Unlocked(meta[s]) /\ m.pending_q = << >> /\ meta'[s] = m
    BY <1>1, <1>4, <1>5, <1>7 DEF SlotOK
  <1>0. m.first_ver = FirstVer(meta[s])
    BY <1>3, <1>4 DEF Created, IdType
  <1>9. session' \in Seq(SessionType) /\ Len(session) + 1 \in Nat
    <2>1. session' = Append(session, [slot |-> s, first |-> m.first_ver,
                                      last |-> m.first_ver + range - 1,
                                      lives |-> TRUE, shared |-> FALSE])
      BY <1>0 DEF fiber_session_create, NewSession
    <2>2. [slot |-> s, first |-> m.first_ver, last |-> m.first_ver + range - 1,
           lives |-> TRUE, shared |-> FALSE] \in SessionType
      BY <1>2, <1>5, SessionAssumption DEF SessionType
    <2>3. session \in Seq(SessionType)
      BY DEF SessionInvariant, Types
    <2> QED
      BY <2>1, <2>2, <2>3
  <1>10. PICK id \in Ident : id = [slot |-> s, ver |-> m.first_ver, of |-> Len(session) + 1]
    BY <1>5, <1>9 DEF Ident
  <1>11. th' = [th EXCEPT ![t] = At("created", id)]
    BY <1>0, <1>10 DEF fiber_session_create, NewSession
  <1>12. /\ ThreadTypes' /\ \A u \in Thread \ {t} : th'[u] = th[u]
         /\ th'[t].pc = "created"
    <2>1. "created" \in Places /\ ThreadTypes
      BY DEF Places, SessionInvariant, Types
    <2>2. PICK x : x = At("created", id)
      OBVIOUS
    <2>3. x \in ThreadType /\ x.pc = "created" /\ x.slot \in Slot
      BY <2>1, <2>2, AtType
    <2>4. th' = [th EXCEPT ![t] = x]
      BY <1>11, <2>2
    <2> QED
      BY <2>1, <2>3, <2>4, Moves
  <1>13. ~Uses(t) /\ ~Uses(t)' /\ ~Owns(t)' /\ ~Releasing(t)' /\ ~Owns(t)
    <2>1. th[t].pc = "idle"
      BY <1>1, IdleType
    <2> QED
      BY <1>12, <2>1 DEF Uses, Owns, Releasing
  <1>14. \A u \in Thread \ {t} : SameThread(u)
    BY <1>12 DEF SameThread, Owns, Releasing
  <1>15. \A u \in Thread : Uses(u) => th[u].slot # s /\ th[u].slot \in Slot
    <2>1. \A u \in Thread : Uses(u) => th[u].slot # s
      BY <1>1, <1>8 DEF SessionInvariant, Locks, OwnersOK, ReleasersOK, Uses
    <2>2. \A u \in Thread : Uses(u) => th[u].slot \in Slot
      BY DEF SessionInvariant, Types, ThreadTypes, Uses, Owns, Releasing
    <2> QED
      BY <2>1, <2>2
  <1>16. SlotsOK'
    <2>1. SlotOK(m, s)'
      BY <1>1, <1>5, <1>8 DEF SlotOK, Unlocked
    <2>2. ASSUME NEW x \in Slot, x # s
          PROVE  SlotOK(meta[x], x)'
      BY <1>1, <1>7, <2>2 DEF SessionInvariant, Locks, SlotsOK, SlotOK, Unlocked, HasVersion
    <2> QED
      BY <1>8, <2>1, <2>2 DEF SlotsOK, SlotOK, Unlocked, HasVersion
  <1>17. OwnersOK'
    BY <1>7, <1>13, <1>14, <1>15 DEF SessionInvariant, Locks, OwnersOK, SameThread, Uses
  <1>18. ReleasersOK'
    BY <1>1, <1>7, <1>13, <1>14, <1>15
       DEF SessionInvariant, Locks, ReleasersOK, SameThread, Uses
  <1>19. Alone'
    BY <1>13, <1>14 DEF SessionInvariant, Locks, Alone, SameThread, Uses
  <1>20. Held'
    <2>1. ASSUME NEW x \in Slot, ~Unlocked(meta'[x])
          PROVE  \E u \in Thread : Owns(u)' /\ th'[u].slot = x
      <3>1. x # s
        BY <1>5, <1>8, <2>1 DEF Unlocked
      <3>2. PICK u \in Thread : Owns(u) /\ th[u].slot = x
        BY <1>7, <2>1, <3>1 DEF SessionInvariant, Locks, Held
      <3>3. u # t
        BY <1>13, <3>2
      <3> QED
        BY <1>14, <3>2, <3>3 DEF SameThread
    <2> QED
      BY <2>1 DEF Held, Unlocked
  <1>21. Types'
    BY <1>1, <1>5, <1>6, <1>9, <1>12 DEF SessionInvariant, Types
  <1> QED
    BY <1>16, <1>17, <1>18, <1>19, <1>20, <1>21 DEF SessionInvariant, Locks

-----------------------------------------------------------------------------
(* The theorems                                                            *)

\* The pool before the first call
LEMMA InitHolds == Init => SessionInvariant
  <1> SUFFICES ASSUME Init PROVE SessionInvariant
    OBVIOUS
  <1>1. PICK sc \in Scenarios :
           /\ meta = [x \in Slot |-> [butex |-> sc.butex, join_butex |-> sc.butex,
                                      first_ver |-> sc.butex, locked_ver |-> sc.butex,
                                      pending_q |-> << >>]]
           /\ budget = sc.budget
    BY DEF Init
  <1>2. sc.butex \in Nat /\ budget \in Budgets
    BY <1>1, SessionAssumption
  <1>3. PICK m : m = [butex |-> sc.butex, join_butex |-> sc.butex, first_ver |-> sc.butex,
                      locked_ver |-> sc.butex, pending_q |-> << >>]
    OBVIOUS
  <1>4. /\ m \in IdType /\ m.butex = m.first_ver /\ m.first_ver = m.locked_ver
        /\ m.first_ver \in Nat /\ m.pending_q = << >>
    BY <1>2, <1>3 DEF IdType
  <1>5. meta = [x \in Slot |-> m] /\ free = Slot
    BY <1>1, <1>3 DEF Init
  <1>6. \A t \in Thread : th[t] = Idle
    BY DEF Init
  <1>7. ThreadTypes
    BY IdleType DEF Init, ThreadTypes
  <1>8. Types
    BY <1>2, <1>4, <1>5, <1>7 DEF Types, Init
  <1>9. \A t \in Thread : ~Uses(t) /\ ~Owns(t) /\ ~Releasing(t)
    BY <1>6, IdleType DEF Uses, Owns, Releasing
  <1>10. SlotsOK
    BY <1>4, <1>5 DEF SlotsOK, SlotOK, Unlocked
  <1>11. OwnersOK /\ ReleasersOK /\ Alone
    BY <1>9 DEF OwnersOK, ReleasersOK, Alone
  <1>12. Held
    BY <1>4, <1>5 DEF Held, Unlocked
  <1> QED
    BY <1>8, <1>10, <1>11, <1>12 DEF SessionInvariant, Locks

\* Every call and every step of a call keeps the invariant.
LEMMA NextKeeps == SessionInvariant /\ ~budget.raced /\ [Next]_vars => SessionInvariant'
  <1> SUFFICES ASSUME SessionInvariant, ~budget.raced, [Next]_vars PROVE SessionInvariant'
    OBVIOUS
  <1>1. CASE UNCHANGED vars
    BY <1>1, RefusedKeeps DEF vars, SessionInvariant, Types
  <1>2. ASSUME NEW t \in Thread, Calls(t)
        PROVE  SessionInvariant'
    <2>1. CASE \E slot \in Slot, range \in budget.ranges : fiber_session_create(t, slot, range)
      BY <2>1, CreateKeeps
    <2>2. CASE \E id \in Issued :
                  \/ \E range \in budget.resets : fiber_session_lock(t, id, range)
                  \/ fiber_session_join(t, id)
      <3>1. budget.resets \subseteq 0 .. MaxRange /\ 0 \in 0 .. MaxRange
        BY SessionAssumption DEF SessionInvariant, Types, Budgets
      <3> QED
        BY <2>2, <3>1, CallKeeps
    <2>3. CASE \E id \in Issued : fiber_session_trylock(t, id)
      BY <2>3, TrylockKeeps
    <2>4. CASE \E id \in Issued : fiber_session_error(t, id)
      BY <2>4, ErrorKeeps
    <2> QED
      BY <1>2, <2>1, <2>2, <2>3, <2>4 DEF Calls
  <1>3. ASSUME NEW t \in Thread, Goes(t)
        PROVE  SessionInvariant'
    <2>1. CASE share(t) \/ fiber_session_cancel(t)
      BY <2>1, ShareKeeps, CancelKeeps
    <2>2. CASE lock_wait(t) \/ join_wait(t) \/ join_section(t)
      BY <2>2, WaitKeeps
    <2>3. CASE lock_section(t)
      BY <2>3, LockSectionKeeps
    <2>4. CASE fiber_session_unlock(t) \/ fiber_session_about_to_destroy(t)
      BY <2>4, UnlockKeeps, AboutToDestroyKeeps
    <2>5. CASE fiber_session_unlock_and_destroy(t) \/ return_resource(t)
      BY <2>5, DestroyKeeps, ReturnResourceKeeps
    <2>6. CASE wake(t) \/ wake_lockers(t) \/ wake_joiners(t)
      BY <2>6, WakeKeeps
    <2>7. CASE create_ends(t)
      BY <2>7 DEF create_ends, SessionInvariant, Types, ThreadTypes, ThreadType, Places
    <2> QED
      BY <1>3, <2>1, <2>2, <2>3, <2>4, <2>5, <2>6, <2>7 DEF Goes
  <1> QED
    BY <1>1, <1>2, <1>3 DEF Next

\* No call changes what a scenario says of races.
LEMMA RacedStays ==
    ASSUME budget \in Budgets, [Next]_vars
    PROVE  budget'.raced = budget.raced
  <1>1. CASE UNCHANGED vars
    BY <1>1 DEF vars
  <1>2. ASSUME NEW t \in Thread, Calls(t)
        PROVE  budget'.raced = budget.raced
    <2>1. Spend("create") \/ Spend("lock") \/ Spend("trylock") \/ Spend("error") \/ Spend("join")
      BY <1>2 DEF Calls, fiber_session_create, fiber_session_lock, fiber_session_trylock,
                  fiber_session_error, fiber_session_join
    <2> QED
      BY <2>1, Spent
  <1>3. ASSUME NEW t \in Thread, Goes(t)
        PROVE  budget'.raced = budget.raced
    <2>1. UNCHANGED budget \/ Spend("cancel") \/ Spend("about")
      BY <1>3 DEF Goes, create_ends, share, fiber_session_cancel, lock_wait, lock_section,
                  fiber_session_unlock, fiber_session_about_to_destroy,
                  fiber_session_unlock_and_destroy, wake, wake_lockers, wake_joiners,
                  return_resource, join_wait, join_section
    <2> QED
      BY <2>1, Spent
  <1> QED
    BY <1>1, <1>2, <1>3 DEF Next

\* The invariant of the slots and of the threads that use them
THEOREM SessionInvariantHolds ==
    ASSUME NotRaced
    PROVE  Spec => []SessionInvariant
  <1>1. Init => SessionInvariant /\ ~budget.raced
    BY InitHolds DEF Init, NotRaced
  <1>2. SessionInvariant /\ ~budget.raced /\ [Next]_vars => (SessionInvariant /\ ~budget.raced)'
    BY NextKeeps, RacedStays DEF SessionInvariant, Types
  <1> QED
    BY <1>1, <1>2, PTL DEF Spec

\* A session that is locked has one owner, however many threads lock, signal, join and
\* destroy it and however often its slot is used again: fiber_session_unlock and
\* unlock_and_destroy never find it unlocked or destroyed.
THEOREM OneOwner ==
    ASSUME NotRaced
    PROVE  Spec => []LockedByOne
  <1>1. SessionInvariant => LockedByOne
    BY DEF SessionInvariant, Locks, OwnersOK, Alone, Uses, LockedByOne
  <1> QED
    BY <1>1, SessionInvariantHolds, PTL

\* An error that fiber_session_error2 left to the owner of the lock has an owner until
\* it is handled or dropped: fiber_session_unlock never leaves pending_q behind.
THEOREM NoOrphanedError ==
    ASSUME NotRaced
    PROVE  Spec => []ErrorsHaveAnOwner
  <1>1. SessionInvariant => ErrorsHaveAnOwner
    BY DEF SessionInvariant, Locks, SlotsOK, SlotOK, Held, ErrorsHaveAnOwner
  <1> QED
    BY <1>1, SessionInvariantHolds, PTL

\* Before versions overflow id_create_impl starts them again at 1, so that the values of
\* an unlocked, locked, contended and unlockable session differ, whatever the width.
THEOREM VersionsStayDistinct ==
    ASSUME NotRaced
    PROVE  Spec => []VersionsDistinct
  <1>1. SessionInvariant => VersionsDistinct
    <2> SUFFICES ASSUME SessionInvariant, NEW s \in Slot,
                        meta[s].first_ver < meta[s].locked_ver
                 PROVE  meta[s].first_ver > 0 /\ UnlockableVer(meta[s]) < Width
      BY DEF VersionsDistinct
    <2>1. /\ meta[s].first_ver > 0 /\ meta[s].first_ver + MaxRange + 2 < Width
          /\ meta[s].locked_ver <= meta[s].first_ver + MaxRange
          /\ meta[s].first_ver \in Nat /\ meta[s].locked_ver \in Nat
      BY IdFacts DEF SlotOK
    <2> QED
      BY <2>1, SessionAssumption DEF UnlockableVer
  <1> QED
    BY <1>1, SessionInvariantHolds, PTL
=============================================================================
