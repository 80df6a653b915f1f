-------------------------------- MODULE Call --------------------------------
(***************************************************************************)
(* One RPC of a client (Channel::CallMethod and Controller): tries,        *)
(* retries, a backup request, the timeout and cancellation, which reach    *)
(* the controller in any order and exclude each other by locking the       *)
(* session of the call.                                                    *)
(*                                                                         *)
(* Identifier 0 is the call_id, identifier k its k-th try (nretry k - 1):  *)
(* "All ids except call_id are versioned".  The session is Session's,      *)
(* without its waiters: a thread that would wait for the lock is a step    *)
(* that is not enabled yet.  The handlers run under the lock; what they do *)
(* after a point where others see their effects (the request is written,   *)
(* the id made unlockable, done is run) is a step of its own.              *)
(***************************************************************************)
EXTENDS Integers, Sequences, FiniteSets

CONSTANTS
    Scenarios,      \* the options of the call and how much happens to it
    MaxTries        \* bound: 1 + the largest max_retry

\* failures: how often something goes wrong; refusals: the errors with which CallMethod
\* may fail before a timer is set; cancels: calls of StartCancel
Scenario == [max_retry : 0 .. MaxTries - 1, backup : BOOLEAN, timeout : BOOLEAN,
             async : BOOLEAN, connection : {"single", "pooled", "short"},
             failures : Nat, refusals : SUBSET {"EREQUEST", "ELIMIT"}, cancels : Nat]

ASSUME CallAssumption == MaxTries \in Nat \ {0} /\ Scenarios \subseteq Scenario

VARIABLES
    opt,        \* the scenario
    session,    \* the session of the call
    cntl,       \* the Controller
    call,       \* the tries: their connection and how often they were completed
    net,        \* the network: what becomes of the request of every try
    run,        \* what the thread does that holds the session
    timers,     \* the timers that are set, by the error they issue
    firing,     \* the timers that were taken off and are about to issue it
    user,       \* the caller of CallMethod and what is left of the bounds
    ended       \* history: how the RPC ended

vars == <<opt, session, cntl, call, net, run, timers, firing, user, ended>>

Try == 1 .. MaxTries
Errors == {"OK", "EBACKUPREQUEST", "ERPCTIMEDOUT", "ECANCELED", "EFAILEDSOCKET", "ELIMIT",
           "EREQUEST"}

Current(c) == c.nretry + 1

\* DefaultRetryPolicy()->DoRetry
DoRetry(error) == error \in {"EFAILEDSOCKET", "ELIMIT"}

Nobody == [pc |-> "nobody", id |-> 0, responded |-> FALSE]
At(pc, id) == [pc |-> pc, id |-> id, responded |-> FALSE]
Take(s) == [s EXCEPT !.lock = "locked"]
Valid(s, id) == s.lives /\ id < s.range

Init ==
    /\ opt \in Scenarios
    /\ session = [lives |-> TRUE, range |-> 1, lock |-> "free", pending_q |-> << >>]
    /\ cntl = [used |-> FALSE, nretry |-> 0, error |-> "OK", unfinished |-> 0]
    /\ call = [k \in Try |-> [sock |-> "none", completed |-> 0]]
    /\ net = [k \in Try |-> [reply |-> "none", error |-> "OK", broken |-> FALSE]]
    /\ run = Nobody
    /\ timers = {} /\ firing = {}
    /\ user = [pc |-> "start", done |-> 0, failures |-> opt.failures, cancels |-> opt.cancels]
    /\ ended = [is |-> FALSE, error |-> "OK", id |-> 0, aborted |-> FALSE]

-----------------------------------------------------------------------------
(* Parts of handlers                                                       *)

\* Call::OnComplete: feedback, and the connection closed or given back
CompletedAlwaysPools(c, k, error, responded) ==
    [c EXCEPT ![k].completed = @ + 1,
              ![k].sock = IF @ # "open" \/ opt.connection = "single" THEN @
                          ELSE IF opt.connection = "pooled" THEN "pooled" ELSE "closed"]
Completed(c, k, error, responded) ==
    [c EXCEPT ![k].completed = @ + 1,
              ![k].sock = IF @ # "open" \/ opt.connection = "single" THEN @
                          ELSE IF opt.connection = "pooled" /\ (error = "OK" \/ responded)
                          THEN "pooled" ELSE "closed"]

Abort == ended' = [ended EXCEPT !.aborted = TRUE]
NoAbort == UNCHANGED ended

\* The event is not that of a previous try, but for the original of a backup request
\* that succeeds.
Mine(c, id) == id \in {0, Current(c)} \/ (id = c.unfinished /\ c.error = "OK")
EndsRPC(c) == \/ c.error = "OK" \/ c.nretry >= opt.max_retry
              \/ c.error # "EBACKUPREQUEST" /\ ~DoRetry(c.error)

\* A previous try, or the original of the backup request that failed
IgnoredKeepsError(id, responded, c, saved) ==
    /\ cntl' = [c EXCEPT !.unfinished = IF @ = id THEN 0 ELSE @]
    /\ call' = IF c.unfinished = id THEN Completed(call, id, c.error, responded) ELSE call
    /\ run' = At("unlock", id)
    /\ UNCHANGED timers /\ NoAbort
Ignored(id, responded, c, saved) ==
    /\ cntl' = [c EXCEPT !.error = saved, !.unfinished = IF @ = id THEN 0 ELSE @]
    /\ call' = IF c.unfinished = id THEN Completed(call, id, c.error, responded) ELSE call
    /\ run' = At("unlock", id)
    /\ UNCHANGED timers /\ NoAbort

BackupRequestWithoutTimeout(c) ==
    /\ IF c.unfinished # 0 THEN Abort ELSE NoAbort
    /\ cntl' = [c EXCEPT !.unfinished = Current(c), !.nretry = @ + 1]
    /\ run' = At("issue", 0)
    /\ UNCHANGED <<call, timers>>
BackupRequest(c) ==
    /\ timers' = IF opt.timeout THEN timers \cup {"ERPCTIMEDOUT"} ELSE timers
    /\ IF c.unfinished # 0 THEN Abort ELSE NoAbort
    /\ cntl' = [c EXCEPT !.unfinished = Current(c), !.nretry = @ + 1]
    /\ run' = At("issue", 0)
    /\ UNCHANGED call

Retry(id, responded, c) ==
    /\ IF id # Current(c) THEN Abort ELSE NoAbort
    /\ call' = Completed(call, Current(c), c.error, responded)
    /\ cntl' = [c EXCEPT !.nretry = @ + 1]
    /\ run' = At("issue", 0)
    /\ UNCHANGED timers

\* OnVersionedRPCReturned(info, saved), with the session s locked and the controller c
OnVersionedRPCReturned(id, responded, c, saved, s) ==
    \/ ~Mine(c, id) /\ Ignored(id, responded, c, saved) /\ session' = s
    \/ /\ Mine(c, id) /\ EndsRPC(c)
       /\ session' = IF opt.async THEN [s EXCEPT !.lock = "unlockable"] ELSE s
       /\ cntl' = c
       /\ run' = [pc |-> "end", id |-> id, responded |-> responded]
       /\ UNCHANGED <<call, timers>> /\ NoAbort
    \/ Mine(c, id) /\ ~EndsRPC(c) /\ session' = s /\
          IF c.error = "EBACKUPREQUEST" THEN BackupRequest(c) ELSE Retry(id, responded, c)

\* HandleSocketFailed: on_error of the session
HandleSocketFailed(id, error, s) ==
    IF ~cntl.used
    THEN /\ cntl' = [cntl EXCEPT !.error = error] /\ session' = s
         /\ run' = At("unlock", id)
         /\ UNCHANGED <<call, timers>> /\ NoAbort
    ELSE OnVersionedRPCReturned(id, FALSE, [cntl EXCEPT !.error = error], cntl.error, s)

\* HandleSendFailed
HandleSendFailed(c, s) == OnVersionedRPCReturned(Current(c), FALSE, c, c.error, s)

\* fiber_session_error2
Error(id, error) ==
    IF ~Valid(session, id) THEN UNCHANGED <<session, cntl, call, run, timers>> /\ NoAbort
    ELSE IF session.lock = "free" THEN HandleSocketFailed(id, error, Take(session))
    ELSE /\ session' = [session EXCEPT !.pending_q = Append(@, [id |-> id, error |-> error])]
         /\ UNCHANGED <<cntl, call, run, timers>> /\ NoAbort

-----------------------------------------------------------------------------
(* The caller                                                              *)

\* CallMethod up to IssueRPC.  A call that was cancelled before, whose request cannot be
\* serialised or timer not be set (EREQUEST), or that finds too much user code waiting
\* (ELIMIT), is not issued and has no timer.
ResetRangeShort == 1 + opt.max_retry
ResetRange == 2 + opt.max_retry
CallMethod ==
    /\ user.pc = "start" /\ session.lock = "free"
    /\ LET s == [Take(session) EXCEPT !.range = ResetRange]
           c == [cntl EXCEPT !.used = TRUE]
           Refused(error) == /\ HandleSendFailed([c EXCEPT !.error = error], s)
                             /\ net' = [net EXCEPT ![1].error = error]
       IN  \/ /\ cntl.error # "OK" /\ Refused(cntl.error)
              /\ user' = [user EXCEPT !.pc = "called"]
           \/ /\ cntl.error = "OK" /\ user.failures > 0
              /\ \E error \in opt.refusals : (error = "ELIMIT" => opt.async) /\ Refused(error)
              /\ user' = [user EXCEPT !.pc = "called", !.failures = @ - 1]
           \/ /\ cntl.error = "OK"
              /\ session' = s /\ cntl' = c /\ run' = At("issue", 0)
              /\ timers' = IF opt.backup THEN {"EBACKUPREQUEST"}
                           ELSE IF opt.timeout THEN {"ERPCTIMEDOUT"} ELSE {}
              /\ user' = [user EXCEPT !.pc = "called"]
              /\ UNCHANGED <<call, net>> /\ NoAbort
    /\ UNCHANGED <<opt, firing>>

\* A synchronous caller goes on when the session is destroyed (Join).
join ==
    /\ user.pc = "called" /\ ~opt.async /\ ~session.lives
    /\ user' = [user EXCEPT !.pc = "joined"]
    /\ UNCHANGED <<opt, session, cntl, call, net, run, timers, firing, ended>>

StartCancel ==
    /\ user.cancels > 0
    /\ user' = [user EXCEPT !.cancels = @ - 1]
    /\ Error(0, "ECANCELED")
    /\ UNCHANGED <<opt, net, firing>>

-----------------------------------------------------------------------------
(* The thread that holds the session                                       *)

\* IssueRPC: a server is picked and a connection to it taken.
connect ==
    /\ run.pc = "issue"
    /\ cntl' = [cntl EXCEPT !.error = "OK"]
    /\ call' = [call EXCEPT ![Current(cntl)].sock = "open"]
    /\ run' = At("pack", 0)
    /\ UNCHANGED <<opt, session, net, timers, firing, user, ended>>

\* IssueRPC: no server or connection to send to; or, with the connection taken, the
\* authentication fails or the request cannot be packed.
issue_fails ==
    /\ run.pc \in {"issue", "pack"} /\ user.failures > 0
    /\ user' = [user EXCEPT !.failures = @ - 1]
    /\ \E error \in {"EFAILEDSOCKET", "EREQUEST"} :
          /\ HandleSendFailed([cntl EXCEPT !.error = error], session)
          /\ net' = [net EXCEPT ![Current(cntl)].error = error]
    /\ UNCHANGED <<opt, firing>>

\* IssueRPC: the request is written.
issue ==
    /\ run.pc = "pack"
    /\ net' = [net EXCEPT ![Current(cntl)].reply = "due"]
    /\ run' = At("unlock", Current(cntl))
    /\ UNCHANGED <<opt, session, cntl, call, timers, firing, user, ended>>

\* fiber_session_unlock, CHECKed to succeed: a pending error is handled first.
unlock ==
    /\ run.pc = "unlock"
    /\ IF ~Valid(session, run.id) THEN Abort /\ UNCHANGED <<session, cntl, call, run, timers>>
       ELSE IF session.pending_q = << >>
       THEN /\ session' = [session EXCEPT !.lock = "free"] /\ run' = Nobody
            /\ UNCHANGED <<cntl, call, timers>> /\ NoAbort
       ELSE LET e == Head(session.pending_q)
            IN  HandleSocketFailed(e.id, e.error, [session EXCEPT !.pending_q = Tail(@)])
    /\ UNCHANGED <<opt, net, firing, user>>

\* EndRPC up to done
CallsEnded(id, responded) ==
    IF id \in {0, Current(cntl)}
    THEN LET rest == IF cntl.unfinished = 0 THEN call
                     ELSE Completed(call, cntl.unfinished, IF cntl.error = "OK"
                                    THEN "EBACKUPREQUEST" ELSE cntl.error, FALSE)
         IN  Completed(rest, Current(cntl), cntl.error, responded)
    ELSE Completed(Completed(call, Current(cntl), "ECANCELED", FALSE),
                   cntl.unfinished, cntl.error, responded)
EndRPC ==
    /\ run.pc = "end"
    /\ timers' = {}
    /\ call' = CallsEnded(run.id, run.responded)
    /\ cntl' = [cntl EXCEPT !.unfinished = 0]
    /\ ended' = [is |-> TRUE, error |-> cntl.error, id |-> run.id,
                 aborted |-> run.id \notin {0, Current(cntl), cntl.unfinished}]
    /\ run' = At(IF opt.async THEN "done" ELSE "destroy", 0)
    /\ UNCHANGED <<opt, session, net, firing, user>>

\* The user's closure, which may delete the controller
run_done ==
    /\ run.pc = "done"
    /\ user' = [user EXCEPT !.done = @ + 1]
    /\ run' = At("destroy", 0)
    /\ UNCHANGED <<opt, session, cntl, call, net, timers, firing, ended>>

\* fiber_session_unlock_and_destroy drops the pending errors.
destroy_before_done ==
    /\ run.pc \in {"done", "destroy"} /\ session.lives
    /\ session' = [session EXCEPT !.lives = FALSE, !.lock = "free", !.pending_q = << >>]
    /\ run' = IF run.pc = "done" THEN run ELSE Nobody
    /\ UNCHANGED <<opt, cntl, call, net, timers, firing, user, ended>>
destroy ==
    /\ run.pc = "destroy"
    /\ session' = [session EXCEPT !.lives = FALSE, !.lock = "free", !.pending_q = << >>]
    /\ run' = Nobody
    /\ UNCHANGED <<opt, cntl, call, net, timers, firing, user, ended>>

-----------------------------------------------------------------------------
(* What happens to the call from outside                                   *)

\* A response, good or bad: ProcessXXXResponse locks the session, or drops the response
\* when that fails.
OnResponse(k, error) ==
    /\ net[k].reply = "due" /\ (error = "OK" \/ user.failures > 0)
    /\ net' = [net EXCEPT ![k].reply = "came", ![k].error = error]
    /\ user' = [user EXCEPT !.failures = IF error = "OK" THEN @ ELSE @ - 1]
    /\ \/ /\ ~Valid(session, k) \/ session.lock = "unlockable"
          /\ UNCHANGED <<session, cntl, call, run, timers>> /\ NoAbort
       \/ /\ Valid(session, k) /\ session.lock = "free"
          /\ LET c == IF error = "OK" THEN cntl ELSE [cntl EXCEPT !.error = error]
             IN  OnVersionedRPCReturned(k, TRUE, c, cntl.error, Take(session))
    /\ UNCHANGED <<opt, firing>>

\* The connection of a try breaks, after its response perhaps.
socket_fails(k) ==
    /\ net[k].reply \in {"due", "came"} /\ ~net[k].broken /\ user.failures > 0
    /\ net' = [net EXCEPT ![k].broken = TRUE, ![k].reply = IF @ = "due" THEN "lost" ELSE @,
                          ![k].error = IF net[k].reply = "due" THEN "EFAILEDSOCKET" ELSE @]
    /\ user' = [user EXCEPT !.failures = @ - 1]
    /\ Error(k, "EFAILEDSOCKET")
    /\ UNCHANGED <<opt, firing>>

\* A timer goes off: HandleTimeout, HandleBackupRequest.
timer_fires(error) ==
    /\ error \in timers
    /\ timers' = timers \ {error} /\ firing' = firing \cup {error}
    /\ UNCHANGED <<opt, session, cntl, call, net, run, user, ended>>
HandleTimeout(error) ==
    /\ error \in firing
    /\ firing' = firing \ {error}
    /\ Error(0, error)
    /\ UNCHANGED <<opt, net, user>>

-----------------------------------------------------------------------------
\* What goes on by itself: the handlers, and timers that are set
Goes == \/ connect \/ issue \/ unlock \/ EndRPC \/ run_done \/ destroy \/ join
        \/ \E error \in Errors : timer_fires(error) \/ HandleTimeout(error)

Next ==
    /\ ~ended.aborted
    /\ \/ Goes \/ CallMethod \/ StartCancel \/ issue_fails
       \/ \E k \in Try : \/ \E error \in {"OK", "EFAILEDSOCKET", "EREQUEST"} : OnResponse(k, error)
                         \/ socket_fails(k)

\* Handlers run and timers go off; no server has to answer.
Fairness == WF_vars(~ended.aborted /\ Goes)
Spec == Init /\ [][Next]_vars /\ Fairness

-----------------------------------------------------------------------------
(* Properties                                                              *)

\* The CHECKs of OnVersionedRPCReturned, IssueRPC and EndRPC hold: the session is
\* unlocked by an id it knows, one backup request at most is on its way, only the
\* current try is retried and no other previous try ends the RPC.
ChecksHold == ~ended.aborted

\* Every try is completed (feedback, connection given back) exactly once: until then
\* it is the current one or the original of the backup request.  A connection goes back
\* to the pool only when no response may still come through it.
CompletedOnce ==
    \A k \in Try :
        /\ call[k].completed <= 1
        /\ ended.is => call[k].completed = IF k <= Current(cntl) THEN 1 ELSE 0
        /\ ~ended.is /\ net[k].reply # "none" =>
              (call[k].completed = 0 <=> k \in {Current(cntl), cntl.unfinished})
        /\ call[k].sock = "pooled" => net[k].reply # "due"

\* The RPC ends with what happened to the try that ends it, the last one or the
\* original of a backup request if that succeeds; or by a timeout or a cancellation that
\* was asked for.  An event of an earlier try leaves no trace, and the timer of the backup
\* request, which is to "send another request", never is the result.
ResultIsOwn ==
    ended.is =>
        /\ ended.error = "ECANCELED" => user.cancels < opt.cancels
        /\ IF ended.id = 0 THEN ended.error \in {"ERPCTIMEDOUT", "ECANCELED"}
           ELSE /\ ended.error = net[ended.id].error
                /\ ended.error # "OK" => ended.id = Current(cntl)

\* done runs once, and nothing touches the controller from then on; whoever joins the
\* call goes on only afterwards.
DoneIsLast == [][/\ (user.done > 0 \/ ~session.lives) => UNCHANGED <<cntl, call>>
                 /\ user'.done <= 1
                 /\ session.lives /\ ~session'.lives => ended.is /\ (opt.async => user.done = 1)]_vars

\* An RPC with a timeout ends, and its caller is told.
EveryCallEnds ==
    user.pc = "called" /\ opt.timeout ~> ~session.lives /\ (opt.async \/ user.pc = "joined")
=============================================================================
