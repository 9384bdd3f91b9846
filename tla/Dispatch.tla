------------------------------ MODULE Dispatch ------------------------------
(***************************************************************************)
(* The resilience loop of the gateway: _dispatch_with_resilience of        *)
(* src/apps/gateway/pipeline/pipeline.py, with the retry policy and the    *)
(* deadline of src/apps/gateway/retry/policy.py, for the concurrent        *)
(* requests to one backend service.  They share that service's circuit     *)
(* breaker: its part of every step is an action of BreakerCalls.           *)
(*                                                                         *)
(* A step is what the event loop runs between two awaits.  The awaits are  *)
(* forward() (pc = "forward") and sleep_backoff() (pc = "sleep").  Time is *)
(* counted in ticks; elapsed is what DeadlineTracker measures.             *)
(*                                                                         *)
(* httpx applies a timeout to each wait of an exchange (pool, connect,     *)
(* every write and every read), so an attempt may last as many timeouts as *)
(* it has waits, and times out only when a single wait takes a whole one.  *)
(*                                                                         *)
(* External assumptions, as constants:                                     *)
(*   MaxWaits  how many waits an exchange has at most.  This is assumed    *)
(*             of the backend: nothing in the code bounds it, and one that *)
(*             sends its body bit by bit, each bit in time, can hold an    *)
(*             attempt for as long as it goes on;                          *)
(*   Lag       how much longer than asked asyncio.sleep may take.          *)
(* routable stands for the health checker: whether any instance of the     *)
(* service is HEALTHY, which is all the loop learns from the selector.     *)
(***************************************************************************)
EXTENDS CircuitBreaker

CONSTANTS Requests, Methods, Statuses, MaxAttempts, BaseBackoff,
          TotalDeadline, RouteTimeout, AllowNonIdempotent,
          MaxWaits, Lag, UnrecordedEnds

ASSUME DispatchAssumption ==
    /\ IsFiniteSet(Requests)
    /\ Statuses \subseteq 100 .. 999
    /\ MaxAttempts \in Nat \ {0}
    /\ {BaseBackoff, RouteTimeout, Lag} \subseteq Nat
    /\ {TotalDeadline, MaxWaits} \subseteq Nat \ {0}
    /\ AllowNonIdempotent \in BOOLEAN /\ UnrecordedEnds \in BOOLEAN

VARIABLES breaker, out, age, probes, probe_wins, evidence, req, routable

Calls == INSTANCE BreakerCalls WITH Callers <- Requests,
                                    AttemptMax <- MaxWaits * RouteTimeout

vars == <<breaker, out, age, probes, probe_wins, evidence, req, routable>>

-----------------------------------------------------------------------------
(* The retry policy.                                                       *)

FailureKind == {"CONNECTION_ERROR", "TIMEOUT", "HTTP_502", "HTTP_503",
                "HTTP_504", "HTTP_4XX", "HTTP_OTHER_5XX", "SUCCESS"}

DefaultRetryable == {"CONNECTION_ERROR", "TIMEOUT", "HTTP_502", "HTTP_503",
                     "HTTP_504"}

IdempotentMethods == {"GET", "HEAD", "PUT", "DELETE", "OPTIONS"}

\* Mutant of IsRetryable: the method is not looked at.
IsRetryableAnyMethod(method, kind, circuit_is_open) ==
    ~circuit_is_open /\ kind \in DefaultRetryable

IsRetryable(method, kind, circuit_is_open) ==
    /\ ~circuit_is_open
    /\ kind \in DefaultRetryable
    /\ method \in IdempotentMethods \/ AllowNonIdempotent

ClassifyHttpStatus(status) ==
    CASE status = 502           -> "HTTP_502"
      [] status = 503           -> "HTTP_503"
      [] status = 504           -> "HTTP_504"
      [] status \in 400 .. 499  -> "HTTP_4XX"
      [] status \in (500 .. 599) \ {502, 503, 504} -> "HTTP_OTHER_5XX"
      [] OTHER                  -> "SUCCESS"

\* The delays compute_backoff_ms may draw.
Backoffs(attempt) == 0 .. BaseBackoff * 2 ^ (attempt - 1)

\* Mutant of Remaining: every attempt has the whole deadline.
RemainingForgetful(elapsed) == TotalDeadline

Remaining(elapsed) == IF elapsed < TotalDeadline THEN TotalDeadline - elapsed
                                                 ELSE 0

HasBudgetFor(elapsed, backoff) == Remaining(elapsed) > backoff

Shorter(a, b) == IF a < b THEN a ELSE b

-----------------------------------------------------------------------------
(* A request.  waits counts the waits of its attempt so far.  due is what  *)
(* is left of the present wait's timeout, or of the sleep, then below zero *)
(* when the sleep runs over.  sent counts its forward() calls and is       *)
(* history.                                                                *)

Stages == {"none", "ok", "circuit_breaker", "backend_selection", "proxy",
           "raised"}

Request == [pc : {"idle", "forward", "sleep", "done"},
            method : Methods,
            attempt : 0 .. MaxAttempts,
            elapsed : Nat,
            timeout : 0 .. RouteTimeout,
            waits : 0 .. MaxWaits,
            due : Int,
            last_status : 100 .. 999,
            stage : Stages,
            sent : 0 .. MaxAttempts]

NewRequest(m) == [pc |-> "idle", method |-> m, attempt |-> 0, elapsed |-> 0,
                  timeout |-> 0, waits |-> 0, due |-> 0, last_status |-> 502,
                  stage |-> "none", sent |-> 0]

Become(r, q) == req' = [req EXCEPT ![r] = q]

\* Leave the loop with this result.
Answer(r, q, status, stage) ==
    Become(r, [q EXCEPT !.pc = "done", !.timeout = 0, !.waits = 0, !.due = 0,
                        !.last_status = status, !.stage = stage])

TypeOK ==
    /\ Calls!TypeOK
    /\ req \in [Requests -> Request]
    /\ routable \in BOOLEAN
    /\ out = {r \in Requests : req[r].pc = "forward"}

\* At start no instance has passed a health check yet.
Init ==
    /\ Calls!Init
    /\ routable = FALSE
    /\ \E m \in Methods : req = [r \in Requests |-> NewRequest(m)]

-----------------------------------------------------------------------------
\* One turn of the loop, from its head (q is the request there) to the await
\* of forward() or to a result.
TryAttempt(r, q) ==
    LET q1 == [q EXCEPT !.attempt = @ + 1]
        timeout == Shorter(Remaining(q.elapsed), RouteTimeout)
    IN  \/ /\ Calls!Refused(r)
           /\ Answer(r, q1, 503, "circuit_breaker")
        \/ /\ ~routable
           /\ Calls!AdmittedInVain(r)
           /\ Answer(r, q1, 503, "backend_selection")
        \/ /\ routable
           /\ Remaining(q.elapsed) <= 0
           /\ Calls!AdmittedInVain(r)
           /\ Answer(r, q1, q.last_status, "proxy")
        \/ /\ routable
           /\ Remaining(q.elapsed) > 0
           /\ Calls!Admitted(r)
           /\ Become(r, [q1 EXCEPT
                  !.pc = "forward",
                  !.timeout = timeout,
                  !.waits = 1,
                  !.due = timeout,
                  !.sent = @ + 1])

\* A request with this method enters the loop.
Start(r, m) ==
    /\ req[r].pc = "idle"
    /\ TryAttempt(r, NewRequest(m))
    /\ UNCHANGED routable

\* Mutant of Wake: a retry is sent without asking the breaker.
WakeUnasked(r) ==
    /\ req[r].pc = "sleep"
    /\ req[r].due <= 0
    /\ out' = out \cup {r}
    /\ Become(r, [req[r] EXCEPT !.pc = "forward", !.attempt = @ + 1, !.waits = 1,
                                !.sent = @ + 1, !.timeout = RouteTimeout,
                                !.due = RouteTimeout])
    /\ UNCHANGED <<breaker, age, probes, probe_wins, evidence, routable>>

\* sleep_backoff() returns.
Wake(r) ==
    /\ req[r].pc = "sleep"
    /\ req[r].due <= 0
    /\ TryAttempt(r, req[r])
    /\ UNCHANGED routable

\* Mutant of Exhausted: one attempt too many.
ExhaustedLate(q) == q.attempt > MaxAttempts

\* The loop's own condition asks the same and so never ends it.
Exhausted(q) == q.attempt >= MaxAttempts

\* From a failed attempt to the next sleep, or out of the loop.
RetryOrGiveUp(r, q, kind) ==
    LET retryable == IsRetryable(q.method, kind, breaker'.state = "OPEN")
    IN  \/ /\ ~retryable \/ Exhausted(q)
           /\ Answer(r, q, q.last_status, "proxy")
        \/ /\ retryable
           /\ ~Exhausted(q)
           /\ \E backoff \in Backoffs(q.attempt) :
                IF HasBudgetFor(q.elapsed, backoff)
                THEN Become(r, [q EXCEPT !.pc = "sleep", !.timeout = 0,
                                         !.waits = 0, !.due = backoff])
                ELSE Answer(r, q, q.last_status, "proxy")

\* What httpx waited for came in time, and it waits for the next thing: to
\* write more of the request or to read more of the response.
NextWait(r) ==
    /\ req[r].pc = "forward"
    /\ req[r].waits < MaxWaits
    /\ Become(r, [req[r] EXCEPT !.waits = @ + 1, !.due = req[r].timeout])
    /\ UNCHANGED <<breaker, out, age, probes, probe_wins, evidence, routable>>

\* forward() returns a response.
Respond(r, status) ==
    /\ req[r].pc = "forward"
    /\ \/ /\ status < 500
          /\ Calls!Succeeded(r)
          /\ Answer(r, req[r], status, "ok")
       \/ /\ status \in 500 .. 599
          /\ Calls!Failed(r)
          /\ RetryOrGiveUp(r, [req[r] EXCEPT !.last_status = status],
                           ClassifyHttpStatus(status))
       \/ /\ status >= 600
          /\ Calls!Unrecorded(r)
          /\ Answer(r, req[r], status, "ok")
    /\ UNCHANGED routable

\* forward() raises ConnectError or ConnectTimeout.
FailToConnect(r) ==
    /\ req[r].pc = "forward"
    /\ Calls!Failed(r)
    /\ RetryOrGiveUp(r, req[r], "CONNECTION_ERROR")
    /\ UNCHANGED routable

\* Mutant of TimeOut: the attempt's timeout is not handed to httpx.
TimeOutNever(r) ==
    /\ req[r].pc = "forward"
    /\ age[r] > MaxWaits * RouteTimeout
    /\ Calls!Failed(r)
    /\ RetryOrGiveUp(r, req[r], "TIMEOUT")
    /\ UNCHANGED routable

\* forward() raises another TimeoutException: one wait took the whole of the
\* attempt's timeout.
TimeOut(r) ==
    /\ req[r].pc = "forward"
    /\ req[r].due <= 0
    /\ Calls!Failed(r)
    /\ RetryOrGiveUp(r, req[r], "TIMEOUT")
    /\ UNCHANGED routable

\* forward() raises an error no except clause names, and so does the loop.
Raise(r) ==
    /\ req[r].pc = "forward"
    /\ Calls!Unrecorded(r)
    /\ Answer(r, req[r], 500, "raised")
    /\ UNCHANGED routable

\* The answer has left; the slot serves another request.
Reset(r) ==
    /\ req[r].pc = "done"
    /\ Become(r, NewRequest(req[r].method))
    /\ UNCHANGED <<breaker, out, age, probes, probe_wins, evidence, routable>>

\* A pass of the health checker changes what the selector finds.
HealthChange ==
    /\ routable' = ~routable
    /\ UNCHANGED <<breaker, out, age, probes, probe_wins, evidence, req>>

Older(q) == IF q.pc \in {"forward", "sleep"}
            THEN [q EXCEPT !.elapsed = @ + 1, !.due = @ - 1] ELSE q

Tick ==
    /\ Calls!Tick
    /\ \A r \in Requests :
         /\ req[r].pc = "forward" => req[r].due > 0
         /\ req[r].pc = "sleep" => req[r].due > -Lag
    /\ req' = [r \in Requests |-> Older(req[r])]
    /\ UNCHANGED routable

Next ==
    \/ \E r \in Requests :
         \/ \E m \in Methods : Start(r, m)
         \/ Wake(r)
         \/ NextWait(r)
         \/ \E status \in Statuses : Respond(r, status)
         \/ FailToConnect(r)
         \/ TimeOut(r)
         \/ Raise(r)
         \/ Reset(r)
    \/ HealthChange
    \/ Tick

Spec == Init /\ [][Next]_vars

\* Timers fire, time passes, and an answer that is ready leaves.  That an
\* attempt ends is due to these and to MaxWaits, the one thing assumed of the
\* backend.
FairSpec ==
    /\ Spec
    /\ WF_vars(Tick)
    /\ \A r \in Requests :
         /\ WF_vars(TimeOut(r)) /\ WF_vars(Wake(r)) /\ WF_vars(Reset(r))

-----------------------------------------------------------------------------
\* The loop uses its breaker the way BreakerCalls says.
UsesBreaker == Calls!Spec

\* All attempts of a request share one deadline: no request is in the loop
\* longer than if its whole deadline went to one attempt, or to one sleep
\* that ran over.
DeadlineShared ==
    \A r \in Requests : \/ req[r].elapsed <= MaxWaits * TotalDeadline
                        \/ req[r].elapsed < TotalDeadline + Lag

\* When the last attempt that begins in time is over at the latest.
LastEnd == TotalDeadline + (MaxWaits - 1) * RouteTimeout

\* What is over the deadline is the last attempt, but for its first wait, or
\* the lag of the last sleep.
OverrunBounded ==
    \A r \in Requests : \/ req[r].elapsed <= LastEnd
                        \/ req[r].elapsed < TotalDeadline + Lag

\* ADR-007: one request budgeted total_deadline_ms is in the loop no longer
\* than that.
DeadlineKept == \A r \in Requests : req[r].elapsed <= TotalDeadline

\* A method that is not idempotent reaches the backend at most once however
\* its attempt fails, and no request reaches it more than max_attempts times.
SentOnce ==
    \A r \in Requests :
        /\ req[r].sent <= MaxAttempts
        /\ req[r].method \notin IdempotentMethods /\ ~AllowNonIdempotent
             => req[r].sent <= 1

\* Every request that enters the loop is answered, whether the backend hangs,
\* fails for ever or alternates - provided an exchange has boundedly many
\* waits.
Answered ==
    \A r \in Requests : req[r].pc \in {"forward", "sleep"} ~> req[r].pc = "done"

\* docs/failure-model.md: a HALF_OPEN circuit closes or reopens on the
\* outcomes of its probes; while it waits for them it may turn requests away,
\* but not for ever.
HalfOpenNeverStuck == Calls!HalfOpenNeverStuck
=============================================================================
