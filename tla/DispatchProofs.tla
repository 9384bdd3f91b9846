--------------------------- MODULE DispatchProofs ---------------------------
(***************************************************************************)
(* Proofs about Dispatch, for every retry policy, breaker configuration    *)
(* and finite set of requests.                                             *)
(***************************************************************************)
EXTENDS Dispatch, TLAPS

\* One turn of the loop asks the breaker for one admission.
LEMMA TryAttemptCalls ==
    ASSUME NEW r \in Requests, NEW q, TryAttempt(r, q)
    PROVE  Calls!Next
  BY DEF TryAttempt, Calls!Next

\* Every step of the loop is a step of BreakerCalls, or leaves its variables
\* alone.
LEMMA StepCalls == [Next]_vars => [Calls!Next]_(Calls!vars)
  <1> SUFFICES ASSUME [Next]_vars PROVE [Calls!Next]_(Calls!vars)
    OBVIOUS
  <1>1. ASSUME NEW r \in Requests, NEW m \in Methods, Start(r, m)
        PROVE  Calls!Next
    BY <1>1, TryAttemptCalls DEF Start
  <1>2. ASSUME NEW r \in Requests, Wake(r)
        PROVE  Calls!Next
    BY <1>2, TryAttemptCalls DEF Wake
  <1>3. ASSUME NEW r \in Requests, NEW status \in Statuses, Respond(r, status)
        PROVE  Calls!Next
    BY <1>3 DEF Respond, Calls!Next
  <1>4. ASSUME NEW r \in Requests, FailToConnect(r) \/ TimeOut(r) \/ Raise(r)
        PROVE  Calls!Next
    BY <1>4 DEF FailToConnect, TimeOut, Raise, Calls!Next
  <1>5. ASSUME NEW r \in Requests, Reset(r) \/ NextWait(r)
        PROVE  UNCHANGED Calls!vars
    BY <1>5 DEF Reset, NextWait, Calls!vars
  <1>6. CASE HealthChange
    BY <1>6 DEF HealthChange, Calls!vars
  <1>7. CASE Tick
    BY <1>7 DEF Tick, Calls!Next
  <1>8. CASE UNCHANGED vars
    BY <1>8 DEF vars, Calls!vars
  <1> QED
    BY <1>1, <1>2, <1>3, <1>4, <1>5, <1>6, <1>7, <1>8 DEF Next

\* _dispatch_with_resilience uses its breaker as BreakerCalls says, so what is
\* proved of BreakerCalls holds of the gateway's loop.
THEOREM LoopUsesBreaker == Spec => UsesBreaker
  <1>1. Init => Calls!Init
    BY DEF Init
  <1> QED  BY <1>1, StepCalls, PTL DEF Spec, UsesBreaker, Calls!Spec

-----------------------------------------------------------------------------
(* What one request may do.  Sound holds wherever its loop stands; Fits    *)
(* adds what holds at each await, a being the age of its attempt.          *)

Repeatable(q) == q.method \in IdempotentMethods \/ AllowNonIdempotent

InTime(q) ==
    \/ q.elapsed <= MaxWaits * TotalDeadline /\ q.elapsed <= LastEnd
    \/ q.elapsed < TotalDeadline + Lag

Sound(q) ==
    /\ q \in Request
    /\ q.sent <= q.attempt
    /\ ~Repeatable(q) => q.sent <= 1
    /\ InTime(q)

\* A loop about to begin another turn.
Ready(q) ==
    /\ Sound(q)
    /\ q.attempt < MaxAttempts
    /\ Repeatable(q) \/ q.sent = 0

Fits(q, a) ==
    /\ Sound(q)
    /\ q.pc # "forward" => a = 0
    /\ q.pc = "sleep" => /\ Ready(q)
                         /\ q.elapsed + q.due < TotalDeadline
                         /\ q.due >= -Lag
    /\ q.pc = "forward" => /\ a <= q.elapsed
                           /\ q.due \in 0 .. q.timeout
                           /\ a + q.due <= q.waits * q.timeout
                           /\ q.timeout + q.elapsed - a <= TotalDeadline

\* The inductive invariant.
LoopInv ==
    /\ req \in [Requests -> Request]
    /\ age \in [Requests -> Nat]
    /\ routable \in BOOLEAN
    /\ out = {r \in Requests : req[r].pc = "forward"}
    /\ \A r \in Requests : Fits(req[r], age[r])

\* An attempt is no older than the timeouts of all the waits it may have.
LEMMA WithinWaits ==
    ASSUME NEW p \in Nat, NEW w \in 0 .. p, NEW t \in Nat, NEW a \in Nat,
           NEW d \in Nat, a + d <= w * t
    PROVE  a <= p * t
  <1> DEFINE k == p - w
  <1>1. k \in Nat /\ w \in Nat /\ p = w + k
    OBVIOUS
  <1> HIDE DEF k
  <1>2. k * t \in Nat /\ w * t \in Nat
    BY <1>1
  <1>3. p * t = w * t + k * t
    BY <1>1
  <1> QED  BY <1>2, <1>3

\* An attempt that began within the deadline with what was left of it as
\* timeout ends within MaxWaits deadlines.
LEMMA LastAttempt ==
    ASSUME NEW p \in Nat \ {0}, NEW d \in Nat, NEW t \in Nat, NEW e \in Nat,
           NEW a \in Nat, a <= e, a <= p * t, t + e - a <= d
    PROVE  e <= p * d
  <1> DEFINE k == p - 1
             u == d - t
  <1>1. k \in Nat /\ u \in Nat /\ p = k + 1 /\ d = t + u
    OBVIOUS
  <1> HIDE DEF k, u
  <1>2. k * u \in Nat /\ k * t \in Nat
    BY <1>1
  <1>3. p * t = k * t + t
    BY <1>1
  <1>4. p * d = k * t + k * u + t + u
    BY <1>1
  <1> QED  BY <1>1, <1>2, <1>3, <1>4

\* And it runs over by all its waits but one.
LEMMA LastOverrun ==
    ASSUME NEW p \in Nat \ {0}, NEW d \in Nat, NEW t \in Nat, NEW e \in Nat,
           NEW a \in Nat, a <= p * t, t + e - a <= d, NEW m \in Nat, t <= m
    PROVE  e <= d + (p - 1) * m
  <1> DEFINE k == p - 1
             u == m - t
  <1>1. k \in Nat /\ u \in Nat /\ p = k + 1 /\ m = t + u
    OBVIOUS
  <1> HIDE DEF k, u
  <1>2. k * u \in Nat /\ k * t \in Nat
    BY <1>1
  <1>3. p * t = k * t + t
    BY <1>1
  <1>4. k * m = k * t + k * u
    BY <1>1
  <1>5. e <= d + k * m
    BY <1>1, <1>2, <1>3, <1>4
  <1> QED  BY <1>5 DEF k

\* The numbers of the configuration.
LEMMA Numbers ==
    /\ MaxAttempts \in Nat \ {0} /\ MaxWaits \in Nat \ {0}
    /\ TotalDeadline \in Nat \ {0} /\ Lag \in Nat /\ RouteTimeout \in Nat
    /\ BaseBackoff \in Nat /\ AllowNonIdempotent \in BOOLEAN
    /\ MaxWaits * TotalDeadline \in Nat
    /\ 0 <= MaxWaits * TotalDeadline
    /\ LastEnd \in Nat
  <1>1. /\ MaxAttempts \in Nat \ {0} /\ MaxWaits \in Nat \ {0}
        /\ TotalDeadline \in Nat \ {0} /\ Lag \in Nat /\ RouteTimeout \in Nat
        /\ BaseBackoff \in Nat /\ AllowNonIdempotent \in BOOLEAN
    BY DispatchAssumption
  <1>2. \A x, y \in Nat : x * y \in Nat
    OBVIOUS
  <1>3. MaxWaits - 1 \in Nat
    BY <1>1
  <1>4. LastEnd \in Nat
    BY <1>1, <1>2, <1>3 DEF LastEnd
  <1> QED  BY <1>1, <1>2, <1>4

\* A step that replaces one request by one that fits keeps the invariant.
LEMMA Replaced ==
    ASSUME LoopInv, NEW r \in Requests, NEW q, Become(r, q),
           NEW a \in Nat, age' = [age EXCEPT ![r] = a], Fits(q, a),
           out' = IF q.pc = "forward" THEN out \cup {r} ELSE out \ {r},
           routable' \in BOOLEAN
    PROVE  LoopInv'
  <1>1. q \in Request
    BY DEF Fits, Sound
  <1>2. req' \in [Requests -> Request] /\ age' \in [Requests -> Nat]
    BY <1>1 DEF Become, LoopInv
  <1>3. \A s \in Requests : /\ req'[s] = IF s = r THEN q ELSE req[s]
                            /\ age'[s] = IF s = r THEN a ELSE age[s]
    BY DEF Become, LoopInv
  <1>4. \A s \in Requests : Fits(req'[s], age'[s])
    BY <1>3 DEF LoopInv
  <1>5. out' = {s \in Requests : req'[s].pc = "forward"}
    BY <1>3 DEF LoopInv
  <1> QED  BY <1>2, <1>4, <1>5 DEF LoopInv

(* A request's fields, their sets named so that the provers need not open  *)
(* them.                                                                   *)
Pcs == {"idle", "forward", "sleep", "done"}
Attempts == 0 .. MaxAttempts
Timeouts == 0 .. RouteTimeout
WaitCounts == 0 .. MaxWaits
Codes == 100 .. 999

\* A request's fields are of their types.
LEMMA RequestFields ==
    Request = [pc : Pcs, method : Methods, attempt : Attempts, elapsed : Nat,
               timeout : Timeouts, waits : WaitCounts, due : Int,
               last_status : Codes, stage : Stages, sent : Attempts]
  BY DEF Request, Pcs, Attempts, Timeouts, WaitCounts, Codes

\* What Answer makes of a request.
LeftWith(q, status, stage) ==
    [q EXCEPT !.pc = "done", !.timeout = 0, !.waits = 0, !.due = 0,
              !.last_status = status, !.stage = stage]

\* A loop that has been left fits.
LEMMA AnswerFits ==
    ASSUME NEW q, Sound(q), NEW status \in Codes, NEW stage \in Stages
    PROVE  /\ Fits(LeftWith(q, status, stage), 0)
           /\ LeftWith(q, status, stage).pc = "done"
  <1> DEFINE p == "done"
             z == 0
             h == [q EXCEPT !.pc = p, !.timeout = z, !.waits = z, !.due = z,
                            !.last_status = status, !.stage = stage]
  <1>1. /\ q \in Request /\ p \in Pcs /\ z \in Timeouts /\ z \in Int
        /\ z \in WaitCounts
    BY Numbers DEF Sound, Pcs, Timeouts, WaitCounts
  <1> HIDE DEF p, z
  <1>2. /\ h \in Request /\ h.pc = p /\ h.sent = q.sent
        /\ h.attempt = q.attempt /\ h.method = q.method
        /\ h.elapsed = q.elapsed
    BY <1>1, RequestFields
  <1> HIDE DEF h
  <1>3. Sound(h)
    BY <1>2 DEF Sound, Repeatable, InTime
  <1>4. Fits(h, 0) /\ h.pc = "done"
    BY <1>2, <1>3 DEF Fits, p
  <1>5. LeftWith(q, status, stage) = h
    BY DEF LeftWith, h, p, z
  <1> QED  BY <1>4, <1>5, Zenon

\* So does one that waits for an attempt just sent, with no more of the
\* deadline than is left.
LEMMA ForwardFits ==
    ASSUME NEW q, Ready(q), Remaining(q.elapsed) > 0
    PROVE  Fits([[q EXCEPT !.attempt = @ + 1] EXCEPT
                   !.pc = "forward",
                   !.timeout = Shorter(Remaining(q.elapsed), RouteTimeout),
                   !.waits = 1,
                   !.due = Shorter(Remaining(q.elapsed), RouteTimeout),
                   !.sent = @ + 1], 0)
  <1> DEFINE p == "forward"
             w == 1
             n == q.attempt + 1
             t == Shorter(Remaining(q.elapsed), RouteTimeout)
             m == q.sent + 1
             g == [q EXCEPT !.attempt = n]
             h == [g EXCEPT !.pc = p, !.timeout = t, !.waits = w, !.due = t,
                            !.sent = m]
  <1>1. /\ q \in Request /\ q.attempt \in Nat /\ q.sent \in Nat
        /\ q.elapsed \in Nat
        /\ q.attempt < MaxAttempts /\ q.sent <= q.attempt /\ InTime(q)
        /\ Repeatable(q) \/ q.sent = 0
    BY DEF Ready, Sound, Request
  <1>2. /\ t \in Timeouts /\ t + q.elapsed <= TotalDeadline
        /\ t <= TotalDeadline /\ t \in Nat /\ t \in Int
    BY <1>1, Numbers DEF Shorter, Remaining, Timeouts
  <1>3. /\ p \in Pcs /\ w \in WaitCounts /\ n \in Attempts /\ m \in Attempts
        /\ m <= n
        /\ Repeatable(q) \/ m <= 1
    BY <1>1, Numbers DEF Pcs, Attempts, WaitCounts
  <1>4. g.sent = q.sent
    BY <1>1, RequestFields
  <1> HIDE DEF p, w, n, t, m
  <1>5. /\ g \in Request /\ g.attempt = n /\ g.method = q.method
        /\ g.elapsed = q.elapsed
    BY <1>1, <1>3, RequestFields
  <1> HIDE DEF g
  <1>6. /\ h \in Request /\ h.pc = p /\ h.sent = m /\ h.attempt = g.attempt
        /\ h.method = g.method /\ h.elapsed = g.elapsed /\ h.timeout = t
        /\ h.waits = w /\ h.due = t
    BY <1>2, <1>3, <1>5, RequestFields
  <1> HIDE DEF h
  <1>7. Sound(h)
    BY <1>1, <1>3, <1>5, <1>6 DEF Sound, Repeatable, InTime
  <1>8. /\ 0 <= q.elapsed /\ t \in 0 .. t /\ 0 + t <= w * t
        /\ t + q.elapsed - 0 <= TotalDeadline
    BY <1>1, <1>2, Numbers DEF w
  <1>9. Fits(h, 0)
    BY <1>5, <1>6, <1>7, <1>8 DEF Fits, p
  <1> QED  BY <1>4, <1>9 DEF h, g, p, w, n, t, m

\* And one that sleeps for a backoff the deadline has room for.
LEMMA SleepFits ==
    ASSUME NEW q, Ready(q), NEW backoff \in Nat, HasBudgetFor(q.elapsed, backoff)
    PROVE  Fits([q EXCEPT !.pc = "sleep", !.timeout = 0, !.waits = 0,
                          !.due = backoff], 0)
  <1> DEFINE p == "sleep"
             z == 0
             h == [q EXCEPT !.pc = p, !.timeout = z, !.waits = z, !.due = backoff]
  <1>1. /\ q \in Request /\ p \in Pcs /\ z \in Timeouts /\ backoff \in Int
        /\ z \in WaitCounts /\ q.elapsed \in Nat
    BY Numbers DEF Ready, Sound, Pcs, Timeouts, WaitCounts, Request
  <1>2. q.elapsed + backoff < TotalDeadline /\ backoff >= -Lag
    BY <1>1, Numbers DEF HasBudgetFor, Remaining
  <1> HIDE DEF p, z
  <1>3. /\ h \in Request /\ h.pc = p /\ h.sent = q.sent
        /\ h.attempt = q.attempt /\ h.method = q.method
        /\ h.elapsed = q.elapsed /\ h.due = backoff
    BY <1>1, RequestFields
  <1> HIDE DEF h
  <1>4. Ready(h)
    BY <1>3 DEF Ready, Sound, Repeatable, InTime
  <1>5. Fits(h, 0)
    BY <1>2, <1>3, <1>4 DEF Fits, Ready, p
  <1> QED  BY <1>5 DEF h, p, z

\* One turn of the loop keeps the invariant.
LEMMA TryAttemptKeeps ==
    ASSUME LoopInv, NEW r \in Requests, NEW q, Ready(q),
           req[r].pc # "forward", TryAttempt(r, q), UNCHANGED routable
    PROVE  LoopInv'
  <1> DEFINE q1 == [q EXCEPT !.attempt = @ + 1]
  <1>1. /\ r \notin out /\ age[r] = 0 /\ age \in [Requests -> Nat]
        /\ routable' \in BOOLEAN /\ age = [age EXCEPT ![r] = 0]
    BY DEF LoopInv, Fits
  <1>2. Sound(q1) /\ q1.last_status = q.last_status /\ q.last_status \in Codes
    <2> DEFINE n == q.attempt + 1
    <2>1. /\ q \in Request /\ n \in Attempts /\ q.sent <= n
          /\ q.last_status \in Codes
      BY Numbers DEF Ready, Sound, Request, Attempts, Codes
    <2>2. q1 = [q EXCEPT !.attempt = n]
      OBVIOUS
    <2> HIDE DEF n
    <2>3. /\ q1 \in Request /\ q1.attempt = n /\ q1.sent = q.sent
          /\ q1.method = q.method /\ q1.elapsed = q.elapsed
          /\ q1.last_status = q.last_status
      BY <2>1, <2>2, RequestFields
    <2> HIDE DEF q1
    <2> QED  BY <2>1, <2>3 DEF Ready, Sound, Repeatable, InTime
  <1>3. ASSUME NEW status \in Codes, NEW stage \in Stages,
               Answer(r, q1, status, stage), out' = out, age' = age
        PROVE  LoopInv'
    <2> DEFINE h == LeftWith(q1, status, stage)
    <2> HIDE DEF q1
    <2>1. Become(r, h)
      BY <1>3, Zenon DEF Answer, LeftWith
    <2>2. Fits(h, 0) /\ h.pc # "forward"
      <3>1. Fits(h, 0) /\ h.pc = "done"
        BY <1>2, AnswerFits, Zenon
      <3> QED  BY <3>1
    <2> HIDE DEF h
    <2>3. out' = IF h.pc = "forward" THEN out \cup {r} ELSE out \ {r}
      BY <1>1, <1>3, <2>2
    <2>4. age' = [age EXCEPT ![r] = 0] /\ 0 \in Nat
      BY <1>1, <1>3
    <2> QED  BY <1>1, <2>1, <2>2, <2>3, <2>4, Replaced
  <1> HIDE DEF q1
  <1>4. CASE Calls!Refused(r) /\ Answer(r, q1, 503, "circuit_breaker")
    <2>1. out' = out /\ age' = age
      BY <1>4 DEF Calls!Refused
    <2>2. 503 \in Codes /\ "circuit_breaker" \in Stages
      BY DEF Codes, Stages
    <2> QED  BY <1>3, <1>4, <2>1, <2>2
  <1>5. CASE Calls!AdmittedInVain(r) /\ Answer(r, q1, 503, "backend_selection")
    <2>1. out' = out /\ age' = age
      BY <1>5 DEF Calls!AdmittedInVain
    <2>2. 503 \in Codes /\ "backend_selection" \in Stages
      BY DEF Codes, Stages
    <2> QED  BY <1>3, <1>5, <2>1, <2>2
  <1>6. CASE Calls!AdmittedInVain(r) /\ Answer(r, q1, q.last_status, "proxy")
    <2>1. out' = out /\ age' = age
      BY <1>6 DEF Calls!AdmittedInVain
    <2>2. "proxy" \in Stages
      BY DEF Stages
    <2> QED  BY <1>2, <1>3, <1>6, <2>1, <2>2
  <1> DEFINE f == [q1 EXCEPT
                     !.pc = "forward",
                     !.timeout = Shorter(Remaining(q.elapsed), RouteTimeout),
                     !.waits = 1,
                     !.due = Shorter(Remaining(q.elapsed), RouteTimeout),
                     !.sent = @ + 1]
  <1>7. CASE Remaining(q.elapsed) > 0 /\ Calls!Admitted(r) /\ Become(r, f)
    <2>1. out' = out \cup {r} /\ age' = age
      BY <1>7 DEF Calls!Admitted
    <2>2. Fits(f, 0)
      BY <1>7, ForwardFits DEF q1
    <2>3. f.pc = "forward"
      BY <1>2, RequestFields DEF Sound
    <2>4. Become(r, f)
      BY <1>7
    <2> HIDE DEF f
    <2>5. out' = IF f.pc = "forward" THEN out \cup {r} ELSE out \ {r}
      BY <2>1, <2>3
    <2>6. age' = [age EXCEPT ![r] = 0] /\ 0 \in Nat
      BY <1>1, <2>1
    <2> QED  BY <1>1, <2>2, <2>4, <2>5, <2>6, Replaced
  <1> QED
    BY <1>4, <1>5, <1>6, <1>7, Zenon DEF TryAttempt, q1

\* Where an attempt ends, its loop is sound, in time above all.
LEMMA AttemptEnds ==
    ASSUME LoopInv, NEW r \in Requests, req[r].pc = "forward",
           Calls!Ended(r)
    PROVE  /\ Sound(req[r])
           /\ age' = [age EXCEPT ![r] = 0]
           /\ out' = out \ {r}
  BY DEF LoopInv, Fits, Calls!Ended

\* After an attempt the loop may be left with any result.
LEMMA AnswerKeeps ==
    ASSUME LoopInv, NEW r \in Requests, req[r].pc = "forward", Calls!Ended(r),
           NEW q, Sound(q), NEW status \in Codes, NEW stage \in Stages,
           Answer(r, q, status, stage), UNCHANGED routable
    PROVE  LoopInv'
  <1> DEFINE h == LeftWith(q, status, stage)
  <1>1. Fits(h, 0) /\ h.pc = "done"
    BY AnswerFits, Zenon
  <1>2. Become(r, h)
    BY Zenon DEF Answer, LeftWith
  <1> HIDE DEF h
  <1>3. /\ age' = [age EXCEPT ![r] = 0] /\ 0 \in Nat /\ routable' \in BOOLEAN
        /\ out' = IF h.pc = "forward" THEN out \cup {r} ELSE out \ {r}
    BY <1>1, AttemptEnds DEF LoopInv
  <1> QED  BY <1>1, <1>2, <1>3, Replaced

\* From a failed attempt the loop goes on to sleep, or is left.
LEMMA RetryKeeps ==
    ASSUME LoopInv, NEW r \in Requests, req[r].pc = "forward", Calls!Ended(r),
           NEW q, Sound(q), NEW kind, RetryOrGiveUp(r, q, kind),
           UNCHANGED routable
    PROVE  LoopInv'
  <1>1. /\ age' = [age EXCEPT ![r] = 0] /\ out' = out \ {r} /\ 0 \in Nat
        /\ routable' \in BOOLEAN
    BY AttemptEnds DEF LoopInv
  <1>2. ASSUME NEW h, Fits(h, 0), h.pc # "forward", Become(r, h)
        PROVE  LoopInv'
    <2>1. out' = IF h.pc = "forward" THEN out \cup {r} ELSE out \ {r}
      BY <1>1, <1>2
    <2> QED  BY <1>1, <1>2, <2>1, Replaced
  <1>3. CASE Answer(r, q, q.last_status, "proxy")
    <2>1. q.last_status \in Codes /\ "proxy" \in Stages
      BY DEF Sound, Request, Stages, Codes
    <2> QED  BY <1>3, <2>1, AnswerKeeps
  <1>4. ASSUME IsRetryable(q.method, kind, breaker'.state = "OPEN"),
               ~Exhausted(q),
               NEW backoff \in Backoffs(q.attempt),
               HasBudgetFor(q.elapsed, backoff),
               Become(r, [q EXCEPT !.pc = "sleep", !.timeout = 0, !.waits = 0,
                                   !.due = backoff])
        PROVE  LoopInv'
    <2> DEFINE h == [q EXCEPT !.pc = "sleep", !.timeout = 0, !.waits = 0,
                              !.due = backoff]
    <2>1. Ready(q) /\ q \in Request
      <3>1. q.attempt < MaxAttempts
        BY <1>4, Numbers DEF Exhausted, Sound, Request
      <3> QED  BY <1>4, <3>1 DEF Ready, Sound, IsRetryable, Repeatable
    <2>2. backoff \in Nat
      <3>1. \A x : 0 .. x \subseteq Nat
        BY SMTT(30)
      <3> QED  BY <1>4, <3>1, Zenon DEF Backoffs
    <2>3. Fits(h, 0) /\ h.pc = "sleep"
      BY <1>4, <2>1, <2>2, SleepFits, RequestFields
    <2>4. Become(r, h)
      BY <1>4
    <2> HIDE DEF h
    <2> QED  BY <1>2, <2>3, <2>4
  <1> QED
    BY <1>3, <1>4, Zenon DEF RetryOrGiveUp

\* A pass of the loop's clock: every attempt and every sleep gets older.
LEMMA TickKeeps ==
    ASSUME LoopInv, Tick
    PROVE  LoopInv'
  <1>1. /\ req \in [Requests -> Request] /\ age \in [Requests -> Nat]
        /\ out = {r \in Requests : req[r].pc = "forward"}
        /\ \A r \in Requests : Fits(req[r], age[r])
        /\ routable \in BOOLEAN
    BY DEF LoopInv
  <1>2. /\ \A r \in Requests :
             /\ req[r].pc = "forward" => req[r].due > 0
             /\ req[r].pc = "sleep" => req[r].due > -Lag
        /\ req' = [r \in Requests |-> Older(req[r])]
        /\ age' = [c \in Requests |-> IF c \in out THEN age[c] + 1 ELSE 0]
        /\ out' = out /\ routable' = routable
    BY DEF Tick, Calls!Tick
  <1>3. ASSUME NEW r \in Requests
        PROVE  /\ req'[r] \in Request /\ age'[r] \in Nat
               /\ req'[r].pc = req[r].pc
               /\ Fits(req'[r], age'[r])
    <2> DEFINE q == req[r]
               a == age[r]
               e == q.elapsed + 1
               d == q.due - 1
    <2>1. /\ q \in Request /\ a \in Nat /\ Fits(q, a)
          /\ q.pc = "forward" => q.due > 0
          /\ q.pc = "sleep" => q.due > -Lag
          /\ req'[r] = Older(q)
          /\ age'[r] = IF q.pc = "forward" THEN a + 1 ELSE 0
      BY <1>1, <1>2, <1>3
    <2> HIDE DEF q, a
    <2>2. /\ e \in Nat /\ d \in Int /\ q.elapsed \in Nat /\ q.due \in Int
          /\ q.timeout \in Nat /\ q.waits \in 0 .. MaxWaits
      BY <2>1 DEF Request
    <2>3. CASE q.pc = "forward"
      <3> DEFINE h == [q EXCEPT !.elapsed = e, !.due = d]
      <3>1. req'[r] = h /\ age'[r] = a + 1
        BY <2>1, <2>3 DEF Older
      <3>2. q.waits * q.timeout \in Nat
        BY <2>2, Numbers
      <3>3. /\ a + 1 \in Nat /\ a + 1 <= e /\ d \in 0 .. q.timeout
            /\ (a + 1) + d <= q.waits * q.timeout
            /\ q.timeout + e - (a + 1) <= TotalDeadline
        <4>1. /\ a <= q.elapsed /\ q.due \in 0 .. q.timeout /\ q.due > 0
              /\ a + q.due <= q.waits * q.timeout
              /\ q.timeout + q.elapsed - a <= TotalDeadline
          BY <2>1, <2>3 DEF Fits
        <4> QED  BY <2>1, <2>2, <3>2, <4>1, Numbers
      <3>8. a + 1 <= MaxWaits * q.timeout
        <4>1. d \in Nat
          BY <2>2, <3>3
        <4> HIDE DEF d
        <4> QED  BY <2>2, <3>3, <4>1, Numbers, WithinWaits
      <3>4. e <= MaxWaits * TotalDeadline /\ e <= LastEnd
        <4>1. q.timeout <= RouteTimeout
          BY <2>1 DEF Request
        <4> HIDE DEF e
        <4>2. e <= MaxWaits * TotalDeadline
          BY <2>2, <3>3, <3>8, Numbers, LastAttempt
        <4>3. e <= LastEnd
          BY <2>2, <3>3, <3>8, <4>1, Numbers, LastOverrun DEF LastEnd
        <4> QED  BY <4>2, <4>3
      <3> HIDE DEF e, d
      <3>5. /\ h \in Request /\ h.pc = q.pc /\ h.sent = q.sent
            /\ h.attempt = q.attempt /\ h.method = q.method
            /\ h.elapsed = e /\ h.timeout = q.timeout /\ h.due = d
            /\ h.waits = q.waits
        BY <2>1, <2>2, RequestFields
      <3> HIDE DEF h
      <3>6. Sound(h)
        BY <2>1, <3>4, <3>5 DEF Fits, Sound, Repeatable, InTime
      <3>7. Fits(h, a + 1)
        BY <2>3, <3>3, <3>5, <3>6 DEF Fits
      <3> QED  BY <3>1, <3>3, <3>5, <3>7 DEF q
    <2>4. CASE q.pc = "sleep"
      <3> DEFINE h == [q EXCEPT !.elapsed = e, !.due = d]
      <3>1. req'[r] = h /\ age'[r] = 0
        BY <2>1, <2>4 DEF Older
      <3>2. /\ e + d < TotalDeadline /\ d >= -Lag /\ e < TotalDeadline + Lag
        <4>1. q.elapsed + q.due < TotalDeadline /\ q.due > -Lag
          BY <2>1, <2>4 DEF Fits
        <4> QED  BY <2>2, <4>1, Numbers
      <3> HIDE DEF e, d
      <3>3. /\ h \in Request /\ h.pc = q.pc /\ h.sent = q.sent
            /\ h.attempt = q.attempt /\ h.method = q.method
            /\ h.elapsed = e /\ h.due = d
        BY <2>1, <2>2, RequestFields
      <3> HIDE DEF h
      <3>4. Ready(h)
        BY <2>1, <2>4, <3>2, <3>3 DEF Fits, Ready, Sound, Repeatable, InTime
      <3>5. Fits(h, 0)
        BY <2>4, <3>2, <3>3, <3>4 DEF Fits, Ready
      <3> QED  BY <3>1, <3>3, <3>5 DEF q
    <2>5. CASE q.pc \notin {"forward", "sleep"}
      <3>1. req'[r] = q /\ age'[r] = 0
        BY <2>1, <2>5 DEF Older
      <3>2. Fits(q, 0)
        BY <2>1, <2>5 DEF Fits
      <3> QED  BY <2>1, <3>1, <3>2 DEF q
    <2> QED  BY <2>3, <2>4, <2>5
  <1>4. req' \in [Requests -> Request] /\ age' \in [Requests -> Nat]
    <2>1. \A r \in Requests : req'[r] \in Request /\ age'[r] \in Nat
      BY <1>3
    <2>2. /\ req' = [r \in Requests |-> req'[r]]
          /\ age' = [r \in Requests |-> age'[r]]
      BY <1>2
    <2> QED  BY <2>1, <2>2
  <1>5. out' = {r \in Requests : req'[r].pc = "forward"}
    BY <1>1, <1>2, <1>3
  <1> QED  BY <1>1, <1>2, <1>3, <1>4, <1>5 DEF LoopInv

\* The next wait of an attempt begins with a whole timeout.
LEMMA NextWaitKeeps ==
    ASSUME LoopInv, NEW r \in Requests, NextWait(r)
    PROVE  LoopInv'
  <1> DEFINE q == req[r]
             a == age[r]
             w == q.waits + 1
             t == q.timeout
             h == [q EXCEPT !.waits = w, !.due = t]
  <1>1. /\ q \in Request /\ a \in Nat /\ Fits(q, a) /\ q.pc = "forward"
        /\ q.waits < MaxWaits /\ Become(r, h) /\ r \in out
        /\ age' = age /\ out' = out /\ routable' \in BOOLEAN
        /\ age = [age EXCEPT ![r] = a]
    BY DEF NextWait, LoopInv
  <1> HIDE DEF q, a
  <1>2. /\ q.waits \in Nat /\ t \in Nat /\ t \in Int /\ w \in WaitCounts
    BY <1>1, Numbers DEF Request, WaitCounts
  <1>3. /\ a <= q.elapsed /\ q.due \in 0 .. t /\ a + q.due <= q.waits * t
        /\ t + q.elapsed - a <= TotalDeadline
    BY <1>1 DEF Fits
  <1>4. t \in 0 .. t /\ a + t <= w * t
    <2>1. w * t = q.waits * t + t /\ q.waits * t \in Nat
      BY <1>2
    <2> QED  BY <1>1, <1>2, <1>3, <2>1
  <1> HIDE DEF w
  <1>5. /\ h \in Request /\ h.pc = q.pc /\ h.sent = q.sent
        /\ h.attempt = q.attempt /\ h.method = q.method
        /\ h.elapsed = q.elapsed /\ h.timeout = t /\ h.due = t /\ h.waits = w
    <2> DEFINE v == t
    <2>1. v \in Int /\ h = [q EXCEPT !.waits = w, !.due = v]
      BY <1>2
    <2> HIDE DEF v
    <2>2. /\ h \in Request /\ h.pc = q.pc /\ h.sent = q.sent
          /\ h.attempt = q.attempt /\ h.method = q.method
          /\ h.elapsed = q.elapsed /\ h.timeout = q.timeout
          /\ h.due = v /\ h.waits = w
      BY <1>1, <1>2, <2>1, RequestFields
    <2> QED  BY <2>2 DEF v
  <1> HIDE DEF h, t
  <1>6. Fits(h, a)
    BY <1>1, <1>3, <1>4, <1>5 DEF Fits, Sound, Repeatable, InTime
  <1>7. out' = IF h.pc = "forward" THEN out \cup {r} ELSE out \ {r}
    BY <1>1, <1>5
  <1> QED  BY <1>1, <1>6, <1>7, Replaced

\* A request not yet in the loop is ready for its first turn.
LEMMA NewReady ==
    ASSUME NEW m \in Methods
    PROVE  Ready(NewRequest(m)) /\ Fits(NewRequest(m), 0)
  <1> DEFINE q == NewRequest(m)
  <1>1. /\ q.pc = "idle" /\ q.attempt = 0 /\ q.sent = 0 /\ q.elapsed = 0
        /\ q \in Request
    BY Numbers DEF NewRequest, Request, Stages
  <1> HIDE DEF q
  <1>2. Sound(q) /\ Ready(q)
    BY <1>1, Numbers DEF Ready, Sound, InTime
  <1>3. Fits(q, 0)
    BY <1>1, <1>2 DEF Fits
  <1> QED  BY <1>2, <1>3 DEF q

\* No request is in the loop yet.
LEMMA InitLoop == Init => LoopInv
  <1> SUFFICES ASSUME Init PROVE LoopInv
    OBVIOUS
  <1>1. PICK m \in Methods : req = [r \in Requests |-> NewRequest(m)]
    BY DEF Init
  <1>2. NewRequest(m) \in Request /\ NewRequest(m).pc = "idle" /\ Fits(NewRequest(m), 0)
    BY NewReady DEF Fits, Sound, NewRequest
  <1>3. out = {} /\ age = [r \in Requests |-> 0] /\ routable = FALSE
    BY DEF Init, Calls!Init
  <1> QED  BY <1>1, <1>2, <1>3 DEF LoopInv

\* Every step keeps the invariant.
LEMMA NextLoop == LoopInv /\ [Next]_vars => LoopInv'
  <1> SUFFICES ASSUME LoopInv, [Next]_vars PROVE LoopInv'
    OBVIOUS
  <1>1. \A r \in Requests : req[r] \in Request /\ Fits(req[r], age[r])
    BY DEF LoopInv
  <1>2. ASSUME NEW r \in Requests, NEW m \in Methods, Start(r, m)
        PROVE  LoopInv'
    BY <1>2, NewReady, TryAttemptKeeps DEF Start
  <1>3. ASSUME NEW r \in Requests, Wake(r)
        PROVE  LoopInv'
    <2>1. Ready(req[r])
      BY <1>1, <1>3 DEF Wake, Fits
    <2> QED  BY <1>3, <2>1, TryAttemptKeeps DEF Wake
  <1>4. ASSUME NEW r \in Requests, NEW status \in Statuses, Respond(r, status)
        PROVE  LoopInv'
    <2>1. status \in Codes /\ "ok" \in Stages
      BY DispatchAssumption DEF Stages, Codes
    <2>2. req[r].pc = "forward" /\ Sound(req[r]) /\ UNCHANGED routable
      BY <1>1, <1>4 DEF Respond, Fits
    <2>3. CASE Calls!Ended(r) /\ Answer(r, req[r], status, "ok")
      BY <2>1, <2>2, <2>3, AnswerKeeps
    <2> DEFINE q == [req[r] EXCEPT !.last_status = status]
    <2>4. CASE Calls!Ended(r) /\ RetryOrGiveUp(r, q, ClassifyHttpStatus(status))
      <3>1. /\ q \in Request /\ q.sent = req[r].sent
            /\ q.attempt = req[r].attempt /\ q.method = req[r].method
            /\ q.elapsed = req[r].elapsed
        <4>1. status \in Codes /\ req[r] \in Request
          BY <1>1, <2>1
        <4> QED  BY <4>1, RequestFields
      <3> HIDE DEF q
      <3>2. Sound(q)
        BY <2>2, <3>1 DEF Sound, Repeatable, InTime
      <3> QED  BY <2>2, <2>4, <3>2, RetryKeeps
    <2> QED
      BY <1>4, <2>3, <2>4
      DEF Respond, Calls!Succeeded, Calls!Failed, Calls!Unrecorded
  <1>5. ASSUME NEW r \in Requests, FailToConnect(r) \/ TimeOut(r)
        PROVE  LoopInv'
    <2>1. /\ req[r].pc = "forward" /\ Sound(req[r]) /\ UNCHANGED routable
          /\ Calls!Ended(r)
      BY <1>1, <1>5 DEF FailToConnect, TimeOut, Calls!Failed, Fits
    <2>2. CASE RetryOrGiveUp(r, req[r], "CONNECTION_ERROR")
      BY <2>1, <2>2, RetryKeeps
    <2>3. CASE RetryOrGiveUp(r, req[r], "TIMEOUT")
      BY <2>1, <2>3, RetryKeeps
    <2> QED  BY <1>5, <2>2, <2>3 DEF FailToConnect, TimeOut
  <1>6. ASSUME NEW r \in Requests, Raise(r)
        PROVE  LoopInv'
    <2>1. /\ req[r].pc = "forward" /\ Sound(req[r]) /\ UNCHANGED routable
          /\ Calls!Ended(r) /\ Answer(r, req[r], 500, "raised")
          /\ 500 \in Codes /\ "raised" \in Stages
      BY <1>1, <1>6 DEF Raise, Calls!Unrecorded, Fits, Stages, Codes
    <2> QED  BY <2>1, AnswerKeeps
  <1>7. ASSUME NEW r \in Requests, Reset(r)
        PROVE  LoopInv'
    <2> DEFINE h == NewRequest(req[r].method)
    <2>1. /\ Become(r, h) /\ req[r].pc = "done" /\ age[r] = 0 /\ r \notin out
          /\ age' = age /\ out' = out /\ routable' \in BOOLEAN
      BY <1>1, <1>7 DEF Reset, Fits, LoopInv
    <2>2. Fits(h, 0) /\ h.pc = "idle"
      <3>1. req[r].method \in Methods
        BY <1>1 DEF Request
      <3>2. Fits(h, 0)
        BY <3>1, NewReady
      <3>3. h.pc = "idle"
        BY DEF NewRequest
      <3> QED  BY <3>2, <3>3
    <2> HIDE DEF h
    <2>3. /\ age' = [age EXCEPT ![r] = 0] /\ 0 \in Nat
          /\ out' = IF h.pc = "forward" THEN out \cup {r} ELSE out \ {r}
      BY <2>1, <2>2 DEF LoopInv
    <2> QED  BY <2>1, <2>2, <2>3, Replaced
  <1>11. ASSUME NEW r \in Requests, NextWait(r)
         PROVE  LoopInv'
    BY <1>11, NextWaitKeeps
  <1>8. CASE HealthChange
    BY <1>8 DEF HealthChange, LoopInv
  <1>9. CASE Tick
    BY <1>9, TickKeeps
  <1>10. CASE UNCHANGED vars
    BY <1>10 DEF vars, LoopInv
  <1> QED
    BY <1>2, <1>3, <1>4, <1>5, <1>6, <1>7, <1>8, <1>9, <1>10, <1>11
    DEF Next

\* All attempts and backoffs of a request draw on one DeadlineTracker: however
\* its attempts fail, a request leaves the loop within MaxWaits deadlines,
\* or within the deadline and the lateness of one sleep.
THEOREM DeadlineAlwaysShared == Spec => []DeadlineShared
  <1>1. LoopInv => DeadlineShared
    BY DEF LoopInv, Fits, Sound, InTime, DeadlineShared
  <1> QED  BY <1>1, InitLoop, NextLoop, PTL DEF Spec

\* How far a request of the loop outlives its deadline, and no further: by the
\* waits of its last attempt beyond the first, each of at most the route's
\* timeout, or by what its last sleep overruns.
THEOREM OverrunIsOneAttempt == Spec => []OverrunBounded
  <1>1. LoopInv => OverrunBounded
    BY DEF LoopInv, Fits, Sound, InTime, LastEnd, OverrunBounded
  <1> QED  BY <1>1, InitLoop, NextLoop, PTL DEF Spec

\* is_retryable keeps a method that is not idempotent from reaching the
\* backend twice, and max_attempts bounds the others.
THEOREM NeverSentTwice == Spec => []SentOnce
  <1>1. LoopInv => SentOnce
    BY DEF LoopInv, Fits, Sound, Repeatable, Request, SentOnce
  <1> QED  BY <1>1, InitLoop, NextLoop, PTL DEF Spec

-----------------------------------------------------------------------------
(* What BreakerProofs shows of every use of a breaker holds of this one.   *)
BP == INSTANCE BreakerProofs WITH Callers <- Requests,
                                  AttemptMax <- MaxWaits * RouteTimeout

\* Calls and BP are the same specification.
LEMMA SameCalls ==
    /\ Calls!Init => BP!Init
    /\ [Calls!Next]_(Calls!vars) => [BP!Next]_(BP!vars)
    /\ BP!Inv => Calls!TypeOK
  <1>1. Calls!Init => BP!Init
    BY DEF Calls!Init, BP!Init, Calls!NewBreaker, BP!NewBreaker,
           Calls!NeverOpened, BP!NeverOpened
  <1>2. /\ \A b : Calls!ReadState(b) = BP!ReadState(b)
        /\ \A b : Calls!Admits(b) <=> BP!Admits(b)
        /\ \A b : Calls!Admit(b) = BP!Admit(b)
        /\ \A b : Calls!RecordSuccess(b) = BP!RecordSuccess(b)
        /\ \A b : Calls!RecordFailure(b) = BP!RecordFailure(b)
        /\ \A b : Calls!Elapse(b) = BP!Elapse(b)
        /\ Calls!MoreEvidence = BP!MoreEvidence
    BY SMTT(30) DEF Calls!ReadState, BP!ReadState, Calls!Admits, BP!Admits, Calls!Admit,
           BP!Admit, Calls!RecordSuccess, BP!RecordSuccess,
           Calls!RecordFailure, BP!RecordFailure, Calls!Elapse, BP!Elapse,
           Calls!MoreEvidence, BP!MoreEvidence, Calls!OneLess, BP!OneLess,
           Calls!MaybeOpen, BP!MaybeOpen, Calls!RateReached, BP!RateReached,
           Calls!FailuresIn, BP!FailuresIn, Calls!Remember, BP!Remember,
           Calls!TransitionToOpen, BP!TransitionToOpen,
           Calls!TransitionToHalfOpen, BP!TransitionToHalfOpen,
           Calls!TransitionToClosed, BP!TransitionToClosed,
           Calls!NewBreaker, BP!NewBreaker, Calls!NeverOpened, BP!NeverOpened
  <1>3. [Calls!Next]_(Calls!vars) => [BP!Next]_(BP!vars)
    BY <1>2
    DEF Calls!Next, BP!Next, Calls!vars, BP!vars, Calls!Admitted, BP!Admitted,
        Calls!Refused, BP!Refused, Calls!AdmittedInVain, BP!AdmittedInVain,
        Calls!Succeeded, BP!Succeeded, Calls!Failed, BP!Failed,
        Calls!Unrecorded, BP!Unrecorded, Calls!Ended, BP!Ended, Calls!Tick,
        BP!Tick
  <1>4. BP!TypeOK => Calls!TypeOK
    BY DEF BP!TypeOK, Calls!TypeOK, BP!Breaker, Calls!Breaker,
           BP!CircuitState, Calls!CircuitState, BP!NeverOpened,
           Calls!NeverOpened
  <1> QED  BY <1>1, <1>3, <1>4, SMTT(30) DEF BP!Inv

\* The constants of the loop satisfy what BreakerCalls assumes of its own.
LEMMA CallsAssumptions == BP!CallersAssumption /\ BP!ConfigAssumption
  <1>1. MaxWaits * RouteTimeout \in Nat
    <2>1. MaxWaits \in Nat /\ RouteTimeout \in Nat
      BY Numbers
    <2> QED  BY <2>1
  <1>2. BP!IsFiniteSet(Requests)
    BY DispatchAssumption, Zenon DEF BP!IsFiniteSet, IsFiniteSet
  <1> QED
    BY <1>1, <1>2, DispatchAssumption, ConfigAssumption, SMTT(30)
    DEF BP!CallersAssumption, BP!ConfigAssumption

\* The loop and its breaker keep their types; the attempts the breaker counts
\* as out are those whose loop awaits forward().
THEOREM LoopTypeCorrect == Spec => []TypeOK
  <1>1. Init => BP!Inv
    BY SameCalls, CallsAssumptions, BP!InitInv, SMTT(30) DEF Init
  <1>2. BP!Inv /\ [Next]_vars => BP!Inv'
    <2>1. [Next]_vars => [BP!Next]_(BP!vars)
      BY SameCalls, StepCalls
    <2>2. BP!Inv /\ [BP!Next]_(BP!vars) => BP!Inv'
      BY CallsAssumptions, BP!NextInv, SMTT(30)
    <2> QED  BY <2>1, <2>2, SMTT(30)
  <1>3. LoopInv /\ BP!Inv => TypeOK
    BY SameCalls, SMTT(30) DEF LoopInv, TypeOK
  <1> QED  BY <1>1, <1>2, <1>3, InitLoop, NextLoop, PTL DEF Spec

\* A behaviour of the loop is one of the breaker and its callers.
LEMMA LoopIsCalls == Spec => BP!Spec
  <1>1. Init => BP!Init
    BY SameCalls DEF Init
  <1>2. [Next]_vars => [BP!Next]_(BP!vars)
    BY SameCalls, StepCalls
  <1> QED  BY <1>1, <1>2, PTL DEF Spec, BP!Spec

\* Calls and BP map to the same circuit.
LEMMA SameContract ==
    /\ BP!Contract!Init => Calls!Contract!Init
    /\ [BP!Contract!Next]_(BP!Contract!vars)
         => [Calls!Contract!Next]_(Calls!Contract!vars)
  <1>1. BP!Contract!Init => Calls!Contract!Init
    BY DEF BP!Contract!Init, Calls!Contract!Init
  <1>2. \A S : BP!Contract!Cardinality(S) = Calls!Contract!Cardinality(S)
    BY DEF BP!Contract!Cardinality, Calls!Contract!Cardinality
  <1>3. [BP!Contract!Next]_(BP!Contract!vars)
          => [Calls!Contract!Next]_(Calls!Contract!vars)
    BY <1>2
    DEF BP!Contract!Next, Calls!Contract!Next, BP!Contract!vars,
        Calls!Contract!vars, BP!Contract!Pass, Calls!Contract!Pass,
        BP!Contract!Probe, Calls!Contract!Probe, BP!Contract!Return,
        Calls!Contract!Return, BP!Contract!Win, Calls!Contract!Win,
        BP!Contract!Trip, Calls!Contract!Trip, BP!Contract!Rest,
        Calls!Contract!Rest, BP!Contract!Rested, Calls!Contract!Rested
  <1> QED  BY <1>1, <1>3

\* A service whose attempts cannot outlast the open_duration of its breaker
\* (each of the MaxWaits waits of an attempt within the route's timeout) is
\* protected by the loop as by a circuit: left alone for open_duration, then
\* probed by at most half_open_max_requests attempts at a time, and served
\* again on that many successes of theirs, whatever else is retried, refused
\* or timed out meanwhile.
THEOREM LoopImplementsCircuit ==
    ASSUME MaxWaits * RouteTimeout < OpenDuration
    PROVE  Spec => Calls!KeepsContract
  <1>1. BP!Spec => BP!KeepsContract
    BY CallsAssumptions, BP!ImplementsCircuit
  <1> QED
    BY <1>1, LoopIsCalls, SameContract, PTL
    DEF BP!KeepsContract, Calls!KeepsContract, BP!Contract!Spec,
        Calls!Contract!Spec

\* Whatever the timeouts, the requests in the loop keep the breaker's bounds:
\* fewer than twice half_open_max_requests probes at a time, and no trip
\* without minimum_requests outcomes since the circuit last closed.
THEOREM LoopKeepsBreakerSound ==
    Spec => []Calls!ProbeBound /\ Calls!TrippedByFreshEvidence
  <1>1. BP!Spec => []BP!ProbeBound
    BY CallsAssumptions, BP!ProbesBounded
  <1>2. BP!Spec => BP!TrippedByFreshEvidence
    BY CallsAssumptions, BP!TripsOnFreshEvidence
  <1>3. BP!ProbeBound => Calls!ProbeBound
    <2>1. \A S : BP!Cardinality(S) = Calls!Cardinality(S)
      BY DEF BP!Cardinality, Calls!Cardinality
    <2> QED  BY <2>1 DEF BP!ProbeBound, Calls!ProbeBound
  <1>4. [breaker.state = "CLOSED" /\ breaker'.state = "OPEN"
           => evidence' = MinimumRequests]_(BP!vars)
          => [breaker.state = "CLOSED" /\ breaker'.state = "OPEN"
                => evidence' = MinimumRequests]_(Calls!vars)
    BY DEF BP!vars, Calls!vars
  <1> QED
    BY <1>1, <1>2, <1>3, <1>4, LoopIsCalls, PTL
    DEF BP!TrippedByFreshEvidence, Calls!TrippedByFreshEvidence

\* When besides no attempt ends unrecorded, the loop answers 503 for a
\* HALF_OPEN circuit only while a probe that will report is in flight.
THEOREM LoopSaturationHasProbes ==
    ASSUME MaxWaits * RouteTimeout < OpenDuration, ~UnrecordedEnds
    PROVE  Spec => []Calls!SaturatedByProbes
  <1>1. BP!Spec => []BP!SaturatedByProbes
    BY CallsAssumptions, BP!SaturationHasProbes
  <1>2. BP!SaturatedByProbes => Calls!SaturatedByProbes
    BY DEF BP!SaturatedByProbes, Calls!SaturatedByProbes, BP!Saturated,
           Calls!Saturated
  <1> QED  BY <1>1, <1>2, LoopIsCalls, PTL

\* The attempts the loop does not catch (the httpx errors no except clause
\* names) can take the service away for good: once they have taken every slot
\* of the HALF_OPEN circuit, no request to it is ever sent again.
THEOREM LoopLeakIsForever == Spec => [](Calls!Leaked => []Calls!Leaked)
  <1>1. BP!Spec => [](BP!Leaked => []BP!Leaked)
    BY CallsAssumptions, BP!LeakIsForever
  <1>2. BP!Leaked <=> Calls!Leaked
    BY DEF BP!Leaked, Calls!Leaked, BP!Saturated, Calls!Saturated
  <1> QED  BY <1>1, <1>2, LoopIsCalls, PTL
=============================================================================
