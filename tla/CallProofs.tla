----------------------------- MODULE CallProofs -----------------------------
(***************************************************************************)
(* What holds of the calls to Redis whatever the script: used for both     *)
(* rate limiters.                                                          *)
(***************************************************************************)
EXTENDS RedisCall, TLAPS

\* The reply and the decision of a call are there only when they may be.
Orderly(c) ==
    /\ c \in Call
    /\ c.stage = "idle" => c.orphans = 0
    /\ c.sent \/ c.reply # "none" => c.stage = "waiting"
    /\ c.sent => c.reply = "none"
    /\ c.allowed \/ c.degraded => c.stage = "answered"
    /\ c.allowed /\ c.degraded => FailOpen

\* Some copy of the call may still run.
Pending(c) == c.stage = "waiting" \/ c.orphans > 0

\* At time t, when no clock is more than spread ahead, its reading is not from
\* the future and none of its copies is late.
Timely(c, t, spread) ==
    /\ c.stamp <= t + spread
    /\ Pending(c) => t <= c.stamp + MaxDelay

\* Redis has said yes to this call, and the caller heard it or still may.
Granted(c) == c.reply = "allow" \/ (c.allowed /\ ~c.degraded)

\* What a step of the client at time t makes of call c.
Follows(d, c, t) ==
    /\ Orderly(d)
    /\ d.stage # "idle"
    /\ IF c.stage = "idle" THEN \E skew \in Skews : d.stamp = t + skew
                           ELSE d.stamp = c.stamp
    /\ Pending(d) => c.stage = "idle" \/ Pending(c)
    /\ Granted(d) => Granted(c)

\* Send: the call now waits, with the reading of its gateway's clock.
LEMMA SendFollows ==
    ASSUME NEW c, NEW t \in Nat, Orderly(c),
           c.stage = "idle", NEW skew \in Skews
    PROVE  Follows([c EXCEPT !.stage = "waiting", !.stamp = t + skew,
                             !.sent = TRUE, !.tries = 1], c, t)
  <1> DEFINE n == t + skew
             one == 1
             d == [c EXCEPT !.stage = "waiting", !.stamp = n,
                            !.sent = TRUE, !.tries = one]
  <1>1. /\ n \in Nat /\ one \in 0 .. MaxTries /\ c \in Call
        /\ \E s \in Skews : n = t + s
    BY CallAssumption DEF Orderly
  <1> HIDE DEF n, one
  <1>2. /\ d \in Call /\ d.stage = "waiting" /\ d.stamp = n /\ d.sent
        /\ d.orphans = c.orphans /\ d.reply = c.reply
        /\ d.allowed = c.allowed /\ d.degraded = c.degraded
    BY <1>1 DEF Call
  <1> HIDE DEF d
  <1>3. Follows(d, c, t)
    BY <1>1, <1>2 DEF Follows, Orderly, Granted, Pending
  <1> QED  BY <1>3 DEF d, n, one

\* Executed: the reply is on its way, and grants what the script allowed.
LEMMA ExecutedFollows ==
    ASSUME NEW c, NEW t \in Nat, Orderly(c),
           c.sent, NEW reply \in {"allow", "deny"}
    PROVE  LET d == [c EXCEPT !.sent = FALSE, !.reply = reply]
           IN  /\ Orderly(d)
               /\ d.stage = "waiting" /\ d.stamp = c.stamp
               /\ Granted(d) <=> reply = "allow"
               /\ ~Granted(c)
  <1> DEFINE d == [c EXCEPT !.sent = FALSE, !.reply = reply]
  <1>1. /\ d \in Call /\ d.stage = c.stage /\ d.stamp = c.stamp /\ ~d.sent
        /\ d.orphans = c.orphans /\ d.reply = reply
        /\ d.allowed = c.allowed /\ d.degraded = c.degraded
    BY DEF Call, Orderly
  <1> HIDE DEF d
  <1>2. /\ Orderly(d)
        /\ d.stage = "waiting" /\ d.stamp = c.stamp
        /\ Granted(d) <=> reply = "allow"
        /\ ~Granted(c)
    BY <1>1 DEF Orderly, Granted
  <1> QED  BY <1>2 DEF d

\* OrphanGone: one copy fewer may still run.
LEMMA OrphanFollows ==
    ASSUME NEW c, NEW t \in Nat, Orderly(c),
           c.orphans > 0
    PROVE  Follows([c EXCEPT !.orphans = @ - 1], c, t)
  <1> DEFINE n == c.orphans - 1
             d == [c EXCEPT !.orphans = n]
  <1>1. n \in Nat /\ c \in Call
    BY DEF Orderly, Call
  <1> HIDE DEF n
  <1>2. /\ d \in Call /\ d.stage = c.stage /\ d.stamp = c.stamp
        /\ d.sent = c.sent /\ d.orphans = n /\ d.reply = c.reply
        /\ d.allowed = c.allowed /\ d.degraded = c.degraded
    BY <1>1 DEF Call
  <1> HIDE DEF d
  <1>3. Follows(d, c, t)
    BY <1>1, <1>2 DEF Follows, Orderly, Granted, Pending
  <1> QED  BY <1>3 DEF d, n

\* Return: the reply becomes the decision.
LEMMA ReturnFollows ==
    ASSUME NEW c, NEW t \in Nat, Orderly(c),
           c.stage = "waiting", c.reply # "none"
    PROVE  Follows([c EXCEPT !.stage = "answered", !.tries = 0,
                             !.allowed = c.reply = "allow", !.reply = "none"],
                   c, t)
  <1> DEFINE n == 0
             b == c.reply = "allow"
             d == [c EXCEPT !.stage = "answered", !.tries = n, !.allowed = b,
                            !.reply = "none"]
  <1>1. n \in 0 .. MaxTries /\ b \in BOOLEAN /\ c \in Call /\ (b <=> c.reply = "allow")
    BY CallAssumption DEF Orderly
  <1> HIDE DEF n, b
  <1>2. /\ d \in Call /\ d.stage = "answered" /\ d.stamp = c.stamp
        /\ d.sent = c.sent /\ d.orphans = c.orphans /\ d.reply = "none"
        /\ d.allowed = b /\ d.degraded = c.degraded
    BY <1>1 DEF Call
  <1> HIDE DEF d
  <1>3. Follows(d, c, t)
    BY <1>1, <1>2 DEF Follows, Orderly, Granted, Pending
  <1> QED  BY <1>3 DEF d, n, b

\* The caller gives up a copy; the others are its orphans.
LEMMA AbandonedFields ==
    ASSUME NEW c \in Call
    PROVE  LET a == Abandoned(c)
           IN  /\ a \in Call /\ a.stage = c.stage /\ a.stamp = c.stamp
               /\ ~a.sent /\ a.reply = "none" /\ a.tries = c.tries
               /\ a.allowed = c.allowed /\ a.degraded = c.degraded
               /\ a.orphans >= c.orphans
  <1> DEFINE o == IF c.sent THEN c.orphans + 1 ELSE c.orphans
             a == [c EXCEPT !.sent = FALSE, !.reply = "none", !.orphans = o]
  <1>1. o \in Nat /\ o >= c.orphans
    BY DEF Call
  <1>2. Abandoned(c) = a
    BY Zenon DEF Abandoned
  <1> HIDE DEF o
  <1>3. /\ a \in Call /\ a.stage = c.stage /\ a.stamp = c.stamp
        /\ ~a.sent /\ a.reply = "none" /\ a.tries = c.tries
        /\ a.allowed = c.allowed /\ a.degraded = c.degraded
        /\ a.orphans = o
    BY <1>1 DEF Call
  <1> HIDE DEF a
  <1> QED  BY <1>1, <1>2, <1>3

\* Resend: another copy is sent, with the old reading.
LEMMA ResendFollows ==
    ASSUME NEW c, NEW t \in Nat, Orderly(c),
           c.stage = "waiting", c.tries < MaxTries
    PROVE  Follows([Abandoned(c) EXCEPT !.sent = TRUE, !.tries = c.tries + 1],
                   c, t)
  <1> DEFINE a == Abandoned(c)
             n == c.tries + 1
             d == [a EXCEPT !.sent = TRUE, !.tries = n]
  <1>1. n \in 0 .. MaxTries
    BY CallAssumption DEF Orderly, Call
  <1>2. /\ a \in Call /\ a.stage = c.stage /\ a.stamp = c.stamp
        /\ a.reply = "none" /\ a.allowed = c.allowed /\ a.degraded = c.degraded
    BY AbandonedFields DEF Orderly
  <1> HIDE DEF a, n
  <1>3. /\ d \in Call /\ d.stage = a.stage /\ d.stamp = a.stamp /\ d.sent
        /\ d.reply = a.reply /\ d.allowed = a.allowed /\ d.degraded = a.degraded
    BY <1>1, <1>2 DEF Call
  <1> HIDE DEF d
  <1>4. Follows(d, c, t)
    BY <1>2, <1>3 DEF Follows, Orderly, Granted, Pending
  <1> QED  BY <1>4 DEF a, n, d

\* Fail: the decision is _degraded_decision's.
LEMMA FailFollows ==
    ASSUME NEW c, NEW t \in Nat, Orderly(c),
           c.stage = "waiting"
    PROVE  Follows(Degraded(c), c, t)
  <1> DEFINE a == Abandoned(c)
             n == 0
             d == [a EXCEPT !.stage = "answered", !.tries = n,
                            !.allowed = FailOpen, !.degraded = TRUE]
  <1>1. n \in 0 .. MaxTries /\ FailOpen \in BOOLEAN
    BY CallAssumption
  <1>2. /\ a \in Call /\ a.stamp = c.stamp /\ ~a.sent /\ a.reply = "none"
    BY AbandonedFields DEF Orderly
  <1>3. Degraded(c) = d
    BY DEF Degraded
  <1> HIDE DEF a, n
  <1>4. /\ d \in Call /\ d.stage = "answered" /\ d.stamp = a.stamp
        /\ d.sent = a.sent /\ d.reply = a.reply /\ d.allowed = FailOpen
        /\ d.degraded
    BY <1>1, <1>2 DEF Call
  <1> HIDE DEF d
  <1>5. Follows(d, c, t)
    BY <1>2, <1>4 DEF Follows, Orderly, Granted, Pending
  <1> QED  BY <1>3, <1>5

\* A step of the client changes one call, in an orderly way.
LEMMA ClientFollows ==
    ASSUME call \in [Requests -> Call], now \in Nat,
           NEW r \in Requests, Orderly(call[r]), ClientStep(r)
    PROVE  \E d : Follows(d, call[r], now) /\ call' = [call EXCEPT ![r] = d]
  <1> DEFINE c == call[r]
  <1>1. ASSUME NEW skew \in Skews, Send(r, skew)
        PROVE  \E d : Follows(d, c, now) /\ call' = [call EXCEPT ![r] = d]
    <2> DEFINE d == [c EXCEPT !.stage = "waiting", !.stamp = now + skew,
                              !.sent = TRUE, !.tries = 1]
    <2>1. c.stage = "idle"
      BY <1>1 DEF Send
    <2>2. call' = [call EXCEPT ![r] = d]
      BY <1>1 DEF Send
    <2>3. Follows(d, c, now)
      BY <2>1, SendFollows
    <2> QED  BY <2>2, <2>3
  <1>2. CASE OrphanGone(r)
    <2> DEFINE d == [c EXCEPT !.orphans = @ - 1]
    <2>1. call' = [call EXCEPT ![r] = d]
      BY <1>2 DEF OrphanGone
    <2>2. Follows(d, c, now)
      BY <1>2, OrphanFollows DEF OrphanGone
    <2> QED  BY <2>1, <2>2
  <1>3. CASE Return(r)
    <2> DEFINE d == [c EXCEPT !.stage = "answered", !.tries = 0,
                              !.allowed = c.reply = "allow", !.reply = "none"]
    <2>1. call' = [call EXCEPT ![r] = d]
      BY <1>3 DEF Return
    <2>2. Follows(d, c, now)
      BY <1>3, ReturnFollows DEF Return
    <2> QED  BY <2>1, <2>2
  <1>4. CASE Resend(r)
    <2> DEFINE d == [Abandoned(c) EXCEPT !.sent = TRUE, !.tries = c.tries + 1]
    <2>1. call' = [call EXCEPT ![r] = d]
      BY <1>4, Zenon DEF Resend
    <2>2. Follows(d, c, now)
      BY <1>4, ResendFollows DEF Resend
    <2> QED  BY <2>1, <2>2
  <1>5. CASE Fail(r)
    <2>1. call' = [call EXCEPT ![r] = Degraded(c)]
      BY <1>5 DEF Fail
    <2>2. Follows(Degraded(c), c, now)
      BY <1>5, FailFollows DEF Fail
    <2> QED  BY <2>1, <2>2
  <1> QED  BY <1>1, <1>2, <1>3, <1>4, <1>5 DEF ClientStep

\* Such a step makes nobody late.
LEMMA FollowsTimely ==
    ASSUME NEW c, NEW d, NEW t \in Nat, NEW spread \in Nat,
           \A skew \in Skews : skew <= spread,
           Follows(d, c, t), Orderly(c), Timely(c, t, spread)
    PROVE  Timely(d, t, spread)
  <1>1. MaxDelay \in Nat /\ Skews \subseteq Nat
    BY CallAssumption
  <1> QED  BY <1>1 DEF Follows, Timely

\* Time passes only when nobody becomes late by it.
LEMMA TickTimely ==
    ASSUME now \in Nat, NEW spread \in Nat, NobodyOverdue,
           NEW r \in Requests, Orderly(call[r]), Timely(call[r], now, spread)
    PROVE  Timely(call[r], now + 1, spread)
  <1>1. call[r].stamp \in Nat /\ MaxDelay \in Nat
    BY CallAssumption DEF Orderly, Call
  <1> QED  BY <1>1 DEF Timely, Pending, NobodyOverdue

\* A call not made yet is in order, and in time.
LEMMA NewCallOrderly ==
    /\ Orderly(NewCall) /\ ~Granted(NewCall)
    /\ \A spread \in Nat : Timely(NewCall, 0, spread)
  BY CallAssumption DEF Orderly, NewCall, Call, Granted, Timely, Pending
=============================================================================
