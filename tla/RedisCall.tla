----------------------------- MODULE RedisCall ------------------------------
(***************************************************************************)
(* A call of DistributedRateLimiter to a Redis script, as the scripts and  *)
(* the callers see it.  check_token_bucket and check_sliding_window differ *)
(* only in the script; the modules of the scripts extend this one.         *)
(*                                                                         *)
(* A call reads its gateway's clock, then awaits Redis; scripts run whole, *)
(* one at a time, but in any order and up to MaxDelay ticks after the      *)
(* reading they carry, the bound on how long a call is under way.          *)
(* redis-py may send a call again after a connection error or a timeout    *)
(* (up to MaxTries copies, all with the same arguments), and a copy it no  *)
(* longer waits for, an orphan, may still run.                             *)
(***************************************************************************)
EXTENDS Integers, FiniteSetsExt

CONSTANTS Requests, FailOpen, MaxTries, MaxDelay, Skews

ASSUME CallAssumption ==
    /\ IsFiniteSet(Requests)
    /\ FailOpen \in BOOLEAN
    /\ MaxTries \in Nat \ {0} /\ MaxDelay \in Nat \ {0} /\ Skews \subseteq Nat

VARIABLES call, now

Call == [stage : {"idle", "waiting", "answered"}, stamp : Nat,
         sent : BOOLEAN, orphans : Nat, tries : 0 .. MaxTries,
         reply : {"none", "allow", "deny"}, allowed : BOOLEAN, degraded : BOOLEAN]

NewCall == [stage |-> "idle", stamp |-> 0, sent |-> FALSE, orphans |-> 0,
            tries |-> 0, reply |-> "none", allowed |-> FALSE, degraded |-> FALSE]

-----------------------------------------------------------------------------
(* What happens to a call; the key is the other modules' concern.          *)

\* now_ms is read and the script sent.
Send(r, skew) ==
    /\ call[r].stage = "idle"
    /\ call' = [call EXCEPT ![r].stage = "waiting", ![r].stamp = now + skew,
                            ![r].sent = TRUE, ![r].tries = 1]

\* Redis runs the copy the caller waits for.
Executed(r, allows) ==
    /\ call[r].sent
    /\ call' = [call EXCEPT ![r].sent = FALSE,
                            ![r].reply = IF allows THEN "allow" ELSE "deny"]

\* A copy nobody waits for runs, or never reaches Redis.
OrphanGone(r) ==
    /\ call[r].orphans > 0
    /\ call' = [call EXCEPT ![r].orphans = @ - 1]

\* Mutant of Return: any reply is taken for a yes.
ReturnTruthy(r) ==
    /\ call[r].stage = "waiting"
    /\ call[r].reply # "none"
    /\ call' = [call EXCEPT ![r].stage = "answered", ![r].tries = 0,
                            ![r].allowed = TRUE, ![r].reply = "none"]

\* The reply arrives and becomes the decision.
Return(r) ==
    /\ call[r].stage = "waiting"
    /\ call[r].reply # "none"
    /\ call' = [call EXCEPT ![r].stage = "answered", ![r].tries = 0,
                            ![r].allowed = call[r].reply = "allow",
                            ![r].reply = "none"]

\* What the caller leaves behind when a copy fails, before or after Redis ran
\* it.
Abandoned(c) ==
    [c EXCEPT !.sent = FALSE, !.reply = "none",
              !.orphans = IF c.sent THEN @ + 1 ELSE @]

\* redis-py sends the call again.
Resend(r) ==
    /\ call[r].stage = "waiting"
    /\ call[r].tries < MaxTries
    /\ call' = [call EXCEPT ![r] = [Abandoned(call[r]) EXCEPT
                                      !.sent = TRUE, !.tries = call[r].tries + 1]]

\* Mutant of Degraded: a request is let through whatever the failure mode.
DegradedOpen(c) == [Abandoned(c) EXCEPT !.stage = "answered", !.tries = 0,
                                        !.allowed = TRUE, !.degraded = TRUE]

\* _degraded_decision.
Degraded(c) == [Abandoned(c) EXCEPT !.stage = "answered", !.tries = 0,
                                    !.allowed = FailOpen, !.degraded = TRUE]

\* RedisError reaches the check_ method.
Fail(r) ==
    /\ call[r].stage = "waiting"
    /\ call[r].tries = MaxTries
    /\ call' = [call EXCEPT ![r] = Degraded(call[r])]

\* The steps of a call in which no script runs.
ClientStep(r) ==
    \/ \E skew \in Skews : Send(r, skew)
    \/ OrphanGone(r) \/ Return(r) \/ Resend(r) \/ Fail(r)

\* Time does not pass a call that is MaxDelay old.
NobodyOverdue ==
    \A r \in Requests : call[r].stage = "waiting" \/ call[r].orphans > 0
                          => now < call[r].stamp + MaxDelay
=============================================================================
