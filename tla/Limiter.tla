------------------------------ MODULE Limiter ------------------------------
(***************************************************************************)
(* RateLimit::State on a clock that wraps.  millis() is the true time      *)
(* modulo Wrap; a deadline is compared by the sign of the wrapped          *)
(* difference and is cleared only by the next attempt, so freeAt, the true *)
(* time at which the limiter ought to let an attempt through, is kept      *)
(* beside it as history.  Where the lockout and the rotation of the PIN    *)
(* meet the sessions is Sessions' subject; here the times are numbers.     *)
(***************************************************************************)
EXTENDS WrappedClock

CONSTANTS MaxFails,     \* MAX_FAILS
          BaseDelay, MaxDelay, Lockout,
          MaxTrueTime   \* bound on the true time of a run

\* ratelimit.h asserts it of LOCKOUT_MS.
ASSUME LimiterAssumption ==
  /\ MaxFails \in Nat \ {0} /\ BaseDelay \in Nat
  /\ MaxDelay \in 0 .. Half - 1 /\ Lockout \in 0 .. Half - 1
  /\ MaxTrueTime \in Nat

VARIABLES trueTime,  \* the true time
          st,        \* RateLimit::State
          freeAt     \* true time at which the penalty or lockout in force is over

limiterVars == <<trueTime, st, freeAt>>

Now == trueTime % Wrap

\* Doubling from the base up to the cap.
penaltyMs[fails \in 0..MaxFails] ==
  IF fails = 0 THEN 0
  ELSE IF fails = 1 THEN (IF BaseDelay > MaxDelay THEN MaxDelay ELSE BaseDelay)
  ELSE LET d == 2 * penaltyMs[fails - 1] IN IF d > MaxDelay THEN MaxDelay ELSE d

Fresh == [fails |-> 0, hasDeadline |-> FALSE, nextAttempt |-> 0, locked |-> FALSE, lockUntil |-> 0]

\* check(): an expired lockout forgets the failures, an expired penalty only
\* itself; the decision is read off what is left.
Unlocked(s, now) ==
  IF s.locked /\ Reached(now, s.lockUntil)
  THEN [s EXCEPT !.locked = FALSE, !.fails = 0, !.hasDeadline = FALSE, !.nextAttempt = 0]
  ELSE s
Checked(s, now) ==
  LET u == Unlocked(s, now) IN
  IF ~u.locked /\ u.hasDeadline /\ Reached(now, u.nextAttempt) THEN [u EXCEPT !.hasDeadline = FALSE] ELSE u
Decision(s, now) ==
  LET c == Checked(s, now) IN
  IF c.locked THEN "LOCKED" ELSE IF c.hasDeadline THEN "WAIT" ELSE "ALLOW"

fail(s, now) ==
  LET n == s.fails + 1 IN
  IF n >= MaxFails
  THEN [s EXCEPT !.fails = n, !.locked = TRUE, !.lockUntil = (now + Lockout) % Wrap,
                 !.hasDeadline = FALSE]
  ELSE [s EXCEPT !.fails = n, !.hasDeadline = TRUE, !.nextAttempt = (now + penaltyMs[n]) % Wrap]

remaining(s) == IF s.locked \/ s.fails >= MaxFails THEN 0 ELSE MaxFails - s.fails

LimiterInit == trueTime = 0 /\ st = Fresh /\ freeAt = 0

Pass == trueTime < MaxTrueTime /\ trueTime' = trueTime + 1 /\ UNCHANGED <<st, freeAt>>

\* A POST to the session endpoint: PinPolicy::afterAttempt() only on ALLOW.
Attempt(right) ==
  /\ IF Decision(st, Now) # "ALLOW" THEN st' = Checked(st, Now) /\ UNCHANGED freeAt
     ELSE IF right THEN st' = Fresh /\ freeAt' = trueTime
     ELSE /\ st' = fail(Checked(st, Now), Now)
          /\ freeAt' = trueTime + IF Checked(st, Now).fails + 1 >= MaxFails THEN Lockout
                              ELSE penaltyMs[Checked(st, Now).fails + 1]
  /\ UNCHANGED trueTime

\* The owner regenerates the PIN at the cable.
operatorRegenerate == st' = Fresh /\ freeAt' = trueTime /\ UNCHANGED trueTime

LimiterNext == Pass \/ (\E right \in BOOLEAN : Attempt(right)) \/ operatorRegenerate
LimiterSpec == LimiterInit /\ [][LimiterNext]_limiterVars
-----------------------------------------------------------------------------
LimiterState ==
  [fails : 0 .. MaxFails, hasDeadline : BOOLEAN, nextAttempt : 0 .. Wrap - 1,
   locked : BOOLEAN, lockUntil : 0 .. Wrap - 1]

LimiterTypeOK == trueTime \in Nat /\ freeAt \in Nat /\ st \in LimiterState

\* The wrapped clock tells the truth: an attempt is let through exactly when
\* the penalty or lockout in force is over, whichever side of a wrap either
\* falls on, provided the attempt comes within half the clock's range of the
\* deadline (ratelimit.h:45-49, 101-134).
KeepsTrueTime ==
  trueTime < freeAt + Half => (Decision(st, Now) = "ALLOW" <=> trueTime >= freeAt)

=============================================================================
