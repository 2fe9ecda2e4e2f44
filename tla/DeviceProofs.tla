----------------------------- MODULE DeviceProofs -----------------------------
(***************************************************************************)
(* What holds of the parts that live on the loop task alone: of Limiter    *)
(* and Scheduler for every range of the clock that wraps, every delay,     *)
(* ceiling and count of failures and every table of tasks; of Hid for      *)
(* every text; of Display for every number of regions drawn in a tick.     *)
(***************************************************************************)
EXTENDS Limiter, Scheduler, Hid, Display, Recursion, FiniteSetTheorems, SequenceTheorems, TLAPS

-----------------------------------------------------------------------------
(* The wrapped difference.                                                 *)

\* What `%` and \div are.
LEMMA Division ==
  ASSUME NEW a \in Int
  PROVE  /\ a \div Wrap \in Int /\ a % Wrap \in 0 .. Wrap - 1
         /\ a = Wrap * (a \div Wrap) + (a % Wrap)
BY WrapAssumption, SMT

\* A remainder is found by any quotient that leaves one.
LEMMA RemainderIs ==
  ASSUME NEW a \in Int, NEW q \in Int, NEW r \in 0 .. Wrap - 1, a = Wrap * q + r
  PROVE  a % Wrap = r
<1> DEFINE d == a \div Wrap
           m == a % Wrap
<1>1. d \in Int /\ m \in 0 .. Wrap - 1 /\ a = Wrap * d + m
  BY Division
<1> HIDE DEF d, m
<1>2. Wrap * (d - q) = r - m
  <2>1. Wrap * (d - q) = Wrap * d - Wrap * q
    BY <1>1, WrapAssumption, SMT
  <2> QED
    BY <1>1, <2>1, WrapAssumption, SMT
<1>3. CASE d - q >= 1
  <2>1. Wrap * (d - q) >= Wrap
    BY <1>1, <1>3, WrapAssumption, SMT
  <2> QED
    BY <1>1, <1>2, <2>1, WrapAssumption, SMT
<1>4. CASE d - q =< -1
  <2>1. Wrap * (d - q) =< -Wrap
    BY <1>1, <1>4, WrapAssumption, SMT
  <2> QED
    BY <1>1, <1>2, <2>1, WrapAssumption, SMT
<1>5. CASE d - q = 0
  BY <1>1, <1>2, <1>5, WrapAssumption, SMT DEF m
<1> QED
  BY <1>1, <1>3, <1>4, <1>5

\* Wrapping both times changes no difference that is less than half the range.
LEMMA ReachedIs ==
  ASSUME NEW t \in Nat, NEW f \in Nat, t - f < Half, f - t < Half
  PROVE  Reached(t % Wrap, f % Wrap) <=> t >= f
<1> DEFINE tq == t \div Wrap
           fq == f \div Wrap
           tr == t % Wrap
           fr == f % Wrap
<1>1. /\ tq \in Int /\ tr \in 0 .. Wrap - 1 /\ t = Wrap * tq + tr
      /\ fq \in Int /\ fr \in 0 .. Wrap - 1 /\ f = Wrap * fq + fr
  BY Division
<1>2. Half \in Nat /\ Half + Half =< Wrap /\ Half >= 1
  BY WrapAssumption DEF Half
<1> HIDE DEF tq, fq, tr, fr
<1>3. tr - fr = Wrap * (fq - tq) + (t - f)
  <2>1. Wrap * (fq - tq) = Wrap * fq - Wrap * tq
    BY <1>1, WrapAssumption
  <2> QED
    BY <1>1, <2>1, WrapAssumption
<1>4. CASE t >= f
  <2>1. t - f \in 0 .. Wrap - 1
    BY <1>2, <1>4, WrapAssumption
  <2>2. (tr - fr) % Wrap = t - f
    BY <1>1, <1>3, <2>1, RemainderIs
  <2> QED
    BY <1>4, <2>2 DEF Reached, tr, fr
<1>5. CASE ~(t >= f)
  <2>1. t - f + Wrap \in 0 .. Wrap - 1
    BY <1>2, <1>5, WrapAssumption
  <2>2. tr - fr = Wrap * (fq - tq - 1) + (t - f + Wrap)
    <3>1. Wrap * (fq - tq - 1) = Wrap * (fq - tq) - Wrap
      BY <1>1, WrapAssumption
    <3> QED
      BY <1>1, <1>3, <3>1, WrapAssumption
  <2>3. (tr - fr) % Wrap = t - f + Wrap
    BY <1>1, <2>1, <2>2, RemainderIs
  <2>4. ~(t - f + Wrap < Half)
    BY <1>2, WrapAssumption
  <2> QED
    BY <1>5, <2>3, <2>4 DEF Reached, tr, fr
<1> QED
  BY <1>4, <1>5

\* An interval added to the wrapped time or to the true one.
LEMMA WrappedSum ==
  ASSUME NEW t \in Nat, NEW d \in Nat
  PROVE  ((t % Wrap) + d) % Wrap = (t + d) % Wrap
<1> DEFINE tq == t \div Wrap
           tr == t % Wrap
           sq == (t + d) \div Wrap
           sr == (t + d) % Wrap
<1>1. /\ tq \in Int /\ tr \in 0 .. Wrap - 1 /\ t = Wrap * tq + tr
      /\ sq \in Int /\ sr \in 0 .. Wrap - 1 /\ t + d = Wrap * sq + sr
  BY Division
<1> HIDE DEF tq, tr, sq, sr
<1>2. tr + d = Wrap * (sq - tq) + sr
  <2>1. Wrap * (sq - tq) = Wrap * sq - Wrap * tq
    BY <1>1, WrapAssumption
  <2> QED
    BY <1>1, <2>1, WrapAssumption
<1>3. (tr + d) % Wrap = sr
  BY <1>1, <1>2, RemainderIs
<1> QED
  BY <1>3 DEF tr, sr

-----------------------------------------------------------------------------
(* Limiter.                                                                *)

LEMMA HalfIs == Half \in Nat /\ Half >= 1 /\ Half + Half =< Wrap
BY WrapAssumption DEF Half

\* A penalty is never longer than its ceiling.
LEMMA PenaltyIs == \A n \in 0 .. MaxFails : penaltyMs[n] \in 0 .. MaxDelay
<1> DEFINE Delays == 0 .. MaxDelay
           Capped(d) == IF d > MaxDelay THEN MaxDelay ELSE d
           turn == [k \in Nat |-> [d \in Delays |-> IF k = 1 THEN Capped(BaseDelay) ELSE Capped(2 * d)]]
           Next1(f, n) == IF n = 0 THEN 0 ELSE IF n = 1 THEN Capped(BaseDelay) ELSE Capped(2 * f[n - 1])
<1>1. MaxFails \in Nat /\ BaseDelay \in Nat /\ MaxDelay \in Nat
  BY LimiterAssumption, HalfIs
<1>2. turn \in [Nat -> [Delays -> Delays]] /\ 0 \in Delays
  BY <1>1
<1> HIDE DEF turn, Delays
<1>3. PICK f \in [0 .. MaxFails -> Delays] :
        f[0] = 0 /\ Iterates(f, turn, MaxFails)
  BY <1>1, <1>2, Iteration
<1> USE DEF turn, Delays, Iterates
<1>4. f = [n \in 0 .. MaxFails |-> Next1(f, n)]
  <2>1. ASSUME NEW n \in 0 .. MaxFails PROVE f[n] = Next1(f, n)
    <3>1. CASE n = 0
      BY <1>3, <3>1
    <3>2. CASE n # 0
      <4>1. n \in 1 .. MaxFails /\ n - 1 \in 0 .. MaxFails /\ n \in Nat
        BY <1>1, <3>2
      <4>2. f[n] = turn[n][f[n - 1]] /\ f[n - 1] \in Delays
        BY <1>3, <4>1
      <4> QED
        BY <3>2, <4>1, <4>2
    <3> QED
      BY <3>1, <3>2
  <2> QED
    BY <2>1
<1>5. penaltyMs = [n \in 0 .. MaxFails |-> Next1(penaltyMs, n)]
  <2>1. penaltyMs = CHOOSE g : g = [n \in 0 .. MaxFails |-> Next1(g, n)]
    BY DEF penaltyMs
  <2> QED
    BY <1>4, <2>1
<1>6. \A n \in 0 .. MaxFails : penaltyMs[n] = Next1(penaltyMs, n)
  BY <1>5
<1> HIDE DEF Next1
<1> DEFINE T == {n \in 0 .. MaxFails : penaltyMs[n] \in Delays}
<1>7. 0 \in T
  BY <1>1, <1>6 DEF Next1
<1>8. ASSUME NEW k \in 0 .. MaxFails - 1, k \in T PROVE k + 1 \in T
  <2>1. k + 1 \in 0 .. MaxFails /\ k + 1 # 0 /\ (k + 1) - 1 = k /\ penaltyMs[k] \in Delays
    BY <1>1, <1>8
  <2>2. penaltyMs[k + 1] \in {Capped(BaseDelay), Capped(2 * penaltyMs[k])}
    BY <1>6, <2>1 DEF Next1
  <2> QED
    BY <1>1, <2>1, <2>2
<1> HIDE DEF T
<1>9. \A n \in 0 .. MaxFails : n \in T
  BY <1>1, <1>7, <1>8, UpTo
<1> QED
  BY <1>9 DEF T

\* What check() makes of a state and what it answers, case by case.
LEMMA CheckedIs ==
  ASSUME NEW clock \in Int, st \in LimiterState
  PROVE  /\ Decision(st, clock) # "ALLOW" => Checked(st, clock) = st
         /\ Decision(st, clock) = "ALLOW" =>
              /\ Checked(st, clock) \in LimiterState
              /\ ~Checked(st, clock).locked /\ ~Checked(st, clock).hasDeadline
              /\ Checked(st, clock).fails = IF st.locked THEN 0 ELSE st.fails
         /\ Decision(st, clock) = "ALLOW" <=>
              IF st.locked THEN Reached(clock, st.lockUntil)
              ELSE st.hasDeadline => Reached(clock, st.nextAttempt)
<1>0. 0 \in 0 .. MaxFails /\ 0 \in 0 .. Wrap - 1
  BY LimiterAssumption, WrapAssumption
<1>1. CASE st.locked /\ Reached(clock, st.lockUntil)
  <2>1. /\ Unlocked(st, clock) = [st EXCEPT !.locked = FALSE, !.fails = 0, !.hasDeadline = FALSE, !.nextAttempt = 0]
        /\ Unlocked(st, clock) \in LimiterState
    BY <1>0, <1>1 DEF Unlocked, LimiterState
  <2> QED
    BY <1>1, <2>1 DEF LimiterState, Decision, Checked
<1>2. CASE st.locked /\ ~Reached(clock, st.lockUntil)
  BY <1>2 DEF Unlocked, LimiterState, Decision, Checked
<1>3. CASE ~st.locked
  <2>1. Unlocked(st, clock) = st
    BY <1>3 DEF Unlocked
  <2> QED
    BY <1>3, <2>1 DEF LimiterState, Decision, Checked
<1> QED
  BY <1>1, <1>2, <1>3

\* The deadline the state holds is the true one, wrapped; it is always nearer
\* than half the range; and without one nothing is in force.
Held ==
  /\ LimiterTypeOK
  /\ freeAt < trueTime + Half
  /\ st.locked => st.lockUntil = freeAt % Wrap
  /\ ~st.locked => st.fails < MaxFails
  /\ ~st.locked /\ st.hasDeadline => st.nextAttempt = freeAt % Wrap
  /\ ~st.locked /\ ~st.hasDeadline => freeAt <= trueTime

LEMMA FreshIs == Fresh \in LimiterState /\ ~Fresh.locked /\ ~Fresh.hasDeadline /\ Fresh.fails = 0
BY LimiterAssumption, WrapAssumption DEF Fresh, LimiterState

LEMMA FailHolds ==
  ASSUME Held, Decision(st, Now) = "ALLOW", Attempt(FALSE)
  PROVE  Held'
<1> DEFINE c == Checked(st, Now)
           n == c.fails + 1
           penalty == IF n >= MaxFails THEN Lockout ELSE penaltyMs[n]
           w == (Now + penalty) % Wrap
<1>1. Now \in Int /\ Now = trueTime % Wrap
  BY Division DEF Held, LimiterTypeOK, Now
<1>2. /\ c \in LimiterState /\ ~c.locked /\ ~c.hasDeadline
      /\ c.fails = IF st.locked THEN 0 ELSE st.fails
  BY <1>1, CheckedIs DEF Held, LimiterTypeOK
<1>3. /\ st' = fail(c, Now) /\ freeAt' = trueTime + penalty /\ trueTime' = trueTime
  BY DEF Attempt
<1> HIDE DEF c
<1>4. n \in 1 .. MaxFails /\ n \in 0 .. MaxFails
  BY <1>2, LimiterAssumption DEF Held, LimiterTypeOK, LimiterState
<1>5. penalty \in 0 .. Half - 1
  BY <1>4, PenaltyIs, LimiterAssumption, HalfIs
<1> HIDE DEF penalty
<1>6. w = freeAt' % Wrap /\ w \in 0 .. Wrap - 1
  <2>1. (Now + penalty) % Wrap = freeAt' % Wrap
    <3>1. penalty \in Nat /\ trueTime \in Nat
      BY <1>5, HalfIs DEF Held, LimiterTypeOK
    <3>2. ((trueTime % Wrap) + penalty) % Wrap = (trueTime + penalty) % Wrap
      BY <3>1, WrappedSum
    <3> QED
      BY <1>1, <1>3, <3>2
  <2>2. (Now + penalty) \in Int
    BY <1>1, <1>5, HalfIs
  <2> QED
    BY <2>1, <2>2, Division
<1>7. freeAt' \in Nat /\ freeAt' < trueTime' + Half /\ trueTime' \in Nat
  BY <1>3, <1>5, HalfIs DEF Held, LimiterTypeOK
<1>8. CASE n >= MaxFails
  <2>1. st' = [c EXCEPT !.fails = n, !.locked = TRUE, !.lockUntil = w, !.hasDeadline = FALSE]
    BY <1>3, <1>8 DEF fail, penalty
  <2>2. st' \in LimiterState /\ st'.locked /\ st'.lockUntil = freeAt' % Wrap
    <3> HIDE DEF n, w
    <3> QED
      BY <1>2, <1>4, <1>6, <2>1 DEF LimiterState
  <2> QED
    BY <1>7, <2>2 DEF Held, LimiterTypeOK
<1>9. CASE ~(n >= MaxFails)
  <2>1. st' = [c EXCEPT !.fails = n, !.hasDeadline = TRUE, !.nextAttempt = w]
    BY <1>3, <1>9 DEF fail, penalty
  <2>2. /\ st' \in LimiterState /\ ~st'.locked /\ st'.hasDeadline /\ st'.nextAttempt = freeAt' % Wrap
        /\ st'.fails = n
    <3> HIDE DEF n, w
    <3> QED
      BY <1>2, <1>4, <1>6, <2>1 DEF LimiterState
  <2>3. st'.fails < MaxFails
    BY <1>4, <1>9, <2>2, LimiterAssumption
  <2> QED
    BY <1>7, <2>2, <2>3 DEF Held, LimiterTypeOK
<1> QED
  BY <1>8, <1>9

LEMMA HeldAlways == LimiterSpec => []Held
<1>1. LimiterInit => Held
  BY FreshIs, HalfIs, LimiterAssumption DEF LimiterInit, Held, LimiterTypeOK
<1>2. ASSUME Held, [LimiterNext]_limiterVars PROVE Held'
  <2>1. ASSUME st' = Fresh, freeAt' = trueTime, trueTime' = trueTime PROVE Held'
    BY <1>2, <2>1, FreshIs, HalfIs, LimiterAssumption DEF Held, LimiterTypeOK
  <2>2. CASE Pass
    BY <1>2, <2>2, HalfIs DEF Held, LimiterTypeOK, LimiterState, Pass
  <2>3. ASSUME NEW right \in BOOLEAN, Attempt(right) PROVE Held'
    <3>1. Now \in Int
      BY <1>2, Division DEF Held, LimiterTypeOK, Now
    <3>2. CASE Decision(st, Now) # "ALLOW"
      <4>1. Checked(st, Now) = st
        BY <1>2, <3>1, <3>2, CheckedIs DEF Held, LimiterTypeOK
      <4>2. st' = st /\ freeAt' = freeAt /\ trueTime' = trueTime
        BY <2>3, <3>2, <4>1 DEF Attempt
      <4> QED
        BY <1>2, <4>2 DEF Held, LimiterTypeOK
    <3>3. CASE Decision(st, Now) = "ALLOW" /\ right
      BY <2>1, <2>3, <3>3 DEF Attempt
    <3>4. CASE Decision(st, Now) = "ALLOW" /\ ~right
      <4>1. Attempt(FALSE)
        BY <2>3, <3>4
      <4> QED
        BY <1>2, <3>4, <4>1, FailHolds
    <3> QED
      BY <2>3, <3>2, <3>3, <3>4
  <2>4. CASE operatorRegenerate
    BY <2>1, <2>4 DEF operatorRegenerate
  <2>5. CASE UNCHANGED limiterVars
    BY <1>2, <2>5 DEF Held, LimiterTypeOK, limiterVars
  <2> QED
    BY <1>2, <2>2, <2>3, <2>4, <2>5 DEF LimiterNext
<1> QED
  BY <1>1, <1>2, PTL DEF LimiterSpec

\* Types are kept.
THEOREM LimiterTypeCorrect == LimiterSpec => []LimiterTypeOK
<1>1. Held => LimiterTypeOK
  BY DEF Held
<1> QED
  BY <1>1, HeldAlways, PTL

\* The wrapped clock tells the truth: an attempt is let through exactly when
\* the penalty or lockout in force is over, whichever side of a wrap either
\* falls on (ratelimit.h, check()).
THEOREM LimiterKeepsTrueTime == LimiterSpec => []KeepsTrueTime
<1>1. ASSUME Held, trueTime < freeAt + Half
      PROVE  Decision(st, Now) = "ALLOW" <=> trueTime >= freeAt
  <2>1. trueTime \in Nat /\ freeAt \in Nat /\ st \in LimiterState /\ Now = trueTime % Wrap /\ Now \in Int
    BY <1>1, Division DEF Held, LimiterTypeOK, Now
  <2>2. trueTime - freeAt < Half /\ freeAt - trueTime < Half
    BY <1>1, <2>1, HalfIs DEF Held
  <2>3. Reached(Now, freeAt % Wrap) <=> trueTime >= freeAt
    BY <2>1, <2>2, ReachedIs
  <2>4. Decision(st, Now) = "ALLOW" <=>
          IF st.locked THEN Reached(Now, st.lockUntil)
          ELSE st.hasDeadline => Reached(Now, st.nextAttempt)
    BY <2>1, CheckedIs
  <2>5. CASE st.locked
    BY <1>1, <2>3, <2>4, <2>5 DEF Held
  <2>6. CASE ~st.locked /\ st.hasDeadline
    BY <1>1, <2>3, <2>4, <2>6 DEF Held
  <2>7. CASE ~st.locked /\ ~st.hasDeadline
    BY <1>1, <2>1, <2>4, <2>7 DEF Held
  <2> QED
    BY <2>5, <2>6, <2>7
<1>2. Held => KeepsTrueTime
  BY <1>1 DEF KeepsTrueTime
<1> QED
  BY <1>2, HeldAlways, PTL

-----------------------------------------------------------------------------
(* Scheduler.                                                              *)

\* The turns of other tasks, and of the rest of loop(), that may have run
\* since run() last came to task i.
TurnsSince(i) ==
  IF at = 0 THEN Len(Intervals) - i + 1
  ELSE IF at > i THEN at - i - 1 ELSE Len(Intervals) - i + at

SchedulerTypeOK ==
  /\ loopTime \in Nat /\ now \in 0 .. Wrap - 1
  /\ added \in 0 .. Len(Intervals) /\ at \in 0 .. Len(Intervals) + 1
  /\ dueAt \in [Tasks -> Nat] /\ nextDue \in [Tasks -> 0 .. Wrap - 1]

\* A deadline is less than half the range ahead, and no further behind than the
\* turns since its task was last come to can take.
InReach(i) ==
  /\ nextDue[i] = dueAt[i] % Wrap
  /\ dueAt[i] < loopTime + Half
  /\ loopTime <= dueAt[i] + MaxRun * TurnsSince(i)

OnTime ==
  /\ SchedulerTypeOK
  /\ at # 0 => added = Len(Intervals) /\ now = loopTime % Wrap
  /\ \A i \in Tasks : InReach(i)

LEMMA Table ==
  /\ Len(Intervals) \in Nat /\ Tasks = 1 .. Len(Intervals) /\ MaxRun \in Nat
  /\ \A i \in Tasks : Intervals[i] \in 0 .. Half - 1
  /\ MaxRun * Len(Intervals) < Half
BY SchedulerAssumption, HalfIs DEF Tasks

\* Turns take at most MaxRun each.
LEMMA TurnsTake ==
  ASSUME NEW m \in Nat, NEW n \in Nat, m <= n
  PROVE  MaxRun * m \in Nat /\ MaxRun * m <= MaxRun * n /\ MaxRun * (m + 1) = MaxRun * m + MaxRun
<1>1. MaxRun \in Nat
  BY Table
<1>2. n - m \in Nat /\ MaxRun * (n - m) = MaxRun * n - MaxRun * m
  BY <1>1
<1>3. MaxRun * (n - m) >= 0 /\ MaxRun * m >= 0 /\ MaxRun * m \in Int /\ MaxRun * n \in Int
  BY <1>1, <1>2
<1> QED
  BY <1>1, <1>2, <1>3

\* When run() comes to a task the wrapped comparison is the true one.
LEMMA ReadRight ==
  ASSUME OnTime, at \in Tasks
  PROVE  NotDue(now, nextDue[at]) <=> dueAt[at] > loopTime
<1>1. /\ now = loopTime % Wrap /\ loopTime \in Nat /\ dueAt[at] \in Nat
      /\ nextDue[at] = dueAt[at] % Wrap /\ dueAt[at] < loopTime + Half
      /\ loopTime <= dueAt[at] + MaxRun * TurnsSince(at)
  BY Table DEF OnTime, SchedulerTypeOK, InReach
<1>2. TurnsSince(at) = Len(Intervals)
  BY Table DEF TurnsSince
<1>3. loopTime - dueAt[at] < Half /\ dueAt[at] - loopTime < Half
  BY <1>1, <1>2, Table, HalfIs
<1>4. Reached(now, nextDue[at]) <=> loopTime >= dueAt[at]
  BY <1>1, <1>3, ReachedIs
<1> QED
  BY <1>1, <1>4 DEF NotDue

\* The turns that have gone by for a task the step does not come to.
LEMMA OthersWait ==
  ASSUME OnTime, NEW i \in Tasks, NEW d \in 0 .. MaxRun,
         loopTime' = loopTime + d, nextDue'[i] = nextDue[i], dueAt'[i] = dueAt[i],
         \/ at \in Tasks /\ i # at /\ at' = at + 1
         \/ at = Len(Intervals) + 1 /\ at' = 0
  PROVE  InReach(i)'
<1>1. TurnsSince(i) \in Nat /\ TurnsSince(i)' = TurnsSince(i) + 1
  <2>1. Len(Intervals) \in Nat /\ i \in 1 .. Len(Intervals)
    BY Table
  <2>2. CASE at \in Tasks /\ i # at /\ at' = at + 1
    <3>1. at \in 1 .. Len(Intervals)
      BY <2>2, Table
    <3> QED
      BY <2>1, <2>2, <3>1 DEF TurnsSince
  <2>3. CASE at = Len(Intervals) + 1 /\ at' = 0
    BY <2>1, <2>3 DEF TurnsSince
  <2> QED
    BY <2>2, <2>3
<1>2. MaxRun * TurnsSince(i)' = MaxRun * TurnsSince(i) + MaxRun /\ MaxRun * TurnsSince(i) \in Nat
  BY <1>1, TurnsTake
<1>3. /\ loopTime \in Nat /\ dueAt[i] \in Nat /\ dueAt[i] < loopTime + Half
      /\ loopTime <= dueAt[i] + MaxRun * TurnsSince(i) /\ nextDue[i] = dueAt[i] % Wrap
  BY DEF OnTime, SchedulerTypeOK, InReach
<1>4. loopTime' <= dueAt'[i] + (MaxRun * TurnsSince(i) + MaxRun) /\ dueAt'[i] < loopTime' + Half
  BY <1>2, <1>3, Table, HalfIs
<1> QED
  BY <1>2, <1>3, <1>4 DEF InReach

LEMMA RunKeepsTime ==
  ASSUME OnTime, NEW d \in 0 .. MaxRun, Run(d)
  PROVE  OnTime'
<1>1. /\ at \in Tasks /\ at' = at + 1 /\ loopTime' = loopTime + d /\ now' = loopTime' % Wrap
      /\ added' = added /\ loopTime' \in Nat /\ at' \in 1 .. Len(Intervals) + 1
      /\ Intervals[at] \in 0 .. Half - 1 /\ loopTime' + Intervals[at] \in Nat
      /\ at # 0
  BY Table, HalfIs DEF Run, OnTime, SchedulerTypeOK
<1> DEFINE later == loopTime' + Intervals[at]
<1>2. (now' + Intervals[at]) % Wrap = later % Wrap /\ later % Wrap \in 0 .. Wrap - 1
  <2>1. ((loopTime' % Wrap) + Intervals[at]) % Wrap = (loopTime' + Intervals[at]) % Wrap
    <3>1. loopTime' \in Nat /\ Intervals[at] \in Nat
      BY <1>1, HalfIs
    <3> HIDE DEF later
    <3> QED
      BY <3>1, WrappedSum
  <2> QED
    BY <1>1, <2>1, Division
<1>3. nextDue' = [nextDue EXCEPT ![at] = later % Wrap] /\ dueAt' = [dueAt EXCEPT ![at] = later]
  BY <1>2 DEF Run
<1>4. later \in Nat /\ later < loopTime' + Half /\ loopTime' <= later
  BY <1>1, HalfIs
<1> HIDE DEF later
<1>5. SchedulerTypeOK'
  <2>1. now' \in 0 .. Wrap - 1
    BY <1>1, Division
  <2> QED
    BY <1>1, <1>2, <1>3, <1>4, <2>1 DEF OnTime, SchedulerTypeOK
<1>6. ASSUME NEW i \in Tasks PROVE InReach(i)'
  <2>1. CASE i = at
    <3>1. nextDue'[i] = later % Wrap /\ dueAt'[i] = later
      BY <1>1, <1>3, <2>1 DEF OnTime, SchedulerTypeOK
    <3>2. TurnsSince(i)' = 0
      BY <1>1, <2>1, Table DEF TurnsSince
    <3>3. loopTime' <= dueAt'[i] + MaxRun * TurnsSince(i)'
      BY <1>1, <1>4, <3>1, <3>2, Table
    <3> QED
      BY <1>4, <3>1, <3>3 DEF InReach
  <2>2. CASE i # at
    <3>1. nextDue'[i] = nextDue[i] /\ dueAt'[i] = dueAt[i]
      BY <1>3, <2>2 DEF OnTime, SchedulerTypeOK
    <3> QED
      BY <1>1, <2>2, <3>1, OthersWait
  <2> QED
    BY <2>1, <2>2
<1>7. at' # 0 /\ added' = Len(Intervals) /\ now' = loopTime' % Wrap
  BY <1>1, Table DEF OnTime
<1> QED
  BY <1>5, <1>6, <1>7, Table DEF OnTime, Tasks

LEMMA OnTimeAlways == SchedulerSpec => []OnTime
<1>1. SchedulerInit => OnTime
  <2> SUFFICES ASSUME SchedulerInit PROVE OnTime
    OBVIOUS
  <2>1. 0 % Wrap = 0 /\ 0 \in 0 .. Wrap - 1
    BY WrapAssumption
  <2>2. SchedulerTypeOK
    BY <2>1, Table DEF SchedulerInit, SchedulerTypeOK
  <2>3. ASSUME NEW i \in Tasks PROVE InReach(i)
    <3>1. TurnsSince(i) \in Nat
      BY Table DEF SchedulerInit, TurnsSince
    <3>2. MaxRun * TurnsSince(i) \in Nat
      BY <3>1, TurnsTake
    <3> QED
      BY <2>1, <3>2, HalfIs DEF SchedulerInit, InReach
  <2> QED
    BY <2>2, <2>3 DEF OnTime, SchedulerInit
<1>2. ASSUME OnTime, [SchedulerNext]_schedulerVars PROVE OnTime'
  <2>1. CASE addTask
    <3> DEFINE k == added + 1
    <3>1. /\ at' = at /\ at = 0 /\ loopTime' = loopTime /\ now' = now /\ added' = k
          /\ loopTime \in Nat /\ added \in 0 .. Len(Intervals) /\ added < Len(Intervals)
      BY <1>2, <2>1 DEF addTask, OnTime, SchedulerTypeOK
    <3>0. k \in Tasks /\ added' \in 0 .. Len(Intervals)
      BY <3>1, Table
    <3>2. nextDue' = [nextDue EXCEPT ![k] = loopTime % Wrap] /\ dueAt' = [dueAt EXCEPT ![k] = loopTime]
      BY <2>1 DEF addTask
    <3>3. loopTime % Wrap \in 0 .. Wrap - 1
      <4>1. loopTime \in Int
        BY <3>1
      <4> QED
        BY <4>1, Division
    <3> HIDE DEF k
    <3>4. SchedulerTypeOK'
      BY <1>2, <3>0, <3>1, <3>2, <3>3 DEF OnTime, SchedulerTypeOK
    <3>5. ASSUME NEW i \in Tasks PROVE InReach(i)'
      <4>1. TurnsSince(i)' = TurnsSince(i) /\ TurnsSince(i) \in Nat
        BY <3>1, Table DEF TurnsSince
      <4>2. MaxRun * TurnsSince(i) \in Nat
        BY <4>1, TurnsTake
      <4>3. CASE i = k
        <5>1. nextDue'[i] = loopTime % Wrap /\ dueAt'[i] = loopTime
          BY <1>2, <3>0, <3>1, <3>2, <4>3 DEF OnTime, SchedulerTypeOK
        <5> QED
          BY <3>1, <4>1, <4>2, <5>1, HalfIs DEF InReach
      <4>4. CASE i # k
        <5>1. nextDue'[i] = nextDue[i] /\ dueAt'[i] = dueAt[i]
          BY <1>2, <3>2, <4>4 DEF OnTime, SchedulerTypeOK
        <5> QED
          BY <1>2, <3>1, <4>1, <5>1 DEF OnTime, InReach
      <4> QED
        BY <4>3, <4>4
    <3> QED
      BY <3>1, <3>4, <3>5 DEF OnTime, Tasks
  <2>2. CASE Enter
    <3>1. ASSUME NEW i \in Tasks PROVE InReach(i)'
      <4>1. /\ TurnsSince(i)' = TurnsSince(i) /\ loopTime' = loopTime
            /\ nextDue' = nextDue /\ dueAt' = dueAt
        BY <2>2, Table DEF TurnsSince, Enter
      <4> QED
        BY <1>2, <4>1 DEF OnTime, InReach
    <3>2. SchedulerTypeOK' /\ added' = Len(Intervals) /\ now' = loopTime' % Wrap
      <4>1. loopTime \in Int /\ loopTime' = loopTime /\ now' = loopTime % Wrap
        BY <1>2, <2>2 DEF OnTime, SchedulerTypeOK, Enter
      <4>2. now' \in 0 .. Wrap - 1
        BY <4>1, Division
      <4> QED
        BY <1>2, <2>2, <4>1, <4>2, Table DEF OnTime, SchedulerTypeOK, Enter
    <3> QED
      BY <3>1, <3>2 DEF OnTime, Tasks
  <2>3. CASE Skip
    <3>1. dueAt[at] > loopTime /\ at \in Tasks /\ loopTime' = loopTime /\ at' = at + 1
      BY <1>2, <2>3, ReadRight DEF Skip
    <3>2. ASSUME NEW i \in Tasks PROVE InReach(i)'
      <4>1. CASE i = at
        <5>1. TurnsSince(i)' = 0
          BY <3>1, <4>1, Table DEF TurnsSince
        <5>2. MaxRun * TurnsSince(i)' = 0
          BY <5>1, Table
        <5> QED
          BY <1>2, <2>3, <3>1, <4>1, <5>2, HalfIs DEF InReach, OnTime, SchedulerTypeOK, Skip
      <4>2. CASE i # at
        <5>1. loopTime' = loopTime + 0 /\ 0 \in 0 .. MaxRun
          BY <1>2, <3>1, Table DEF OnTime, SchedulerTypeOK
        <5> QED
          BY <1>2, <2>3, <3>1, <4>2, <5>1, OthersWait DEF Skip
      <4> QED
        BY <4>1, <4>2
    <3>3. SchedulerTypeOK' /\ added' = Len(Intervals) /\ now' = loopTime' % Wrap
      BY <1>2, <2>3, Table DEF OnTime, SchedulerTypeOK, Skip
    <3> QED
      BY <3>2, <3>3 DEF OnTime, Tasks
  <2>4. ASSUME NEW d \in 0 .. MaxRun, Run(d) PROVE OnTime'
    BY <1>2, <2>4, RunKeepsTime
  <2>5. ASSUME NEW d \in 0 .. MaxRun, Leave(d) PROVE OnTime'
    <3>1. ASSUME NEW i \in Tasks PROVE InReach(i)'
      BY <1>2, <2>5, OthersWait DEF Leave
    <3>2. SchedulerTypeOK' /\ at' = 0
      BY <1>2, <2>5, Table DEF OnTime, SchedulerTypeOK, Leave
    <3> QED
      BY <3>1, <3>2 DEF OnTime, Tasks
  <2>6. CASE UNCHANGED schedulerVars
    BY <1>2, <2>6 DEF OnTime, SchedulerTypeOK, InReach, TurnsSince, schedulerVars
  <2> QED
    BY <1>2, <2>1, <2>2, <2>3, <2>4, <2>5, <2>6 DEF SchedulerNext
<1> QED
  BY <1>1, <1>2, PTL DEF SchedulerSpec

\* Types are kept.
THEOREM SchedulerTypeCorrect == SchedulerSpec => []SchedulerTypeOK
<1>1. OnTime => SchedulerTypeOK
  BY DEF OnTime
<1> QED
  BY <1>1, OnTimeAlways, PTL

\* Across any number of wraps and overruns a pass runs a task exactly when its
\* interval has gone by since it last ended, for every table whose round of
\* turns takes less than half the clock's range (scheduler.cpp, run()).
THEOREM EveryTaskWhenDue == SchedulerSpec => []RunsExactlyWhenDue
<1>1. OnTime => RunsExactlyWhenDue
  BY ReadRight DEF RunsExactlyWhenDue
<1> QED
  BY <1>1, OnTimeAlways, PTL

-----------------------------------------------------------------------------
(* Hid.                                                                    *)

\* What became of a key: what the host read of it, and whether it went clear.
Strokes == [read : Seq(Chars \cup {"named", "wrong"}), clear : BOOLEAN]

HidTypeOK ==
  /\ armed \in BOOLEAN /\ bound \in BOOLEAN
  /\ layout \in Layouts /\ map \in Layouts /\ stored \in Layouts
  /\ text \in Seq(Chars) /\ index \in 0 .. Len(text)
  /\ jobActive \in BOOLEAN /\ charDue \in BOOLEAN /\ slow \in BOOLEAN
  /\ job \in Nat /\ done \in 0 .. job
  /\ typed \in Seq(Strokes) /\ hostLayout \in Layouts /\ held \in BOOLEAN

\* The table in the keyboard is that of the chosen layout, a job that is running
\* has characters left and has not been announced, and one that has been
\* announced has none.
Typing ==
  /\ HidTypeOK
  /\ map = layout
  /\ jobActive => index < Len(text) /\ done < job
  /\ KeysReadAsAsked

\* A key that goes clear while the keyboard holds the layout's table reads as
\* itself.
LEMMA StrokeIs ==
  ASSUME map = layout, layout \in Layouts, hostLayout \in Layouts, held \in BOOLEAN,
         NEW c \in (Chars \ {"cr"}) \cup {"named"}, NEW o \in Outcomes
  PROVE  /\ Stroke(c, o) \in Strokes /\ o.held \in BOOLEAN
         /\ Stroke(c, o).clear => Stroke(c, o).read = <<c>>
<1>1. o.whole \in BOOLEAN /\ o.held \in BOOLEAN
  <2>1. PICK w \in BOOLEAN, h \in BOOLEAN : o = [whole |-> w, held |-> h]
    <3>1. (~held) \in BOOLEAN /\ TRUE \in BOOLEAN /\ FALSE \in BOOLEAN
      OBVIOUS
    <3> QED
      BY <3>1, Zenon DEF Outcomes
  <2> QED
    BY <2>1
<1>2. Press(c) = << >> \/ Press(c) = <<c>> \/ Press(c) = <<"hash">> \/ Press(c) = <<"wrong">>
  <2>1. \/ Lookup(map, hostLayout, c) = << >> \/ Lookup(map, hostLayout, c) = <<c>>
        \/ Lookup(map, hostLayout, c) = <<"wrong">>
    BY DEF Lookup
  <2>2. Raw(hostLayout) = <<"hash">> \/ Raw(hostLayout) = <<"wrong">>
    BY DEF Raw
  <2>3. Press(c) = Raw(hostLayout) \/ Press(c) = Lookup(map, hostLayout, c)
    BY DEF Press
  <2> QED
    BY <2>1, <2>2, <2>3
<1>3. << >> \in Seq(Chars \cup {"named", "wrong"}) /\ Press(c) \in Seq(Chars \cup {"named", "wrong"})
  <2>1. << >> \in Seq(Chars \cup {"named", "wrong"})
    BY EmptySeq
  <2>2. \A k \in Chars \cup {"named", "wrong"} : <<k>> \in Seq(Chars \cup {"named", "wrong"})
    OBVIOUS
  <2>3. c \in Chars \cup {"named", "wrong"} /\ "hash" \in Chars \cup {"named", "wrong"}
    BY DEF Chars
  <2> QED
    BY <1>2, <2>1, <2>2, <2>3
<1>4. Stroke(c, o) \in Strokes
  BY <1>1, <1>3 DEF Stroke, Strokes
<1>5. ASSUME c \in {"same", "named"} \/ hostLayout = layout PROVE Press(c) = <<c>>
  <2>1. CASE c = "hash" /\ layout = "en_GB"
    BY <1>5, <2>1 DEF Press, Raw
  <2>2. CASE ~(c = "hash" /\ layout = "en_GB")
    <3>1. Press(c) = Lookup(layout, hostLayout, c)
      BY <2>2 DEF Press
    <3>2. Lookup(layout, hostLayout, c) = <<c>>
      BY <1>5, <2>2 DEF Lookup
    <3> QED
      BY <3>1, <3>2
  <2> QED
    BY <2>1, <2>2
<1>6. Stroke(c, o).clear => Stroke(c, o).read = <<c>>
  BY <1>5 DEF Stroke
<1> QED
  BY <1>1, <1>4, <1>6

\* A character's turn puts down what became of it, and what went clear reads as
\* the character.
LEMMA TurnIs ==
  ASSUME map = layout, layout \in Layouts, hostLayout \in Layouts, held \in BOOLEAN,
         NEW c \in Chars, emitChar(c)
  PROVE  /\ held' \in BOOLEAN
         /\ \E t \in Strokes : typed' = Append(typed, t) /\ (t.clear => t.read = Printed(c))
<1>1. CASE c = "cr"
  <2>1. Skipped \in Strokes /\ Skipped.read = Printed(c)
    <3>1. << >> \in Seq(Chars \cup {"named", "wrong"})
      BY EmptySeq
    <3> QED
      BY <1>1, <3>1 DEF Skipped, Strokes, Printed
  <2> QED
    BY <1>1, <2>1 DEF emitChar
<1>2. CASE c # "cr"
  <2>1. PICK o \in Outcomes : typed' = Append(typed, Stroke(c, o)) /\ held' = o.held
    BY <1>2 DEF emitChar
  <2>2. /\ Stroke(c, o) \in Strokes /\ o.held \in BOOLEAN
        /\ Stroke(c, o).clear => Stroke(c, o).read = <<c>>
    BY <1>2, StrokeIs
  <2> QED
    BY <1>2, <2>1, <2>2 DEF Printed
<1> QED
  BY <1>1, <1>2

LEMMA TextsAre ==
  ASSUME NEW t \in Texts
  PROVE  t \in Seq(Chars) /\ Len(t) >= 1 /\ Len(t) \in Nat
<1>1. PICK n \in 1 .. MaxTypeLen : t \in [1 .. n -> Chars]
  BY DEF Texts
<1>2. n \in Nat /\ n >= 1
  BY <1>1, HidAssumption
<1>3. t \in Seq(Chars) /\ Len(t) = n
  BY <1>1, <1>2
<1> QED
  BY <1>2, <1>3

LEMMA TickTypes ==
  ASSUME Typing, hidTick
  PROVE  Typing'
<1>1. /\ index' = index + 1 /\ index < Len(text) /\ text' = text /\ done < job /\ job' = job
      /\ UNCHANGED <<armed, bound, layout, map, stored, slow, tap, hostLayout>> /\ jobActive' = (index' < Len(text))
      /\ done' = (IF jobActive' THEN done ELSE job) /\ charDue' = ~slow
      /\ Len(text) \in Nat
  BY DEF Typing, hidTick, HidTypeOK, layoutVars
<1>2. /\ held' \in BOOLEAN
      /\ \E t \in Strokes : typed' = Append(typed, t) /\ (t.clear => t.read = Printed(text[index + 1]))
  <2>1. text[index + 1] \in Chars /\ emitChar(text[index + 1])
    BY <1>1 DEF Typing, HidTypeOK, hidTick
  <2> QED
    BY <2>1, TurnIs DEF Typing, HidTypeOK
<1>3. PICK t \in Strokes : typed' = Append(typed, t) /\ (t.clear => t.read = Printed(text[index + 1]))
  BY <1>2
<1>4. /\ typed' \in Seq(Strokes) /\ Len(typed') = index'
      /\ \A i \in 1 .. index' : typed'[i].clear => typed'[i].read = Printed(text'[i])
  <2>1. typed \in Seq(Strokes) /\ Len(typed) = index /\ index \in Nat
    BY DEF Typing, HidTypeOK, KeysReadAsAsked
  <2>2. /\ typed' \in Seq(Strokes) /\ Len(typed') = index + 1 /\ typed'[index + 1] = t
        /\ \A i \in 1 .. index : typed'[i] = typed[i]
    BY <1>3, <2>1, AppendProperties
  <2>3. \A i \in 1 .. index + 1 : i \in 1 .. index \/ i = index + 1
    BY <2>1
  <2>4. \A i \in 1 .. index : typed[i].clear => typed[i].read = Printed(text[i])
    BY DEF Typing, KeysReadAsAsked
  <2> QED
    BY <1>1, <1>3, <2>1, <2>2, <2>3, <2>4
<1>5. HidTypeOK'
  BY <1>1, <1>2, <1>4 DEF Typing, HidTypeOK
<1>6. done' # 0 /\ done' = job' => index' = Len(text')
  <2>1. index \in Nat /\ done \in Nat /\ job \in Nat
    BY DEF Typing, HidTypeOK
  <2>2. CASE index + 1 < Len(text)
    <3>1. jobActive'
      BY <1>1, <2>2
    <3>2. done' = done
      BY <1>1, <3>1
    <3> QED
      BY <1>1, <2>1, <3>2
  <2>3. CASE ~(index + 1 < Len(text))
    BY <1>1, <2>1, <2>3
  <2> QED
    BY <2>2, <2>3
<1>7. KeysReadAsAsked'
  <2>1. tap'.got.clear => tap'.got.read = tap'.asked
    BY <1>1 DEF Typing, KeysReadAsAsked
  <2> QED
    BY <1>4, <1>6, <2>1 DEF KeysReadAsAsked
<1>8. jobActive' => index' < Len(text') /\ done' < job'
  BY <1>1
<1> QED
  BY <1>1, <1>5, <1>7, <1>8 DEF Typing

LEMMA TypingAlways == HidSpec => []Typing
<1>0. << >> \in Seq(Chars) /\ << >> \in Seq(Strokes) /\ Len(<< >>) = 0 /\ 0 \in 0 .. 0 /\ 1 .. 0 = {}
  BY EmptySeq
<1>1. HidInit => Typing
  <2> SUFFICES ASSUME HidInit PROVE Typing
    OBVIOUS
  <2>1. HidTypeOK
    BY <1>0 DEF HidInit, HidTypeOK, Layouts
  <2>2. KeysReadAsAsked
    BY <1>0 DEF HidInit, KeysReadAsAsked, Skipped
  <2> QED
    BY <2>1, <2>2 DEF HidInit, Typing
<1>2. ASSUME Typing, [HidNext]_hidVars PROVE Typing'
  <2>1. CASE Boot
    <3>1. HidTypeOK'
      BY <1>0, <1>2, <2>1 DEF Typing, HidTypeOK, Boot, Layouts
    <3>2. KeysReadAsAsked'
      BY <1>0, <1>2, <2>1 DEF Boot, Typing, KeysReadAsAsked
    <3> QED
      BY <2>1, <3>1, <3>2 DEF Typing, Boot
  <2>2. CASE hidTick
    BY <1>2, <2>2, TickTypes
  <2>3. CASE Elapse
    BY <1>2, <2>3 DEF Typing, HidTypeOK, KeysReadAsAsked, Elapse, layoutVars, hostVars
  <2>4. CASE actRelease
    BY <1>2, <2>4 DEF Typing, HidTypeOK, KeysReadAsAsked, actRelease, layoutVars
  <2>5. ASSUME NEW a \in BOOLEAN, Arm(a) PROVE Typing'
    BY <1>2, <2>5 DEF Typing, HidTypeOK, KeysReadAsAsked, Arm, layoutVars, jobVars, hostVars
  <2>6. ASSUME NEW t \in Texts, NEW delayed \in BOOLEAN, actType(t, delayed) PROVE Typing'
    <3>1. /\ text' = t /\ index' = 0 /\ jobActive' /\ job' = job + 1 /\ done' = done /\ typed' = << >>
          /\ UNCHANGED <<armed, bound, layout, map, stored, tap, hostLayout, held>>
          /\ charDue' = TRUE /\ slow' = delayed
      BY <2>6 DEF actType, layoutVars, hostVars
    <3>2. done' < job' /\ job' \in Nat /\ done' \in 0 .. job'
      BY <1>2, <3>1 DEF Typing, HidTypeOK
    <3>3. HidTypeOK'
      BY <1>0, <1>2, <3>1, <3>2, TextsAre DEF Typing, HidTypeOK
    <3>4. KeysReadAsAsked'
      <4>1. tap'.got.clear => tap'.got.read = tap'.asked
        BY <1>2, <3>1 DEF Typing, KeysReadAsAsked
      <4>2. done' # job'
        BY <1>2, <3>1, <3>2 DEF Typing, HidTypeOK
      <4>3. Len(typed') = 0
        BY <3>1
      <4>4. \A i \in 1 .. index' : typed'[i].clear => typed'[i].read = Printed(text'[i])
        BY <1>0, <3>1
      <4> QED
        BY <3>1, <4>1, <4>2, <4>3, <4>4 DEF KeysReadAsAsked
    <3> QED
      BY <1>2, <3>1, <3>2, <3>3, <3>4, TextsAre DEF Typing
  <2>7. ASSUME NEW c \in (Chars \ {"cr"}) \cup {"named"}, actKey(c) PROVE Typing'
    <3>1. PICK o \in Outcomes : tap' = [asked |-> <<c>>, got |-> Stroke(c, o)] /\ held' = o.held
      BY <2>7 DEF actKey
    <3>2. o.held \in BOOLEAN /\ (Stroke(c, o).clear => Stroke(c, o).read = <<c>>)
      BY <1>2, <3>1, StrokeIs DEF Typing, HidTypeOK
    <3>3. held' \in BOOLEAN /\ (tap'.got.clear => tap'.got.read = tap'.asked)
      BY <3>1, <3>2
    <3> QED
      BY <1>2, <2>7, <3>3 DEF Typing, HidTypeOK, KeysReadAsAsked, actKey, layoutVars, jobVars
  <2>8. ASSUME NEW l \in Layouts, NEW landed \in BOOLEAN, actLayout(l, landed) PROVE Typing'
    BY <1>2, <2>8 DEF Typing, HidTypeOK, KeysReadAsAsked, actLayout, jobVars, hostVars
  <2>9. ASSUME NEW l \in Layouts, HostChanges(l) PROVE Typing'
    BY <1>2, <2>9 DEF Typing, HidTypeOK, KeysReadAsAsked, HostChanges, layoutVars, jobVars
  <2>10. CASE UNCHANGED hidVars
    BY <1>2, <2>10 DEF Typing, HidTypeOK, KeysReadAsAsked, hidVars, layoutVars, jobVars, hostVars
  <2> QED
    BY <1>2, <2>1, <2>2, <2>3, <2>4, <2>5, <2>6, <2>7, <2>8, <2>9, <2>10 DEF HidNext
<1> QED
  BY <1>1, <1>2, PTL DEF HidSpec

\* Types are kept.
THEOREM HidTypeCorrect == HidSpec => []HidTypeOK
<1>1. Typing => HidTypeOK
  BY DEF Typing
<1> QED
  BY <1>1, TypingAlways, PTL

\* In jobs of any length every character has its turn, once and in order, and
\* what the host reads of each key that goes clear is what was asked for,
\* whatever layouts are chosen here and there, reports lost and keys pressed in
\* the middle of the job; hid.done is said only after the last one's turn
\* (mod_hid.cpp, hidTick(), emitChar() and actLayout()).
THEOREM ClearKeysReadAsAsked == HidSpec => []KeysReadAsAsked
<1>1. Typing => KeysReadAsAsked
  BY DEF Typing
<1> QED
  BY <1>1, TypingAlways, PTL

-----------------------------------------------------------------------------
(* Display: what Dirty hands out.                                          *)

LEMMA CountIs == Count = 4 /\ Regions = 0 .. 3 /\ IsFiniteSet(Regions)
<1>1. ID = 0 /\ QR = 3
  BY DEF ID, QR
<1>2. IsFiniteSet(ID .. QR) /\ Cardinality(ID .. QR) = 4
  <2>1. ID \in Int /\ QR \in Int
    BY <1>1
  <2>2. IsFiniteSet(ID .. QR) /\ Cardinality(ID .. QR) = IF ID > QR THEN 0 ELSE QR - ID + 1
    BY <2>1, FS_Interval
  <2> QED
    BY <1>1, <2>2
<1>3. Regions = 0 .. 3
  BY <1>1 DEF Regions
<1> QED
  BY <1>2, <1>3 DEF Count, Regions

LEMMA DistanceIs ==
  ASSUME NEW c \in Regions, NEW r \in Regions
  PROVE  /\ Distance(c, r) = IF c <= r THEN r - c ELSE r + 4 - c
         /\ Distance(c, r) \in 0 .. 3
<1>1. CASE c <= r
  <2>1. (r + 4 - c) % 4 = r - c
    BY <1>1, CountIs
  <2> QED
    BY <1>1, <2>1, CountIs DEF Distance
<1>2. CASE ~(c <= r)
  <2>1. (r + 4 - c) % 4 = r + 4 - c
    BY <1>2, CountIs
  <2> QED
    BY <1>2, <2>1, CountIs DEF Distance
<1> QED
  BY <1>1, <1>2

\* Seen from just behind a region, the ones after it are that much nearer.
LEMMA Turned ==
  ASSUME NEW c \in Regions, NEW f \in Regions, NEW r \in Regions,
         Distance(c, f) < Distance(c, r)
  PROVE  /\ (f + 1) % Count \in Regions
         /\ Distance((f + 1) % Count, r) = Distance(c, r) - Distance(c, f) - 1
<1> DEFINE n == (f + 1) % Count
<1>1. n = IF f = 3 THEN 0 ELSE f + 1
  BY CountIs
<1>2. n \in Regions
  BY <1>1, CountIs
<1> HIDE DEF n
<1>3. Distance(n, r) = IF n <= r THEN r - n ELSE r + 4 - n
  BY <1>2, DistanceIs
<1>4. Distance(n, r) = Distance(c, r) - Distance(c, f) - 1
  BY <1>1, <1>3, DistanceIs, CountIs
<1> QED
  BY <1>2, <1>4 DEF n

\* There are no more regions within a distance than the distance.
LEMMA Nearer ==
  ASSUME NEW c \in Regions, NEW d \in SUBSET Regions, NEW k \in 0 .. 4,
         NEW N \in SUBSET {q \in d : Distance(c, q) < k}
  PROVE  IsFiniteSet(N) /\ Cardinality(N) \in Nat /\ Cardinality(N) <= k
<1> DEFINE f == [q \in N |-> Distance(c, q)]
           T == 0 .. k - 1
<1>1. IsFiniteSet(N) /\ Cardinality(N) \in Nat
  BY CountIs, FS_Subset, FS_CardinalityType
<1>2. IsFiniteSet(T) /\ Cardinality(T) = k
  BY FS_Interval
<1>3. f \in [N -> T]
  BY DistanceIs
<1>4. ASSUME NEW q \in N, NEW r \in N, f[q] = f[r] PROVE q = r
  <2>1. q \in Regions /\ r \in Regions /\ Distance(c, q) = Distance(c, r)
    BY <1>4
  <2> QED
    BY <2>1, DistanceIs, CountIs
<1> HIDE DEF f, T
<1>5. ~(Cardinality(T) < Cardinality(N))
  BY <1>1, <1>2, <1>3, <1>4, FS_PigeonHole
<1> QED
  BY <1>1, <1>2, <1>5

\* Of any regions one is the furthest, and one the nearest.
LEMMA Extremes ==
  ASSUME NEW c \in Regions, NEW d \in SUBSET Regions, d # {}
  PROVE  /\ \E f \in d : \A q \in d : Distance(c, q) <= Distance(c, f)
         /\ \E f \in d : \A q \in d : Distance(c, f) <= Distance(c, q)
<1>1. \A q \in d : Distance(c, q) \in 0 .. 3
  BY DistanceIs
<1>2. \E f \in d : \A q \in d : Distance(c, q) <= Distance(c, f)
  <2> DEFINE T == {3 - Distance(c, q) : q \in d}
  <2>1. T \in SUBSET Nat /\ T # {}
    BY <1>1
  <2>2. PICK x \in T : \A y \in T : x <= y
    BY <2>1, Least
  <2>3. PICK f \in d : x = 3 - Distance(c, f)
    BY <2>2
  <2>4. ASSUME NEW q \in d PROVE Distance(c, q) <= Distance(c, f)
    <3>1. 3 - Distance(c, f) <= 3 - Distance(c, q)
      BY <2>2, <2>3
    <3> QED
      BY <1>1, <3>1
  <2> QED
    BY <2>4
<1>3. \E f \in d : \A q \in d : Distance(c, f) <= Distance(c, q)
  <2> DEFINE T == {Distance(c, q) : q \in d}
  <2>1. T \in SUBSET Nat /\ T # {}
    BY <1>1
  <2>2. PICK x \in T : \A y \in T : x <= y
    BY <2>1, Least
  <2> QED
    BY <2>2
<1> QED
  BY <1>2, <1>3

\* The dirty regions nearer than r.
Before(d, c, r) == {q \in d : Distance(c, q) < Distance(c, r)}

LEMMA TakenIs ==
  ASSUME NEW c \in Regions, NEW d \in SUBSET Regions
  PROVE  /\ Taken(d, c) \in SUBSET d
         /\ d # {} => Taken(d, c) # {}
         /\ Cursor(d, c) \in Regions
         /\ \A r \in d : r \in Taken(d, c) <=> Cardinality(Before(d, c, r)) < MaxDraw
<1>1. /\ Taken(d, c) \in SUBSET d
      /\ \A r \in d : r \in Taken(d, c) <=> Cardinality(Before(d, c, r)) < MaxDraw
  BY DEF Taken, Before
<1>2. ASSUME d # {} PROVE Taken(d, c) # {}
  <2>1. PICK f \in d : \A q \in d : Distance(c, f) <= Distance(c, q)
    BY <1>2, Extremes
  <2>2. Before(d, c, f) = {}
    BY <2>1, DistanceIs DEF Before
  <2>3. Cardinality(Before(d, c, f)) = 0
    BY <2>2, FS_EmptySet
  <2> QED
    BY <1>1, <2>3, DisplayAssumption
<1>3. ASSUME NEW f \in Regions PROVE (f + 1) % Count \in Regions
  BY CountIs
<1>4. Cursor(d, c) \in Regions
  <2>1. CASE d = {}
    BY <2>1 DEF Cursor
  <2>2. CASE d # {}
    <3> DEFINE furthest == CHOOSE r \in Taken(d, c) : \A q \in Taken(d, c) : Distance(c, q) <= Distance(c, r)
    <3>1. \E r \in Taken(d, c) : \A q \in Taken(d, c) : Distance(c, q) <= Distance(c, r)
      BY <1>1, <1>2, <2>2, Extremes
    <3>2. furthest \in Taken(d, c)
      BY <3>1
    <3>3. Cursor(d, c) = (furthest + 1) % Count
      BY <2>2 DEF Cursor
    <3> HIDE DEF furthest
    <3> QED
      BY <1>1, <1>3, <3>2, <3>3
  <2> QED
    BY <2>1, <2>2
<1> QED
  BY <1>1, <1>2, <1>4

\* A region that has to wait is nearer by a whole tick's regions.
LEMMA TurnComesNearer ==
  ASSUME NEW c \in Regions, NEW d \in SUBSET Regions, NEW r \in d \ Taken(d, c)
  PROVE  Distance(Cursor(d, c), r) + MaxDraw <= Distance(c, r)
<1> DEFINE K == Taken(d, c)
           furthest == CHOOSE f \in K : \A q \in K : Distance(c, q) <= Distance(c, f)
           waiting == d \ K
<1>1. K \in SUBSET d /\ K # {} /\ K \in SUBSET Regions /\ waiting \in SUBSET Regions /\ waiting # {}
  BY TakenIs
<1>2. furthest \in K /\ \A q \in K : Distance(c, q) <= Distance(c, furthest)
  <2>1. \E f \in K : \A q \in K : Distance(c, q) <= Distance(c, f)
    BY <1>1, Extremes
  <2> QED
    BY <2>1
<1>3. Cursor(d, c) = (furthest + 1) % Count
  BY DEF Cursor
<1>4. \A q \in d : q \in K <=> Cardinality(Before(d, c, q)) < MaxDraw
  BY TakenIs
<1> HIDE DEF furthest, K
<1>5. PICK m \in waiting : \A q \in waiting : Distance(c, m) <= Distance(c, q)
  BY <1>1, Extremes
<1>6. furthest \in Regions /\ m \in Regions /\ r \in Regions /\ MaxDraw \in Nat
  BY <1>1, <1>2, <1>5, DisplayAssumption
<1>7. /\ Distance(c, furthest) \in 0 .. 3 /\ Distance(c, r) \in 0 .. 3 /\ Distance(c, m) \in 0 .. 3
      /\ \A q \in d : Distance(c, q) \in 0 .. 3
  BY <1>6, DistanceIs
<1>8. Before(d, c, m) \in SUBSET K
  BY <1>5, <1>7 DEF Before
<1>9. Before(d, c, m) \in SUBSET {q \in d : Distance(c, q) < Distance(c, furthest) + 1}
  BY <1>2, <1>7, <1>8 DEF Before
<1>10. Cardinality(Before(d, c, m)) \in Nat /\ Cardinality(Before(d, c, m)) <= Distance(c, furthest) + 1
  BY <1>7, <1>9, Nearer
<1>11. ~(Cardinality(Before(d, c, m)) < MaxDraw)
  BY <1>4, <1>5
<1>12. MaxDraw <= Distance(c, furthest) + 1
  BY <1>6, <1>7, <1>10, <1>11
<1>13. Distance(c, furthest) < Distance(c, r)
  <2> SUFFICES ASSUME Distance(c, r) <= Distance(c, furthest) PROVE FALSE
    BY <1>7
  <2>1. Before(d, c, r) \in SUBSET Before(d, c, furthest)
    BY <1>7 DEF Before
  <2>2. IsFiniteSet(Before(d, c, furthest)) /\ Cardinality(Before(d, c, furthest)) \in Nat
    <3>1. Before(d, c, furthest) \in SUBSET {q \in d : Distance(c, q) < Distance(c, furthest)}
      BY DEF Before
    <3>2. Distance(c, furthest) \in 0 .. 4
      BY <1>7
    <3> QED
      BY <3>1, <3>2, Nearer
  <2>3. Cardinality(Before(d, c, r)) <= Cardinality(Before(d, c, furthest)) /\ Cardinality(Before(d, c, r)) \in Nat
    BY <2>1, <2>2, FS_Subset, FS_CardinalityType
  <2>4. Cardinality(Before(d, c, furthest)) < MaxDraw
    BY <1>1, <1>2, <1>4
  <2>5. ~(Cardinality(Before(d, c, r)) < MaxDraw)
    BY <1>4 DEF K
  <2> QED
    BY <1>6, <2>2, <2>3, <2>4, <2>5
<1>14. Distance(Cursor(d, c), r) = Distance(c, r) - Distance(c, furthest) - 1
  BY <1>3, <1>6, <1>13, Turned
<1> QED
  BY <1>6, <1>7, <1>12, <1>14

-----------------------------------------------------------------------------
(* Display: what the panel shows.                                          *)

DisplayTypeOK ==
  /\ up \in BOOLEAN /\ visible \in BOOLEAN /\ clearPending \in BOOLEAN
  /\ seq \in Nat /\ qr \in Nat /\ calm \in 0 .. Settle
  /\ world \in 0 .. 1 /\ foot \in 0 .. 1 /\ seen \in 0 .. Unsampled
  /\ screen \in Named /\ activeScreen \in Screens
  /\ cache \in [Regions -> Nat]
  /\ dirty \in SUBSET Regions /\ cursor \in Regions
  /\ glass \in [Regions -> [on : Screens \cup {"dark"}, value : Nat]]

\* What the screen last drawn would have in a region, as the cache has it.
Drawn(r) ==
  IF rectEmpty(activeScreen, r) THEN Dark[r] ELSE [on |-> activeScreen, value |-> cache[r]]

\* The symbol and the pairing screen's pixels go with the screen.
SecretKept ==
  activeScreen # "pair" => qr = 0 /\ \A r \in Regions : glass[r].on # "pair"

\* Whatever is not about to be redrawn is what the cache says.
CacheTold ==
  up /\ ~clearPending =>
    \A r \in Regions :
      /\ r \notin dirty => glass[r] = Drawn(r)
      /\ rectEmpty(activeScreen, r) => glass[r] = Dark[r]

\* Of a panel left alone, the screen is the one that is due, the cache is what
\* that screen now has, and what waits to be redrawn is nearer with every tick.
Settling ==
  calm >= 1 =>
    /\ up /\ activeScreen = effectiveScreen
    /\ effectiveScreen = "pair" => qr = seq
    /\ calm >= 2 => ~clearPending
    /\ \A r \in Regions \ {FOOT} :
         /\ cache[r] = Built(effectiveScreen, r, seen)
         /\ r \in dirty => Distance(cursor, r) + MaxDraw * (calm - 1) < Count

Panel == DisplayTypeOK /\ SecretKept /\ CacheTold /\ Settling

\* The settling time is one tick that encodes and a turn of every region.
LEMMA SettleIs ==
  /\ Settle \in Nat /\ Settle >= 2
  /\ \A n \in Nat : MaxDraw * (n + 1) = MaxDraw * n + MaxDraw
  /\ MaxDraw * (Settle - 1) >= Count
<1> DEFINE s == (3 + MaxDraw) \div MaxDraw
<1>1. Settle = 1 + s /\ MaxDraw \in Nat /\ MaxDraw >= 1
  BY CountIs, DisplayAssumption DEF Settle
<1>2. s \in Int /\ MaxDraw * s <= 3 + MaxDraw /\ 3 + MaxDraw < MaxDraw * s + MaxDraw
  BY <1>1, SMT
<1> HIDE DEF s
<1>3. s >= 1
  <2> SUFFICES ASSUME s <= 0 PROVE FALSE
    BY <1>2
  <2>1. MaxDraw * s <= 0
    BY <1>1, <1>2
  <2> QED
    BY <1>1, <1>2, <2>1
<1>4. MaxDraw * s >= 4
  BY <1>1, <1>2
<1>5. Settle - 1 = s
  BY <1>1, <1>2
<1> QED
  BY <1>1, <1>2, <1>3, <1>4, <1>5, CountIs

LEMMA BuiltIs ==
  ASSUME NEW s \in Screens, NEW r \in Regions, NEW w \in 0 .. 1, seq \in Nat, foot \in 0 .. 1
  PROVE  /\ Built(s, r, w) \in Nat
         /\ s = "pair" /\ r = QR => Built(s, r, w) = seq
BY CountIs DEF Built, buildPair, buildDiag, buildStatus, buildFoot, rectEmpty, Screens, Named, ID, AUTH, FOOT, QR

\* Only the footer is built from the activity record.
LEMMA FootAlone ==
  ASSUME NEW s, NEW r \in Regions \ {FOOT}, NEW w, seq' = seq
  PROVE  Built(s, r, w)' = Built(s, r, w)
BY DEF Built, buildPair, buildDiag, buildStatus, buildFoot, rectEmpty

-----------------------------------------------------------------------------
(* A tick, taken apart.                                                    *)

Sampled(sample) == IF sample THEN world ELSE seen
Moved == effectiveScreen # activeScreen
Kept == IF Moved THEN Empty ELSE cache
Anew(sample) == [r \in Regions |-> Built(effectiveScreen, r, Sampled(sample))]
Marked(sample) == dirty \cup {r \in Regions : Anew(sample)[r] # Kept[r]}
Encodes == effectiveScreen = "pair" /\ qr # seq
All(sample) == IF Clears(Moved) THEN Regions ELSE Marked(sample)
Base == IF Clears(Moved) THEN Dark ELSE glass

LEMMA TickIs ==
  ASSUME NEW sample \in BOOLEAN, displayTick(sample)
  PROVE  /\ up /\ UNCHANGED <<up, seq, visible, world, foot, screen>>
         /\ seen' = Sampled(sample) /\ (seen = Unsampled => sample)
         /\ activeScreen' = effectiveScreen /\ cache' = Anew(sample)
         /\ qr' = IF effectiveScreen = "pair" THEN seq ELSE IF Moved THEN 0 ELSE qr
         /\ calm' = IF Sampled(sample) # seen THEN 1 ELSE IF calm < Settle THEN calm + 1 ELSE calm
         /\ Draw(Encodes, Clears(Moved), Marked(sample), effectiveScreen, Anew(sample))
BY DEF displayTick, Sampled, Moved, Anew, Marked, Kept, Encodes

LEMMA DrawIs ==
  ASSUME NEW sample \in BOOLEAN, Draw(Encodes, Clears(Moved), Marked(sample), effectiveScreen, Anew(sample))
  PROVE  /\ Encodes => /\ dirty' = Marked(sample) /\ clearPending' = Clears(Moved)
                       /\ cursor' = cursor /\ glass' = glass
         /\ ~Encodes => /\ dirty' = All(sample) \ Taken(All(sample), cursor)
                        /\ cursor' = Cursor(All(sample), cursor)
                        /\ clearPending' = FALSE
                        /\ glass' = Painted(Taken(All(sample), cursor), Base, effectiveScreen, Anew(sample), qr)
BY DEF Draw, All, Base

Glass == [Regions -> [on : Screens \cup {"dark"}, value : Nat]]

LEMMA DarkIs == Dark \in Glass /\ \A r \in Regions : Dark[r].on = "dark"
BY DEF Dark, Glass

LEMMA PaintedIs ==
  ASSUME NEW regions, NEW over \in Glass, NEW s \in Screens,
         NEW built \in [Regions -> Nat], NEW symbol \in Nat
  PROVE  Painted(regions, over, s, built, symbol) \in Glass
<1>1. "pair" \in Screens
  BY DEF Screens
<1>2. ASSUME NEW r \in Regions
      PROVE  /\ drawRegion(s, r, built, symbol) \in [on : Screens \cup {"dark"}, value : Nat]
             /\ over[r] \in [on : Screens \cup {"dark"}, value : Nat]
  BY <1>1 DEF drawRegion, drawQr, Glass
<1> QED
  BY <1>2 DEF Painted, Glass

\* What the parts of a tick are.
LEMMA TickParts ==
  ASSUME DisplayTypeOK, NEW sample \in BOOLEAN, displayTick(sample)
  PROVE  /\ effectiveScreen \in Screens /\ Sampled(sample) \in 0 .. 1
         /\ Anew(sample) \in [Regions -> Nat]
         /\ Marked(sample) \in SUBSET Regions /\ All(sample) \in SUBSET Regions
         /\ Base \in Glass /\ Taken(All(sample), cursor) \in SUBSET All(sample)
<1>1. effectiveScreen \in Screens
  BY DEF effectiveScreen, Screens, Named, DisplayTypeOK
<1>2. Sampled(sample) \in 0 .. 1
  <2>1. seen = Unsampled => sample
    BY TickIs
  <2>2. Unsampled = 2
    BY DEF Unsampled
  <2> QED
    BY <2>1, <2>2 DEF Sampled, DisplayTypeOK
<1>3. \A r \in Regions : Built(effectiveScreen, r, Sampled(sample)) \in Nat
  BY <1>1, <1>2, BuiltIs DEF DisplayTypeOK
<1>4. Anew(sample) \in [Regions -> Nat]
  BY <1>3 DEF Anew
<1>5. Marked(sample) \in SUBSET Regions /\ All(sample) \in SUBSET Regions
  BY DEF Marked, All, DisplayTypeOK
<1>6. Base \in Glass
  BY DarkIs DEF Base, Glass, DisplayTypeOK
<1>7. Taken(All(sample), cursor) \in SUBSET All(sample)
  BY <1>5, TakenIs DEF DisplayTypeOK
<1> QED
  BY <1>1, <1>2, <1>4, <1>5, <1>6, <1>7

LEMMA TickTyped ==
  ASSUME DisplayTypeOK, NEW sample \in BOOLEAN, displayTick(sample)
  PROVE  DisplayTypeOK'
<1>1. /\ up /\ UNCHANGED <<up, seq, visible, world, foot, screen>>
      /\ seen' = Sampled(sample) /\ activeScreen' = effectiveScreen /\ cache' = Anew(sample)
      /\ qr' = IF effectiveScreen = "pair" THEN seq ELSE IF Moved THEN 0 ELSE qr
      /\ calm' = IF Sampled(sample) # seen THEN 1 ELSE IF calm < Settle THEN calm + 1 ELSE calm
  BY TickIs
<1>2. calm' \in 0 .. Settle /\ qr' \in Nat
  BY <1>1, SettleIs DEF DisplayTypeOK
<1>3. seen' \in 0 .. Unsampled
  BY <1>1, TickParts DEF Unsampled
<1>4. /\ dirty' \in SUBSET Regions /\ cursor' \in Regions
      /\ clearPending' \in BOOLEAN /\ glass' \in Glass
  <2>0. Draw(Encodes, Clears(Moved), Marked(sample), effectiveScreen, Anew(sample))
    BY TickIs
  <2>1. CASE Encodes
    BY <2>0, <2>1, DrawIs, TickParts DEF DisplayTypeOK, Clears, Moved, Glass
  <2>2. CASE ~Encodes
    <3>1. /\ dirty' = All(sample) \ Taken(All(sample), cursor)
          /\ cursor' = Cursor(All(sample), cursor) /\ clearPending' = FALSE
          /\ glass' = Painted(Taken(All(sample), cursor), Base, effectiveScreen, Anew(sample), qr)
      BY <2>0, <2>2, DrawIs
    <3>2. cursor' \in Regions
      BY <3>1, TickParts, TakenIs DEF DisplayTypeOK
    <3>3. glass' \in Glass
      BY <3>1, TickParts, PaintedIs DEF DisplayTypeOK
    <3> QED
      BY <3>1, <3>2, <3>3, TickParts
  <2> QED
    BY <2>1, <2>2
<1>5. activeScreen' \in Screens /\ cache' \in [Regions -> Nat]
  BY <1>1, TickParts
<1> QED
  BY <1>1, <1>2, <1>3, <1>4, <1>5, CountIs DEF DisplayTypeOK, Glass

LEMMA TickKeepsSecret ==
  ASSUME DisplayTypeOK, SecretKept, NEW sample \in BOOLEAN, displayTick(sample)
  PROVE  SecretKept'
<1> SUFFICES ASSUME activeScreen' # "pair"
             PROVE  qr' = 0 /\ \A r \in Regions : glass'[r].on # "pair"
  BY DEF SecretKept
<1>1. /\ activeScreen' = effectiveScreen /\ effectiveScreen # "pair" /\ ~Encodes
      /\ qr' = IF Moved THEN 0 ELSE qr
  BY TickIs DEF Encodes
<1>2. ~Moved => qr = 0 /\ \A r \in Regions : glass[r].on # "pair"
  BY <1>1 DEF Moved, SecretKept
<1>3. glass' = Painted(Taken(All(sample), cursor), Base, effectiveScreen, Anew(sample), qr)
  BY <1>1, TickIs, DrawIs
<1>4. \A r \in Regions : Base[r].on # "pair"
  <2>1. CASE Clears(Moved)
    BY <2>1, DarkIs DEF Base
  <2>2. CASE ~Clears(Moved)
    BY <1>2, <2>2 DEF Base, Clears
  <2> QED
    BY <2>1, <2>2
<1>5. ASSUME NEW r \in Regions PROVE glass'[r].on # "pair"
  <2>1. r = QR => rectEmpty(effectiveScreen, r)
    BY <1>1 DEF rectEmpty
  <2>2. glass'[r] = [on |-> effectiveScreen, value |-> Anew(sample)[r]] \/ glass'[r] = Base[r]
    BY <1>3, <2>1 DEF Painted, drawRegion, drawQr
  <2> QED
    BY <1>1, <1>4, <2>2
<1> QED
  BY <1>1, <1>2, <1>5

LEMMA TickTellsCache ==
  ASSUME DisplayTypeOK, CacheTold, NEW sample \in BOOLEAN, displayTick(sample)
  PROVE  CacheTold'
<1> SUFFICES ASSUME ~clearPending', NEW r \in Regions
             PROVE  /\ r \notin dirty' => glass'[r] = Drawn(r)'
                    /\ rectEmpty(activeScreen', r) => glass'[r] = Dark[r]
  BY DEF CacheTold, Dark, Regions
<1>1. /\ up /\ activeScreen' = effectiveScreen /\ cache' = Anew(sample)
      /\ Draw(Encodes, Clears(Moved), Marked(sample), effectiveScreen, Anew(sample))
  BY TickIs
<1>2. Drawn(r)' = IF rectEmpty(effectiveScreen, r) THEN Dark[r]
                  ELSE [on |-> effectiveScreen, value |-> Anew(sample)[r]]
  BY <1>1 DEF Drawn, Dark, Regions, rectEmpty
\* Without a clear an unmarked region shows what is built anew already.
<1>3. ASSUME ~Clears(Moved)
      PROVE  /\ r \notin Marked(sample) => glass[r] = Drawn(r)'
             /\ rectEmpty(effectiveScreen, r) => glass[r] = Dark[r]
  <2>1. ~clearPending /\ effectiveScreen = activeScreen /\ Kept = cache
    BY <1>3 DEF Clears, Moved, Kept
  <2>2. r \notin Marked(sample) => r \notin dirty /\ Anew(sample)[r] = cache[r]
    BY <2>1 DEF Marked
  <2> QED
    BY <1>1, <1>2, <2>1, <2>2 DEF CacheTold, Drawn
<1>4. CASE Encodes
  <2>1. dirty' = Marked(sample) /\ clearPending' = Clears(Moved) /\ glass' = glass
    BY <1>1, <1>4, DrawIs
  <2> QED
    BY <1>1, <1>3, <2>1
<1>5. CASE ~Encodes
  <2> DEFINE K == Taken(All(sample), cursor)
  <2>1. dirty' = All(sample) \ K /\ glass' = Painted(K, Base, effectiveScreen, Anew(sample), qr)
    BY <1>1, <1>5, DrawIs
  <2>2. glass'[r] = IF r \in K /\ ~rectEmpty(effectiveScreen, r)
                    THEN IF r = QR THEN [on |-> "pair", value |-> qr]
                         ELSE [on |-> effectiveScreen, value |-> Anew(sample)[r]]
                    ELSE Base[r]
    BY <2>1 DEF Painted, drawRegion, drawQr
  <2>3. ASSUME r = QR, ~rectEmpty(effectiveScreen, r)
        PROVE  [on |-> "pair", value |-> qr] = [on |-> effectiveScreen, value |-> Anew(sample)[r]]
    <3>1. effectiveScreen = "pair" /\ qr = seq
      BY <1>5, <2>3 DEF rectEmpty, Encodes, QR, FOOT
    <3>2. Anew(sample)[r] = seq
      BY <2>3, <3>1, TickParts, BuiltIs DEF Anew, DisplayTypeOK
    <3> QED
      BY <3>1, <3>2
  <2>4. /\ rectEmpty(effectiveScreen, r) => Base[r] = Dark[r]
        /\ r \notin All(sample) => Base[r] = Drawn(r)'
    BY <1>3 DEF Base, All
  <2> HIDE DEF K
  <2> QED
    BY <1>1, <1>2, <2>1, <2>2, <2>3, <2>4
<1> QED
  BY <1>4, <1>5

LEMMA TickSettles ==
  ASSUME DisplayTypeOK, Settling, NEW sample \in BOOLEAN, displayTick(sample)
  PROVE  Settling'
<1>1. /\ up /\ up' = up /\ seq' = seq /\ seen' = Sampled(sample)
      /\ activeScreen' = effectiveScreen /\ cache' = Anew(sample)
      /\ qr' = IF effectiveScreen = "pair" THEN seq ELSE IF Moved THEN 0 ELSE qr
      /\ calm' = IF Sampled(sample) # seen THEN 1 ELSE IF calm < Settle THEN calm + 1 ELSE calm
      /\ Draw(Encodes, Clears(Moved), Marked(sample), effectiveScreen, Anew(sample))
  BY TickIs
<1>2. effectiveScreen' = effectiveScreen
  BY TickIs DEF effectiveScreen
<1>3. ASSUME NEW r \in Regions \ {FOOT}
      PROVE  cache'[r] = Built(effectiveScreen, r, seen)'
  <2>1. cache'[r] = Built(effectiveScreen, r, Sampled(sample))
    BY <1>1 DEF Anew
  <2>2. Built(effectiveScreen, r, seen)' = Built(effectiveScreen, r, Sampled(sample))
    BY <1>1, <1>2 DEF Built, buildPair, buildDiag, buildStatus, buildFoot, rectEmpty
  <2> QED
    BY <2>1, <2>2
<1>4. effectiveScreen = "pair" => qr' = seq'
  BY <1>1
<1>5. calm \in Nat /\ calm' \in Nat /\ calm' >= 1 /\ MaxDraw \in Nat /\ MaxDraw >= 1
  BY <1>1, SettleIs, DisplayAssumption DEF DisplayTypeOK
\* The first tick finds the regions anywhere.
<1>6. CASE calm' = 1
  <2>1. ASSUME NEW r \in Regions PROVE Distance(cursor', r) + MaxDraw * (calm' - 1) < Count
    <3>1. cursor' \in Regions /\ MaxDraw * (calm' - 1) = 0
      BY <1>5, <1>6, TickTyped DEF DisplayTypeOK
    <3>2. Distance(cursor', r) \in 0 .. 3
      BY <3>1, DistanceIs
    <3> QED
      BY <3>1, <3>2, CountIs
  <2>2. ~(calm' >= 2)
    BY <1>6
  <2> QED
    BY <1>1, <1>2, <1>3, <1>4, <2>1, <2>2 DEF Settling
\* A later one encodes nothing, marks nothing but the footer and takes its turn.
<1>7. CASE calm' # 1
  <2>1. /\ Sampled(sample) = seen /\ calm >= 1
        /\ calm' = calm + 1 \/ (calm' = calm /\ calm = Settle)
    <3>1. Sampled(sample) = seen /\ calm' = IF calm < Settle THEN calm + 1 ELSE calm
      BY <1>1, <1>7
    <3>2. calm \in 0 .. Settle /\ Settle \in Nat /\ Settle >= 2
      BY SettleIs DEF DisplayTypeOK
    <3>3. CASE calm < Settle
      BY <1>7, <3>1, <3>2, <3>3
    <3>4. CASE calm = Settle
      BY <3>1, <3>2, <3>4
    <3> QED
      BY <3>2, <3>3, <3>4
  <2>2. ~Moved /\ ~Encodes /\ Kept = cache
    BY <2>1 DEF Settling, Moved, Encodes, Kept
  <2>3. clearPending' = FALSE /\ dirty' = All(sample) \ Taken(All(sample), cursor)
        /\ cursor' = Cursor(All(sample), cursor)
    BY <1>1, <2>2, DrawIs
  <2>4. ASSUME NEW r \in Regions \ {FOOT}, r \in dirty'
        PROVE  Distance(cursor', r) + MaxDraw * (calm' - 1) < Count
    <3>1. r \in All(sample) \ Taken(All(sample), cursor) /\ All(sample) \in SUBSET Regions /\ cursor \in Regions
      BY <2>3, <2>4, TickParts DEF DisplayTypeOK
    <3>2. Distance(cursor', r) + MaxDraw <= Distance(cursor, r)
      BY <2>3, <3>1, TurnComesNearer
    <3>3. Distance(cursor, r) \in 0 .. 3 /\ Distance(cursor', r) \in 0 .. 3
      BY <3>1, TickTyped, DistanceIs DEF DisplayTypeOK
    <3>4. Distance(cursor, r) + MaxDraw * (calm - 1) < Count
      <4>1. CASE r \in dirty
        BY <2>1, <4>1 DEF Settling
      <4>2. CASE r \notin dirty
        <5>1. Anew(sample)[r] = cache[r]
          BY <2>1 DEF Settling, Anew
        <5>2. r \notin Marked(sample)
          BY <2>2, <4>2, <5>1 DEF Marked
        <5>3. clearPending
          BY <2>2, <3>1, <5>2 DEF All, Clears
        <5>4. calm = 1
          BY <1>5, <2>1, <5>3 DEF Settling
        <5>5. MaxDraw * (calm - 1) = 0
          BY <1>5, <5>4
        <5> QED
          BY <3>3, <5>5, CountIs
      <4> QED
        BY <4>1, <4>2
    <3>5. CASE calm' = calm + 1
      <4>1. calm - 1 \in Nat /\ (calm - 1) + 1 = calm' - 1
        BY <1>5, <2>1, <3>5
      <4>2. MaxDraw * ((calm - 1) + 1) = MaxDraw * (calm - 1) + MaxDraw /\ MaxDraw * (calm - 1) \in Int
        BY <1>5, <4>1, SettleIs
      <4>3. MaxDraw * (calm' - 1) = MaxDraw * (calm - 1) + MaxDraw
        BY <4>1, <4>2
      <4> DEFINE m == MaxDraw * (calm - 1)
                 n == MaxDraw * (calm' - 1)
      <4>4. m \in Int /\ n = m + MaxDraw /\ Distance(cursor, r) + m < 4
        BY <3>4, <4>2, <4>3, CountIs
      <4> HIDE DEF m, n
      <4>5. Distance(cursor', r) + n < Count
        BY <1>5, <3>2, <3>3, <4>4, CountIs
      <4> QED
        BY <4>5 DEF n
    <3>6. CASE calm' = calm /\ calm = Settle
      <4>1. MaxDraw * (calm - 1) >= Count /\ MaxDraw * (calm - 1) \in Int
        BY <1>5, <3>6, SettleIs
      <4> QED
        BY <3>3, <3>4, <4>1, CountIs
    <3> QED
      BY <2>1, <3>5, <3>6
  <2> QED
    BY <1>1, <1>2, <1>3, <1>4, <2>3, <2>4 DEF Settling
<1> QED
  BY <1>6, <1>7

LEMMA PanelAlways == DisplaySpec => []Panel
<1>0. /\ Empty \in [Regions -> Nat] /\ Regions \in SUBSET Regions /\ 0 \in Regions /\ {} \in SUBSET Regions
      /\ "status" \in Named /\ "status" \in Screens /\ 0 \in 0 .. Settle /\ 0 \in 0 .. 1
      /\ Unsampled \in 0 .. Unsampled /\ \A s \in Named : s \in Screens
      /\ \A r \in Regions : Dark[r].on # "pair"
  BY CountIs, SettleIs, DarkIs DEF Empty, Named, Screens, Unsampled
<1>1. DisplayInit => Panel
  <2> SUFFICES ASSUME DisplayInit PROVE Panel
    OBVIOUS
  <2>1. DisplayTypeOK
    BY <1>0, DarkIs DEF DisplayInit, DisplayTypeOK, Glass
  <2>2. SecretKept
    BY <1>0 DEF DisplayInit, SecretKept
  <2> QED
    BY <2>1, <2>2 DEF DisplayInit, Panel, CacheTold, Settling
<1>2. ASSUME Panel, [DisplayNext]_displayVars PROVE Panel'
  <2>1. CASE displayEnable
    <3>1. DisplayTypeOK'
      <4>1. glass' \in Glass
        BY <2>1, DarkIs DEF displayEnable
      <4>2. seq' \in Nat /\ world' \in 0 .. 1 /\ foot' \in 0 .. 1
        BY <1>2, <2>1 DEF Panel, DisplayTypeOK, displayEnable
      <4>3. /\ calm' \in 0 .. Settle /\ qr' \in Nat /\ seen' \in 0 .. Unsampled
            /\ up' \in BOOLEAN /\ visible' \in BOOLEAN /\ clearPending' \in BOOLEAN
        BY <1>0, <1>2, <2>1 DEF Panel, DisplayTypeOK, displayEnable, Restless
      <4>4. /\ screen' \in Named /\ activeScreen' \in Screens /\ cache' \in [Regions -> Nat]
            /\ dirty' \in SUBSET Regions /\ cursor' \in Regions
        BY <1>0, <1>2, <2>1 DEF Panel, DisplayTypeOK, displayEnable
      <4> QED
        BY <4>1, <4>2, <4>3, <4>4 DEF DisplayTypeOK, Glass
    <3>2. SecretKept'
      BY <1>0, <2>1 DEF SecretKept, displayEnable
    <3>3. CacheTold'
      BY <2>1 DEF CacheTold, displayEnable, Dark, Regions, Drawn, rectEmpty
    <3> QED
      BY <2>1, <3>1, <3>2, <3>3 DEF Panel, Settling, displayEnable, Restless
  <2>2. CASE displayDisable
    <3>1. DisplayTypeOK'
      <4>1. glass' \in Glass
        BY <2>2, DarkIs DEF displayDisable
      <4>2. seq' \in Nat /\ world' \in 0 .. 1 /\ foot' \in 0 .. 1
        BY <1>2, <2>2 DEF Panel, DisplayTypeOK, displayDisable
      <4>3. /\ calm' \in 0 .. Settle /\ qr' \in Nat /\ seen' \in 0 .. Unsampled
            /\ up' \in BOOLEAN /\ visible' \in BOOLEAN /\ clearPending' \in BOOLEAN
        BY <1>0, <1>2, <2>2 DEF Panel, DisplayTypeOK, displayDisable, Restless
      <4>4. /\ screen' \in Named /\ activeScreen' \in Screens /\ cache' \in [Regions -> Nat]
            /\ dirty' \in SUBSET Regions /\ cursor' \in Regions
        BY <1>0, <1>2, <2>2 DEF Panel, DisplayTypeOK, displayDisable
      <4> QED
        BY <4>1, <4>2, <4>3, <4>4 DEF DisplayTypeOK, Glass
    <3>2. SecretKept'
      BY <1>0, <2>2 DEF SecretKept, displayDisable
    <3> QED
      BY <2>2, <3>1, <3>2 DEF Panel, CacheTold, Settling, displayDisable, Restless
  <2>3. CASE Refresh
    <3>1. DisplayTypeOK'
      BY <1>0, <1>2, <2>3 DEF Panel, DisplayTypeOK, Refresh, Restless
    <3> QED
      BY <1>2, <2>3, <3>1 DEF Panel, SecretKept, CacheTold, Settling, Refresh, Restless
  <2>4. CASE WorldMoves
    <3>1. DisplayTypeOK'
      BY <1>2, <2>4 DEF Panel, DisplayTypeOK, WorldMoves
    <3>2. SecretKept' /\ CacheTold'
      BY <1>2, <2>4 DEF Panel, SecretKept, CacheTold, Drawn, Dark, Regions, rectEmpty, WorldMoves
    <3>3. Settling'
      <4>1. effectiveScreen' = effectiveScreen
        BY <2>4 DEF WorldMoves, effectiveScreen
      <4>2. ASSUME NEW r \in Regions \ {FOOT}
            PROVE  Built(effectiveScreen, r, seen)' = Built(effectiveScreen, r, seen)
        BY <2>4, <4>1 DEF WorldMoves, Built, buildPair, buildDiag, buildStatus, buildFoot, rectEmpty
      <4> QED
        BY <1>2, <2>4, <4>1, <4>2 DEF Panel, Settling, WorldMoves
    <3> QED
      BY <3>1, <3>2, <3>3 DEF Panel
  <2>5. ASSUME NEW sample \in BOOLEAN, displayTick(sample) PROVE Panel'
    BY <1>2, <2>5, TickTyped, TickKeepsSecret, TickTellsCache, TickSettles DEF Panel
  <2>6. ASSUME NEW on \in BOOLEAN, Publish(on) PROVE Panel'
    <3>1. DisplayTypeOK'
      BY <1>0, <1>2, <2>6 DEF Panel, DisplayTypeOK, Publish, Restless
    <3>2. SecretKept' /\ CacheTold'
      BY <1>2, <2>6 DEF Panel, SecretKept, CacheTold, Drawn, Dark, Regions, rectEmpty, Publish
    <3> QED
      BY <2>6, <3>1, <3>2 DEF Panel, Settling, Publish, Restless
  <2>7. ASSUME NEW s \in Named, Select(s) PROVE Panel'
    <3>1. CASE s = screen
      <4>1. UNCHANGED displayVars
        BY <2>7, <3>1 DEF Select, displayVars
      <4> QED
        BY <1>2, <4>1 DEF Panel, DisplayTypeOK, SecretKept, CacheTold, Settling, Drawn, Dark, Regions, rectEmpty,
           effectiveScreen, Built, buildPair, buildDiag, buildStatus, buildFoot, displayVars
    <3>2. CASE s # screen
      <4>1. DisplayTypeOK'
        BY <1>0, <1>2, <2>7, <3>2 DEF Panel, DisplayTypeOK, Select, Restless
      <4> QED
        BY <1>2, <2>7, <3>2, <4>1 DEF Panel, SecretKept, CacheTold, Settling, Select, Restless
    <3> QED
      BY <3>1, <3>2
  <2>8. CASE UNCHANGED displayVars
    BY <1>2, <2>8 DEF Panel, DisplayTypeOK, SecretKept, CacheTold, Settling, Drawn, Dark, Regions, rectEmpty,
       effectiveScreen, Built, buildPair, buildDiag, buildStatus, buildFoot, displayVars
  <2> QED
    BY <1>2, <2>1, <2>2, <2>3, <2>4, <2>5, <2>6, <2>7, <2>8 DEF DisplayNext
<1> QED
  BY <1>1, <1>2, PTL DEF DisplaySpec

\* Types are kept.
THEOREM DisplayTypeCorrect == DisplaySpec => []DisplayTypeOK
<1>1. Panel => DisplayTypeOK
  BY DEF Panel
<1> QED
  BY <1>1, PanelAlways, PTL

\* One tick after a pairing record is withdrawn nothing of it is left, and a
\* panel left alone for one tick that encodes and one turn of every region
\* shows the screen that is due, for every number of regions drawn in a tick
\* (mod_display.cpp, displayTick()).
THEOREM PanelAlwaysTellsTruth == DisplaySpec => []PanelTellsTruth
<1>1. ASSUME Panel PROVE PanelTellsTruth
  <2>1. ASSUME calm >= 1 PROVE SecretGone
    BY <1>1, <2>1 DEF Panel, Settling, SecretKept, SecretGone
  <2>2. ASSUME up, calm = Settle, NEW r \in Regions \ {FOOT} PROVE glass[r] = Shows(r)
    <3>1. calm >= 2 /\ calm >= 1 /\ calm \in Nat /\ MaxDraw * (calm - 1) >= Count
      BY <2>2, SettleIs
    <3>2. /\ activeScreen = effectiveScreen /\ ~clearPending
          /\ cache[r] = Built(effectiveScreen, r, seen)
      BY <1>1, <3>1 DEF Panel, Settling
    <3>3. r \notin dirty
      <4> SUFFICES ASSUME r \in dirty PROVE FALSE
        OBVIOUS
      <4>1. Distance(cursor, r) + MaxDraw * (calm - 1) < Count
        BY <1>1, <3>1 DEF Panel, Settling
      <4>2. Distance(cursor, r) \in 0 .. 3 /\ MaxDraw * (calm - 1) \in Int
        BY <1>1, <3>1, DistanceIs, DisplayAssumption DEF Panel, DisplayTypeOK
      <4> QED
        BY <3>1, <4>1, <4>2, CountIs
    <3>4. glass[r] = Drawn(r)
      BY <1>1, <2>2, <3>2, <3>3 DEF Panel, CacheTold
    <3> QED
      BY <3>2, <3>4 DEF Drawn, Shows
  <2> QED
    BY <2>1, <2>2 DEF PanelTellsTruth
<1> QED
  BY <1>1, PanelAlways, PTL
=============================================================================
