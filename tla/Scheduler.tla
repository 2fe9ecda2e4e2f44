----------------------------- MODULE Scheduler -----------------------------
(***************************************************************************)
(* Scheduler::run(): one pass over the task table per loop(), each task    *)
(* run when its wrapped deadline has passed and rebased from the time its  *)
(* run ended.  dueAt[i] is the true time of task i's deadline, kept beside *)
(* the wrapped one as history.                                             *)
(***************************************************************************)
EXTENDS WrappedClock, Sequences

CONSTANTS Intervals,   \* the tasks' intervals, in the order they were added
          MaxTasks,    \* MAX_TASKS
          MaxRun,      \* longest run of one task, and of the rest of loop()
          MaxLoopTime  \* bound on the true time

\* "As long as the gap is well under 2^31 ms" (scheduler.cpp:30-32): a round
\* of every task and of the rest of loop() fits in half the clock's range.
ASSUME SchedulerAssumption ==
  /\ Intervals \in Seq(0 .. Half - 1) /\ MaxTasks \in Nat /\ MaxLoopTime \in Nat
  /\ MaxRun \in Nat /\ Len(Intervals) * MaxRun < Half

VARIABLES loopTime, nextDue, dueAt, at, now, added

schedulerVars == <<loopTime, nextDue, dueAt, at, now, added>>

Tasks == DOMAIN Intervals

\* (int32_t)(now - nextDueMs) < 0
NotDue(n, deadline) == ~Reached(n, deadline)

SchedulerInit ==
  /\ loopTime = 0 /\ now = 0 /\ added = 0
  /\ nextDue = [i \in Tasks |-> 0] /\ dueAt = [i \in Tasks |-> 0]
  /\ at = 0

\* setup(): the table takes at most MaxTasks, in order; due at once.
addTask ==
  /\ at = 0 /\ added < Len(Intervals) /\ added < MaxTasks
  /\ added' = added + 1
  /\ nextDue' = [nextDue EXCEPT ![added + 1] = loopTime % Wrap]
  /\ dueAt' = [dueAt EXCEPT ![added + 1] = loopTime]
  /\ UNCHANGED <<loopTime, at, now>>

\* loop() enters run() and reads the clock.
Enter ==
  /\ at = 0 /\ added = Len(Intervals) /\ loopTime < MaxLoopTime
  /\ at' = 1 /\ now' = loopTime % Wrap
  /\ UNCHANGED <<loopTime, nextDue, dueAt, added>>

\* The next task is not due.
Skip ==
  /\ at \in Tasks /\ NotDue(now, nextDue[at])
  /\ at' = at + 1
  /\ UNCHANGED <<loopTime, nextDue, dueAt, now, added>>

\* Rebasing from the missed deadline, which the comment at the code rejects.
RunCatchUp(d) ==
  /\ at \in Tasks /\ ~NotDue(now, nextDue[at])
  /\ loopTime' = loopTime + d
  /\ now' = loopTime' % Wrap
  /\ nextDue' = [nextDue EXCEPT ![at] = (nextDue[at] + Intervals[at]) % Wrap]
  /\ dueAt' = [dueAt EXCEPT ![at] = loopTime' + Intervals[at]]
  /\ at' = at + 1
  /\ UNCHANGED added

\* The next task runs for d; the clock is read again for it and the rest.
Run(d) ==
  /\ at \in Tasks /\ ~NotDue(now, nextDue[at])
  /\ loopTime' = loopTime + d
  /\ now' = loopTime' % Wrap
  /\ nextDue' = [nextDue EXCEPT ![at] = (now' + Intervals[at]) % Wrap]
  /\ dueAt' = [dueAt EXCEPT ![at] = loopTime' + Intervals[at]]
  /\ at' = at + 1
  /\ UNCHANGED added

\* The pass ends; the loop comes round a little later.
Leave(d) ==
  /\ at = Len(Intervals) + 1 /\ at' = 0
  /\ loopTime' = loopTime + d
  /\ UNCHANGED <<nextDue, dueAt, now, added>>

SchedulerNext == addTask \/ Enter \/ Skip \/ (\E d \in 0..MaxRun : Run(d) \/ Leave(d))
SchedulerSpec == SchedulerInit /\ [][SchedulerNext]_schedulerVars
-----------------------------------------------------------------------------
\* Across any number of wraps and overruns a pass runs a task exactly when its
\* interval has gone by since it last ended: none is skipped while due, none
\* runs early to catch up (scheduler.cpp:28-51).
RunsExactlyWhenDue ==
  at \in Tasks => (NotDue(now, nextDue[at]) <=> dueAt[at] > loopTime)
=============================================================================
