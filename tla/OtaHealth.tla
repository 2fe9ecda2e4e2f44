------------------------------ MODULE OtaHealth ------------------------------
(***************************************************************************)
(* The health check of an image on trial (firmware/src/otahealth.cpp and   *)
(* otadecide.h): begin() at boot, tick() from the scheduler, and the three *)
(* commands `ota confirm`, `ota rollback` and `ota boot`.                  *)
(*                                                                         *)
(* Times are in units of the shortest interval the decision distinguishes. *)
(***************************************************************************)
EXTENDS OtaData

CONSTANTS
  MinTicks,      \* Config::minTicks
  ConsoleGrace,  \* Config::consoleGraceMs
  MinUptime,     \* Config::minUptimeMs
  Window,        \* Config::windowMs
  FlashOk        \* outcomes of a write to otadata: {TRUE} or BOOLEAN

\* The static_asserts of otadecide.h:140-149.
ASSUME ConfigAssumption ==
  /\ {MinTicks, ConsoleGrace, MinUptime, Window} \subseteq Nat
  /\ MinTicks <= MinUptime
  /\ 0 < MinUptime
  /\ ConsoleGrace <= MinUptime
  /\ MinUptime < Window
  /\ FlashOk \subseteq BOOLEAN

VARIABLES
  phase,    \* phase_
  uptime,   \* millis(), up to Window
  ticks,    \* ticks_, up to MinTicks
  chosen    \* history: some slot was selected since this boot

flash == <<otadata, image, running>>
health == <<phase, uptime, ticks, chosen>>

-----------------------------------------------------------------------------
(* otadecide.h.  `answered` is Console::requestsAnswered() > 0; an image's  *)
(* kind says whether its registry restored and its essential module is up.  *)

Criteria == {"ticks", "registry", "essential", "console", "uptime"}

CriteriaMet(n, answered, restored, essential) ==
  {c \in Criteria :
     CASE c = "ticks" -> n >= MinTicks
       [] c = "registry" -> restored
       [] c = "essential" -> essential
       [] c = "console" -> answered \/ uptime >= ConsoleGrace
       [] c = "uptime" -> uptime >= MinUptime}

\* Mutant of Decide: the mask tested with the wrong operator.
DecideAny(met) ==
  IF met \cap Criteria # {} THEN "confirm"
  ELSE IF uptime >= Window THEN "rollback"
  ELSE "wait"

\* CONFIRM is tested before the window.
Decide(met) ==
  IF met = Criteria THEN "confirm"
  ELSE IF uptime >= Window THEN "rollback"
  ELSE "wait"

-----------------------------------------------------------------------------
(* Boot and reset.                                                          *)

\* begin(): only a boot of a new selection is on trial.
Begin(od, s) == phase' = IF StateOf(od, s) = "pending" THEN "pending" ELSE "idle"

\* The chip restarts with od in otadata.
Restart(od) ==
  /\ otadata' = Booted(od)
  /\ running' = Loaded(od)
  /\ Begin(otadata', running')
  /\ uptime' = 0
  /\ ticks' = 0
  /\ chosen' = FALSE
  /\ UNCHANGED image

\* `reboot`, the cable pulled, the watchdog.
Reset == Restart(otadata)

\* This image panics before it has run MinUptime.
Panic ==
  /\ image[running] = "crash"
  /\ uptime < MinUptime
  /\ Restart(otadata)

\* Time passes, up to Window; a crashing image does not live to see MinUptime.
Elapse ==
  /\ uptime < Window
  /\ image[running] = "crash" => uptime + 1 < MinUptime
  /\ uptime' = uptime + 1
  /\ UNCHANGED <<flash, phase, ticks, chosen>>

-----------------------------------------------------------------------------
(* The two transitions.                                                     *)

\* Mutant of DoConfirm: the error is not looked at.
DoConfirmBlind ==
  \E ok \in FlashOk :
    /\ otadata' = IF ok THEN Marked(otadata, "valid") ELSE otadata
    /\ phase' = "confirmed"
    /\ UNCHANGED <<image, running, uptime, chosen>>

\* doConfirm()
DoConfirm ==
  \E ok \in FlashOk :
    LET done == ok /\ Active(otadata) # 2 IN
    /\ otadata' = IF done THEN Marked(otadata, "valid") ELSE otadata
    /\ phase' = IF done THEN "confirmed" ELSE "failed"
    /\ UNCHANGED <<image, running, uptime, chosen>>

\* doRollback() where IDF agrees and the mark is written: the chip restarts.
RollsBack == RollbackPossible /\ Restart(Marked(otadata, "invalid"))

\* doRollback() where the mark cannot be written.
RollbackFails ==
  /\ RollbackPossible
  /\ FALSE \in FlashOk
  /\ phase' = "failed"
  /\ UNCHANGED <<flash, uptime, chosen>>

-----------------------------------------------------------------------------
(* tick(), on the loop task.                                                *)

Ticked == IF ticks < MinTicks THEN ticks + 1 ELSE ticks

\* What gather() finds: the restore was not fatal, the essential module is on.
Facts ==
  IF image[running] = "sick" THEN (BOOLEAN \X BOOLEAN) \ {<<TRUE, TRUE>>}
  ELSE {<<TRUE, TRUE>>}

Verdicts ==
  {Decide(CriteriaMet(Ticked, a, f[1], f[2])) : a \in BOOLEAN, f \in Facts}

TickIdle ==
  /\ phase # "pending"
  /\ ticks' = Ticked
  /\ UNCHANGED <<flash, phase, uptime, chosen>>

TickWaits ==
  /\ phase = "pending"
  /\ "wait" \in Verdicts
  /\ ticks' = Ticked
  /\ UNCHANGED <<flash, phase, uptime, chosen>>

TickConfirms ==
  /\ phase = "pending"
  /\ "confirm" \in Verdicts
  /\ ticks' = Ticked
  /\ DoConfirm

\* A refused rollback is not retried: "the image stays PENDING_VERIFY and the
\* bootloader will abort it at the next restart".
Refused ==
  /\ ~RollbackPossible
  /\ phase' = "failed"
  /\ UNCHANGED <<flash, uptime, chosen>>

TickRollsBack ==
  /\ phase = "pending"
  /\ "rollback" \in Verdicts
  /\ RollsBack

\* Mutant of TickGivesUp: a refused rollback is asked for again.
TickGivesUpRetries ==
  /\ phase = "pending"
  /\ "rollback" \in Verdicts
  /\ RollbackFails \/ (~RollbackPossible /\ UNCHANGED <<flash, phase, uptime, chosen>>)
  /\ ticks' = Ticked

TickGivesUp ==
  /\ phase = "pending"
  /\ "rollback" \in Verdicts
  /\ RollbackFails \/ Refused
  /\ ticks' = Ticked

-----------------------------------------------------------------------------
(* The commands, on the loop task: they need the cable.                     *)

\* confirmNow()
ConfirmNow ==
  /\ phase = "pending"
  /\ DoConfirm
  /\ UNCHANGED ticks

\* rollbackNow(), in any phase: RollsBack, or the mark cannot be written; a
\* refusal changes nothing.
RollbackNowFails == RollbackFails /\ UNCHANGED ticks

\* setBootNow(): otadata only.  A slot without an image is refused.
SetBootNow(s) ==
  /\ image[s] \in Complete
  /\ Selection(otadata, s) \in [Slot -> Record]
  /\ otadata' = Selection(otadata, s)
  /\ chosen' = TRUE
  /\ UNCHANGED <<image, running, phase, uptime, ticks>>

HealthTypeOK ==
  /\ phase \in {"idle", "pending", "confirmed", "failed"}
  /\ uptime \in 0..Window
  /\ ticks \in 0..MinTicks
  /\ chosen \in BOOLEAN

HealthInit ==
  /\ phase = "idle"
  /\ uptime = 0
  /\ ticks = 0
  /\ chosen = FALSE

\* Steps that leave the chip up, and steps that restart it; the owner's SetBootNow
\* and RollsBack apart.
TickStays == TickIdle \/ TickWaits \/ TickConfirms \/ TickGivesUp

HealthStays ==
  \/ Elapse
  \/ TickStays
  \/ ConfirmNow
  \/ RollbackNowFails

HealthRestarts == Reset \/ Panic \/ TickRollsBack
=============================================================================
