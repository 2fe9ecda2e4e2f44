------------------------------ MODULE Activity ------------------------------
(***************************************************************************)
(* activity.h: the one record of what the firmware is busy with, written   *)
(* by three producers on two tasks, drawn by the display.  It has no lock: *)
(* a call of the header is one step here, so a producer's "is it still     *)
(* mine?" and the call that follows are two, and a display tick is three.  *)
(***************************************************************************)

VARIABLES
  slot,        \* state_ and who_/verb_
  subscribed,  \* subscribed_, which is also the display's up_
  fresh,       \* seq() differs from the display's activitySeenSeq_
  lingering,   \* activityDoneMs_ is set: a finished job is on the glass
  tick         \* how far displayTick() or displayEnable() has come

activity == <<slot, subscribed, fresh, lingering, tick>>

Producer == {"storage", "upload", "health"}

IdleSlot == [state |-> "idle", who |-> "none"]

Running == slot.state = "running"
Finished == slot.state \in {"ok", "failed"}

-----------------------------------------------------------------------------
(* The producers' calls.                                                    *)

Begin(p) ==
  /\ IF subscribed
     THEN slot' = [state |-> "running", who |-> p] /\ fresh' = TRUE
     ELSE UNCHANGED <<slot, fresh>>
  /\ UNCHANGED <<subscribed, lingering, tick>>

\* progress(): the sequence number moves if the percentage does.
Progress ==
  /\ \/ subscribed /\ Running /\ fresh' = TRUE
     \/ UNCHANGED fresh
  /\ UNCHANGED <<slot, subscribed, lingering, tick>>

\* end(): of whatever is running, whoever began it.
End(ok) ==
  /\ IF subscribed /\ Running
     THEN slot' = [slot EXCEPT !.state = IF ok THEN "ok" ELSE "failed"] /\ fresh' = TRUE
     ELSE UNCHANGED <<slot, fresh>>
  /\ UNCHANGED <<subscribed, lingering, tick>>

\* stillOurs() of a producer that recorded that it owns the slot.
StillOurs(owned, p) == owned /\ slot = [state |-> "running", who |-> p]

-----------------------------------------------------------------------------
(* The display's side, on the loop task and under the registry lock.  (An   *)
(* enable by the server task is among these: it has then no upload in       *)
(* progress, and the other producers' calls find nothing running.)          *)

\* displayEnable(): subscribe(false), which finds nothing to drop, and
\* subscribe(true); the bookkeeping is DisplayResumes.
DisplayEnable ==
  /\ tick = "idle" /\ ~subscribed
  /\ subscribed' = TRUE
  /\ slot' = IdleSlot
  /\ fresh' = TRUE
  /\ tick' = "resumes"
  /\ UNCHANGED lingering

\* Mutant of DisplayDisable: the record is left for the next enable.
DisplayDisableKeeps ==
  /\ tick = "idle" /\ subscribed
  /\ subscribed' = FALSE
  /\ UNCHANGED <<slot, fresh, lingering, tick>>

\* displayDisable(): subscribe(false) drops the record.
DisplayDisable ==
  /\ tick = "idle" /\ subscribed
  /\ subscribed' = FALSE
  /\ slot' = IdleSlot
  /\ fresh' = TRUE
  /\ UNCHANGED <<lingering, tick>>

\* displayTick()'s seq(), where the record has moved ...
DisplayLooks ==
  /\ tick = "idle" /\ subscribed /\ fresh
  /\ fresh' = FALSE
  /\ tick' = "looked"
  /\ UNCHANGED <<slot, subscribed, lingering>>

\* Mutant of DisplaySees: only a success starts the clock.
DisplaySeesOk ==
  /\ tick = "looked"
  /\ lingering' = (slot.state = "ok")
  /\ tick' = "idle"
  /\ UNCHANGED <<slot, subscribed, fresh>>

\* ... and its snapshot(): a finished job starts to linger.
DisplaySees ==
  /\ tick = "looked"
  /\ lingering' = Finished
  /\ tick' = "idle"
  /\ UNCHANGED <<slot, subscribed, fresh>>

\* displayTick()'s seq(), where nothing has moved and DONE_LINGER_MS are over ...
DisplayDue ==
  /\ tick = "idle" /\ subscribed /\ ~fresh /\ lingering
  /\ lingering' = FALSE
  /\ tick' = "due"
  /\ UNCHANGED <<slot, subscribed, fresh>>

\* ... its clear(), of whatever is finished by now ...
DisplayClears ==
  /\ tick = "due"
  /\ IF Finished THEN slot' = IdleSlot /\ fresh' = TRUE ELSE UNCHANGED <<slot, fresh>>
  /\ tick' = "resumes"
  /\ UNCHANGED <<subscribed, lingering>>

\* ... and activitySeenSeq_ = seq(): whatever moved since clear(), or since
\* displayEnable()'s subscribe(true), counts as seen.
DisplayResumes ==
  /\ tick = "resumes"
  /\ fresh' = FALSE
  /\ lingering' = FALSE
  /\ tick' = "idle"
  /\ UNCHANGED <<slot, subscribed>>

DisplayTick == DisplayLooks \/ DisplaySees \/ DisplayDue \/ DisplayClears \/ DisplayResumes

\* The display has yet to act on what the record says.
Unsettled ==
  \/ tick \in {"looked", "due"}
  \/ tick = "idle" /\ (fresh \/ lingering)

ActivityTypeOK ==
  /\ slot \in [state : {"running", "ok", "failed"}, who : Producer] \cup {IdleSlot}
  /\ subscribed \in BOOLEAN
  /\ fresh \in BOOLEAN
  /\ lingering \in BOOLEAN
  /\ tick \in {"idle", "looked", "due", "resumes"}
=============================================================================
