--------------------------------- MODULE Ota ---------------------------------
(***************************************************************************)
(* The health check and the upload on one chip: they share otadata and the *)
(* slots, run on two tasks, and a restart ends both.                       *)
(***************************************************************************)
EXTENDS OtaUpload

vars == <<otadata, image, running, phase, uptime, ticks, chosen, up, revoked>>

Init == FlashInit /\ HealthInit /\ up = NoUpload /\ revoked = {}

\* tick() as the scheduler calls it.
Tick ==
  \/ TickStays /\ UNCHANGED <<up, revoked>>
  \/ TickRollsBack /\ up' = NoUpload /\ UNCHANGED revoked

\* The owner says what is to boot: `ota boot`, and `ota rollback` where it is done.
OwnerSelects == (\E s \in Slot : SetBootNow(s)) /\ revoked' = {} /\ UNCHANGED up

OwnerRollsBack == RollsBack /\ revoked' = {} /\ up' = NoUpload

Next ==
  \/ HealthStays /\ UNCHANGED <<up, revoked>>
  \/ HealthRestarts /\ up' = NoUpload /\ UNCHANGED revoked
  \/ OwnerSelects \/ OwnerRollsBack
  \/ Transfer

\* The scheduler runs the health task and time passes; a panicking image
\* panics.  Nothing is assumed of the owner, the phone or the cable.
Fairness ==
  /\ WF_vars(Elapse /\ UNCHANGED <<up, revoked>>)
  /\ WF_vars(Panic /\ up' = NoUpload /\ UNCHANGED revoked)
  /\ WF_vars(Tick)

Spec == Init /\ [][Next]_vars

FairSpec == Spec /\ Fairness

-----------------------------------------------------------------------------
(* Properties.                                                              *)

TypeOK ==
  /\ FlashTypeOK
  /\ HealthTypeOK
  /\ up \in Upload \cup {NoUpload}
  /\ revoked \in SUBSET Slot

\* Whatever is uploaded, selected, rolled back, refused or cut short, the slot
\* this boot runs from is whole, and a reset at this moment finds an image to
\* start: no sequence of commands and resets takes both slots away.
AlwaysBootable ==
  /\ image[running] \in Complete
  /\ image[Loaded(otadata)] \in Complete

\* What an upload wrote whose session ended before the last look at it never
\* runs of itself: the slot may hold all of it, but no reset, panic, expired trial
\* or selection by the upload starts it, until the owner selects or rolls back.
\* (Of an upload revoked while otadata rests on the running image: into a slot
\* that is selected already, it is enough that the bytes are there.)
RevokedNeverRuns == running \notin revoked

\* No record turns VALID but by the owner's `ota confirm`, or after the image
\* that is running passed every criterion for MinUptime; and unless a slot was
\* selected since the boot, it is the running image's record that does.
ConfirmedEarned ==
  [][\A i \in Slot :
       otadata'[i].state = "valid" /\ otadata[i].state # "valid" =>
         /\ \/ ConfirmNow
            \/ image[running] = "good" /\ uptime >= MinUptime /\ ticks' >= MinTicks
         /\ chosen \/ SlotOf(otadata[i]) = running]_vars

\* An update does not vanish: an image confirmed in this boot is the one every
\* restart runs, unless a slot was selected since the boot.
ConfirmedStays == phase = "confirmed" /\ ~chosen => Loaded(otadata) = running

\* A trial is decided or cut short by a restart; it never just stays pending,
\* where the next restart would undo it unannounced.
TrialDecided == (phase = "pending") ~> (phase # "pending")

\* otaupload.cpp:583-587: "NO HALF-WRITTEN SLOT IS EVER LEFT SELECTED".
HalfWrittenNeverSelected ==
  ~Uploading => image[BootSlot(otadata)] \in Complete

=============================================================================
