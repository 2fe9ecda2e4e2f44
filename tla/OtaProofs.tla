------------------------------ MODULE OtaProofs ------------------------------
(***************************************************************************)
(* What holds of Ota for every window, tick count, image size and outcome  *)
(* of a flash write.                                                       *)
(***************************************************************************)
EXTENDS Ota, TLAPS

USE DEF Slot, Complete, Partial

-----------------------------------------------------------------------------
(* otadata and the bootloader.                                              *)

\* The deciding record is one of the two, or neither.
LEMMA ActiveRange ==
  ASSUME NEW od \in [Slot -> Record]
  PROVE  Active(od) \in 0..2
BY DEF Active

\* The bootloader always names a slot.
LEMMA SlotRange ==
  /\ \A r \in Record : SlotOf(r) \in Slot
  /\ \A od \in [Slot -> Record] : BootSlot(od) \in Slot
<1>1. \A r \in Record : SlotOf(r) \in Slot
  BY DEF SlotOf
<1>2. \A od \in [Slot -> Record] : BootSlot(od) \in Slot
  BY <1>1, ActiveRange DEF BootSlot
<1> QED BY <1>1, <1>2

\* A restart and a mark keep otadata's type.
LEMMA MarkedType ==
  ASSUME NEW od \in [Slot -> Record], NEW s \in ImgState
  PROVE  Marked(od, s) \in [Slot -> Record]
BY ActiveRange DEF Marked, Record

LEMMA BootedType ==
  ASSUME NEW od \in [Slot -> Record]
  PROVE  /\ Aborted(od) \in [Slot -> Record]
         /\ Booted(od) \in [Slot -> Record]
<1>1. Aborted(od) \in [Slot -> Record]
  BY DEF Aborted, Record, ImgState
<1>2. \A x \in [Slot -> Record] : Tried(x) \in [Slot -> Record]
  BY ActiveRange DEF Tried, Record, ImgState
<1> QED BY <1>1, <1>2 DEF Booted

\* If the running slot is whole, whatever otadata says, the bootloader finds
\* an image.
LEMMA LoadFinds ==
  ASSUME image \in [Slot -> Complete \cup {Partial}], running \in Slot,
         image[running] \in Complete, NEW od \in [Slot -> Record]
  PROVE  Loaded(od) \in Slot /\ image[Loaded(od)] \in Complete
BY BootedType, SlotRange DEF Loaded, Other

-----------------------------------------------------------------------------
(* Types.                                                                   *)

\* Every action that restarts does this.
LEMMA RestartType ==
  ASSUME TypeOK, image[running] \in Complete, NEW od \in [Slot -> Record],
         Restart(od), up' = NoUpload, revoked' \in SUBSET Slot
  PROVE  TypeOK' /\ image'[running'] \in Complete
<1> USE DEF TypeOK, FlashTypeOK, HealthTypeOK, Restart
<1>1. otadata' \in [Slot -> Record]
  BY BootedType
<1>2. running' \in Slot /\ image'[running'] \in Complete
  BY LoadFinds
<1>3. phase' \in {"idle", "pending"}
  BY DEF Begin
<1>4. uptime' \in 0..Window /\ ticks' \in 0..MinTicks
  BY ConfigAssumption
<1> QED BY <1>1, <1>2, <1>3, <1>4

\* A restart happens from otadata as it is, or with the active record marked.
LEMMA RestartsFrom ==
  ASSUME TypeOK, HealthRestarts \/ OwnerRollsBack
  PROVE  \E od \in [Slot -> Record] : Restart(od)
BY MarkedType DEF TypeOK, FlashTypeOK, HealthRestarts, Reset, Panic, TickRollsBack,
   OwnerRollsBack, RollsBack, ImgState

\* The inductive form of TypeOK and AlwaysBootable: an upload's target is not
\* the slot that runs, and a transfer that reads has bytes to come.
Safe ==
  /\ TypeOK
  /\ image[running] \in Complete
  /\ Uploading => /\ up.target = Other(running)
                  /\ up.at = "read" => up.left > 0

LEMMA TickedRange ==
  ASSUME ticks \in 0..MinTicks
  PROVE  Ticked \in 0..MinTicks
BY ConfigAssumption DEF Ticked

\* Steps of the health check that do not restart.
LEMMA HealthStaysType ==
  ASSUME TypeOK, HealthStays, UNCHANGED <<up, revoked>>
  PROVE  TypeOK' /\ UNCHANGED <<image, running>>
<1> USE DEF TypeOK, FlashTypeOK, HealthTypeOK, flash, health
<1>1. CASE Elapse
  BY <1>1, ConfigAssumption DEF Elapse
<1>2. CASE TickIdle \/ TickWaits
  BY <1>2, TickedRange DEF TickIdle, TickWaits
<1>3. CASE TickConfirms \/ ConfirmNow
  <2>1. UNCHANGED <<image, running, uptime, chosen>> /\ phase' \in {"confirmed", "failed"}
    BY <1>3 DEF TickConfirms, ConfirmNow, DoConfirm
  <2>2. otadata' \in [Slot -> Record]
    BY <1>3, MarkedType DEF TickConfirms, ConfirmNow, DoConfirm, ImgState
  <2>3. ticks' \in 0..MinTicks
    BY <1>3, TickedRange DEF TickConfirms, ConfirmNow
  <2> QED BY <2>1, <2>2, <2>3
<1>4. CASE TickGivesUp
  BY <1>4, TickedRange DEF TickGivesUp, RollbackFails, Refused
<1>5. CASE RollbackNowFails
  BY <1>5 DEF RollbackNowFails, RollbackFails
<1> QED BY <1>1, <1>2, <1>3, <1>4, <1>5 DEF HealthStays, TickStays

\* The owner's selection.
LEMMA OwnerSelectsType ==
  ASSUME TypeOK, OwnerSelects
  PROVE  TypeOK' /\ UNCHANGED <<image, running>>
BY DEF OwnerSelects, SetBootNow, TypeOK, FlashTypeOK, HealthTypeOK

\* Steps of an upload: they write no slot but their target.
LEMMA TransferType ==
  ASSUME Safe, Transfer
  PROVE  Safe'
<1> USE DEF Safe, TypeOK, FlashTypeOK, HealthTypeOK, flash, health
<1>1. ASSUME NEW b \in Body, NEW s \in BOOLEAN, UploadBegin(b, s) PROVE Safe'
  <2>1. up' \in Upload /\ up' # NoUpload /\ up'.target = UploadTarget /\ up'.left > 0
    BY <1>1, UploadAssumption DEF UploadBegin, UploadTarget, Other, Upload, NoUpload, Session
  <2>2. revoked' \in SUBSET Slot
    BY <1>1 DEF UploadBegin
  <2>3. UploadTarget \in Slot /\ UploadTarget # running /\ UploadTarget = Other(running)
    BY DEF UploadTarget, Other
  <2>4. image' \in [Slot -> Complete \cup {Partial}] /\ image'[running] = image[running]
    BY <1>1, <2>3 DEF UploadBegin
  <2>5. UNCHANGED <<otadata, running, phase, uptime, ticks, chosen>>
    BY <1>1 DEF UploadBegin
  <2> HIDE DEF Safe, TypeOK, FlashTypeOK, HealthTypeOK
  <2>6. TypeOK'
    BY <2>1, <2>2, <2>4, <2>5 DEF Safe, TypeOK, FlashTypeOK, HealthTypeOK
  <2> QED BY <2>1, <2>3, <2>4, <2>5, <2>6 DEF Safe, Uploading
<1>2. CASE UploadChunk
  <2>1. up \in Upload /\ up.left \in 1..Chunks
    BY <1>2, UploadAssumption DEF UploadChunk, Uploading, Upload
  <2>2. up'.target = up.target /\ up' # NoUpload
    BY <1>2, <2>1 DEF UploadChunk, Upload, NoUpload
  <2>3. up' \in Upload
    <3>1. up.left - 1 \in 0..Chunks /\ 0 \in 0..Chunks
      BY <2>1, UploadAssumption
    <3> QED BY <1>2, <2>1, <3>1 DEF UploadChunk, Upload
  <2>4. up'.left > 0
    BY <1>2, <2>1, UploadAssumption DEF UploadChunk, Upload
  <2> QED BY <1>2, <2>1, <2>2, <2>3, <2>4 DEF UploadChunk, Uploading
<1>8. CASE UploadLastChunk
  <2>1. up \in Upload /\ 0 \in 0..Chunks
    BY <1>8, UploadAssumption DEF UploadLastChunk, Uploading
  <2>2. up' \in Upload /\ up'.target = up.target /\ up' # NoUpload /\ up'.at = "check"
    BY <1>8, <2>1 DEF UploadLastChunk, Upload, NoUpload
  <2>3. up.body \in Complete \cup {Partial} /\ up.target # running
    BY <1>8, <2>1 DEF UploadLastChunk, Upload, Other
  <2> QED BY <1>8, <2>2, <2>3 DEF UploadLastChunk, Uploading
<1>3. CASE UploadFails
  BY <1>3 DEF UploadFails, Uploading, NoUpload
<1>4. CASE UploadCheck
  BY <1>4 DEF UploadCheck, Uploading, Upload, NoUpload
<1>5. CASE UploadEnd
  BY <1>5 DEF UploadEnd, Uploading, Upload, NoUpload, Other
<1>6. CASE UploadSelect
  BY <1>6 DEF UploadSelect, SetBootNow, Uploading, NoUpload
<1>7. CASE Revoke
  BY <1>7 DEF Revoke, Uploading, Upload, NoUpload, Session
<1> QED BY <1>1, <1>2, <1>3, <1>4, <1>5, <1>6, <1>7, <1>8 DEF Transfer

THEOREM SafeInvariant == Spec => []Safe
<1>1. Init => Safe
  <2> SUFFICES ASSUME Init PROVE Safe
    OBVIOUS
  <2> USE DEF Init, FlashInit, HealthInit
  <2>1. otadata \in [Slot -> Record]
    BY SeqAssumption DEF Record, ImgState
  <2>2. image \in [Slot -> Complete \cup {Partial}] /\ image[running] \in Complete
    OBVIOUS
  <2>3. HealthTypeOK
    <3>1. 0 \in 0..Window /\ 0 \in 0..MinTicks
      BY ConfigAssumption
    <3> QED BY <3>1 DEF HealthTypeOK
  <2> QED BY <2>1, <2>2, <2>3 DEF Safe, TypeOK, FlashTypeOK, Uploading
<1>2. Safe /\ [Next]_vars => Safe'
  <2> SUFFICES ASSUME Safe, [Next]_vars PROVE Safe'
    OBVIOUS
  <2>1. CASE HealthStays /\ UNCHANGED <<up, revoked>>
    BY <2>1, HealthStaysType DEF Safe, Uploading
  <2>5. CASE OwnerSelects
    BY <2>5, OwnerSelectsType DEF Safe, Uploading, OwnerSelects
  <2>2. CASE (HealthRestarts /\ up' = NoUpload /\ UNCHANGED revoked) \/ OwnerRollsBack
    <3>1. up' = NoUpload /\ revoked' \in SUBSET Slot
      BY <2>2 DEF OwnerRollsBack, Safe, TypeOK
    <3> QED BY <2>2, <3>1, RestartsFrom, RestartType DEF Safe, Uploading
  <2>3. CASE Transfer
    BY <2>3, TransferType
  <2>4. CASE UNCHANGED vars
    BY <2>4 DEF vars, Safe, TypeOK, FlashTypeOK, HealthTypeOK, Uploading
  <2> QED BY <2>1, <2>2, <2>3, <2>4, <2>5 DEF Next
<1> QED BY <1>1, <1>2, PTL DEF Spec

\* otadata, the slots, the health check and the upload keep their types.
THEOREM TypeCorrect == Spec => []TypeOK
<1>1. Safe => TypeOK
  BY DEF Safe
<1> QED BY <1>1, SafeInvariant, PTL

\* No sequence of uploads, commands, refusals, failed writes, panics and resets
\* takes the running image away or leaves the bootloader without one.
THEOREM DeviceAlwaysBoots == Spec => []AlwaysBootable
<1>1. Safe => AlwaysBootable
  BY LoadFinds DEF Safe, TypeOK, FlashTypeOK, AlwaysBootable
<1> QED BY <1>1, SafeInvariant, PTL

-----------------------------------------------------------------------------
(* What a confirmation means.                                               *)

\* An image that panics has not reached MinUptime.
Young == image[running] = "crash" => uptime < MinUptime

LEMMA YoungInvariant == Spec => []Young
<1>1. Init => Young
  BY DEF Init, FlashInit, HealthInit, Young
<1>2. Safe /\ Young /\ [Next]_vars => Young'
  <2> SUFFICES ASSUME Safe, Young, [Next]_vars PROVE Young'
    OBVIOUS
  <2> USE DEF Young
  <2>1. CASE HealthStays /\ UNCHANGED <<up, revoked>>
    <3>1. UNCHANGED <<image, running>>
      BY <2>1, HealthStaysType DEF Safe
    <3>2. CASE Elapse
      BY <3>1, <3>2 DEF Elapse
    <3>3. CASE UNCHANGED uptime
      BY <3>1, <3>3
    <3> QED BY <2>1, <3>2, <3>3
         DEF HealthStays, TickStays, TickIdle, TickWaits, TickConfirms, TickGivesUp,
             ConfirmNow, RollbackNowFails, DoConfirm, RollbackFails, Refused
  <2>5. CASE OwnerSelects
    BY <2>5 DEF OwnerSelects, SetBootNow
  <2>2. CASE HealthRestarts \/ OwnerRollsBack
    <3>1. PICK od \in [Slot -> Record] : Restart(od)
      BY <2>2, RestartsFrom DEF Safe
    <3> QED BY <3>1, ConfigAssumption DEF Restart
  <2>3. CASE Transfer
    <3>1. UNCHANGED <<running, uptime>>
      BY <2>3 DEF Transfer, UploadBegin, UploadChunk, UploadLastChunk, UploadFails, UploadCheck,
         UploadEnd, UploadSelect, Revoke, SetBootNow, flash, health
    <3>2. image'[running] = image[running]
      BY <2>3 DEF Safe, TypeOK, FlashTypeOK, Transfer, UploadBegin, UploadTarget, Other,
         UploadChunk, UploadLastChunk, UploadFails, UploadCheck, UploadEnd, UploadSelect, Revoke,
         SetBootNow, flash
    <3> QED BY <3>1, <3>2
  <2>4. CASE UNCHANGED vars
    BY <2>4 DEF vars
  <2> QED BY <2>1, <2>2, <2>3, <2>4, <2>5 DEF Next
<1> QED BY <1>1, <1>2, SafeInvariant, PTL DEF Spec

Becomes(s) == \E i \in Slot : otadata'[i].state = s /\ otadata[i].state # s

\* A restart and a selection write no VALID record.
LEMMA RestartNotValid ==
  ASSUME TypeOK, HealthRestarts \/ OwnerRollsBack
  PROVE  ~Becomes("valid")
<1>1. \A x \in [Slot -> Record], i \in Slot :
        Booted(x)[i].state = "valid" => x[i].state = "valid"
  <2> SUFFICES ASSUME NEW x \in [Slot -> Record], NEW i \in Slot, Booted(x)[i].state = "valid"
               PROVE x[i].state = "valid"
    OBVIOUS
  <2>1. Aborted(x)[i].state = "valid"
    BY BootedType, ActiveRange DEF Booted, Tried, Record
  <2> QED BY <2>1 DEF Aborted, Record
<1>2. \A i \in Slot : Marked(otadata, "invalid")[i].state = "valid" => otadata[i].state = "valid"
  BY ActiveRange DEF Marked, TypeOK, FlashTypeOK, Record
<1>3. Marked(otadata, "invalid") \in [Slot -> Record] /\ otadata \in [Slot -> Record]
  BY MarkedType DEF TypeOK, FlashTypeOK, ImgState
<1> QED BY <1>1, <1>2, <1>3
     DEF Becomes, HealthRestarts, Reset, Panic, TickRollsBack, OwnerRollsBack, RollsBack, Restart

LEMMA SelectionNotValid ==
  ASSUME TypeOK, NEW s \in Slot, SetBootNow(s)
  PROVE  ~Becomes("valid")
BY ActiveRange DEF SetBootNow, Selection, Becomes, TypeOK, FlashTypeOK, Record

\* A tick confirms only what passed every criterion.
LEMMA TickEarns ==
  ASSUME Safe, Young, TickConfirms
  PROVE  image[running] = "good" /\ uptime >= MinUptime /\ ticks' >= MinTicks
<1>1. PICK a \in BOOLEAN, f \in Facts : Decide(CriteriaMet(Ticked, a, f[1], f[2])) = "confirm"
  BY DEF TickConfirms, Verdicts
<1>2. CriteriaMet(Ticked, a, f[1], f[2]) = Criteria
  BY <1>1 DEF Decide
<1>3. \A c \in Criteria : c \in CriteriaMet(Ticked, a, f[1], f[2])
  BY <1>2
<1>4. Ticked >= MinTicks
  <2>1. "ticks" \in CriteriaMet(Ticked, a, f[1], f[2])
    BY <1>3 DEF Criteria
  <2> QED BY <2>1 DEF CriteriaMet
<1>5. uptime >= MinUptime
  <2>1. "uptime" \in CriteriaMet(Ticked, a, f[1], f[2])
    BY <1>3 DEF Criteria
  <2> QED BY <2>1 DEF CriteriaMet
<1>6. f[1] /\ f[2]
  <2>1. "registry" \in CriteriaMet(Ticked, a, f[1], f[2])
    BY <1>3 DEF Criteria
  <2>2. "essential" \in CriteriaMet(Ticked, a, f[1], f[2])
    BY <1>3 DEF Criteria
  <2> QED BY <2>1, <2>2 DEF CriteriaMet
<1>7. image[running] # "sick"
  <2> SUFFICES ASSUME image[running] = "sick" PROVE FALSE
    OBVIOUS
  <2>1. f \in BOOLEAN \X BOOLEAN /\ f # <<TRUE, TRUE>>
    BY DEF Facts
  <2>2. PICK x \in BOOLEAN, y \in BOOLEAN : f = <<x, y>>
    BY <2>1
  <2>3. x = TRUE /\ y = TRUE
    BY <1>6, <2>2
  <2> QED BY <2>1, <2>2, <2>3
<1>8. image[running] # "crash"
  BY <1>5, ConfigAssumption DEF Young, Safe, TypeOK, HealthTypeOK
<1>9. ticks' = Ticked
  BY DEF TickConfirms
<1> QED BY <1>4, <1>5, <1>7, <1>8, <1>9 DEF Safe

\* The console criterion never decides: by the time the uptime criterion is met
\* its grace has expired (otadecide.h: "it never becomes the thing that stalls a
\* good build"), whoever did or did not talk to the device.
THEOREM ConsoleNeverStalls ==
  ASSUME TypeOK, NEW n, NEW r \in BOOLEAN, NEW e \in BOOLEAN
  PROVE  CriteriaMet(n, TRUE, r, e) = Criteria <=> CriteriaMet(n, FALSE, r, e) = Criteria
<1>1. uptime >= MinUptime => uptime >= ConsoleGrace
  BY ConfigAssumption DEF TypeOK, HealthTypeOK
<1>2. "uptime" \in Criteria
  BY DEF Criteria
<1>3. "uptime" \in CriteriaMet(n, TRUE, r, e) => CriteriaMet(n, TRUE, r, e) = CriteriaMet(n, FALSE, r, e)
  BY <1>1, <1>2 DEF CriteriaMet
<1>4. "uptime" \in CriteriaMet(n, FALSE, r, e) => CriteriaMet(n, TRUE, r, e) = CriteriaMet(n, FALSE, r, e)
  BY <1>1, <1>2 DEF CriteriaMet
<1> QED BY <1>2, <1>3, <1>4

-----------------------------------------------------------------------------
(* A confirmed image is the one every restart runs.                         *)

\* The active record is this boot's trial, and no other record is one.
TrialRecord(od, s) ==
  /\ Active(od) # 2
  /\ SlotOf(od[Active(od)]) = s
  /\ od[Active(od)].state = "pending"
  /\ od[1 - Active(od)].state # "pending"

NoTrial(od) == \A i \in Slot : od[i].state # "pending"

Settled ==
  ~chosen => /\ phase = "pending" => TrialRecord(otadata, running)
             /\ phase = "confirmed" => BootSlot(otadata) = running /\ NoTrial(otadata)

\* A boot that finds its slot on trial runs the slot of the active record.
LEMMA TrialBoots ==
  ASSUME NEW od \in [Slot -> Record], NEW s \in Slot, StateOf(Booted(od), s) = "pending"
  PROVE  TrialRecord(Booted(od), s)
<1> DEFINE x == Aborted(od)
           a == Active(x)
           y == Tried(x)
<1>1. x \in [Slot -> Record] /\ y \in [Slot -> Record] /\ Booted(od) = y
  BY BootedType DEF Booted
<1>2. NoTrial(x)
  BY DEF Aborted, NoTrial, Record
<1>3. a \in 0..2
  BY <1>1, ActiveRange
<1>4. \E i \in Slot : y[i].state = "pending" /\ SlotOf(y[i]) = s
  BY <1>1 DEF StateOf
<1>5. a # 2 /\ x[a].state = "new" /\ y = [x EXCEPT ![a].state = "pending"]
  BY <1>1, <1>2, <1>4 DEF Tried, NoTrial
<1> HIDE DEF x, y, a
<1>6. a \in Slot /\ 1 - a \in Slot
  BY <1>3, <1>5
<1>7. y[a].state = "pending" /\ y[a].seq = x[a].seq /\ y[1 - a] = x[1 - a]
  BY <1>1, <1>5, <1>6 DEF Record
<1>8. Active(y) = a
  BY <1>1, <1>5, <1>6, <1>7 DEF Active, Selectable, a, Record
<1>9. y[1 - a].state # "pending"
  BY <1>2, <1>6, <1>7 DEF NoTrial
<1>10. SlotOf(y[a]) = s
  BY <1>4, <1>6, <1>7, <1>9
<1> QED BY <1>1, <1>5, <1>7, <1>8, <1>9, <1>10 DEF TrialRecord

\* Marking that record VALID leaves it the active one.
LEMMA TrialConfirmed ==
  ASSUME NEW od \in [Slot -> Record], NEW s \in Slot, TrialRecord(od, s)
  PROVE  LET v == Marked(od, "valid") IN BootSlot(v) = s /\ NoTrial(v)
<1> DEFINE a == Active(od)
           v == [od EXCEPT ![a].state = "valid"]
<1>1. a \in Slot /\ 1 - a \in Slot /\ Marked(od, "valid") = v
  BY ActiveRange DEF TrialRecord, Marked
<1>2. od[a].state = "pending" /\ SlotOf(od[a]) = s /\ od[1 - a].state # "pending"
  BY DEF TrialRecord
<1>3. v[a].state = "valid" /\ v[a].seq = od[a].seq /\ v[1 - a] = od[1 - a]
  BY <1>1 DEF Record
<1>4. Active(v) = a
  BY <1>1, <1>2, <1>3 DEF Active, Selectable, Record
<1>5. BootSlot(v) = s
  BY <1>1, <1>2, <1>3, <1>4 DEF BootSlot, SlotOf
<1>6. NoTrial(v)
  BY <1>1, <1>2, <1>3 DEF NoTrial
<1> QED BY <1>1, <1>5, <1>6

LEMMA SettledInvariant == Spec => []Settled
<1>1. Init => Settled
  BY DEF Init, HealthInit, Settled
<1>2. Safe /\ Settled /\ [Next]_vars => Settled'
  <2> SUFFICES ASSUME Safe, Settled, [Next]_vars PROVE Settled'
    OBVIOUS
  <2>t. TypeOK /\ otadata \in [Slot -> Record] /\ running \in Slot
    BY DEF Safe, TypeOK, FlashTypeOK
  <2>1. CASE HealthStays /\ UNCHANGED <<up, revoked>>
    <3>1. CASE TickConfirms \/ ConfirmNow
      <4>1. phase = "pending" /\ DoConfirm
        BY <3>1 DEF TickConfirms, ConfirmNow
      <4>2. CASE chosen
        BY <4>1, <4>2 DEF Settled, DoConfirm
      <4>3. CASE ~chosen
        <5>1. TrialRecord(otadata, running)
          BY <4>1, <4>3 DEF Settled
        <5>2. LET v == Marked(otadata, "valid") IN BootSlot(v) = running /\ NoTrial(v)
          BY <2>t, <5>1, TrialConfirmed
        <5>3. phase' = "failed" \/ (phase' = "confirmed" /\ otadata' = Marked(otadata, "valid"))
          BY <4>1 DEF DoConfirm
        <5>4. running' = running
          BY <4>1 DEF DoConfirm
        <5> QED BY <5>2, <5>3, <5>4 DEF Settled
      <4> QED BY <4>2, <4>3
    <3>3. CASE UNCHANGED <<otadata, running, phase, chosen>>
      BY <3>3 DEF Settled
    <3>4. CASE phase' = "failed" /\ UNCHANGED chosen
      BY <3>4 DEF Settled
    <3> QED BY <2>1, <3>1, <3>3, <3>4
         DEF HealthStays, TickStays, Elapse, TickIdle, TickWaits, TickGivesUp, RollbackNowFails,
             RollbackFails, Refused, flash
  <2>5. CASE OwnerSelects
    BY <2>5 DEF OwnerSelects, SetBootNow, Settled
  <2>2. CASE HealthRestarts \/ OwnerRollsBack
    <3>1. PICK od \in [Slot -> Record] : Restart(od)
      BY <2>t, <2>2, RestartsFrom
    <3>2. running' \in Slot
      BY <2>t, <3>1, LoadFinds DEF Restart, Safe, TypeOK, FlashTypeOK
    <3>3. phase' = "pending" => TrialRecord(otadata', running')
      BY <3>1, <3>2, TrialBoots DEF Restart, Begin
    <3>4. phase' # "confirmed"
      BY <3>1 DEF Restart, Begin
    <3> QED BY <3>3, <3>4 DEF Settled
  <2>3. CASE Transfer
    <3>1. CASE UploadSelect
      BY <3>1 DEF UploadSelect, SetBootNow, Settled
    <3>2. CASE UNCHANGED <<otadata, running, phase, chosen>>
      BY <3>2 DEF Settled
    <3> QED BY <2>3, <3>1, <3>2 DEF Transfer, UploadBegin, UploadChunk, UploadLastChunk,
         UploadFails, UploadCheck, UploadEnd, Revoke, flash, health
  <2>4. CASE UNCHANGED vars
    BY <2>4 DEF vars, Settled
  <2> QED BY <2>1, <2>2, <2>3, <2>4, <2>5 DEF Next
<1> QED BY <1>1, <1>2, SafeInvariant, PTL DEF Spec

\* An update confirmed in this boot is what every restart runs, until a slot is
\* selected.
THEOREM UpdateNotLost == Spec => []ConfirmedStays
<1>1. Safe /\ Settled => ConfirmedStays
  <2> SUFFICES ASSUME Safe, Settled, phase = "confirmed", ~chosen
               PROVE Loaded(otadata) = running
    BY DEF ConfirmedStays
  <2>1. BootSlot(otadata) = running /\ NoTrial(otadata)
    BY DEF Settled
  <2>2. otadata \in [Slot -> Record] /\ image[running] \in Complete
    BY DEF Safe, TypeOK, FlashTypeOK
  <2>3. Aborted(otadata) = otadata
    BY <2>1, <2>2 DEF Aborted, NoTrial
  <2> QED BY <2>1, <2>2, <2>3 DEF Loaded
<1> QED BY <1>1, SafeInvariant, SettledInvariant, PTL

\* A record turns VALID by the owner's word or by a trial that was passed, and is
\* the running image's if nothing was selected, for every threshold: the action
\* property of the run.
THEOREM ConfirmationsEarned == Spec => ConfirmedEarned
<1> DEFINE Earned(i) ==
      /\ \/ ConfirmNow
         \/ image[running] = "good" /\ uptime >= MinUptime /\ ticks' >= MinTicks
      /\ chosen \/ SlotOf(otadata[i]) = running
<1>1. Safe /\ Young /\ Settled /\ [Next]_vars =>
        [\A i \in Slot : otadata'[i].state = "valid" /\ otadata[i].state # "valid"
           => Earned(i)]_vars
  <2> SUFFICES ASSUME Safe, Young, Settled, Next, NEW i \in Slot,
                      otadata'[i].state = "valid", otadata[i].state # "valid"
               PROVE Earned(i)
    OBVIOUS
  <2>1. otadata' # otadata /\ Becomes("valid")
    BY DEF Becomes
  <2>2. TypeOK /\ otadata \in [Slot -> Record]
    BY DEF Safe, TypeOK, FlashTypeOK
  <2>3. ~HealthRestarts /\ ~OwnerRollsBack
    BY <2>1, <2>2, RestartNotValid
  <2>4. ~Transfer
    <3>1. ~UploadSelect
      BY <2>1, <2>2, SelectionNotValid DEF UploadSelect, TypeOK, Uploading, Upload
    <3> QED BY <2>1, <3>1 DEF Transfer, UploadBegin, UploadChunk, UploadLastChunk, UploadFails,
         UploadCheck, UploadEnd, Revoke, flash
  <2>5. HealthStays
    BY <2>1, <2>2, <2>3, <2>4, SelectionNotValid DEF Next, OwnerSelects
  <2>6. TickConfirms \/ ConfirmNow
    BY <2>1, <2>5
       DEF HealthStays, Elapse, TickStays, TickIdle, TickWaits, TickGivesUp, RollbackNowFails,
           RollbackFails, Refused, flash
  <2>7. phase = "pending" /\ otadata' = Marked(otadata, "valid")
    BY <2>1, <2>6 DEF TickConfirms, ConfirmNow, DoConfirm
  <2>8. ~chosen => SlotOf(otadata[i]) = running
    <3>1. Active(otadata) # 2 => i = Active(otadata)
      BY <2>2, <2>7, ActiveRange DEF Marked, Record
    <3> QED BY <2>7, <3>1 DEF Settled, TrialRecord
  <2> QED BY <2>6, <2>8, TickEarns
<1> QED BY <1>1, SafeInvariant, YoungInvariant, SettledInvariant, PTL DEF Spec, ConfirmedEarned

-----------------------------------------------------------------------------
(* What a revoked upload left.                                              *)

\* A trial under way is the deciding record's, or a selection has overtaken it.
OnTrial ==
  LET a == Active(otadata) IN a # 2 /\ otadata[a].state \in {"new", "pending"}

\* While a revoked upload's slot is unasked for, it is the one that does not run
\* and otadata rests on the other; an upload that may still select is not revoked.
Unwanted ==
  /\ phase = "pending" => OnTrial
  /\ revoked # {} => Steady /\ revoked = {Other(running)}
  /\ Uploading => IF up.session = "revoked" THEN up.at \in {"read", "check"}
                  ELSE up.target \notin revoked

\* A selection over a trial leaves a trial, or something newer, to decide.
LEMMA SelectionOnTrial ==
  ASSUME TypeOK, NEW s \in Slot, SetBootNow(s), OnTrial
  PROVE  OnTrial'
<1> DEFINE a == Active(otadata)
           q == SeqFor(s, otadata[a].seq)
<1>1. a \in Slot /\ 1 - a \in Slot /\ otadata \in [Slot -> Record]
  BY ActiveRange DEF OnTrial, TypeOK, FlashTypeOK
<1>2. otadata' = [otadata EXCEPT ![1 - a] = [seq |-> q, state |-> "new"]]
  BY DEF SetBootNow, Selection, OnTrial
<1>3. otadata[a].state \in {"new", "pending"} /\ Selectable(otadata[a])
  BY <1>1 DEF OnTrial, Active, Selectable
<1>4. /\ otadata[a].seq \in Nat /\ otadata[a].seq > 0
      /\ q \in Nat /\ q >= otadata[a].seq
  BY <1>1, <1>3, SeqAssumption DEF SeqFor, Record, Selectable
<1> HIDE DEF q
<1>5. otadata'[a] = otadata[a] /\ otadata'[1 - a] = [seq |-> q, state |-> "new"]
  BY <1>1, <1>2
<1>6. Selectable(otadata'[a]) /\ Selectable(otadata'[1 - a])
  BY <1>3, <1>4, <1>5 DEF Selectable
<1> HIDE DEF a
<1>7. Active(otadata') \in Slot
  BY <1>1, <1>6 DEF Active
<1>8. otadata'[Active(otadata')].state \in {"new", "pending"}
  BY <1>1, <1>3, <1>5, <1>7
<1> QED BY <1>7, <1>8 DEF OnTrial

\* A restart from a steady otadata changes neither the deciding record nor what runs.
LEMMA SteadyBoots ==
  ASSUME Safe, Steady, Restart(otadata)
  PROVE  Steady' /\ running' = running
<1> DEFINE a == Active(otadata)
           x == Aborted(otadata)
<1>1. a \in Slot /\ 1 - a \in Slot /\ otadata \in [Slot -> Record] /\ running \in Slot
  BY ActiveRange DEF Steady, Safe, TypeOK, FlashTypeOK
<1>2. x \in [Slot -> Record] /\ x[a] = otadata[a] /\ x[1 - a].seq = otadata[1 - a].seq
  BY <1>1, BootedType DEF Steady, Aborted, Record
<1>3. Selectable(x[1 - a]) => Selectable(otadata[1 - a])
  BY <1>1 DEF Aborted, Selectable, Record
<1>4. Active(x) = a
  BY <1>1, <1>2, <1>3 DEF Active, Selectable, Record
<1>5. Booted(otadata) = x
  BY <1>1, <1>2, <1>4 DEF Booted, Tried, Steady
<1>6. Loaded(otadata) = running
  BY <1>1, <1>2, <1>4 DEF Loaded, BootSlot, Steady, Safe
<1> HIDE DEF x
<1> QED BY <1>1, <1>2, <1>4, <1>5, <1>6 DEF Restart, Steady

LEMMA UnwantedStep ==
  ASSUME Safe, Safe', Unwanted, [Next]_vars
  PROVE  Unwanted'
<1>t. /\ TypeOK /\ TypeOK' /\ otadata \in [Slot -> Record] /\ running \in Slot
      /\ revoked \in SUBSET Slot
  BY DEF Safe, TypeOK, FlashTypeOK
<1>0. Steady => phase # "pending"
  BY DEF Unwanted, Steady, OnTrial
<1>1. CASE HealthStays /\ UNCHANGED <<up, revoked>>
  <2>1. running' = running
    BY <1>1, <1>t, HealthStaysType
  <2>2. CASE TickConfirms \/ ConfirmNow
    <3>1. phase = "pending" /\ phase' # "pending"
      BY <2>2 DEF TickConfirms, ConfirmNow, DoConfirm
    <3>2. revoked = {}
      BY <1>0, <3>1 DEF Unwanted
    <3> QED BY <1>1, <3>1, <3>2 DEF Unwanted, Uploading
  <2>3. CASE UNCHANGED otadata /\ phase' \in {phase, "failed"}
    BY <1>1, <2>1, <2>3 DEF Unwanted, OnTrial, Steady, Uploading
  <2> QED BY <1>1, <2>2, <2>3
       DEF HealthStays, TickStays, Elapse, TickIdle, TickWaits, TickGivesUp, RollbackNowFails,
           RollbackFails, Refused, flash
<1>2. CASE OwnerSelects
  <2>1. PICK s \in Slot : SetBootNow(s)
    BY <1>2 DEF OwnerSelects
  <2>2. phase' = "pending" => OnTrial'
    BY <1>t, <2>1, SelectionOnTrial DEF Unwanted, SetBootNow
  <2> QED BY <1>2, <2>2 DEF Unwanted, OwnerSelects, Uploading
<1>3. CASE (HealthRestarts /\ up' = NoUpload /\ UNCHANGED revoked) \/ OwnerRollsBack
  <2>1. PICK od \in [Slot -> Record] : Restart(od)
    BY <1>t, <1>3, RestartsFrom
  <2>2. phase' = "pending" => OnTrial'
    <3>1. running' \in Slot
      BY DEF Safe, TypeOK, FlashTypeOK
    <3> QED BY <2>1, <3>1, TrialBoots DEF Restart, Begin, TrialRecord, OnTrial
  <2>3. ~Uploading'
    BY <1>3 DEF OwnerRollsBack, Uploading
  <2>4. revoked' # {} => Steady' /\ revoked' = {Other(running')}
    <3> SUFFICES ASSUME revoked' # {} PROVE Steady' /\ revoked' = {Other(running')}
      OBVIOUS
    <3>1. HealthRestarts /\ revoked' = revoked
      BY <1>3 DEF OwnerRollsBack
    <3>2. Steady /\ revoked = {Other(running)}
      BY <3>1 DEF Unwanted
    <3>3. Restart(otadata)
      BY <1>0, <3>1, <3>2 DEF HealthRestarts, Reset, Panic, TickRollsBack
    <3> QED BY <3>1, <3>2, <3>3, SteadyBoots
  <2> QED BY <2>2, <2>3, <2>4 DEF Unwanted
<1>4. CASE Transfer
  <2>1. up \in Upload \cup {NoUpload} /\ (Uploading => up \in Upload)
    BY <1>t DEF TypeOK, Uploading
  <2>2. ASSUME NEW b \in Body, NEW k \in BOOLEAN, UploadBegin(b, k) PROVE Unwanted'
    BY <2>2 DEF UploadBegin, UploadTarget, Unwanted, Uploading, OnTrial, Steady, health
  <2>3. CASE UploadChunk \/ UploadLastChunk
    BY <2>1, <2>3 DEF UploadChunk, UploadLastChunk, Upload, Unwanted, Uploading, OnTrial,
       Steady, health, flash
  <2>4. CASE UploadFails \/ UploadCheck \/ UploadEnd
    BY <2>1, <2>4 DEF UploadFails, UploadCheck, UploadEnd, Upload, Unwanted, Uploading,
       OnTrial, Steady, health, flash
  <2>5. CASE UploadSelect
    <3>1. SetBootNow(up.target) /\ up.target \in Slot /\ revoked' = revoked /\ up' = NoUpload
      BY <2>1, <2>5 DEF UploadSelect, Upload
    <3>2. up.target \notin revoked /\ up.target = Other(running)
      BY <2>5 DEF UploadSelect, Unwanted, Safe
    <3>3. revoked = {}
      BY <3>2 DEF Unwanted
    <3>4. phase' = "pending" => OnTrial'
      BY <1>t, <3>1, SelectionOnTrial DEF Unwanted, SetBootNow
    <3> QED BY <3>1, <3>3, <3>4 DEF Unwanted, Uploading
  <2>6. CASE Revoke
    <3>1. up.target = Other(running)
      BY <2>6 DEF Revoke, Safe
    <3>2. up'.target = up.target /\ up'.at = up.at
      BY <2>1, <2>6 DEF Revoke, Upload
    <3>3. CASE up.at \in {"read", "check"}
      <4>1. up'.session = "revoked"
        BY <2>1, <2>6, <3>3 DEF Revoke, Upload
      <4> QED BY <2>6, <3>1, <3>2, <3>3, <4>1 DEF Revoke, Unwanted, OnTrial, Steady, health,
          flash
    <3>4. CASE up.at \notin {"read", "check"}
      <4>1. up'.session = "late" /\ revoked' = revoked
        BY <2>1, <2>6, <3>4 DEF Revoke, Upload
      <4> QED BY <2>6, <3>2, <4>1 DEF Revoke, Unwanted, Uploading, OnTrial, Steady, health,
          flash
    <3> QED BY <3>3, <3>4
  <2> QED BY <1>4, <2>2, <2>3, <2>4, <2>5, <2>6 DEF Transfer
<1>5. CASE UNCHANGED vars
  BY <1>5 DEF vars, Unwanted, OnTrial, Steady, Uploading
<1> QED BY <1>1, <1>2, <1>3, <1>4, <1>5 DEF Next

\* The image a revoked upload leaves does not run, by whatever resets, panics,
\* trials and uploads, until the owner selects or rolls back: the slot may hold
\* all of it, and still nothing but the owner's word starts it.
THEOREM RevokedUploadStaysOut == Spec => []RevokedNeverRuns
<1>1. Init => Unwanted
  BY DEF Init, HealthInit, Unwanted, Uploading
<1>2. Safe /\ Unwanted => RevokedNeverRuns
  BY DEF Safe, TypeOK, FlashTypeOK, Unwanted, RevokedNeverRuns, Other
<1>3. Safe /\ Safe' /\ Unwanted /\ [Next]_vars => Unwanted'
  BY UnwantedStep
<1> QED BY <1>1, <1>2, <1>3, SafeInvariant, PTL DEF Spec
=============================================================================
