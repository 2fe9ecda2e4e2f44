------------------------------- MODULE OtaData -------------------------------
(***************************************************************************)
(* The two app slots, otadata and the bootloader: what esp_ota_ops and the *)
(* second-stage bootloader do for otahealth.cpp and otaupload.cpp, as      *)
(* otadecide.h and otahealth.h describe it.  None of it is firmware code.  *)
(*                                                                         *)
(* otadata is two records, each a sequence number and a state.  The odd    *)
(* numbers name app0, the even ones app1, and the higher selectable record *)
(* decides what boots.  A selection rewrites the other record.             *)
(***************************************************************************)
EXTENDS Naturals

CONSTANT
  MaxSeq   \* bound: the highest sequence number a selection may write

ASSUME SeqAssumption == MaxSeq \in Nat /\ MaxSeq >= 2

VARIABLES
  otadata,   \* the two records
  image,     \* what each slot holds
  running    \* the slot this boot runs from

Slot == {0, 1}

Other(s) == 1 - s

\* A complete image, by what it does once it runs: "good" passes the health
\* check, "sick" runs but never does, "crash" panics before MinUptime.
Complete == {"good", "sick", "crash"}

\* Erased, half written or corrupt: no readable app descriptor.
Partial == "partial"

ImgState == {"undefined", "new", "pending", "valid", "invalid", "aborted"}

Record == [seq : 0..MaxSeq, state : ImgState]

\* Sequence number 0 is invalid by definition (otadecide.h:30-32).
Selectable(r) == r.seq > 0 /\ r.state \notin {"invalid", "aborted"}

SlotOf(r) == IF r.seq % 2 = 1 THEN 0 ELSE 1

\* Which record decides, or 2 if neither can.  A tie goes to the first.
Active(od) ==
  IF Selectable(od[1]) /\ (Selectable(od[0]) => od[1].seq > od[0].seq) THEN 1
  ELSE IF Selectable(od[0]) THEN 0 ELSE 2

\* esp_ota_get_boot_partition(): the first app slot if no record decides.
BootSlot(od) == IF Active(od) = 2 THEN 0 ELSE SlotOf(od[Active(od)])

\* The lowest number from q on that names s.
SeqFor(s, q) ==
  IF q % 2 = 1 - s THEN q ELSE q + 1

\* esp_ota_set_boot_partition(): "rewrites the inactive otadata sector either
\* way (same ota_seq, ota_state = NEW)", otahealth.h:82-84.
Selection(od, s) ==
  LET a == Active(od) IN
  IF a = 2
  THEN [od EXCEPT ![0] = [seq |-> 1 + s, state |-> "new"]]
  ELSE [od EXCEPT ![1 - a] = [seq |-> SeqFor(s, od[a].seq), state |-> "new"]]

\* esp_ota_mark_app_valid_cancel_rollback() and
\* esp_ota_mark_app_invalid_rollback_and_reboot() write the active record.
Marked(od, state) ==
  IF Active(od) = 2 THEN od ELSE [od EXCEPT ![Active(od)].state = state]

\* esp_ota_get_state_partition(): the first record that names the slot.
StateOf(od, s) ==
  IF od[0].seq > 0 /\ SlotOf(od[0]) = s THEN od[0].state
  ELSE IF od[1].seq > 0 /\ SlotOf(od[1]) = s THEN od[1].state
  ELSE "none"

\* esp_ota_check_rollback_is_possible(): the other record is selectable and
\* its slot holds an image.
RollbackPossible ==
  LET a == Active(otadata) IN
  /\ a # 2
  /\ Selectable(otadata[1 - a])
  /\ image[SlotOf(otadata[1 - a])] \in Complete

\* The bootloader: a trial that did not finish is aborted, a new selection
\* becomes a trial, and a slot that does not verify gives way to the other.
Aborted(od) ==
  [i \in Slot |->
     IF od[i].state = "pending" THEN [od[i] EXCEPT !.state = "aborted"] ELSE od[i]]

Tried(od) ==
  LET a == Active(od) IN
  IF a # 2 /\ od[a].state = "new" THEN [od EXCEPT ![a].state = "pending"] ELSE od

Booted(od) == Tried(Aborted(od))

Loaded(od) ==
  LET s == BootSlot(Aborted(od)) IN
  IF image[s] \in Complete THEN s ELSE Other(s)

FlashTypeOK ==
  /\ otadata \in [Slot -> Record]
  /\ image \in [Slot -> Complete \cup {Partial}]
  /\ running \in Slot

\* A USB flash writes app0 and boot_app0.bin; the other slot holds whatever was
\* flashed there, or nothing.
FlashInit ==
  /\ otadata = [i \in Slot |-> [seq |-> IF i = 0 THEN 1 ELSE 0, state |-> "undefined"]]
  /\ \E old \in {"good", Partial} : image = [s \in Slot |-> IF s = 0 THEN "good" ELSE old]
  /\ running = 0
=============================================================================
