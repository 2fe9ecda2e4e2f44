------------------------------ MODULE OtaUpload ------------------------------
(***************************************************************************)
(* OtaUpload::run() (firmware/src/otaupload.cpp) on the server task, with  *)
(* the reader and the authorisation check of mod_http.cpp's handleOta().   *)
(* Between two of its steps the loop task may tick, take a command, revoke *)
(* the session or restart the chip.                                        *)
(*                                                                         *)
(* A transfer's bytes are counted in chunks; every way of ending one       *)
(* early (deadlines, a short body, a closed socket, a failed write, the    *)
(* transport stopping) is one failure, for they all take the same exit.    *)
(* What the last chunk completes stays in the slot whatever comes after it:*)
(* esp_ota_end() only looks at it, and esp_ota_abort() frees the handle.   *)
(***************************************************************************)
EXTENDS OtaHealth

CONSTANTS
  Chunks,   \* chunks in an image
  Body      \* what an upload may carry: complete images, Partial for anything
            \* esp_ota_end() would reject

ASSUME UploadAssumption ==
  Chunks \in Nat \ {0} /\ Body \subseteq Complete \cup {Partial}

VARIABLES
  up,       \* run()'s locals: its stage, target slot, body, request, chunks left
  revoked   \* history: the slots of revoked uploads nobody has asked for since

\* Is the session live, and if not, was it revoked before run()'s last look?
Session == {"live", "revoked", "late"}

Upload ==
  [at : {"read", "check", "end", "select"}, target : Slot, body : Complete \cup {Partial},
   select : BOOLEAN, left : 0..Chunks, session : Session]

NoUpload == [at |-> "idle"]

Uploading == up # NoUpload

\* Mutant of UploadTarget: the slot otadata does not name, not the one that
\* does not run.
UploadTargetUnselected == Other(BootSlot(otadata))

\* esp_ota_get_next_update_partition(NULL)
UploadTarget == Other(running)

\* run() up to the loop: one upload at a time; esp_ota_begin() refuses while
\* the running image is on trial, and otherwise erases the target.
UploadBegin(body, select) ==
  /\ ~Uploading
  /\ StateOf(otadata, running) # "pending"
  /\ image' = [image EXCEPT ![UploadTarget] = Partial]
  /\ up' = [at |-> "read", target |-> UploadTarget, body |-> body, select |-> select,
            left |-> Chunks, session |-> "live"]
  /\ revoked' = revoked \ {UploadTarget}
  /\ UNCHANGED <<otadata, running, health>>

\* One chunk read and written, the session looked at first ...
UploadChunk ==
  /\ Uploading /\ up.at = "read"
  /\ up.session = "live"
  /\ up.left > 1
  /\ up' = [up EXCEPT !.left = up.left - 1]
  /\ UNCHANGED <<flash, health, revoked>>

\* ... and the last one: the slot now holds all that was sent.
UploadLastChunk ==
  /\ Uploading /\ up.at = "read"
  /\ up.session = "live"
  /\ up.left = 1
  /\ up' = [up EXCEPT !.left = 0, !.at = "check"]
  /\ image' = [image EXCEPT ![up.target] = up.body]
  /\ UNCHANGED <<otadata, running, health, revoked>>

\* esp_ota_abort() and the common exit: the slot stays as it is, whole if the
\* last chunk was written.
UploadFails ==
  /\ Uploading
  /\ up.at \in {"read", "check", "end", "select"}
  /\ up' = NoUpload
  /\ UNCHANGED <<flash, health, revoked>>

\* Mutant of UploadCheck: the reader's checks are thought enough.
UploadCheckDigest ==
  /\ Uploading /\ up.at = "check"
  /\ up' = [up EXCEPT !.at = "end"]
  /\ UNCHANGED <<flash, health, revoked>>

\* The digest agrees and the transport still authorises the upload.
UploadCheck ==
  /\ Uploading /\ up.at = "check"
  /\ up.session = "live"
  /\ up' = [up EXCEPT !.at = "end"]
  /\ UNCHANGED <<flash, health, revoked>>

\* esp_ota_end() accepts the image.
UploadEnd ==
  /\ Uploading /\ up.at = "end"
  /\ up.body \in Complete
  /\ up' = IF up.select THEN [up EXCEPT !.at = "select"] ELSE NoUpload
  /\ UNCHANGED <<flash, health, revoked>>

\* setBootNow(target), and the exit.
UploadSelect ==
  /\ Uploading /\ up.at = "select"
  /\ SetBootNow(up.target)
  /\ up' = NoUpload
  /\ UNCHANGED revoked

\* otadata rests on the running image: the record that decides names it, and not
\* as a trial.
Steady ==
  LET a == Active(otadata) IN
  a # 2 /\ SlotOf(otadata[a]) = running /\ otadata[a].state \notin {"new", "pending"}

\* Any of the four ways a session ends, from either task.
Revoke ==
  /\ Uploading
  /\ up.session = "live"
  /\ LET early == up.at \in {"read", "check"} IN
     /\ up' = [up EXCEPT !.session = IF early THEN "revoked" ELSE "late"]
     /\ revoked' = IF early /\ Steady THEN revoked \cup {up.target} ELSE revoked
  /\ UNCHANGED <<flash, health>>

Transfer ==
  \/ \E b \in Body, s \in BOOLEAN : UploadBegin(b, s)
  \/ UploadChunk \/ UploadLastChunk \/ UploadFails
  \/ UploadCheck \/ UploadEnd \/ UploadSelect
  \/ Revoke
=============================================================================
