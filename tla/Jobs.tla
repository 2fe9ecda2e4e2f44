-------------------------------- MODULE Jobs --------------------------------
(***************************************************************************)
(* The long jobs that report progress - storage's verify, an OTA upload,   *)
(* the health check of a new image - with the display that shows it.       *)
(* The upload runs on the server task and takes no lock the others hold;   *)
(* the health check runs on the loop task outside the registry lock, which *)
(* the server task may hold for a storage command; the ticks and the       *)
(* commands hold it, so nothing but the upload comes between the calls of  *)
(* a display tick.                                                         *)
(***************************************************************************)
EXTENDS Storage

VARIABLES
  upload,   \* OtaUpload::run() as a producer: its stage, actOwned_, its outcome
  health    \* OtaHealth as a producer: its stage, actOwned_, its outcome

vars == <<activity, storage, upload, health>>

Over == [at |-> "over", owned |-> FALSE, ok |-> FALSE]

Reporter == [at : {"begun", "runs", "ending", "over"}, owned : BOOLEAN, ok : BOOLEAN]

\* The health check of a trial begins in setup(), after the display was
\* restored and before anything else here runs.
Init ==
  /\ StorageInit
  /\ fresh = FALSE /\ lingering = FALSE /\ tick = "idle"
  /\ subscribed \in BOOLEAN
  /\ upload = Over
  /\ \/ health = Over /\ slot = IdleSlot
     \/ /\ health = [at |-> "runs", owned |-> subscribed, ok |-> FALSE]
        /\ slot = IF subscribed THEN [state |-> "running", who |-> "health"] ELSE IdleSlot

-----------------------------------------------------------------------------
(* The upload: actBegin() is two calls, and so is actEnd().  esp_ota_begin()*)
(* refuses while the running image is on trial.                             *)

UploadBegins ==
  /\ upload.at = "over"
  /\ health.at # "runs"
  /\ Begin("upload")
  /\ upload' = [at |-> "begun", owned |-> FALSE, ok |-> FALSE]
  /\ UNCHANGED <<storage, health>>

UploadOwns ==
  /\ upload.at = "begun"
  /\ upload' = [upload EXCEPT !.at = "runs", !.owned = subscribed]
  /\ UNCHANGED <<activity, storage, health>>

\* A chunk; the transfer loop does not ask stillOurs().
UploadProgress ==
  /\ upload.at = "runs"
  /\ Progress
  /\ UNCHANGED <<storage, upload, health>>

\* actEnd() up to stillOurs(), and then.
UploadStops ==
  /\ upload.at = "runs"
  /\ \E ok \in BOOLEAN :
       upload' = IF StillOurs(upload.owned, "upload")
                 THEN [at |-> "ending", owned |-> TRUE, ok |-> ok] ELSE Over
  /\ UNCHANGED <<activity, storage, health>>

UploadEnds ==
  /\ upload.at = "ending"
  /\ End(upload.ok)
  /\ upload' = Over
  /\ UNCHANGED <<storage, health>>

-----------------------------------------------------------------------------
(* The health check's reports: a tick that waits, and actEnd().             *)

HealthWaits ==
  /\ tick = "idle" /\ health.at = "runs"
  /\ StillOurs(health.owned, "health")
  /\ Progress
  /\ UNCHANGED <<storage, upload, health>>

HealthStops ==
  /\ tick = "idle" /\ health.at = "runs"
  /\ \E ok \in BOOLEAN :
       health' = IF StillOurs(health.owned, "health")
                 THEN [at |-> "ending", owned |-> TRUE, ok |-> ok] ELSE Over
  /\ UNCHANGED <<activity, storage, upload>>

HealthEnds ==
  /\ tick = "idle" /\ health.at = "ending"
  /\ End(health.ok)
  /\ health' = Over
  /\ UNCHANGED <<storage, upload>>

-----------------------------------------------------------------------------
Display ==
  /\ DisplayEnable \/ DisplayDisable \/ DisplayTick
  /\ UNCHANGED <<storage, upload, health>>

Next ==
  \/ tick = "idle" /\ StorageStep /\ UNCHANGED <<upload, health>>
  \/ UploadBegins \/ UploadOwns \/ UploadProgress \/ UploadStops \/ UploadEnds
  \/ HealthWaits \/ HealthStops \/ HealthEnds
  \/ Display

\* The scheduler runs both modules' ticks while they are enabled, one after the
\* other: the storage tick has its turn however often the display's has work.
Fairness ==
  /\ SF_vars(tick = "idle" /\ StorageTick /\ UNCHANGED <<upload, health>>)
  /\ WF_vars(DisplayTick /\ UNCHANGED <<storage, upload, health>>)

Spec == Init /\ [][Next]_vars

FairSpec == Spec /\ Fairness

-----------------------------------------------------------------------------
(* Properties.                                                              *)

TypeOK ==
  /\ ActivityTypeOK
  /\ StorageTypeOK
  /\ upload \in Reporter
  /\ health \in Reporter

\* The one file kept open across commands is open exactly while a job runs,
\* and no volume is unmounted or formatted under it, whoever disables, formats
\* or cancels in the middle: FatFs would lose the descriptor for good.
NoHandleLost ==
  /\ ~lost
  /\ verify.open <=> verify.active
  /\ verify.active => on /\ mounted[verify.vol]

\* A job that answers ok for a file nobody changed meanwhile answers for all
\* of it and nothing else, whatever ran or was cancelled before.
VerifyTruthful ==
  verify.result = "ok" /\ ~verify.touched => verify.crc = verify.original

\* No file holds a byte nobody wrote: however two clients' writes, truncations
\* and deletions mix, a write never leaves a gap, so an upload resumed by
\* offset can be checked with a single CRC.
NoHole == \A v \in Volume : \A i \in 1..Len(file[v].data) : file[v].data[i] # Hole

\* A footer that says a job is running names a job that is: no order of begins,
\* ends, replacements and display restarts leaves it animating for nothing.
RunningIsReal ==
  Running =>
    /\ slot.who = "storage" => verify.active
    /\ slot.who = "upload" => upload.at # "over"
    /\ slot.who = "health" => health.at # "over"

\* Every accepted verify is answered, though its file is changed or deleted,
\* its card fails or its module is disabled meanwhile.
VerifyAnswered == verify.active ~> verify.result # "none"

\* A finished job does not stay on the glass, however begins, ends and
\* replacements fall between the calls of a display tick, while the display has
\* yet to act on the record.  (A job that begins after the tick's look and ends
\* after its clear(), or does both while the display is enabled, is taken as
\* seen by the seq() that follows: its footer stays until the next job.)
FooterFades == (Finished /\ Unsettled) ~> ~Finished

=============================================================================
