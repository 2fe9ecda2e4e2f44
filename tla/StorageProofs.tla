--------------------------- MODULE StorageProofs ---------------------------
(***************************************************************************)
(* What holds of the storage module for every tree, name, size and limit:  *)
(* of Jobs, for every cell alphabet and every file length, and of FileOps, *)
(* for every card, every depth, entry and byte budget, and every way a     *)
(* delete may fail; of Paths, for every length and every choice of the     *)
(* bytes a path may hold.                                                  *)
(***************************************************************************)
EXTENDS Jobs, FileOps, Paths, Recursion, SequenceTheorems, FiniteSetTheorems, TLAPS

\* What a write leaves is a file.
LEMMA OverwrittenType ==
  ASSUME NEW S, NEW d \in Seq(S), NEW i \in Nat, NEW c \in S, Hole \in S
  PROVE  Overwritten(d, i, c) \in Seq(S)
<1>1. \A k \in 1..Len(d) : d[k] \in S
  BY ElementOfSeq
<1>2. Len(d) \in Nat
  BY LenProperties
<1> QED BY <1>1, <1>2 DEF Overwritten

\* A contiguous write to a file without holes leaves none.
LEMMA OverwrittenWhole ==
  ASSUME NEW S, NEW d \in Seq(S), NEW i \in 0..Len(d), NEW c \in S, c # Hole,
         \A k \in 1..Len(d) : d[k] # Hole
  PROVE  \A k \in 1..Len(Overwritten(d, i, c)) : Overwritten(d, i, c)[k] # Hole
<1>1. Len(d) \in Nat
  BY LenProperties
<1> DEFINE n == IF i < Len(d) THEN Len(d) ELSE i + 1
<1>2. n \in Nat
  BY <1>1
<1>3. Len(Overwritten(d, i, c)) = n
  BY <1>2 DEF Overwritten
<1>4. ASSUME NEW k \in 1..n PROVE Overwritten(d, i, c)[k] # Hole
  <2>1. k = i + 1 \/ k \in 1..Len(d)
    BY <1>1
  <2> QED BY <2>1 DEF Overwritten
<1> QED BY <1>3, <1>4

LEMMA EmptyData == <<>> \in Data /\ Len(<<>>) = 0
BY EmptySeq DEF Data

-----------------------------------------------------------------------------
(* Types.                                                                   *)

\* What the display and the producers do to the record keeps its type.
LEMMA RecordType ==
  ASSUME ActivityTypeOK,
         \/ \E p \in Producer : Begin(p)
         \/ \E ok \in BOOLEAN : End(ok)
         \/ Progress
         \/ DisplayEnable \/ DisplayDisable \/ DisplayTick
         \/ UNCHANGED activity
  PROVE  ActivityTypeOK'
<1> USE DEF ActivityTypeOK, activity, IdleSlot, Producer
<1>1. CASE \E p \in Producer : Begin(p)
  <2>1. PICK p \in Producer : Begin(p)
    BY <1>1
  <2>2. CASE subscribed
    BY <2>1, <2>2 DEF Begin
  <2>3. CASE ~subscribed
    BY <2>1, <2>3 DEF Begin
  <2> QED BY <2>2, <2>3
<1>2. CASE \E ok \in BOOLEAN : End(ok)
  <2>1. PICK ok \in BOOLEAN : End(ok)
    BY <1>2
  <2>2. CASE subscribed /\ Running
    <3>1. slot \in [state : {"running", "ok", "failed"}, who : Producer]
      BY <2>2 DEF Running
    <3>2. (IF ok THEN "ok" ELSE "failed") \in {"running", "ok", "failed"}
      OBVIOUS
    <3>3. slot' = [slot EXCEPT !.state = IF ok THEN "ok" ELSE "failed"] /\ fresh' = TRUE
      BY <2>1, <2>2 DEF End
    <3> QED BY <2>1, <3>1, <3>2, <3>3 DEF End
  <2>3. CASE ~(subscribed /\ Running)
    BY <2>1, <2>3 DEF End
  <2> QED BY <2>2, <2>3
<1>3. CASE Progress
  BY <1>3 DEF Progress
<1>4. CASE DisplayEnable \/ DisplayDisable
  BY <1>4 DEF DisplayEnable, DisplayDisable
<1>5. CASE DisplayTick
  <2>1. Finished \in BOOLEAN
    BY SMT DEF Finished
  <2>2. CASE DisplaySees
    BY <2>1, <2>2 DEF DisplaySees
  <2>3. CASE DisplayClears
    BY <2>3 DEF DisplayClears
  <2>4. CASE DisplayLooks \/ DisplayDue \/ DisplayResumes
    BY <2>4 DEF DisplayLooks, DisplayDue, DisplayResumes
  <2> QED BY <1>5, <2>2, <2>3, <2>4 DEF DisplayTick
<1>6. CASE UNCHANGED activity
  BY <1>6
<1> QED BY <1>1, <1>2, <1>3, <1>4, <1>5, <1>6

\* finishVerify(), in the fields the invariants speak of.
LEMMA FinishType ==
  ASSUME TypeOK, NEW r \in {"ok", "EIO", "ECANCELLED"}, Finish(r)
  PROVE  verify' \in Job /\ ActivityTypeOK'
<1>1. verify' \in Job
  BY EmptyData DEF Finish, TypeOK, StorageTypeOK, Job
<1>2. (r = "ok") \in BOOLEAN
  OBVIOUS
<1> QED BY <1>1, <1>2, RecordType DEF Finish, TypeOK

\* Whatever changes the storage module's state keeps its type.
LEMMA StorageType ==
  ASSUME TypeOK, StorageStep
  PROVE  StorageTypeOK' /\ ActivityTypeOK'
<1> USE DEF TypeOK, StorageTypeOK
<1>1. CASE \E v \in Volume : StartVerify(v)
  <2>1. PICK v \in Volume : StartVerify(v)
    BY <1>1
  <2>2. verify' \in Job
    BY <2>1, EmptyData DEF StartVerify, Job
  <2> QED BY <2>1, <2>2, RecordType DEF StartVerify, Producer
<1>2. CASE \E v \in Volume : Delete(v)
  <2>1. PICK v \in Volume : Delete(v)
    BY <1>2
  <2>2. file' \in [Volume -> [exists : BOOLEAN, data : Data]]
    BY <2>1, EmptyData DEF Delete, NoFile
  <2> QED BY <2>1, <2>2, RecordType DEF Delete, Touched, Job
<1>3. CASE CancelVerify \/ PumpEnds \/ PumpFails
  BY <1>3, FinishType DEF CancelVerify, PumpEnds, PumpFails
<1>4. CASE PumpReads
  <2>1. PICK c \in NextCells :
          verify' = [verify EXCEPT !.bytes = verify.bytes + 1, !.crc = Append(verify.crc, c)]
    BY <1>4 DEF PumpReads
  <2>2. c \in Cell \cup {Hole}
    <3>1. file[verify.vol].data \in Seq(Cell \cup {Hole}) /\ verify.bytes \in Nat
      BY DEF Job, Data
    <3>2. CASE verify.touched
      BY <3>2 DEF NextCells
    <3>3. CASE ~verify.touched
      BY <3>1, <3>3, LenProperties, ElementOfSeq DEF NextCells
    <3> QED BY <3>2, <3>3
  <2>3. Append(verify.crc, c) \in Data
    BY <2>2, AppendProperties DEF Job, Data
  <2>4. verify' \in Job
    <3>1. verify.bytes + 1 \in Nat
      BY DEF Job
    <3> QED BY <2>1, <2>3, <3>1 DEF Job
  <2> QED BY <1>4, <2>4, RecordType DEF PumpReads
<1>5. CASE StorageEnable
  <2>1. PICK card \in BOOLEAN, other \in BOOLEAN :
          /\ mounted' = [mounted EXCEPT !["sd"] = card]
          /\ on' = (card \/ mounted["fs"])
          /\ file' = IF card /\ other THEN [file EXCEPT !["sd"] = NoFile] ELSE file
    BY <1>5 DEF StorageEnable
  <2>2. mounted["fs"] \in BOOLEAN
    BY DEF Volume
  <2>3. on' \in BOOLEAN
    BY <2>1, <2>2, Zenon
  <2>4. file' \in [Volume -> [exists : BOOLEAN, data : Data]]
    BY <2>1, EmptyData DEF NoFile
  <2> QED BY <1>5, <2>1, <2>3, <2>4, RecordType DEF StorageEnable
<1>6. CASE StorageDisable
  <2>1. verify' \in Job /\ ActivityTypeOK'
    BY <1>6, FinishType, RecordType DEF StorageDisable
  <2> QED BY <1>6, <2>1 DEF StorageDisable, Job
<1>7. CASE \E v \in Volume, i \in 0..MaxLen-1, c \in Cell, t \in BOOLEAN : Write(v, i, c, t)
  <2>1. PICK v \in Volume, i \in 0..MaxLen-1, c \in Cell, t \in BOOLEAN : Write(v, i, c, t)
    BY <1>7
  <2> DEFINE base == IF t THEN <<>> ELSE file[v].data
  <2>2. base \in Seq(Cell \cup {Hole})
    BY EmptySeq DEF Data
  <2>3. Overwritten(base, i, c) \in Seq(Cell \cup {Hole})
    <3> HIDE DEF base
    <3> QED BY <2>2, StorageAssumption, OverwrittenType
  <2>4. file' \in [Volume -> [exists : BOOLEAN, data : Data]]
    <3>1. \E data \in {base, Overwritten(base, i, c)} :
            file' = [file EXCEPT ![v] = [exists |-> TRUE, data |-> data]]
      BY <2>1 DEF Write
    <3> HIDE DEF base
    <3> QED BY <2>2, <2>3, <3>1 DEF Data
  <2> QED BY <2>1, <2>4, RecordType DEF Write, Touched, Job
<1>8. CASE Format
  <2>1. PICK remounted \in BOOLEAN, data \in {NoFile, file["fs"]} :
          /\ mounted' = [mounted EXCEPT !["fs"] = remounted]
          /\ file' = [file EXCEPT !["fs"] = data]
    BY <1>8 DEF Format
  <2>2. data \in [exists : BOOLEAN, data : Data]
    <3>1. NoFile \in [exists : BOOLEAN, data : Data]
      BY EmptyData DEF NoFile
    <3>2. file["fs"] \in [exists : BOOLEAN, data : Data]
      BY DEF Volume
    <3> QED BY <3>1, <3>2
  <2> QED BY <1>8, <2>1, <2>2, RecordType DEF Format, Job
<1> QED BY <1>1, <1>2, <1>3, <1>4, <1>5, <1>6, <1>7, <1>8 DEF StorageStep, StorageTick

\* The three producers' own steps.
LEMMA ReporterType ==
  ASSUME TypeOK,
         \/ UploadBegins \/ UploadOwns \/ UploadProgress \/ UploadStops \/ UploadEnds
         \/ HealthWaits \/ HealthStops \/ HealthEnds
         \/ Display
  PROVE  TypeOK'
<1> USE DEF TypeOK, StorageTypeOK, storage
<1>1. ActivityTypeOK'
  BY RecordType DEF UploadBegins, UploadOwns, UploadProgress, UploadStops, UploadEnds,
     HealthWaits, HealthStops, HealthEnds, Display, Producer, Reporter
<1>2. upload' \in Reporter
  <2>1. CASE UploadBegins
    BY <2>1 DEF UploadBegins, Reporter, Over, ActivityTypeOK
  <2>2. CASE UploadOwns
    BY <2>2 DEF UploadOwns, Reporter, Over, ActivityTypeOK
  <2>3. CASE UploadStops
    <3>1. PICK ok \in BOOLEAN :
            upload' = IF StillOurs(upload.owned, "upload")
                      THEN [at |-> "ending", owned |-> TRUE, ok |-> ok] ELSE Over
      BY <2>3 DEF UploadStops
    <3> QED BY <3>1 DEF Reporter, Over
  <2>4. CASE UploadEnds
    BY <2>4 DEF UploadEnds, Reporter, Over, ActivityTypeOK
  <2>5. CASE UNCHANGED upload
    BY <2>5
  <2> QED BY <2>1, <2>2, <2>3, <2>4, <2>5 DEF UploadProgress, HealthWaits, HealthStops, HealthEnds, Display
<1>3. health' \in Reporter
  <2>1. CASE HealthStops
    <3>1. PICK ok \in BOOLEAN :
            health' = IF StillOurs(health.owned, "health")
                      THEN [at |-> "ending", owned |-> TRUE, ok |-> ok] ELSE Over
      BY <2>1 DEF HealthStops
    <3> QED BY <3>1 DEF Reporter, Over
  <2>2. CASE HealthEnds
    BY <2>2 DEF HealthEnds, Reporter, Over, ActivityTypeOK
  <2>3. CASE UNCHANGED health
    BY <2>3
  <2> QED BY <2>1, <2>2, <2>3 DEF UploadBegins, UploadOwns, UploadProgress, UploadStops, UploadEnds, HealthWaits, Display
<1>4. StorageTypeOK'
  BY DEF UploadBegins, UploadOwns, UploadProgress, UploadStops, UploadEnds, HealthWaits,
     HealthStops, HealthEnds, Display
<1> QED BY <1>1, <1>2, <1>3, <1>4

LEMMA InitType == Init => TypeOK
<1> SUFFICES ASSUME Init PROVE TypeOK
  OBVIOUS
<1> USE DEF Init, StorageInit
<1>1. ActivityTypeOK
  <2>1. slot \in {IdleSlot, [state |-> "running", who |-> "health"]}
    OBVIOUS
  <2>2. [state |-> "running", who |-> "health"] \in
          [state : {"running", "ok", "failed"}, who : Producer]
    BY DEF Producer
  <2> QED BY <2>1, <2>2 DEF ActivityTypeOK
<1>2. file \in [Volume -> [exists : BOOLEAN, data : Data]] /\ verify \in Job
  BY EmptyData DEF NoFile, NoJob, Job, Volume
<1>3. mounted \in [Volume -> BOOLEAN]
  <2>1. PICK fs \in BOOLEAN : mounted = [v \in Volume |-> v = "fs" /\ fs]
    OBVIOUS
  <2>2. \A v \in Volume : (v = "fs" /\ fs) \in BOOLEAN
    OBVIOUS
  <2> QED BY <2>1, <2>2, Zenon
<1>4. upload \in Reporter /\ health \in Reporter
  <2>1. Over \in Reporter
    BY DEF Over, Reporter
  <2>2. [at |-> "runs", owned |-> subscribed, ok |-> FALSE] \in Reporter
    BY DEF Reporter
  <2> QED BY <2>1, <2>2
<1> QED BY <1>1, <1>2, <1>3, <1>4 DEF TypeOK, StorageTypeOK

LEMMA NextType == TypeOK /\ [Next]_vars => TypeOK'
<1> SUFFICES ASSUME TypeOK, [Next]_vars PROVE TypeOK'
  OBVIOUS
<1>1. CASE StorageStep /\ UNCHANGED <<upload, health>>
  BY <1>1, StorageType DEF TypeOK
<1>2. CASE UNCHANGED vars
  BY <1>2 DEF vars, activity, storage, TypeOK, ActivityTypeOK, StorageTypeOK
<1> QED BY <1>1, <1>2, ReporterType DEF Next

\* The jobs, the volumes and the activity record keep their types.
THEOREM TypeCorrect == Spec => []TypeOK
BY InitType, NextType, PTL DEF Spec

-----------------------------------------------------------------------------
(* The open file.                                                           *)

\* What the producers' and the display's own steps leave alone.
LEMMA StorageUntouched ==
  ASSUME TypeOK, [Next]_vars, ~StorageStep
  PROVE  UNCHANGED storage
BY DEF Next, vars, UploadBegins, UploadOwns, UploadProgress, UploadStops, UploadEnds,
   HealthWaits, HealthStops, HealthEnds, Display

\* A finished job is closed and inactive, and answered.
LEMMA FinishCloses ==
  ASSUME TypeOK, NEW r, Finish(r)
  PROVE  ~verify'.active /\ ~verify'.open /\ verify'.result = r
BY DEF Finish, TypeOK, StorageTypeOK, Job

LEMMA HandleStep ==
  ASSUME TypeOK, NoHandleLost, [Next]_vars
  PROVE  NoHandleLost'
<1> USE DEF NoHandleLost, TypeOK, StorageTypeOK
<1>1. CASE \E v \in Volume : StartVerify(v)
  BY <1>1 DEF StartVerify
<1>2. CASE \E v \in Volume : Delete(v)
  BY <1>2 DEF Delete, Touched, Job
<1>3. CASE CancelVerify \/ PumpEnds \/ PumpFails
  BY <1>3, FinishCloses DEF CancelVerify, PumpEnds, PumpFails
<1>4. CASE PumpReads
  BY <1>4 DEF PumpReads, Job
<1>5. CASE StorageEnable
  BY <1>5 DEF StorageEnable
<1>6. CASE StorageDisable
  <2>1. ~verify'.active /\ ~verify'.open
    BY <1>6, FinishCloses DEF StorageDisable
  <2> QED BY <1>6, <2>1 DEF StorageDisable
<1>7. CASE \E v \in Volume, i \in 0..MaxLen-1, c \in Cell, t \in BOOLEAN : Write(v, i, c, t)
  BY <1>7 DEF Write, Touched, Job
<1>8. CASE Format
  BY <1>8 DEF Format
<1>9. CASE ~StorageStep
  BY <1>9, StorageUntouched DEF storage
<1> QED
  BY <1>1, <1>2, <1>3, <1>4, <1>5, <1>6, <1>7, <1>8, <1>9 DEF StorageStep, StorageTick

\* The verify job's file is open exactly while it runs, on a mounted volume.
THEOREM HandleNeverLost == Spec => []NoHandleLost
<1>1. Init => NoHandleLost
  BY DEF Init, StorageInit, NoJob, NoHandleLost
<1> QED BY <1>1, HandleStep, TypeCorrect, PTL DEF Spec

-----------------------------------------------------------------------------
(* What verify answers.                                                     *)

\* A job that runs has not answered, and until its file is changed its CRC is
\* of a prefix of what that held.
Prefix ==
  /\ verify.active => verify.result = "none"
  /\ verify.active /\ ~verify.touched =>
       /\ file[verify.vol].data = verify.original
       /\ verify.bytes = Len(verify.crc)
       /\ verify.bytes <= Len(verify.original)
       /\ \A i \in 1..verify.bytes : verify.crc[i] = verify.original[i]

\* A command on a file touches the job that reads it.
LEMMA TouchKeeps ==
  ASSUME TypeOK, Prefix, VerifyTruthful, NEW v \in Volume, verify' = Touched(v),
         \A w \in Volume : w # v => file'[w] = file[w]
  PROVE  Prefix' /\ VerifyTruthful'
<1> USE DEF TypeOK, StorageTypeOK, Prefix, VerifyTruthful
<1>1. CASE verify.active /\ verify.vol = v
  BY <1>1 DEF Touched, Job
<1>2. CASE ~(verify.active /\ verify.vol = v)
  BY <1>2 DEF Touched, Job
<1> QED BY <1>1, <1>2

\* A job that did not get to the end does not answer ok.
LEMMA NotOk ==
  ASSUME TypeOK, NEW r \in {"EIO", "ECANCELLED"}, Finish(r)
  PROVE  Prefix' /\ VerifyTruthful'
BY FinishCloses DEF Prefix, VerifyTruthful

LEMMA TruthStep ==
  ASSUME TypeOK, TypeOK', NoHandleLost, Prefix, VerifyTruthful, [Next]_vars
  PROVE  Prefix' /\ VerifyTruthful'
<1> USE DEF TypeOK, StorageTypeOK
<1>1. CASE \E v \in Volume : StartVerify(v)
  BY <1>1, EmptyData DEF StartVerify, Prefix, VerifyTruthful, Job, Data
<1>2. CASE \E v \in Volume : Delete(v)
  BY <1>2, TouchKeeps DEF Delete
<1>3. CASE CancelVerify \/ PumpFails
  BY <1>3, NotOk DEF CancelVerify, PumpFails
<1>4. CASE PumpEnds
  <2>1. Prefix'
    BY <1>4, FinishCloses DEF PumpEnds, Prefix
  <2>2. CASE verify.touched
    <3>1. verify'.touched
      BY <1>4, <2>2 DEF PumpEnds, Finish, Job
    <3> QED BY <2>1, <3>1 DEF VerifyTruthful
  <2>3. CASE ~verify.touched
    <3>1. verify.crc \in Seq(Cell \cup {Hole}) /\ verify.original \in Seq(Cell \cup {Hole})
      BY DEF Job, Data
    <3>2. verify.bytes = Len(verify.original)
      <4>1. ~(verify.bytes < Len(file[verify.vol].data))
        BY <1>4, <2>3 DEF PumpEnds, NextCells
      <4>2. verify.bytes \in Nat /\ Len(verify.original) \in Nat
        BY <3>1, LenProperties DEF Job
      <4> QED BY <1>4, <2>3, <4>1, <4>2 DEF PumpEnds, Prefix
    <3>3. verify.crc = verify.original
      BY <1>4, <2>3, <3>1, <3>2, SeqEqual DEF PumpEnds, Prefix
    <3>4. verify'.crc = verify.crc /\ verify'.original = verify.original
      BY <1>4, <2>3 DEF PumpEnds, Finish, Job
    <3> QED BY <2>1, <3>3, <3>4 DEF VerifyTruthful
  <2> QED BY <2>2, <2>3
<1>5. CASE PumpReads
  <2>1. PICK c \in NextCells :
          verify' = [verify EXCEPT !.bytes = verify.bytes + 1, !.crc = Append(verify.crc, c)]
    BY <1>5 DEF PumpReads
  <2>2. /\ verify'.bytes = verify.bytes + 1 /\ verify'.crc = Append(verify.crc, c)
        /\ verify'.original = verify.original /\ verify'.touched = verify.touched
        /\ verify'.vol = verify.vol /\ verify'.result = verify.result
        /\ verify'.active = verify.active /\ verify.active /\ file' = file
    BY <1>5, <2>1 DEF PumpReads, Job
  <2>3. CASE verify.touched
    BY <2>2, <2>3 DEF Prefix, VerifyTruthful
  <2>4. CASE ~verify.touched
    <3>1. /\ verify.bytes < Len(verify.original)
          /\ c = verify.original[verify.bytes + 1]
      BY <2>2, <2>4 DEF NextCells, Prefix
    <3>2. verify.crc \in Seq(Cell \cup {Hole}) /\ verify.original \in Seq(Cell \cup {Hole})
      BY DEF Job, Data
    <3>3. verify.bytes \in Nat /\ Len(verify.original) \in Nat
      BY <3>2, LenProperties DEF Job
    <3>4. c \in Cell \cup {Hole}
      BY <3>1, <3>2, <3>3, ElementOfSeq
    <3>5. /\ Len(Append(verify.crc, c)) = verify.bytes + 1
          /\ \A i \in 1..verify.bytes : Append(verify.crc, c)[i] = verify.crc[i]
          /\ Append(verify.crc, c)[verify.bytes + 1] = c
      BY <2>2, <2>4, <3>2, <3>4, AppendProperties DEF Prefix
    <3>6. \A i \in 1..(verify.bytes + 1) : Append(verify.crc, c)[i] = verify.original[i]
      BY <2>2, <2>4, <3>1, <3>3, <3>5 DEF Prefix
    <3>7. Prefix'
      BY <2>2, <2>4, <3>1, <3>3, <3>5, <3>6 DEF Prefix
    <3>8. VerifyTruthful'
      BY <2>2 DEF Prefix, VerifyTruthful
    <3> QED BY <3>7, <3>8
  <2> QED BY <2>3, <2>4
<1>6. CASE StorageEnable
  BY <1>6 DEF StorageEnable, NoHandleLost, Prefix, VerifyTruthful
<1>7. CASE StorageDisable
  <2>1. CASE verify.active
    BY <1>7, <2>1, NotOk DEF StorageDisable
  <2>2. CASE ~verify.active
    BY <1>7, <2>2 DEF StorageDisable, Prefix, VerifyTruthful
  <2> QED BY <2>1, <2>2
<1>8. CASE \E v \in Volume, i \in 0..MaxLen-1, c \in Cell, t \in BOOLEAN : Write(v, i, c, t)
  <2>1. PICK v \in Volume, i \in 0..MaxLen-1, c \in Cell, t \in BOOLEAN : Write(v, i, c, t)
    BY <1>8
  <2>2. verify' = Touched(v) /\ \A w \in Volume : w # v => file'[w] = file[w]
    BY <2>1 DEF Write
  <2> QED BY <2>2, TouchKeeps
<1>9. CASE Format
  BY <1>9 DEF Format, Prefix, VerifyTruthful
<1>10. CASE ~StorageStep
  BY <1>10, StorageUntouched DEF storage, Prefix, VerifyTruthful
<1> QED
  BY <1>1, <1>2, <1>3, <1>4, <1>5, <1>6, <1>7, <1>8, <1>9, <1>10 DEF StorageStep, StorageTick

\* A verify that answers ok hashed all of the file it was asked for.
THEOREM VerifyTellsTruth == Spec => []VerifyTruthful
<1>1. Init => Prefix /\ VerifyTruthful
  BY DEF Init, StorageInit, NoJob, Prefix, VerifyTruthful
<1>2. TypeOK /\ NoHandleLost /\ Prefix /\ VerifyTruthful /\ [Next]_vars
        => Prefix' /\ VerifyTruthful'
  BY TruthStep, NextType
<1> QED BY <1>1, <1>2, TypeCorrect, HandleNeverLost, PTL DEF Spec

-----------------------------------------------------------------------------
(* Files without holes.                                                     *)

LEMMA HoleStep ==
  ASSUME TypeOK, NoHole, [Next]_vars
  PROVE  NoHole'
<1> USE DEF TypeOK, StorageTypeOK
<1>1. CASE \E v \in Volume : Delete(v)
  BY <1>1, EmptyData DEF Delete, NoFile, NoHole
<1>2. CASE StorageEnable
  BY <1>2, EmptyData DEF StorageEnable, NoFile, NoHole, Volume
<1>3. CASE Format
  <2>1. PICK data \in {NoFile, file["fs"]} : file' = [file EXCEPT !["fs"] = data]
    BY <1>3 DEF Format
  <2>2. \A i \in 1..Len(data.data) : data.data[i] # Hole
    BY EmptyData DEF NoFile, NoHole, Volume
  <2> QED BY <2>1, <2>2 DEF NoHole
<1>4. CASE \E v \in Volume, i \in 0..MaxLen-1, c \in Cell, t \in BOOLEAN : Write(v, i, c, t)
  <2>1. PICK v \in Volume, i \in 0..MaxLen-1, c \in Cell, t \in BOOLEAN : Write(v, i, c, t)
    BY <1>4
  <2> DEFINE base == IF t THEN <<>> ELSE file[v].data
  <2>2. PICK data \in {base, Overwritten(base, i, c)} :
          file' = [file EXCEPT ![v] = [exists |-> TRUE, data |-> data]]
    BY <2>1 DEF Write
  <2>3. base \in Seq(Cell \cup {Hole})
    BY EmptySeq DEF Data
  <2>4. \A k \in 1..Len(base) : base[k] # Hole
    BY EmptyData DEF NoHole
  <2>5. i <= Len(base) \/ (~t /\ ~file[v].exists)
    BY <2>1, EmptyData, StorageAssumption DEF Write, MayWrite
  <2>6. i \in Nat /\ Len(base) \in Nat /\ c # Hole
    BY <2>3, LenProperties, StorageAssumption
  <2>7. i <= Len(base)
    BY <2>1, <2>5, <2>6 DEF Write, MayWrite
  <2> HIDE DEF base
  <2>8. \A k \in 1..Len(data) : data[k] # Hole
    <3>1. CASE data = base
      BY <2>4, <3>1
    <3>2. CASE data = Overwritten(base, i, c)
      <4>1. i \in 0..Len(base) /\ c \in Cell \cup {Hole}
        BY <2>6, <2>7
      <4>2. \A k \in 1..Len(Overwritten(base, i, c)) : Overwritten(base, i, c)[k] # Hole
        BY <2>3, <2>4, <2>6, <4>1, OverwrittenWhole
      <4> QED BY <3>2, <4>2
    <3> QED BY <3>1, <3>2
  <2> QED BY <2>2, <2>8 DEF NoHole
<1>5. CASE UNCHANGED file
  BY <1>5 DEF NoHole
<1>6. CASE ~StorageStep
  BY <1>5, <1>6, StorageUntouched DEF storage
<1> QED
  BY <1>1, <1>2, <1>3, <1>4, <1>5, <1>6 DEF StorageStep, StorageTick, StartVerify,
     CancelVerify, PumpReads, PumpEnds, PumpFails, StorageDisable

\* No sequence of writes, truncations and deletions leaves a hole.
THEOREM FilesHaveNoHoles == Spec => []NoHole
<1>1. Init => NoHole
  BY EmptyData DEF Init, StorageInit, NoFile, NoHole
<1> QED BY <1>1, HoleStep, TypeCorrect, PTL DEF Spec

-----------------------------------------------------------------------------
(* The footer.                                                              *)

\* Only a subscribed record runs, and a producer whose label runs knows that it
\* owns it once actBegin() is over.
Owners ==
  /\ Running => subscribed
  /\ slot = [state |-> "running", who |-> "upload"] /\ upload.at = "runs" => upload.owned
  /\ slot = [state |-> "running", who |-> "health"] /\ health.at = "runs" => health.owned

FooterInv == RunningIsReal /\ Owners

\* An end() leaves nothing running.
LEMMA EndStops ==
  ASSUME TypeOK, Owners, NEW ok, End(ok)
  PROVE  ~Running'
<1>1. CASE subscribed /\ Running
  BY <1>1 DEF End, Running, TypeOK, ActivityTypeOK, IdleSlot
<1>2. CASE ~(subscribed /\ Running)
  BY <1>2 DEF End, Running, Owners
<1> QED BY <1>1, <1>2 DEF End

\* A record that does not run satisfies the invariant.
LEMMA StillFooter == ~Running' => FooterInv'
BY DEF FooterInv, RunningIsReal, Owners, Running

\* A record nobody begins or ends, producers that stay where they are.
LEMMA SameFooter ==
  ASSUME FooterInv, UNCHANGED <<slot, subscribed, upload, health>>,
         verify.active => verify'.active
  PROVE  FooterInv'
BY DEF FooterInv, RunningIsReal, Owners, Running

LEMMA FooterStep ==
  ASSUME TypeOK, FooterInv, [Next]_vars
  PROVE  FooterInv'
<1> USE DEF TypeOK, StorageTypeOK
<1>1. CASE StorageStep /\ UNCHANGED <<upload, health>>
  <2>1. CASE \E v \in Volume : StartVerify(v)
    <3>1. PICK v \in Volume : StartVerify(v)
      BY <2>1
    <3>2. verify'.active
      BY <3>1 DEF StartVerify
    <3>3. CASE subscribed
      BY <1>1, <3>1, <3>2, <3>3 DEF StartVerify, Begin, FooterInv, RunningIsReal, Owners, Running
    <3>4. CASE ~subscribed
      BY <1>1, <3>1, <3>2, <3>4, SameFooter DEF StartVerify, Begin
    <3> QED BY <3>3, <3>4
  <2>2. CASE CancelVerify \/ PumpEnds \/ PumpFails
    BY <2>2, EndStops, StillFooter DEF CancelVerify, PumpEnds, PumpFails, Finish, FooterInv
  <2>3. CASE PumpReads
    BY <1>1, <2>3, SameFooter DEF PumpReads, Progress, Job
  <2>4. CASE StorageDisable
    <3>1. CASE verify.active
      BY <2>4, <3>1, EndStops, StillFooter DEF StorageDisable, Finish, FooterInv
    <3>2. CASE ~verify.active
      BY <1>1, <2>4, <3>2, SameFooter DEF StorageDisable, activity
    <3> QED BY <3>1, <3>2
  <2>5. CASE StorageEnable \/ Format
    BY <1>1, <2>5, SameFooter DEF StorageEnable, Format, activity
  <2>6. CASE \/ \E v \in Volume : Delete(v)
             \/ \E v \in Volume, i \in 0..MaxLen-1, c \in Cell, t \in BOOLEAN : Write(v, i, c, t)
    BY <1>1, <2>6, SameFooter DEF Delete, Write, Touched, Job, activity
  <2> QED BY <1>1, <2>1, <2>2, <2>3, <2>4, <2>5, <2>6 DEF StorageStep, StorageTick
<1>2. CASE UploadBegins
  <2>1. upload'.at = "begun" /\ UNCHANGED <<verify, health>>
    BY <1>2 DEF UploadBegins, storage
  <2>2. CASE subscribed
    BY <1>2, <2>1, <2>2 DEF UploadBegins, Begin, FooterInv, RunningIsReal, Owners, Running
  <2>3. CASE ~subscribed
    BY <1>2, <2>1, <2>3 DEF UploadBegins, Begin, FooterInv, RunningIsReal, Owners, Running
  <2> QED BY <2>2, <2>3
<1>3. CASE UploadOwns
  BY <1>3 DEF UploadOwns, activity, storage, Reporter, FooterInv, RunningIsReal, Owners, Running
<1>4. CASE UploadProgress \/ HealthWaits
  BY <1>4, SameFooter DEF UploadProgress, HealthWaits, Progress, storage
<1>5. CASE UploadStops
  <2>1. PICK ok \in BOOLEAN :
          upload' = IF StillOurs(upload.owned, "upload")
                    THEN [at |-> "ending", owned |-> TRUE, ok |-> ok] ELSE Over
    BY <1>5 DEF UploadStops
  <2>2. CASE StillOurs(upload.owned, "upload")
    BY <1>5, <2>1, <2>2 DEF UploadStops, StillOurs, activity, storage, FooterInv,
       RunningIsReal, Owners, Running
  <2>3. CASE ~StillOurs(upload.owned, "upload")
    <3>1. slot # [state |-> "running", who |-> "upload"]
      BY <1>5, <2>3 DEF UploadStops, StillOurs, FooterInv, Owners
    <3>2. ~(Running /\ slot.who = "upload")
      BY <3>1 DEF Running, ActivityTypeOK, IdleSlot
    <3> QED BY <1>5, <2>1, <2>3, <3>1, <3>2 DEF UploadStops, Over, activity, storage,
        FooterInv, RunningIsReal, Owners, Running
  <2> QED BY <2>2, <2>3
<1>6. CASE HealthStops
  <2>1. PICK ok \in BOOLEAN :
          health' = IF StillOurs(health.owned, "health")
                    THEN [at |-> "ending", owned |-> TRUE, ok |-> ok] ELSE Over
    BY <1>6 DEF HealthStops
  <2>2. CASE StillOurs(health.owned, "health")
    BY <1>6, <2>1, <2>2 DEF HealthStops, StillOurs, activity, storage, FooterInv,
       RunningIsReal, Owners, Running
  <2>3. CASE ~StillOurs(health.owned, "health")
    <3>1. slot # [state |-> "running", who |-> "health"]
      BY <1>6, <2>3 DEF HealthStops, StillOurs, FooterInv, Owners
    <3>2. ~(Running /\ slot.who = "health")
      BY <3>1 DEF Running, ActivityTypeOK, IdleSlot
    <3> QED BY <1>6, <2>1, <2>3, <3>1, <3>2 DEF HealthStops, Over, activity, storage,
        FooterInv, RunningIsReal, Owners, Running
  <2> QED BY <2>2, <2>3
<1>7. CASE UploadEnds \/ HealthEnds
  BY <1>7, EndStops, StillFooter DEF UploadEnds, HealthEnds, FooterInv
<1>8. CASE Display
  <2>1. CASE DisplayEnable \/ DisplayDisable
    BY <2>1, StillFooter DEF DisplayEnable, DisplayDisable, IdleSlot, Running
  <2>2. CASE DisplayLooks \/ DisplaySees \/ DisplayDue \/ DisplayResumes
    BY <1>8, <2>2, SameFooter DEF Display, DisplayLooks, DisplaySees, DisplayDue,
       DisplayResumes, storage
  <2>3. CASE DisplayClears
    BY <1>8, <2>3, SameFooter, StillFooter DEF Display, DisplayClears, storage, IdleSlot,
       Running
  <2> QED BY <1>8, <2>1, <2>2, <2>3 DEF Display, DisplayTick
<1>9. CASE UNCHANGED vars
  BY <1>9, SameFooter DEF vars, activity, storage
<1> QED BY <1>1, <1>2, <1>3, <1>4, <1>5, <1>6, <1>7, <1>8, <1>9 DEF Next

\* A running label names a job that runs.
THEOREM RunningFooterIsReal == Spec => []RunningIsReal
<1>1. Init => FooterInv
  BY DEF Init, StorageInit, Over, IdleSlot, FooterInv, RunningIsReal, Owners, Running
<1>2. FooterInv => RunningIsReal
  BY DEF FooterInv
<1> QED BY <1>1, <1>2, FooterStep, TypeCorrect, PTL DEF Spec

-----------------------------------------------------------------------------
(* FileOps: paths and trees.                                               *)

Paths == Seq(NameSet) \ {<< >>}

LEMMA NamesAre ==
  /\ Len(Names) \in Nat /\ DOMAIN Names = 1 .. Len(Names) /\ 1 \in DOMAIN Names /\ 2 \in DOMAIN Names
  /\ \A i \in DOMAIN Names : Names[i] \in NameSet
BY FilesAssumption DEF NameSet

LEMMA PrefixIs ==
  ASSUME NEW p \in Seq(NameSet), NEW n \in 0 .. Len(p)
  PROVE  /\ SubSeq(p, 1, n) \in Seq(NameSet) /\ Len(SubSeq(p, 1, n)) = n
         /\ \A k \in 1 .. n : SubSeq(p, 1, n)[k] = p[k]
<1>1. Len(p) \in Nat /\ n \in Nat /\ \A i \in 1 .. n : p[i] \in NameSet
  BY ElementOfSeq, LenProperties
<1>2. /\ SubSeq(p, 1, n) \in Seq(NameSet)
      /\ Len(SubSeq(p, 1, n)) = IF 1 <= n THEN n - 1 + 1 ELSE 0
      /\ \A i \in 1 .. n - 1 + 1 : SubSeq(p, 1, n)[i] = p[1 + i - 1]
  BY <1>1, SubSeqProperties
<1> QED
  BY <1>1, <1>2

LEMMA CutIs ==
  ASSUME NEW p \in Paths
  PROVE  /\ Len(p) \in Nat /\ Len(p) >= 1
         /\ CutBack(p) \in Seq(NameSet) /\ Len(CutBack(p)) = Len(p) - 1
         /\ \A i \in 1 .. Len(p) - 1 : CutBack(p)[i] = p[i]
         /\ p[Len(p)] \in NameSet
         /\ p = Append(CutBack(p), p[Len(p)])
<1>1. Len(p) \in Nat /\ Len(p) >= 1 /\ p \in Seq(NameSet)
  BY EmptySeq, LenProperties DEF Paths
<1>2. CutBack(p) \in Seq(NameSet) /\ Len(CutBack(p)) = Len(p) - 1
  <2>1. Len(p) - 1 \in 0 .. Len(p)
    BY <1>1
  <2> QED
    BY <1>1, <2>1, PrefixIs DEF CutBack
<1>3. \A i \in 1 .. Len(p) - 1 : CutBack(p)[i] = p[i]
  <2>1. Len(p) - 1 \in 0 .. Len(p)
    BY <1>1
  <2> QED
    BY <1>1, <2>1, PrefixIs DEF CutBack
<1>4. p[Len(p)] \in NameSet
  BY <1>1
<1>5. p = Append(CutBack(p), p[Len(p)])
  <2> DEFINE q == Append(CutBack(p), p[Len(p)])
  <2>1. q \in Seq(NameSet) /\ Len(q) = Len(p)
    BY <1>1, <1>2, <1>4, AppendProperties
  <2>2. ASSUME NEW i \in 1 .. Len(p) PROVE q[i] = p[i]
    BY <1>1, <1>2, <1>3, <1>4, AppendProperties
  <2> HIDE DEF q
  <2>3. p = q
    BY <1>1, <2>1, <2>2, SeqEqual
  <2> QED
    BY <2>3 DEF q
<1> QED
  BY <1>1, <1>2, <1>3, <1>4, <1>5

\* An entry of a directory is cut back to it.
LEMMA EntryIs ==
  ASSUME NEW p \in Seq(NameSet), NEW i \in DOMAIN Names
  PROVE  /\ Append(p, Names[i]) \in Paths /\ Len(Append(p, Names[i])) = Len(p) + 1
         /\ CutBack(Append(p, Names[i])) = p
         /\ Under(p) => Under(Append(p, Names[i]))
<1> DEFINE q == Append(p, Names[i])
<1>1. q \in Seq(NameSet) /\ Len(q) = Len(p) + 1 /\ Len(p) \in Nat /\ \A k \in 1 .. Len(p) : q[k] = p[k]
  BY NamesAre, AppendProperties, LenProperties
<1> HIDE DEF q
<1>2. q \in Paths
  BY <1>1, EmptySeq DEF Paths
<1>3. CutBack(q) = p
  <2>1. \A k \in 1 .. Len(p) : CutBack(q)[k] = p[k]
    BY <1>1, <1>2, CutIs
  <2>2. CutBack(q) \in Seq(NameSet) /\ Len(CutBack(q)) = Len(p)
    BY <1>1, <1>2, CutIs
  <2> QED
    BY <2>1, <2>2, SeqEqual
<1>4. ASSUME Under(p) PROVE Under(q)
  <2>1. Len(Top) \in Nat /\ Len(Top) <= Len(p) /\ SubSeq(p, 1, Len(Top)) = Top
    BY <1>1, <1>4, FilesAssumption DEF Under
  <2>2. SubSeq(q, 1, Len(Top)) = SubSeq(p, 1, Len(Top))
    <3> DEFINE s == SubSeq(q, 1, Len(Top))
               t == SubSeq(p, 1, Len(Top))
    <3>0. Len(Top) \in 0 .. Len(p) /\ Len(Top) \in 0 .. Len(q)
      BY <1>1, <2>1
    <3>1. s \in Seq(NameSet) /\ Len(s) = Len(Top) /\ \A k \in 1 .. Len(Top) : s[k] = q[k]
      BY <1>1, <3>0, PrefixIs
    <3>2. t \in Seq(NameSet) /\ Len(t) = Len(Top) /\ \A k \in 1 .. Len(Top) : t[k] = p[k]
      BY <1>1, <3>0, PrefixIs
    <3> HIDE DEF s, t
    <3>3. ASSUME NEW k \in 1 .. Len(Top) PROVE s[k] = t[k]
      <4>1. k \in 1 .. Len(p)
        BY <1>1, <2>1
      <4> QED
        BY <1>1, <3>1, <3>2, <4>1
    <3>4. s = t
      BY <3>1, <3>2, <3>3, SeqEqual
    <3> QED
      BY <3>4 DEF s, t
  <2> QED
    BY <1>1, <2>1, <2>2 DEF Under
<1> QED
  BY <1>1, <1>2, <1>3, <1>4 DEF q

\* A path below the directory stays so when it is cut back, and the directory
\* is the shortest of them.
LEMMA UnderIs ==
  ASSUME NEW p \in Paths, Under(p)
  PROVE  /\ Len(p) >= Len(Top) /\ Len(Top) \in Nat /\ Len(Top) >= 1
         /\ Len(p) = Len(Top) => p = Top
         /\ Len(p) # Len(Top) => Under(CutBack(p)) /\ CutBack(p) \in Paths
<1>1. /\ Len(p) \in Nat /\ Len(Top) \in Nat /\ Len(Top) >= 1 /\ Len(p) >= Len(Top)
      /\ SubSeq(p, 1, Len(Top)) = Top /\ p \in Seq(NameSet) /\ Top \in Seq(NameSet)
  <2>1. Top \in Paths
    BY FilesAssumption DEF Paths
  <2> QED
    BY <2>1, CutIs DEF Under, Paths
<1>2. ASSUME Len(p) = Len(Top) PROVE p = Top
  <2>1. SubSeq(p, 1, Len(p)) = p
    BY <1>1, SubSeqFull
  <2> QED
    BY <1>1, <1>2, <2>1
<1>3. ASSUME Len(p) # Len(Top) PROVE Under(CutBack(p)) /\ CutBack(p) \in Paths
  <2>1. /\ CutBack(p) \in Seq(NameSet) /\ Len(CutBack(p)) = Len(p) - 1
        /\ \A k \in 1 .. Len(p) - 1 : CutBack(p)[k] = p[k]
    BY CutIs
  <2>2. Len(CutBack(p)) >= Len(Top)
    <3>1. Len(p) - 1 >= Len(Top)
      BY <1>1, <1>3
    <3> QED
      BY <2>1, <3>1
  <2>3. CutBack(p) \in Paths
    BY <1>1, <2>1, <2>2, EmptySeq DEF Paths
  <2>4. SubSeq(CutBack(p), 1, Len(Top)) = Top
    <3> DEFINE s == SubSeq(CutBack(p), 1, Len(Top))
    <3>0. Len(Top) \in 0 .. Len(CutBack(p)) /\ Len(Top) \in 0 .. Len(p)
      BY <1>1, <2>1, <2>2
    <3>1. s \in Seq(NameSet) /\ Len(s) = Len(Top) /\ \A k \in 1 .. Len(Top) : s[k] = CutBack(p)[k]
      BY <2>1, <3>0, PrefixIs
    <3>2. \A k \in 1 .. Len(Top) : Top[k] = p[k]
      BY <1>1, <3>0, PrefixIs
    <3> HIDE DEF s
    <3>3. ASSUME NEW k \in 1 .. Len(Top) PROVE s[k] = Top[k]
      <4>1. k \in 1 .. Len(p) - 1
        BY <1>1, <2>1, <2>2
      <4> QED
        BY <2>1, <3>1, <3>2, <4>1
    <3>4. s = Top
      BY <1>1, <3>1, <3>3, SeqEqual
    <3> QED
      BY <3>4 DEF s
  <2> QED
    BY <2>2, <2>3, <2>4 DEF Under
<1> QED
  BY <1>1, <1>2, <1>3


-----------------------------------------------------------------------------
(* What readdir() returns.                                                 *)

\* The members of a set below one of them.
Below(C, n) == {m \in C : m < n}

LEMMA FiniteIs ==
  ASSUME NEW N \in Nat, NEW C \in SUBSET (1 .. N)
  PROVE  IsFiniteSet(C) /\ Cardinality(C) \in Nat
<1>1. IsFiniteSet(1 .. N)
  BY FS_Interval
<1> QED
  BY <1>1, FS_Subset, FS_CardinalityType

\* Each place up to their number is held by one of them.
LEMMA RankIs ==
  ASSUME NEW N \in Nat, NEW C \in SUBSET (1 .. N)
  PROVE  \A i \in 1 .. Cardinality(C) : \E n \in C : Cardinality(Below(C, n)) = i - 1
<1> DEFINE T == {i \in Nat : \E n \in C : Cardinality(Below(C, n)) = i}
           c == Cardinality(C)
<1>0. c \in Nat /\ IsFiniteSet(C) /\ \A m \in C : m \in Nat
  <2>1. \A m \in C : m \in Nat
    OBVIOUS
  <2>2. IsFiniteSet(C) /\ Cardinality(C) \in Nat
    BY FiniteIs
  <2> QED
    BY <2>1, <2>2
<1>1. ASSUME NEW D \in SUBSET C, D # {}
      PROVE  \E n \in D : \A m \in D : n <= m
  <2>1. D \in SUBSET Nat
    BY <1>0
  <2> QED
    BY <1>1, <2>1, Least
<1>2. CASE c = 0
  BY <1>2
<1>3. CASE c # 0
  <2>1. c - 1 \in Nat /\ C # {}
    BY <1>0, <1>3, FS_EmptySet
  <2>2. 0 \in T
    <3>1. PICK n \in C : \A m \in C : n <= m
      BY <1>1, <2>1
    <3>2. Below(C, n) = {}
      <4>1. ASSUME NEW m \in C PROVE ~(m < n)
        BY <1>0, <3>1
      <4> QED
        BY <4>1 DEF Below
    <3> QED
      BY <3>2, FS_EmptySet
  <2>3. ASSUME NEW i \in 0 .. (c - 1) - 1, i \in T PROVE i + 1 \in T
    <3>1. PICK n \in C : Cardinality(Below(C, n)) = i
      BY <2>3
    <3> DEFINE upTo == Below(C, n) \cup {n}
    <3>2. IsFiniteSet(Below(C, n)) /\ n \notin Below(C, n)
      BY <1>0, FS_Subset DEF Below
    <3>3. IsFiniteSet(upTo) /\ Cardinality(upTo) = i + 1
      BY <3>1, <3>2, FS_AddElement
    <3>4. upTo # C
      BY <2>1, <3>3
    <3>5. C \ upTo # {}
      BY <3>1, <3>4 DEF Below
    <3>6. PICK p \in C \ upTo : \A m \in C \ upTo : p <= m
      BY <1>1, <3>5
    <3>7. Below(C, p) = upTo
      <4>1. ASSUME NEW m \in C PROVE m < p <=> (m < n \/ m = n)
        <5>1. m \in Nat /\ n \in Nat /\ p \in Nat /\ ~(p < n) /\ p # n
          BY <1>0, <3>1, <3>6 DEF Below
        <5>2. (m < n \/ m = n) <=> ~(m \in C \ upTo)
          BY DEF Below
        <5>3. m \in C \ upTo => p <= m
          BY <3>6
        <5> QED
          BY <5>1, <5>2, <5>3
      <4> QED
        BY <3>1, <4>1 DEF Below
    <3>8. i + 1 \in Nat
      BY <2>3
    <3> QED
      BY <3>3, <3>6, <3>7, <3>8
  <2> HIDE DEF T
  <2>4. \A i \in 0 .. c - 1 : i \in T
    BY <2>1, <2>2, <2>3, UpTo
  <2>5. ASSUME NEW i \in 1 .. c PROVE \E n \in C : Cardinality(Below(C, n)) = i - 1
    <3>1. i - 1 \in 0 .. c - 1
      BY <1>0
    <3> QED
      BY <2>4, <3>1 DEF T
  <2> QED
    BY <2>5
<1> QED
  BY <1>2, <1>3

LEMMA ChildrenAre ==
  ASSUME NEW t, NEW p
  PROVE  /\ Children(t, p) \in SUBSET (1 .. Len(Names)) /\ Len(Names) \in Nat
         /\ IsFiniteSet(Children(t, p)) /\ Cardinality(Children(t, p)) \in Nat
         /\ \A n \in Children(t, p) : n \in DOMAIN Names /\ Append(p, Names[n]) \in DOMAIN t
<1>1. /\ Children(t, p) \in SUBSET (1 .. Len(Names)) /\ Len(Names) \in Nat
      /\ \A n \in Children(t, p) : n \in DOMAIN Names /\ Append(p, Names[n]) \in DOMAIN t
  BY NamesAre DEF Children
<1> QED
  BY <1>1, FiniteIs

\* The i-th entry is one, and no two places hold the same.
LEMMA NthIs ==
  ASSUME NEW t, NEW p, NEW i \in 1 .. Cardinality(Children(t, p))
  PROVE  /\ Nth(t, p, i) \in Children(t, p)
         /\ Cardinality(Below(Children(t, p), Nth(t, p, i))) = i - 1
<1>1. \E n \in Children(t, p) : Cardinality(Below(Children(t, p), n)) = i - 1
  BY ChildrenAre, RankIs
<1>2. Nth(t, p, i) = CHOOSE n \in Children(t, p) : Cardinality(Below(Children(t, p), n)) = i - 1
  BY DEF Nth, Below
<1> QED
  BY <1>1, <1>2

\* A directory with entries has a first one.
LEMMA FirstIs ==
  ASSUME NEW t, NEW p, Children(t, p) # {}
  PROVE  Nth(t, p, 1) \in Children(t, p)
<1>1. 1 \in 1 .. Cardinality(Children(t, p))
  BY ChildrenAre, FS_EmptySet
<1> QED
  BY <1>1, NthIs

-----------------------------------------------------------------------------
(* Trees.                                                                  *)

LEMMA TreeIs ==
  ASSUME NEW t, IsTree(t), NEW p \in DOMAIN t
  PROVE  p \in Paths /\ t[p] \in {"file", "dir"}
BY DEF IsTree, Paths

\* Taking away what nothing is in leaves a tree.
LEMMA WithoutIs ==
  ASSUME NEW t, IsTree(t), NEW p \in DOMAIN t, t[p] = "file" \/ Children(t, p) = {}
  PROVE  /\ IsTree(Without(t, p)) /\ DOMAIN Without(t, p) = DOMAIN t \ {p}
         /\ \A q \in DOMAIN t \ {p} : Without(t, p)[q] = t[q]
<1> DEFINE u == Without(t, p)
<1>1. DOMAIN u = DOMAIN t \ {p} /\ (\A q \in DOMAIN t \ {p} : u[q] = t[q]) /\ u = [q \in DOMAIN u |-> u[q]]
  BY DEF Without
<1>2. IsFiniteSet(DOMAIN u)
  BY <1>1, FS_RemoveElement DEF IsTree
<1> HIDE DEF u
<1>3. ASSUME NEW q \in DOMAIN u
      PROVE  /\ q \in Seq(NameSet) /\ q # <<>> /\ u[q] \in {"file", "dir"}
             /\ Len(q) > 1 => CutBack(q) \in DOMAIN u /\ u[CutBack(q)] = "dir"
  <2>1. q \in DOMAIN t /\ q # p /\ q \in Paths /\ u[q] = t[q]
    BY <1>1, TreeIs
  <2>2. ASSUME Len(q) > 1 PROVE CutBack(q) \in DOMAIN u /\ u[CutBack(q)] = "dir"
    <3>1. CutBack(q) \in DOMAIN t /\ t[CutBack(q)] = "dir"
      BY <2>1, <2>2 DEF IsTree
    <3>2. CutBack(q) # p
      <4> SUFFICES ASSUME CutBack(q) = p PROVE FALSE
        OBVIOUS
      <4>1. q = Append(p, q[Len(q)]) /\ q[Len(q)] \in NameSet
        BY <2>1, CutIs
      <4>2. Children(t, p) # {}
        BY <2>1, <4>1 DEF Children, NameSet
      <4>3. t[p] # "file"
        BY <3>1
      <4> QED
        BY <4>2, <4>3
    <3> QED
      BY <1>1, <3>1, <3>2
  <2> QED
    BY <2>1, <2>2, TreeIs DEF Paths
<1>4. IsTree(u)
  BY <1>1, <1>2, <1>3 DEF IsTree
<1> QED
  BY <1>1, <1>4 DEF u

\* A new directory in one that is there leaves a tree.
LEMMA WithIs ==
  ASSUME NEW t, IsTree(t), NEW p \in Paths, p \notin DOMAIN t,
         Len(p) = 1 \/ (CutBack(p) \in DOMAIN t /\ t[CutBack(p)] = "dir")
  PROVE  IsTree([q \in DOMAIN t \cup {p} |-> IF q = p THEN "dir" ELSE t[q]])
<1> DEFINE u == [q \in DOMAIN t \cup {p} |-> IF q = p THEN "dir" ELSE t[q]]
<1>1. /\ DOMAIN u = DOMAIN t \cup {p} /\ u = [q \in DOMAIN u |-> u[q]]
      /\ u[p] = "dir" /\ \A q \in DOMAIN t : u[q] = t[q]
  OBVIOUS
<1>2. IsFiniteSet(DOMAIN u)
  BY <1>1, FS_AddElement DEF IsTree
<1> HIDE DEF u
<1>3. ASSUME NEW q \in DOMAIN u
      PROVE  /\ q \in Seq(NameSet) /\ q # <<>> /\ u[q] \in {"file", "dir"}
             /\ Len(q) > 1 => CutBack(q) \in DOMAIN u /\ u[CutBack(q)] = "dir"
  <2>1. CASE q = p
    <3>1. Len(p) > 1 => CutBack(p) \in DOMAIN t /\ t[CutBack(p)] = "dir"
      BY CutIs
    <3>2. Len(p) > 1 => CutBack(p) \in DOMAIN u /\ u[CutBack(p)] = "dir"
      BY <1>1, <3>1
    <3> QED
      BY <1>1, <2>1, <3>2 DEF Paths
  <2>2. CASE q # p
    BY <1>1, <2>2 DEF IsTree
  <2> QED
    BY <2>1, <2>2
<1>4. IsTree(u)
  BY <1>1, <1>2, <1>3 DEF IsTree
<1> QED
  BY <1>4 DEF u

\* A directory without entries is the only thing left under it.
LEMMA EmptyIsAlone ==
  ASSUME NEW t, IsTree(t), Children(t, Top) = {}, NEW p \in DOMAIN t, Under(p)
  PROVE  p = Top
<1> DEFINE T == {k \in Nat : SubSeq(p, 1, Len(p) - k) \in DOMAIN t}
           n == Len(p) - Len(Top)
<1>1. p \in Paths /\ Len(p) \in Nat /\ p \in Seq(NameSet)
  BY TreeIs, CutIs DEF Paths
<1>2. Len(p) >= Len(Top) /\ Len(Top) \in Nat /\ Len(Top) >= 1 /\ (Len(p) = Len(Top) => p = Top)
      /\ SubSeq(p, 1, Len(Top)) = Top
  BY <1>1, UnderIs DEF Under
<1> SUFFICES ASSUME n # 0 PROVE FALSE
  BY <1>1, <1>2
<1>3. n - 1 \in Nat
  BY <1>1, <1>2
<1>4. 0 \in T
  <2>1. SubSeq(p, 1, Len(p)) = p /\ Len(p) - 0 = Len(p)
    BY <1>1, SubSeqFull
  <2> QED
    BY <2>1
<1>5. ASSUME NEW k \in 0 .. (n - 1) - 1, k \in T PROVE k + 1 \in T
  <2> DEFINE q == SubSeq(p, 1, Len(p) - k)
  <2>1. q \in DOMAIN t /\ Len(p) - k \in 0 .. Len(p) /\ Len(p) - k >= 2 /\ k + 1 \in Nat
        /\ Len(p) - (k + 1) \in 0 .. Len(p)
    BY <1>1, <1>2, <1>3, <1>5
  <2>2. Len(q) = Len(p) - k /\ q \in Seq(NameSet) /\ \A i \in 1 .. Len(p) - k : q[i] = p[i]
    BY <1>1, <2>1, PrefixIs
  <2> HIDE DEF q
  <2>3. CutBack(q) \in DOMAIN t
    BY <2>1, <2>2 DEF IsTree
  <2>4. CutBack(q) = SubSeq(p, 1, Len(p) - (k + 1))
    <3> DEFINE s == SubSeq(p, 1, Len(p) - (k + 1))
    <3>1. s \in Seq(NameSet) /\ Len(s) = Len(p) - (k + 1) /\ \A i \in 1 .. Len(p) - (k + 1) : s[i] = p[i]
      BY <1>1, <2>1, PrefixIs
    <3>2. q \in Paths
      BY <2>1, TreeIs
    <3>3. /\ CutBack(q) \in Seq(NameSet) /\ Len(CutBack(q)) = Len(p) - k - 1
          /\ \A i \in 1 .. Len(p) - k - 1 : CutBack(q)[i] = q[i]
      BY <2>2, <3>2, CutIs
    <3> HIDE DEF s
    <3>4. Len(p) - k - 1 = Len(p) - (k + 1)
      BY <1>1
    <3>5. \A i \in 1 .. Len(s) : CutBack(q)[i] = s[i]
      BY <1>1, <2>1, <2>2, <3>1, <3>3, <3>4
    <3>6. CutBack(q) = s
      BY <3>1, <3>3, <3>4, <3>5, SeqEqual
    <3> QED
      BY <3>6 DEF s
  <2> QED
    BY <2>1, <2>3, <2>4
<1> HIDE DEF T
<1>6. \A k \in 0 .. n - 1 : k \in T
  BY <1>3, <1>4, <1>5, UpTo
<1>7. n - 1 \in T
  BY <1>3, <1>6
<1> DEFINE c == SubSeq(p, 1, Len(p) - (n - 1))
<1>8. c \in DOMAIN t /\ Len(p) - (n - 1) = Len(Top) + 1 /\ Len(Top) + 1 \in 0 .. Len(p)
  BY <1>1, <1>2, <1>3, <1>7 DEF T
<1>9. Len(c) = Len(Top) + 1 /\ c \in Seq(NameSet) /\ \A i \in 1 .. Len(Top) + 1 : c[i] = p[i]
  BY <1>1, <1>8, PrefixIs
<1> HIDE DEF c
<1>10. CutBack(c) = Top
  <2>1. c \in Paths
    BY <1>8, TreeIs
  <2>2. /\ CutBack(c) \in Seq(NameSet) /\ Len(CutBack(c)) = Len(Top)
        /\ \A i \in 1 .. Len(Top) : CutBack(c)[i] = c[i]
    BY <1>2, <1>9, <2>1, CutIs
  <2>3. Len(Top) \in 0 .. Len(p) /\ \A i \in 1 .. Len(Top) : Top[i] = p[i]
    BY <1>1, <1>2, PrefixIs
  <2>4. \A i \in 1 .. Len(Top) : CutBack(c)[i] = Top[i]
    BY <1>2, <1>9, <2>2, <2>3
  <2>5. Top \in Seq(NameSet)
    BY FilesAssumption
  <2> QED
    BY <2>2, <2>4, <2>5, SeqEqual
<1>11. c = Append(Top, c[Len(c)]) /\ c[Len(c)] \in NameSet
  BY <1>8, <1>10, TreeIs, CutIs
<1>12. Children(t, Top) # {}
  BY <1>8, <1>11 DEF Children, NameSet
<1> QED
  BY <1>12


-----------------------------------------------------------------------------
(* A delete says what it did.                                              *)

Counted == {"running", "complete", "EDEPTH", "ELIMIT", "EIO", "EPATHLEN"}

FilesTypeOK ==
  /\ IsTree(tree) /\ IsTree(before)
  /\ full \in Seq(NameSet) /\ files \in Nat /\ dirs \in Nat
  /\ outcome \in Counted \cup {"none", "ok", "ENOTEMPTY"}
  /\ offset \in Nat /\ pages \in Seq(NameSet) /\ listing \in {"no", "yes", "done"}
  /\ undisturbed \in BOOLEAN

\* The directory a delete is in is there, under the one named.
InTree ==
  full # <<>> => outcome = "running" /\ full \in DOMAIN tree /\ tree[full] = "dir" /\ Under(full)

Gone == DOMAIN before \ DOMAIN tree
GoneAs(kind) == {p \in Gone : before[p] = kind}

\* What is left is as it was, and the counts are of what is not.
Accounted ==
  outcome \in Counted =>
    /\ DOMAIN tree \in SUBSET DOMAIN before /\ \A p \in DOMAIN tree : tree[p] = before[p]
    /\ \A p \in Gone : Under(p)
    /\ files = Cardinality(GoneAs("file")) /\ dirs = Cardinality(GoneAs("dir"))

AllGone == outcome = "complete" => \A p \in DOMAIN tree : ~Under(p)

Pruned == FilesTypeOK /\ InTree /\ Accounted /\ AllGone

\* Removing one more entry under the directory is one more of its kind.
LEMMA OneMoreGone ==
  ASSUME FilesTypeOK, Accounted, outcome \in Counted, NEW p \in DOMAIN tree, Under(p),
         tree[p] = "file" \/ Children(tree, p) = {}, tree' = Without(tree, p), before' = before
  PROVE  /\ IsTree(tree') /\ DOMAIN tree' = DOMAIN tree \ {p}
         /\ \A q \in DOMAIN tree' : tree'[q] = tree[q]
         /\ DOMAIN tree' \in SUBSET DOMAIN before' /\ \A q \in DOMAIN tree' : tree'[q] = before'[q]
         /\ \A q \in Gone' : Under(q)
         /\ \A kind \in {"file", "dir"} :
              /\ tree[p] = kind => Cardinality(GoneAs(kind)') = Cardinality(GoneAs(kind)) + 1
              /\ tree[p] # kind => Cardinality(GoneAs(kind)') = Cardinality(GoneAs(kind))
<1>1. /\ IsTree(tree') /\ DOMAIN tree' = DOMAIN tree \ {p}
      /\ \A q \in DOMAIN tree \ {p} : tree'[q] = tree[q]
  BY WithoutIs DEF FilesTypeOK
<1>2. /\ DOMAIN tree \in SUBSET DOMAIN before /\ \A q \in DOMAIN tree : tree[q] = before[q]
      /\ \A q \in Gone : Under(q)
  BY DEF Accounted
<1>3. Gone' = Gone \cup {p} /\ p \notin Gone
  BY <1>1, <1>2 DEF Gone
<1>4. ASSUME NEW kind \in {"file", "dir"}
      PROVE  /\ tree[p] = kind => Cardinality(GoneAs(kind)') = Cardinality(GoneAs(kind)) + 1
             /\ tree[p] # kind => Cardinality(GoneAs(kind)') = Cardinality(GoneAs(kind))
  <2>1. IsFiniteSet(GoneAs(kind)) /\ p \notin GoneAs(kind)
    <3>1. GoneAs(kind) \in SUBSET DOMAIN before
      BY DEF GoneAs, Gone
    <3> QED
      BY <1>3, <3>1, FS_Subset DEF GoneAs, FilesTypeOK, IsTree
  <2>2. CASE tree[p] = kind
    <3>1. GoneAs(kind)' = GoneAs(kind) \cup {p}
      BY <1>2, <1>3, <2>2 DEF GoneAs
    <3> QED
      BY <2>1, <2>2, <3>1, FS_AddElement
  <2>3. CASE tree[p] # kind
    <3>1. GoneAs(kind)' = GoneAs(kind)
      BY <1>2, <1>3, <2>3 DEF GoneAs
    <3> QED
      BY <2>3, <3>1
  <2> QED
    BY <2>2, <2>3
<1> QED
  BY <1>1, <1>2, <1>3, <1>4

\* A step that ends a delete and removes nothing.
LEMMA StopKeeps ==
  ASSUME Pruned, outcome = "running", NEW why \in Counted \ {"complete"}, Stop(why),
         UNCHANGED <<tree, before>>, FilesTypeOK'
  PROVE  Pruned'
<1>1. full' = <<>> /\ outcome' = why /\ files' = files /\ dirs' = dirs /\ tree' = tree /\ before' = before
  BY DEF Stop
<1>2. InTree' /\ AllGone'
  BY <1>1 DEF InTree, AllGone
<1>3. Accounted'
  BY <1>1 DEF Pruned, Accounted, GoneAs, Gone, Counted
<1> QED
  BY <1>2, <1>3 DEF Pruned

LEMMA UnlinkKeeps ==
  ASSUME Pruned, NEW ok \in BOOLEAN, Unlink(ok)
  PROVE  Pruned'
<1>1. /\ full # <<>> /\ outcome = "running" /\ full \in DOMAIN tree /\ Under(full)
      /\ Children(tree, full) # {} /\ before' = before
      /\ UNCHANGED <<offset, pages, listing>>
  <2>1. /\ full # <<>> /\ Children(tree, full) # {} /\ before' = before
        /\ UNCHANGED <<offset, pages, listing>>
    BY DEF Unlink, Turns, Idle, client
  <2>2. outcome = "running" /\ full \in DOMAIN tree /\ Under(full)
    BY <2>1 DEF Pruned, InTree
  <2> QED
    BY <2>1, <2>2
<1>0. undisturbed' \in BOOLEAN
  BY Zenon DEF Unlink
<1> DEFINE q == Append(full, First)
<1>2. q \in DOMAIN tree /\ Under(q) /\ q # full
  <2>1. Nth(tree, full, 1) \in DOMAIN Names /\ q \in DOMAIN tree
    BY <1>1, FirstIs, ChildrenAre DEF First
  <2>2. Under(q) /\ Len(q) = Len(full) + 1 /\ Len(full) \in Nat
    BY <1>1, <2>1, EntryIs, LenProperties DEF First, Pruned, FilesTypeOK
  <2> QED
    BY <2>1, <2>2
<1> HIDE DEF q
<1>3. tree[q] = "file"
  BY DEF Unlink, q
<1>4. CASE ok
  <2>1. tree' = Without(tree, q) /\ files' = files + 1 /\ UNCHANGED <<full, dirs, outcome>>
    BY <1>4 DEF Unlink, q
  <2>2. /\ IsTree(tree') /\ DOMAIN tree' = DOMAIN tree \ {q}
        /\ \A p \in DOMAIN tree' : tree'[p] = tree[p]
        /\ DOMAIN tree' \in SUBSET DOMAIN before' /\ \A p \in DOMAIN tree' : tree'[p] = before'[p]
        /\ \A p \in Gone' : Under(p)
        /\ Cardinality(GoneAs("file")') = Cardinality(GoneAs("file")) + 1
        /\ Cardinality(GoneAs("dir")') = Cardinality(GoneAs("dir"))
    BY <1>1, <1>2, <1>3, <2>1, OneMoreGone DEF Pruned, Counted
  <2>3. files = Cardinality(GoneAs("file")) /\ dirs = Cardinality(GoneAs("dir"))
    BY <1>1 DEF Pruned, Accounted, Counted
  <2>4. FilesTypeOK'
    BY <1>0, <1>1, <2>1, <2>2 DEF Pruned, FilesTypeOK
  <2>5. InTree' /\ AllGone'
    BY <1>1, <1>2, <2>1, <2>2 DEF Pruned, InTree, AllGone, Under
  <2>6. Accounted'
    BY <2>1, <2>2, <2>3 DEF Accounted, Under
  <2> QED
    BY <2>4, <2>5, <2>6 DEF Pruned
<1>5. CASE ~ok
  <2>1. Stop("EIO") /\ UNCHANGED <<tree, before>> /\ "EIO" \in Counted \ {"complete"}
    BY <1>5 DEF Unlink, Counted
  <2>2. FilesTypeOK'
    BY <1>0, <1>1, <2>1, EmptySeq DEF Pruned, FilesTypeOK, Stop
  <2> QED
    BY <1>1, <2>1, <2>2, StopKeeps
<1> QED
  BY <1>4, <1>5

LEMMA RmdirKeeps ==
  ASSUME Pruned, NEW ok \in BOOLEAN, Rmdir(ok)
  PROVE  Pruned'
<1>1. /\ full # <<>> /\ outcome = "running" /\ full \in DOMAIN tree /\ Under(full) /\ tree[full] = "dir"
      /\ Children(tree, full) = {} /\ before' = before /\ full \in Paths /\ full \in Seq(NameSet)
      /\ UNCHANGED <<offset, pages, listing>>
  <2>1. /\ full # <<>> /\ Children(tree, full) = {} /\ before' = before
        /\ UNCHANGED <<offset, pages, listing>>
    BY DEF Rmdir, Turns, Idle, client
  <2>2. outcome = "running" /\ full \in DOMAIN tree /\ Under(full) /\ tree[full] = "dir"
    BY <2>1 DEF Pruned, InTree
  <2>3. full \in Paths /\ full \in Seq(NameSet)
    BY <2>2, TreeIs DEF Pruned, FilesTypeOK
  <2> QED
    BY <2>1, <2>2, <2>3
<1>0. undisturbed' \in BOOLEAN
  BY Zenon DEF Rmdir
<1>2. CASE ~ok
  <2>1. Stop("EIO") /\ UNCHANGED <<tree, before>> /\ "EIO" \in Counted \ {"complete"}
    BY <1>2 DEF Rmdir, Counted
  <2>2. FilesTypeOK'
    BY <1>0, <1>1, <2>1, EmptySeq DEF Pruned, FilesTypeOK, Stop
  <2> QED
    BY <1>1, <2>1, <2>2, StopKeeps
<1>3. CASE ok
  <2>1. /\ tree' = Without(tree, full) /\ dirs' = dirs + 1 /\ files' = files
        /\ full' = (IF full = Top THEN <<>> ELSE CutBack(full))
        /\ outcome' = (IF full = Top THEN "complete" ELSE outcome)
    BY <1>3 DEF Rmdir
  <2>2. /\ IsTree(tree') /\ DOMAIN tree' = DOMAIN tree \ {full}
        /\ \A p \in DOMAIN tree' : tree'[p] = tree[p]
        /\ DOMAIN tree' \in SUBSET DOMAIN before' /\ \A p \in DOMAIN tree' : tree'[p] = before'[p]
        /\ \A p \in Gone' : Under(p)
        /\ Cardinality(GoneAs("dir")') = Cardinality(GoneAs("dir")) + 1
        /\ Cardinality(GoneAs("file")') = Cardinality(GoneAs("file"))
    BY <1>1, <2>1, OneMoreGone DEF Pruned, Counted
  <2>3. files = Cardinality(GoneAs("file")) /\ dirs = Cardinality(GoneAs("dir"))
    BY <1>1 DEF Pruned, Accounted, Counted
  <2>4. Accounted'
    BY <2>1, <2>2, <2>3 DEF Accounted, Under
  <2>5. CASE full = Top
    <3>1. full' = <<>> /\ outcome' = "complete" /\ "complete" \in Counted
      BY <2>1, <2>5 DEF Counted
    <3>2. FilesTypeOK'
      BY <1>0, <1>1, <2>1, <2>2, <3>1, EmptySeq DEF Pruned, FilesTypeOK
    <3>3. ASSUME NEW p \in DOMAIN tree', Under(p) PROVE FALSE
      BY <1>1, <2>2, <2>5, <3>3, EmptyIsAlone DEF Pruned, FilesTypeOK
    <3> QED
      BY <2>4, <3>1, <3>2, <3>3 DEF Pruned, InTree, AllGone, Under
  <2>6. CASE full # Top
    <3>1. full' = CutBack(full) /\ outcome' = outcome
      BY <2>1, <2>6
    <3>2. /\ Under(CutBack(full)) /\ CutBack(full) \in Paths
          /\ Len(full) \in Nat /\ Len(full) >= 1 /\ Len(CutBack(full)) = Len(full) - 1
      BY <1>1, <2>6, UnderIs, CutIs
    <3>3. Len(full) > 1
      BY <3>2, CutIs
    <3>4. CutBack(full) \in DOMAIN tree /\ tree[CutBack(full)] = "dir" /\ CutBack(full) # full
      BY <1>1, <3>2, <3>3 DEF Pruned, FilesTypeOK, IsTree
    <3>5. FilesTypeOK'
      BY <1>0, <1>1, <2>1, <2>2, <3>1, <3>2 DEF Pruned, FilesTypeOK, Paths
    <3> QED
      BY <1>1, <2>2, <2>4, <3>1, <3>2, <3>4, <3>5 DEF Pruned, InTree, AllGone, Under
  <2> QED
    BY <2>5, <2>6
<1> QED
  BY <1>2, <1>3

-----------------------------------------------------------------------------
(* A page.                                                                 *)

Entries(t) == Cardinality(Children(t, Top))
Filled == [count : Nat, bytes : 0 .. Budget]
Nothing == [count |-> 0, bytes |-> 0]

\* What the k-th turn of the loop makes of what has been listed.
Turned(t, off, k, p) ==
  LET size == Size(Names[Nth(t, Top, off + p.count + 1)]) IN
  IF p.count = k - 1 /\ off + p.count < Entries(t) /\ p.bytes + size <= Budget
  THEN [count |-> k, bytes |-> p.bytes + size]
  ELSE p

LEMMA TurnedIs ==
  ASSUME NEW t, NEW off \in Nat, NEW k \in Nat, NEW p \in Filled
  PROVE  /\ Turned(t, off, k, p) \in Filled
         /\ Turned(t, off, k, p).count # p.count =>
              /\ p.count = k - 1 /\ Turned(t, off, k, p).count = k
              /\ off + k \in 1 .. Entries(t)
         /\ (p = Nothing /\ k = 1 /\ off < Entries(t)) => Turned(t, off, k, p).count = 1
<1> DEFINE i == off + p.count + 1
           size == Size(Names[Nth(t, Top, i)])
<1>1. Entries(t) \in Nat /\ Budget \in Nat /\ p.count \in Nat /\ p.bytes \in 0 .. Budget
  BY ChildrenAre, FilesAssumption DEF Entries, Filled
<1>2. off + p.count < Entries(t) => size \in 0 .. Budget
  <2> SUFFICES ASSUME off + p.count < Entries(t) PROVE size \in 0 .. Budget
    OBVIOUS
  <2>1. i \in 1 .. Cardinality(Children(t, Top))
    BY <1>1 DEF Entries
  <2>2. Nth(t, Top, i) \in DOMAIN Names
    BY <2>1, NthIs, ChildrenAre
  <2> QED
    BY <2>2, FilesAssumption
<1>3. Turned(t, off, k, p) =
        IF p.count = k - 1 /\ off + p.count < Entries(t) /\ p.bytes + size <= Budget
        THEN [count |-> k, bytes |-> p.bytes + size] ELSE p
  BY DEF Turned
<1> HIDE DEF size, i
<1>4. CASE p.count = k - 1 /\ off + p.count < Entries(t) /\ p.bytes + size <= Budget
  <2>1. Turned(t, off, k, p) = [count |-> k, bytes |-> p.bytes + size]
    BY <1>3, <1>4
  <2>2. p.bytes + size \in 0 .. Budget /\ off + k \in 1 .. Entries(t)
    BY <1>1, <1>2, <1>4
  <2> QED
    BY <1>4, <2>1, <2>2 DEF Filled
<1>5. CASE ~(p.count = k - 1 /\ off + p.count < Entries(t) /\ p.bytes + size <= Budget)
  <2>1. Turned(t, off, k, p) = p
    BY <1>3, <1>5
  <2>2. ~(p = Nothing /\ k = 1 /\ off < Entries(t))
    BY <1>1, <1>2, <1>5 DEF Nothing
  <2> QED
    BY <2>1, <2>2
<1> QED
  BY <1>4, <1>5

\* A page lists no more than was asked for and nothing past the entries, and
\* one at least when any is left.
LEMMA PageIs ==
  ASSUME NEW t, NEW off \in Nat, NEW limit \in Limits
  PROVE  /\ Listed(t, off, limit).count \in Nat
         /\ \A i \in 1 .. Listed(t, off, limit).count : off + i \in 1 .. Entries(t)
         /\ off < Entries(t) => Listed(t, off, limit).count >= 1
<1> DEFINE turn == [k \in Nat |-> [p \in Filled |-> Turned(t, off, k, p)]]
           Body(f, k) == IF k = 0 THEN Nothing ELSE Turned(t, off, k, f[k - 1])
           page == CHOOSE f : f = [k \in 0 .. limit |-> Body(f, k)]
<1>1. limit \in Nat /\ limit >= 1 /\ Nothing \in Filled /\ Nothing.count = 0
  BY FilesAssumption DEF Nothing, Filled
<1>2. turn \in [Nat -> [Filled -> Filled]]
  BY TurnedIs
<1>3. \A k \in Nat, p \in Filled : turn[k][p] = Turned(t, off, k, p)
  OBVIOUS
<1> HIDE DEF turn
<1>4. PICK f \in [0 .. limit -> Filled] : f[0] = Nothing /\ Iterates(f, turn, limit)
  BY <1>1, <1>2, Iteration
<1>5. f = [k \in 0 .. limit |-> Body(f, k)]
  <2>1. ASSUME NEW k \in 0 .. limit PROVE f[k] = Body(f, k)
    <3>1. CASE k = 0
      BY <1>4, <3>1
    <3>2. CASE k # 0
      <4>1. k \in 1 .. limit /\ k - 1 \in 0 .. limit /\ k \in Nat
        BY <1>1, <3>2
      <4>2. f[k] = turn[k][f[k - 1]] /\ f[k - 1] \in Filled
        BY <1>4, <4>1 DEF Iterates
      <4> QED
        BY <1>3, <3>2, <4>1, <4>2
    <3> QED
      BY <3>1, <3>2
  <2> QED
    BY <2>1
<1>6. page = [k \in 0 .. limit |-> Body(page, k)]
  BY <1>5
<1>7. Listed(t, off, limit) = page[limit]
  BY DEF Listed, Turned, Entries, Nothing
<1> HIDE DEF page
<1>8. /\ page[0] = Nothing
      /\ \A k \in 1 .. limit : k - 1 \in 0 .. limit /\ k \in Nat /\ page[k] = Turned(t, off, k, page[k - 1])
  <2>1. 0 \in 0 .. limit /\ \A k \in 1 .. limit : k \in 0 .. limit /\ k # 0 /\ k - 1 \in 0 .. limit /\ k \in Nat
    BY <1>1
  <2> QED
    BY <1>6, <2>1
<1> HIDE DEF Body
<1> DEFINE InPage(p, k) ==
             /\ p \in Filled /\ p.count <= k /\ \A i \in 1 .. p.count : off + i \in 1 .. Entries(t)
             /\ (k >= 1 /\ off < Entries(t)) => p.count >= 1
             /\ k = 0 => p = Nothing
           T == {k \in 0 .. limit : InPage(page[k], k)}
<1>9. 0 \in T
  <2>1. InPage(Nothing, 0)
    BY <1>1
  <2> HIDE DEF InPage
  <2> QED
    BY <1>1, <1>8, <2>1
<1>10. ASSUME NEW k \in 0 .. limit - 1, k \in T PROVE k + 1 \in T
  <2> DEFINE p == page[k]
             q == page[k + 1]
  <2>1. k \in Nat /\ k + 1 \in 1 .. limit /\ k + 1 \in Nat /\ (k + 1) - 1 = k /\ k + 1 \in 0 .. limit
    BY <1>1
  <2>2. q = Turned(t, off, k + 1, p)
    BY <1>8, <2>1
  <2>3. InPage(p, k)
    BY <1>10
  <2> HIDE DEF p, q
  <2>4. /\ q \in Filled /\ p.count \in Nat
        /\ q.count # p.count => p.count = k /\ q.count = k + 1 /\ off + (k + 1) \in 1 .. Entries(t)
        /\ (p = Nothing /\ k + 1 = 1 /\ off < Entries(t)) => q.count = 1
    <3>1. p \in Filled /\ p.count \in Nat /\ k + 1 \in Nat
      BY <2>1, <2>3 DEF Filled
    <3> DEFINE m == k + 1
               r == Turned(t, off, m, p)
    <3>2. r \in Filled
      BY <3>1, TurnedIs
    <3>3. r.count # p.count => p.count = m - 1 /\ r.count = m /\ off + m \in 1 .. Entries(t)
      BY <3>1, TurnedIs
    <3>4. (p = Nothing /\ m = 1 /\ off < Entries(t)) => r.count = 1
      BY <3>1, TurnedIs
    <3> QED
      BY <2>1, <2>2, <3>1, <3>2, <3>3, <3>4
  <2>5. q.count <= k + 1
    BY <2>1, <2>3, <2>4
  <2>6. \A i \in 1 .. q.count : off + i \in 1 .. Entries(t)
    BY <2>1, <2>3, <2>4
  <2>7. off < Entries(t) => q.count >= 1
    BY <2>1, <2>3, <2>4
  <2>8. InPage(q, k + 1)
    BY <2>1, <2>4, <2>5, <2>6, <2>7
  <2> QED
    BY <2>1, <2>8 DEF q
<1> HIDE DEF T
<1>11. \A k \in 0 .. limit : k \in T
  BY <1>1, <1>9, <1>10, UpTo
<1>12. limit \in T
  BY <1>1, <1>11
<1>13. InPage(page[limit], limit)
  BY <1>12 DEF T
<1> QED
  BY <1>1, <1>7, <1>13 DEF Filled

\* What a page adds to what the client has been shown.
LEMMA ListKeeps ==
  ASSUME FilesTypeOK, NEW limit \in Limits, List(limit)
  PROVE  /\ offset' \in Nat /\ pages' \in Seq(NameSet) /\ listing' \in {"yes", "done"}
         /\ undisturbed' \in BOOLEAN
<1> DEFINE n == PageCount(limit)
           added == [i \in 1 .. n |-> Names[Nth(tree, Top, offset + i)]]
<1>1. n \in Nat /\ \A i \in 1 .. n : offset + i \in 1 .. Entries(tree)
  BY PageIs DEF FilesTypeOK, PageCount
<1>2. offset' = offset + n /\ pages' = pages \o added /\ listing' \in {"yes", "done"}
  BY DEF List, NextOffset
<1>3. undisturbed' \in BOOLEAN
  BY Zenon DEF List
<1>4. \A i \in 1 .. n : Names[Nth(tree, Top, offset + i)] \in NameSet
  <2> TAKE i \in 1 .. n
  <2>1. Nth(tree, Top, offset + i) \in DOMAIN Names
    BY <1>1, NthIs, ChildrenAre DEF Entries
  <2> QED
    BY <2>1, NamesAre
<1> HIDE DEF n
<1>5. added \in Seq(NameSet)
  BY <1>1, <1>4, IsASeq
<1> HIDE DEF added
<1> QED
  BY <1>1, <1>2, <1>3, <1>5, ConcatProperties DEF FilesTypeOK

LEMMA DeleteOneKeeps ==
  ASSUME Pruned, NEW p, DeleteOne(p)
  PROVE  Pruned'
<1>1. /\ full = <<>> /\ full' = <<>> /\ p \in DOMAIN tree /\ before' = tree
      /\ offset' = offset /\ pages' = pages /\ listing' = listing
  BY DEF DeleteOne, Idle, client
<1>2. undisturbed' \in BOOLEAN
  BY Zenon DEF DeleteOne
<1>3. IsTree(tree) /\ outcome' \in {"ok", "ENOTEMPTY"}
  BY DEF DeleteOne, Pruned, FilesTypeOK
<1>4. IsTree(tree') /\ files' \in Nat /\ dirs' \in Nat
  <2>1. CASE tree[p] = "dir" /\ Children(tree, p) # {}
    BY <2>1 DEF DeleteOne, Pruned, FilesTypeOK
  <2>2. CASE ~(tree[p] = "dir" /\ Children(tree, p) # {})
    <3>1. /\ tree' = Without(tree, p) /\ files' = (IF tree[p] = "file" THEN 1 ELSE 0)
          /\ dirs' = 1 - files'
      BY <2>2 DEF DeleteOne
    <3>2. tree[p] = "file" \/ Children(tree, p) = {}
      BY <1>1, <1>3, <2>2, TreeIs
    <3>3. IsTree(Without(tree, p))
      BY <1>1, <1>3, <3>2, WithoutIs
    <3> QED
      BY <3>1, <3>3
  <2> QED
    BY <2>1, <2>2
<1>5. FilesTypeOK'
  BY <1>1, <1>2, <1>3, <1>4 DEF Pruned, FilesTypeOK
<1> QED
  BY <1>1, <1>3, <1>5 DEF Pruned, InTree, Accounted, AllGone, Counted

LEMMA MkdirKeeps ==
  ASSUME Pruned, NEW p \in Paths, Mkdir(p)
  PROVE  Pruned'
<1>1. /\ full = <<>> /\ full' = <<>> /\ before' = before /\ files' = files /\ dirs' = dirs
      /\ offset' = offset /\ pages' = pages /\ listing' = listing
      /\ undisturbed' = FALSE /\ outcome' = "none"
  BY DEF Mkdir, Idle, client
<1>2. IsTree(tree')
  <2>1. /\ p \notin DOMAIN tree
        /\ Len(p) = 1 \/ (CutBack(p) \in DOMAIN tree /\ tree[CutBack(p)] = "dir")
        /\ tree' = [q \in DOMAIN tree \cup {p} |-> IF q = p THEN "dir" ELSE tree[q]]
    BY DEF Mkdir, CutBack
  <2>2. IsTree(tree)
    BY DEF Pruned, FilesTypeOK
  <2> QED
    BY <2>1, <2>2, WithIs
<1>3. FilesTypeOK'
  BY <1>1, <1>2 DEF Pruned, FilesTypeOK
<1> QED
  BY <1>1, <1>3 DEF Pruned, InTree, Accounted, AllGone, Counted

\* The delete of a tree, whose steps may each fail, the other commands
\* between two deletes, and a client's pages keep the account.
LEMMA PrunedAlways == FilesSpec => []Pruned
<1>1. FilesInit => Pruned
  <2> SUFFICES ASSUME FilesInit PROVE Pruned
    OBVIOUS
  <2>1. IsTree(tree) /\ IsTree(before)
    BY FilesAssumption DEF FilesInit
  <2>2. FilesTypeOK
    BY <2>1, EmptySeq DEF FilesInit, FilesTypeOK
  <2> QED
    BY <2>2 DEF FilesInit, Pruned, InTree, Accounted, AllGone, Counted
<1>2. Pruned /\ [FilesNext]_filesVars => Pruned'
  <2> SUFFICES ASSUME Pruned, [FilesNext]_filesVars PROVE Pruned'
    OBVIOUS
  <2>1. ASSUME DeleteTree PROVE Pruned'
    <3>1. /\ full' = Top /\ files' = 0 /\ dirs' = 0 /\ outcome' = "running" /\ before' = tree
          /\ tree' = tree /\ Top \in DOMAIN tree /\ tree[Top] = "dir"
          /\ UNCHANGED <<offset, pages, listing, undisturbed>>
      BY <2>1 DEF DeleteTree, client
    <3>2. Top \in Seq(NameSet) /\ Under(Top)
      <4>1. Top \in Seq(NameSet)
        BY FilesAssumption
      <4>2. SubSeq(Top, 1, Len(Top)) = Top /\ Len(Top) \in Nat
        BY <4>1, SubSeqFull, LenProperties
      <4> QED
        BY <4>1, <4>2 DEF Under
    <3>3. FilesTypeOK'
      BY <3>1, <3>2 DEF Pruned, FilesTypeOK, Counted
    <3>4. Gone' = {} /\ GoneAs("file")' = {} /\ GoneAs("dir")' = {}
      BY <3>1 DEF Gone, GoneAs
    <3>5. Accounted'
      BY <3>1, <3>4, FS_EmptySet DEF Accounted
    <3> QED
      BY <3>1, <3>2, <3>3, <3>5 DEF Pruned, InTree, AllGone, Under
  <2>2. ASSUME TurnRefused PROVE Pruned'
    <3>1. /\ full # <<>> /\ UNCHANGED <<tree, before>> /\ UNCHANGED <<offset, pages, listing, undisturbed>>
          /\ \E why \in {"EDEPTH", "ELIMIT", "EIO", "EPATHLEN"} : Stop(why)
      BY <2>2 DEF TurnRefused, Idle, client
    <3>2. PICK why \in Counted \ {"complete"} : Stop(why)
      BY <3>1 DEF Counted
    <3>3. outcome = "running"
      BY <3>1 DEF Pruned, InTree
    <3>4. FilesTypeOK'
      BY <3>1, <3>2, EmptySeq DEF Pruned, FilesTypeOK, Stop
    <3> QED
      BY <3>1, <3>2, <3>3, <3>4, StopKeeps
  <2>3. ASSUME Descend PROVE Pruned'
    <3>1. /\ full # <<>> /\ Children(tree, full) # {} /\ tree[Append(full, First)] = "dir"
          /\ full' = Append(full, First)
          /\ UNCHANGED <<tree, before, files, dirs, outcome>>
          /\ UNCHANGED <<offset, pages, listing, undisturbed>>
      BY <2>3 DEF Descend, Turns, Idle, client
    <3>2. outcome = "running" /\ full \in Seq(NameSet) /\ Under(full)
      BY <3>1 DEF Pruned, InTree, FilesTypeOK
    <3>3. full' \in DOMAIN tree /\ full' \in Paths /\ Under(full')
      BY <3>1, <3>2, FirstIs, ChildrenAre, EntryIs DEF First
    <3>4. FilesTypeOK'
      BY <3>1, <3>3 DEF Pruned, FilesTypeOK, Paths
    <3>5. Gone' = Gone /\ GoneAs("file")' = GoneAs("file") /\ GoneAs("dir")' = GoneAs("dir")
      BY <3>1 DEF Gone, GoneAs
    <3>6. Accounted'
      BY <3>1, <3>5 DEF Pruned, Accounted, Under
    <3> QED
      BY <3>1, <3>2, <3>3, <3>4, <3>6 DEF Pruned, InTree, AllGone, Under
  <2>4. ASSUME UNCHANGED <<tree, before, full, files, dirs, outcome>>, FilesTypeOK' PROVE Pruned'
    <3>1. Gone' = Gone /\ GoneAs("file")' = GoneAs("file") /\ GoneAs("dir")' = GoneAs("dir")
      BY <2>4 DEF Gone, GoneAs
    <3>2. Accounted'
      BY <2>4, <3>1 DEF Pruned, Accounted, Under
    <3> QED
      BY <2>4, <3>2 DEF Pruned, InTree, AllGone, Under
  <2>5. ASSUME Relist PROVE Pruned'
    <3>1. /\ UNCHANGED <<tree, before, full, files, dirs, outcome>>
          /\ offset' = 0 /\ pages' = <<>> /\ listing' = "no" /\ undisturbed' = undisturbed
      BY <2>5 DEF Relist, deleting
    <3>2. FilesTypeOK'
      BY <3>1, EmptySeq DEF Pruned, FilesTypeOK
    <3> QED
      BY <2>4, <3>1, <3>2
  <2>6. ASSUME NEW limit \in Limits, List(limit) PROVE Pruned'
    <3>1. UNCHANGED <<tree, before, full, files, dirs, outcome>>
      BY <2>6 DEF List, deleting
    <3>2. FilesTypeOK'
      BY <2>6, <3>1, ListKeeps DEF Pruned, FilesTypeOK
    <3> QED
      BY <2>4, <3>1, <3>2
  <2>7. ASSUME NEW p \in {Top, Append(Top, Names[1])}, Mkdir(p) PROVE Pruned'
    <3>1. p \in Paths
      BY FilesAssumption, NamesAre, EntryIs DEF Paths
    <3> QED
      BY <2>7, <3>1, MkdirKeeps
  <2>8. ASSUME UNCHANGED filesVars PROVE Pruned'
    <3>1. UNCHANGED <<tree, before, full, files, dirs, outcome>> /\ UNCHANGED <<offset, pages, listing, undisturbed>>
      BY <2>8 DEF filesVars, deleting, client
    <3>2. FilesTypeOK'
      BY <3>1 DEF Pruned, FilesTypeOK
    <3> QED
      BY <2>4, <3>1, <3>2
  <2> QED
    BY <2>1, <2>2, <2>3, <2>5, <2>6, <2>7, <2>8, DeleteOneKeeps, UnlinkKeeps, RmdirKeeps DEF FilesNext
<1> QED
  BY <1>1, <1>2, PTL DEF FilesSpec

\* The state of the directory operations has its type: the card holds a tree,
\* and the path buffer, the counts and the client's pages stay what they are.
THEOREM FilesTypeCorrect == FilesSpec => []FilesTypeOK
BY PrunedAlways, PTL DEF Pruned

\* However a recursive delete ends, and wherever it is, what it says it
\* removed is what is gone, and ok means all of it (mod_storage.cpp:1365-1545).
THEOREM DeleteTellsTruth == FilesSpec => []DeleteTruthful
<1>1. Pruned => DeleteTruthful
  <2> SUFFICES ASSUME Pruned PROVE DeleteTruthful
    OBVIOUS
  <2>1. \A p \in DOMAIN tree : Len(p) > 1 => CutBack(p) \in DOMAIN tree
    BY DEF Pruned, FilesTypeOK, IsTree
  <2> QED
    BY <2>1 DEF Pruned, Accounted, AllGone, DeleteTruthful, Gone, GoneAs, Counted
<1> QED
  BY <1>1, PrunedAlways, PTL

-----------------------------------------------------------------------------
(* A listing shows every entry once.                                       *)

\* The names of the first n entries.
Shown(n) == [i \in 1 .. n |-> Names[Nth(tree, Top, i)]]

\* As long as nothing changes, a client has been shown as many entries as its
\* next offset says, in their order.
Following ==
  /\ listing = "no" => offset = 0 /\ pages = <<>>
  /\ listing # "no" /\ undisturbed =>
       /\ offset <= Entries(tree)
       /\ listing = "yes" => offset < Entries(tree)
       /\ listing = "done" => offset = Entries(tree)
       /\ pages = Shown(offset)

LEMMA ShownIs ==
  ASSUME NEW n \in Nat, n <= Entries(tree)
  PROVE  /\ Shown(n) \in Seq(NameSet) /\ Len(Shown(n)) = n
         /\ \A i \in 1 .. n : Shown(n)[i] = Names[Nth(tree, Top, i)]
<1>1. \A i \in 1 .. n : Names[Nth(tree, Top, i)] \in NameSet
  <2> TAKE i \in 1 .. n
  <2>1. i \in 1 .. Cardinality(Children(tree, Top))
    BY ChildrenAre DEF Entries
  <2>2. Nth(tree, Top, i) \in DOMAIN Names
    BY <2>1, NthIs, ChildrenAre
  <2> QED
    BY <2>2, NamesAre
<1> QED
  BY <1>1, IsASeq DEF Shown

LEMMA ListFollows ==
  ASSUME FilesTypeOK, Following, NEW limit \in Limits, List(limit)
  PROVE  Following'
<1> DEFINE n == PageCount(limit)
           added == [i \in 1 .. n |-> Names[Nth(tree, Top, offset + i)]]
<1>1. /\ n \in Nat /\ \A i \in 1 .. n : offset + i \in 1 .. Entries(tree)
      /\ offset \in Nat /\ Entries(tree) \in Nat
  BY PageIs, ChildrenAre DEF FilesTypeOK, PageCount, Entries
<1>2. /\ offset' = offset + n /\ pages' = pages \o added /\ tree' = tree
      /\ listing' = (IF offset + n < Entries(tree) THEN "yes" ELSE "done")
      /\ undisturbed' = (listing = "no" \/ undisturbed)
      /\ listing # "done"
  BY DEF List, NextOffset, Truncated, Entries
<1> SUFFICES ASSUME undisturbed' PROVE Following'
  BY <1>2 DEF Following
<1>3. offset <= Entries(tree) /\ pages = Shown(offset)
  <2>1. CASE listing = "no"
    <3>1. offset = 0 /\ pages = <<>>
      BY <2>1 DEF Following
    <3>2. Shown(0) \in Seq(NameSet) /\ Len(Shown(0)) = 0
      BY <1>1, ShownIs
    <3> QED
      BY <1>1, <3>1, <3>2, EmptySeq
  <2>2. CASE listing # "no"
    BY <1>2, <2>2 DEF Following
  <2> QED
    BY <2>1, <2>2
<1>4. offset + n \in Nat /\ offset + n <= Entries(tree)
  <2>1. CASE n = 0
    BY <1>1, <1>3, <2>1
  <2>2. CASE n # 0
    <3>1. n \in 1 .. n
      BY <1>1, <2>2
    <3> QED
      BY <1>1, <3>1
  <2> QED
    BY <2>1, <2>2
<1>5. pages' = Shown(offset + n)
  <2>1. \A i \in 1 .. n : added[i] = Shown(offset + n)[offset + i]
    <3> TAKE i \in 1 .. n
    <3>1. offset + i \in 1 .. offset + n
      BY <1>1
    <3> QED
      BY <1>4, <3>1, ShownIs
  <2>2. added \in Seq(NameSet) /\ Len(added) = n
    <3>1. \A i \in 1 .. n : offset + i \in 1 .. offset + n /\ Shown(offset + n)[offset + i] \in NameSet
      BY <1>1, <1>4, ShownIs, ElementOfSeq
    <3>2. \A i \in 1 .. n : Names[Nth(tree, Top, offset + i)] \in NameSet
      BY <2>1, <3>1
    <3> HIDE DEF n
    <3> QED
      BY <1>1, <3>2, IsASeq
  <2> HIDE DEF added, n
  <2>3. /\ pages \in Seq(NameSet) /\ Len(pages) = offset
        /\ \A i \in 1 .. offset : pages[i] = Names[Nth(tree, Top, i)]
    BY <1>1, <1>3, ShownIs
  <2>4. /\ Shown(offset + n) \in Seq(NameSet) /\ Len(Shown(offset + n)) = offset + n
        /\ \A i \in 1 .. offset + n : Shown(offset + n)[i] = Names[Nth(tree, Top, i)]
    BY <1>4, ShownIs
  <2>5. /\ pages \o added \in Seq(NameSet) /\ Len(pages \o added) = offset + n
        /\ \A i \in 1 .. offset + n :
             (pages \o added)[i] = IF i <= offset THEN pages[i] ELSE added[i - offset]
    BY <1>1, <2>2, <2>3, ConcatProperties
  <2>6. ASSUME NEW i \in 1 .. offset + n PROVE (pages \o added)[i] = Shown(offset + n)[i]
    <3>1. CASE i <= offset
      BY <1>1, <2>3, <2>4, <2>5, <3>1
    <3>2. CASE ~(i <= offset)
      <4>1. i - offset \in 1 .. n /\ offset + (i - offset) = i
        BY <1>1, <3>2
      <4> QED
        BY <2>1, <2>5, <3>2, <4>1
    <3> QED
      BY <3>1, <3>2
  <2>7. pages \o added = Shown(offset + n)
    BY <2>4, <2>5, <2>6, SeqEqual
  <2> QED
    BY <1>2, <2>7
<1>6. Entries(tree)' = Entries(tree) /\ Shown(offset)' = Shown(offset + n)
  BY <1>2 DEF Shown, Entries
<1> HIDE DEF n
<1>7. pages' = Shown(offset)'
  BY <1>5, <1>6
<1>8. /\ offset' <= Entries(tree)' /\ listing' # "no"
      /\ listing' = "yes" => offset' < Entries(tree)'
      /\ listing' = "done" => offset' = Entries(tree)'
  BY <1>1, <1>2, <1>4, <1>6
<1> QED
  BY <1>7, <1>8 DEF Following

LEMMA FollowingAlways == FilesSpec => []Following
<1>1. FilesInit => Following
  BY DEF FilesInit, Following
<1>2. Pruned /\ Following /\ [FilesNext]_filesVars => Following'
  <2> SUFFICES ASSUME Pruned, Following, [FilesNext]_filesVars PROVE Following'
    OBVIOUS
  <2>1. ASSUME UNCHANGED <<offset, pages, listing>>, undisturbed' => undisturbed /\ tree' = tree
        PROVE  Following'
    <3>1. CASE undisturbed'
      <4>1. Entries(tree)' = Entries(tree) /\ Shown(offset)' = Shown(offset)
        BY <2>1, <3>1 DEF Shown, Entries
      <4> QED
        BY <2>1, <3>1, <4>1 DEF Following
    <3>2. CASE ~undisturbed'
      BY <2>1, <3>2 DEF Following
    <3> QED
      BY <3>1, <3>2
  <2>2. ASSUME DeleteTree \/ TurnRefused \/ Descend \/ UNCHANGED filesVars PROVE Following'
    <3>1. UNCHANGED <<offset, pages, listing>> /\ undisturbed' = undisturbed /\ tree' = tree
      BY <2>2 DEF DeleteTree, TurnRefused, Descend, filesVars, client
    <3> QED
      BY <2>1, <3>1
  <2>3. ASSUME Relist PROVE Following'
    BY <2>3 DEF Relist, Following
  <2>4. ASSUME NEW p, DeleteOne(p) PROVE Following'
    <3>1. UNCHANGED <<offset, pages, listing>> /\ undisturbed' = (tree' = tree /\ undisturbed)
      BY <2>4 DEF DeleteOne, client
    <3> QED
      BY <2>1, <3>1
  <2>5. ASSUME NEW p, Mkdir(p) PROVE Following'
    <3>1. UNCHANGED <<offset, pages, listing>> /\ undisturbed' = FALSE
      BY <2>5 DEF Mkdir, client
    <3> QED
      BY <2>1, <3>1
  <2>6. ASSUME NEW ok \in BOOLEAN, Unlink(ok) \/ Rmdir(ok) PROVE Following'
    <3>1. UNCHANGED <<offset, pages, listing>> /\ undisturbed' = (undisturbed /\ ~ok)
      BY <2>6 DEF Unlink, Rmdir, client
    <3>2. ~ok => tree' = tree
      BY <2>6 DEF Unlink, Rmdir
    <3> QED
      BY <2>1, <3>1, <3>2
  <2>7. ASSUME NEW limit \in Limits, List(limit) PROVE Following'
    BY <2>7, ListFollows DEF Pruned
  <2> QED
    BY <2>2, <2>3, <2>4, <2>5, <2>6, <2>7 DEF FilesNext
<1> QED
  BY <1>1, <1>2, PrunedAlways, PTL DEF FilesSpec

\* Whatever limits a client asks for and wherever the byte budget cuts a page,
\* following next_offset to the end of a directory that nothing changes shows
\* each entry once and never goes round on an empty page
\* (mod_storage.cpp:970-1079).
THEOREM PagesCoverTheDirectory == FilesSpec => []PagesCover
<1>1. Pruned /\ Following => PagesCover
  <2> SUFFICES ASSUME Pruned, Following PROVE PagesCover
    OBVIOUS
  <2>1. offset \in Nat /\ Entries(tree) \in Nat
    BY ChildrenAre DEF Pruned, FilesTypeOK, Entries
  <2>2. ASSUME listing = "yes", undisturbed PROVE \E limit \in Limits : PageCount(limit) > 0
    <3>1. PICK limit \in Limits : TRUE
      BY FilesAssumption
    <3>2. offset < Entries(tree)
      BY <2>2 DEF Following
    <3>3. PageCount(limit) \in Nat /\ PageCount(limit) >= 1
      BY <2>1, <3>2, PageIs DEF PageCount
    <3> QED
      BY <3>3
  <2>3. ASSUME listing = "done", undisturbed
        PROVE  /\ Len(pages) = Cardinality(Children(tree, Top))
               /\ \A i, j \in DOMAIN pages : i # j => pages[i] # pages[j]
    <3>1. offset = Entries(tree) /\ pages = Shown(offset)
      BY <2>3 DEF Following
    <3>2. /\ pages \in Seq(NameSet) /\ Len(pages) = Entries(tree)
          /\ \A i \in 1 .. Entries(tree) : pages[i] = Names[Nth(tree, Top, i)]
      BY <2>1, <3>1, ShownIs
    <3>3. DOMAIN pages = 1 .. Entries(tree)
      BY <3>2, LenProperties
    <3>4. ASSUME NEW i \in 1 .. Entries(tree), NEW j \in 1 .. Entries(tree), pages[i] = pages[j]
          PROVE  i = j
      <4>1. /\ Nth(tree, Top, i) \in DOMAIN Names /\ Nth(tree, Top, j) \in DOMAIN Names
            /\ Cardinality(Below(Children(tree, Top), Nth(tree, Top, i))) = i - 1
            /\ Cardinality(Below(Children(tree, Top), Nth(tree, Top, j))) = j - 1
        BY NthIs, ChildrenAre DEF Entries
      <4>2. Nth(tree, Top, i) = Nth(tree, Top, j)
        BY <3>2, <3>4, <4>1, FilesAssumption
      <4> QED
        BY <2>1, <4>1, <4>2
    <3> QED
      BY <3>2, <3>3, <3>4 DEF Entries
  <2> QED
    BY <2>2, <2>3 DEF PagesCover
<1> QED
  BY <1>1, PrunedAlways, FollowingAlways, PTL

-----------------------------------------------------------------------------
(* Paths: segments.                                                        *)

Bytes == Alphabet \cup {Slash}
Text == Seq(Bytes)

\* A set of numbers up to n has a greatest one.
LEMMA HighestIs ==
  ASSUME NEW n \in Nat, NEW T \in SUBSET (0 .. n), T # {}
  PROVE  Highest(T) \in T /\ \A m \in T : m <= Highest(T)
<1> DEFINE Gaps == {k \in 0 .. n : n - k \in T}
<1>1. Gaps \in SUBSET Nat /\ Gaps # {}
  <2>1. PICK m \in T : TRUE
    OBVIOUS
  <2>2. n - m \in 0 .. n /\ n - (n - m) = m
    OBVIOUS
  <2> QED
    BY <2>1, <2>2
<1>2. PICK g \in Gaps : \A k \in Gaps : g <= k
  BY <1>1, Least
<1>3. n - g \in T
  OBVIOUS
<1>4. ASSUME NEW m \in T PROVE m <= n - g
  <2>1. n - m \in 0 .. n /\ n - (n - m) = m
    OBVIOUS
  <2>2. g <= n - m
    BY <1>2, <2>1
  <2> QED
    BY <2>1, <2>2
<1>5. \E x \in T : \A m \in T : m <= x
  BY <1>3, <1>4
<1> QED
  BY <1>5 DEF Highest

LEMMA PieceIs ==
  ASSUME NEW p \in Text, NEW m \in 1 .. Len(p) + 1, NEW n \in m - 1 .. Len(p)
  PROVE  /\ SubSeq(p, m, n) \in Text /\ Len(SubSeq(p, m, n)) = n - m + 1
         /\ \A i \in 1 .. n - m + 1 : SubSeq(p, m, n)[i] = p[m + i - 1]
<1>1. Len(p) \in Nat /\ n \in Nat /\ m \in Nat /\ \A i \in m .. n : p[i] \in Bytes
  BY ElementOfSeq, LenProperties DEF Text
<1>2. /\ SubSeq(p, m, n) \in Seq(Bytes)
      /\ Len(SubSeq(p, m, n)) = IF m <= n THEN n - m + 1 ELSE 0
      /\ \A i \in 1 .. n - m + 1 : SubSeq(p, m, n)[i] = p[m + i - 1]
  BY <1>1, SubSeqProperties
<1>3. (IF m <= n THEN n - m + 1 ELSE 0) = n - m + 1
  BY <1>1
<1> QED
  BY <1>2, <1>3 DEF Text

\* A segment runs up to the next slash or the end.
LEMMA SegmentEndIs ==
  ASSUME NEW p \in Text, NEW i \in 1 .. Len(p) + 1
  PROVE  /\ SegmentEnd(p, i) \in i - 1 .. Len(p)
         /\ \A k \in i .. SegmentEnd(p, i) : p[k] # Slash
         /\ SegmentEnd(p, i) = Len(p) \/ p[SegmentEnd(p, i) + 1] = Slash
<1> DEFINE Slashes == {j \in i .. Len(p) : p[j] = Slash}
<1>1. Len(p) \in Nat /\ i \in Nat
  BY LenProperties DEF Text
<1>2. CASE Slashes = {}
  <2>1. SegmentEnd(p, i) = Len(p)
    BY <1>2 DEF SegmentEnd
  <2> QED
    BY <1>1, <1>2, <2>1
<1>3. CASE Slashes # {}
  <2>1. Slashes \in SUBSET Nat
    BY <1>1
  <2>2. PICK j \in Slashes : \A k \in Slashes : j <= k
    BY <1>3, <2>1, Least
  <2>3. \A k \in i .. (j - 1) : p[k] # Slash
    <3> SUFFICES ASSUME NEW k \in i .. (j - 1), p[k] = Slash PROVE FALSE
      OBVIOUS
    <3>1. k \in Slashes
      BY <1>1
    <3> QED
      BY <1>1, <2>2, <3>1
  <2> DEFINE c == CHOOSE x \in i .. Len(p) : p[x] = Slash /\ \A k \in i .. (x - 1) : p[k] # Slash
  <2>4. j \in i .. Len(p) /\ p[j] = Slash
    OBVIOUS
  <2>5. c \in i .. Len(p) /\ p[c] = Slash /\ \A k \in i .. (c - 1) : p[k] # Slash
    BY <2>3, <2>4
  <2>6. SegmentEnd(p, i) = c - 1
    BY <2>4 DEF SegmentEnd
  <2> HIDE DEF c
  <2> QED
    BY <1>1, <2>5, <2>6
<1> QED
  BY <1>2, <1>3

LEMMA SegmentEndsAt ==
  ASSUME NEW p \in Text, NEW i \in 1 .. Len(p) + 1, NEW e \in i - 1 .. Len(p),
         \A k \in i .. e : p[k] # Slash, e = Len(p) \/ p[e + 1] = Slash
  PROVE  SegmentEnd(p, i) = e
<1> DEFINE f == SegmentEnd(p, i)
<1>1. f \in i - 1 .. Len(p) /\ (\A k \in i .. f : p[k] # Slash) /\ (f = Len(p) \/ p[f + 1] = Slash)
  BY SegmentEndIs
<1> HIDE DEF f
<1>2. Len(p) \in Nat /\ i \in Nat
  BY LenProperties DEF Text
<1>3. ~(e < f)
  <2> SUFFICES ASSUME e < f PROVE FALSE
    OBVIOUS
  <2>1. p[e + 1] = Slash /\ e + 1 \in i .. f
    BY <1>1, <1>2
  <2> QED
    BY <1>1, <2>1
<1>4. ~(f < e)
  <2> SUFFICES ASSUME f < e PROVE FALSE
    OBVIOUS
  <2>1. p[f + 1] = Slash /\ f + 1 \in i .. e
    BY <1>1, <1>2
  <2> QED
    BY <2>1
<1> QED
  BY <1>1, <1>2, <1>3, <1>4 DEF f

-----------------------------------------------------------------------------
(* What the two checkers accept.                                           *)

\* A path of names that neither a filesystem's second separator nor its
\* habit of dropping bytes can make another of.
Plain(p) ==
  /\ Len(p) >= 2 /\ p[1] = Slash
  /\ \A i \in 1 .. Len(p) : p[i] # Backslash
  /\ \A i \in 1 .. Len(p) : p[i] = Slash => i < Len(p) /\ p[i + 1] # Slash
  /\ \A i \in 2 .. Len(p) :
       p[i] # Slash /\ (i = Len(p) \/ p[i + 1] = Slash) => p[i] \notin {Dot, Space}

LEMMA SegmentOk ==
  ASSUME NEW s \in Text, SegmentResult(s) = "ok"
  PROVE  Len(s) \in Nat /\ Len(s) >= 1 /\ s[Len(s)] \notin {Dot, Space}
<1>1. s # <<>> /\ s[Len(s)] \notin {Dot, Space}
  BY DEF SegmentResult
<1>2. Len(s) \in Nat /\ Len(s) # 0
  BY <1>1, EmptySeq, LenProperties DEF Text
<1> QED
  BY <1>1, <1>2

LEMMA CheckIs ==
  ASSUME NEW p \in Text, check(p) = "ok", Len(p) >= 2
  PROVE  Plain(p)
<1> DEFINE bad == {i \in 1 .. Len(p) : p[i] \in {Backslash} \cup Control \cup Reserved}
           refused == {i \in Starts(p) : SegmentResult(Segment(p, i)) # "ok"}
<1>0. Len(p) \in Nat /\ p # <<>>
  BY EmptySeq, LenProperties DEF Text
<1>1. p[1] = Slash /\ bad = {}
  BY <1>0 DEF check
<1>2. refused = {}
  <2> SUFFICES ASSUME refused # {} PROVE FALSE
    OBVIOUS
  <2> DEFINE least == CHOOSE i \in refused : \A j \in refused : i <= j
  <2>1. SegmentResult(Segment(p, least)) = "ok"
    <3>1. check(p) = SegmentResult(Segment(p, least))
      BY <1>0, <1>1 DEF check
    <3> QED
      BY <3>1
  <2>2. refused \in SUBSET Nat
    BY <1>0 DEF Starts
  <2>3. \E i \in refused : \A j \in refused : i <= j
    BY <2>2, Least
  <2>4. least \in refused
    BY <2>3
  <2> QED
    BY <2>1, <2>4
<1>3. ASSUME NEW i \in 1 .. Len(p), p[i] = Slash
      PROVE  /\ i + 1 \in 1 .. Len(p) + 1 /\ Segment(p, i + 1) \in Text
             /\ Len(Segment(p, i + 1)) = SegmentEnd(p, i + 1) - i /\ SegmentEnd(p, i + 1) > i
             /\ SegmentEnd(p, i + 1) \in 1 .. Len(p)
             /\ p[SegmentEnd(p, i + 1)] \notin {Dot, Space}
             /\ \A k \in i + 1 .. SegmentEnd(p, i + 1) : p[k] # Slash
  <2> DEFINE e == SegmentEnd(p, i + 1)
             s == Segment(p, i + 1)
  <2>1. i + 1 \in 1 .. Len(p) + 1
    BY <1>0
  <2>2. e \in (i + 1) - 1 .. Len(p) /\ \A k \in i + 1 .. e : p[k] # Slash
    BY <2>1, SegmentEndIs
  <2>3. s = SubSeq(p, i + 1, e)
    BY DEF Segment
  <2> HIDE DEF e
  <2>4. s \in Text /\ Len(s) = e - (i + 1) + 1 /\ \A k \in 1 .. e - (i + 1) + 1 : s[k] = p[(i + 1) + k - 1]
    BY <2>1, <2>2, <2>3, PieceIs
  <2>5. i + 1 \in Starts(p)
    BY <1>3 DEF Starts
  <2>6. SegmentResult(s) = "ok"
    BY <1>2, <2>5
  <2> HIDE DEF s
  <2>7. Len(s) >= 1 /\ s[Len(s)] \notin {Dot, Space}
    BY <2>4, <2>6, SegmentOk
  <2>8. e > i /\ Len(s) = e - i /\ s[Len(s)] = p[e]
    BY <1>0, <2>2, <2>4, <2>7
  <2> QED
    BY <1>0, <2>1, <2>2, <2>4, <2>7, <2>8 DEF e, s
<1>4. ASSUME NEW i \in 1 .. Len(p), p[i] = Slash PROVE i < Len(p) /\ p[i + 1] # Slash
  <2> DEFINE e == SegmentEnd(p, i + 1)
  <2>1. e \in 1 .. Len(p) /\ e > i /\ \A k \in i + 1 .. e : p[k] # Slash
    BY <1>3, <1>4
  <2> HIDE DEF e
  <2>2. i + 1 \in i + 1 .. e
    BY <1>0, <2>1
  <2> QED
    BY <1>0, <2>1, <2>2
<1>5. ASSUME NEW i \in 2 .. Len(p), p[i] # Slash, i = Len(p) \/ p[i + 1] = Slash
      PROVE  p[i] \notin {Dot, Space}
  <2> DEFINE T == {j \in 0 .. i : j >= 1 /\ p[j] = Slash}
             b == Highest(T)
  <2>1. i \in Nat /\ 1 \in T
    BY <1>0, <1>1
  <2>2. T \in SUBSET (0 .. i) /\ T # {}
    BY <2>1
  <2>3. b \in T /\ \A m \in T : m <= b
    BY <2>1, <2>2, HighestIs
  <2> HIDE DEF b
  <2>4. b \in 1 .. i - 1 /\ b \in 1 .. Len(p) /\ p[b] = Slash
    BY <1>0, <1>5, <2>1, <2>3
  <2>5. \A k \in b + 1 .. i : p[k] # Slash
    <3> SUFFICES ASSUME NEW k \in b + 1 .. i, p[k] = Slash PROVE FALSE
      OBVIOUS
    <3>1. k \in T
      BY <2>1, <2>4
    <3> QED
      BY <2>1, <2>3, <2>4, <3>1
  <2> HIDE DEF T
  <2>6. b + 1 \in 1 .. Len(p) + 1 /\ i \in (b + 1) - 1 .. Len(p)
    BY <1>0, <2>1, <2>4
  <2>7. SegmentEnd(p, b + 1) = i
    BY <1>5, <2>5, <2>6, SegmentEndsAt
  <2>8. p[SegmentEnd(p, b + 1)] \notin {Dot, Space}
    BY <1>3, <2>4
  <2> QED
    BY <2>7, <2>8
<1>6. \A i \in 1 .. Len(p) : p[i] # Backslash
  BY <1>1
<1> QED
  BY <1>0, <1>1, <1>4, <1>5, <1>6 DEF Plain

\* A prefix of letters and digits in front of a path that check() has
\* accepted, or of nothing, is such a path too.
LEMMA SplitIs ==
  ASSUME NEW p \in Text, split(p).result = "ok"
  PROVE  LET e == SegmentEnd(p, 2) IN
         /\ Len(p) \in Nat /\ Len(p) >= 2 /\ Len(p) <= 1 + MaxName + MaxPath /\ p[1] = Slash
         /\ e \in 2 .. Len(p) /\ e + 1 # Len(p) /\ (e = Len(p) \/ p[e + 1] = Slash)
         /\ split(p).volume = SubSeq(p, 2, e) /\ \A i \in 2 .. e : p[i] \in VolumeBytes
         /\ split(p).rest = IF e = Len(p) THEN Root ELSE SubSeq(p, e + 1, Len(p))
<1> DEFINE name == Segment(p, 2)
           e == SegmentEnd(p, 2)
<1>0. Len(p) \in Nat /\ (p # <<>> => Len(p) # 0)
  BY EmptySeq, LenProperties DEF Text
<1>1. p # <<>> /\ p[1] = Slash /\ ~(Len(p) > 1 + MaxName + MaxPath) /\ Len(p) # 1
  BY DEF split, Fail
<1>2. /\ name # <<>> /\ (\A i \in DOMAIN name : name[i] \in VolumeBytes) /\ 1 + Len(name) + 1 # Len(p)
      /\ split(p) = [result |-> "ok", volume |-> name,
                     rest |-> IF 1 + Len(name) = Len(p) THEN Root ELSE SubSeq(p, 1 + Len(name) + 1, Len(p))]
  <2> DEFINE accepted == [result |-> "ok", volume |-> name,
                          rest |-> IF 1 + Len(name) = Len(p) THEN Root ELSE SubSeq(p, 1 + Len(name) + 1, Len(p))]
             strange == \E i \in DOMAIN name : name[i] \notin VolumeBytes
  <2>1. split(p) = IF name = <<>> THEN Fail("empty_volume")
                   ELSE IF Len(name) > MaxName THEN Fail("volume_too_long")
                   ELSE IF strange THEN Fail("volume_bad_char")
                   ELSE IF 1 + Len(name) + 1 = Len(p) THEN Fail("trailing_slash")
                   ELSE accepted
    BY <1>1 DEF split
  <2> HIDE DEF name, accepted, strange
  <2>2. /\ Fail("empty_volume").result # "ok" /\ Fail("volume_too_long").result # "ok"
        /\ Fail("volume_bad_char").result # "ok" /\ Fail("trailing_slash").result # "ok"
    BY DEF Fail
  <2>3. name # <<>> /\ ~strange /\ 1 + Len(name) + 1 # Len(p) /\ split(p) = accepted
    BY <2>1, <2>2
  <2> QED
    BY <2>3 DEF accepted, strange
<1>3. 2 \in 1 .. Len(p) + 1 /\ Len(p) >= 2
  <2>1. p # <<>>
    BY <1>1
  <2>2. Len(p) # 0
    BY <1>0, <2>1
  <2>3. Len(p) # 1
    BY <1>1
  <2>4. Len(p) \in Nat
    BY <1>0
  <2>5. \A n \in Nat : n # 0 /\ n # 1 => 2 \in 1 .. n + 1 /\ n >= 2
    OBVIOUS
  <2> QED
    BY <2>2, <2>3, <2>4, <2>5, Zenon
<1>4. e \in 2 - 1 .. Len(p) /\ (e = Len(p) \/ p[e + 1] = Slash)
  BY <1>3, SegmentEndIs
<1>5. name = SubSeq(p, 2, e)
  BY DEF Segment
<1> HIDE DEF e
<1>6. name \in Text /\ Len(name) = e - 2 + 1 /\ \A i \in 1 .. e - 2 + 1 : name[i] = p[2 + i - 1]
  BY <1>3, <1>4, <1>5, PieceIs
<1> HIDE DEF name
<1>7. Len(name) = e - 1 /\ Len(name) # 0 /\ DOMAIN name = 1 .. e - 1
  BY <1>0, <1>2, <1>4, <1>6, EmptySeq, LenProperties DEF Text
<1>8. e \in 2 .. Len(p) /\ 1 + Len(name) = e
  BY <1>0, <1>4, <1>7
<1>9. \A i \in 2 .. e : p[i] \in VolumeBytes
  <2> TAKE i \in 2 .. e
  <2>1. i - 1 \in 1 .. e - 1 /\ i - 1 \in 1 .. e - 2 + 1 /\ 2 + (i - 1) - 1 = i
    BY <1>0, <1>8
  <2> QED
    BY <1>2, <1>6, <1>7, <2>1
<1>10. Len(p) <= 1 + MaxName + MaxPath
  BY <1>0, <1>1, PathsAssumption
<1> QED
  BY <1>0, <1>1, <1>2, <1>3, <1>4, <1>5, <1>8, <1>9, <1>10 DEF e

-----------------------------------------------------------------------------
(* What a walk of a plain path enters.                                     *)

\* The slashes up to a position, with the place before the first.
Cuts(p, i) == {0} \cup {j \in 1 .. i : p[j] = Slash}

LEMMA CutsAre ==
  ASSUME NEW p \in Text, Plain(p), NEW i \in 1 .. Len(p)
  PROVE  /\ Highest(Cuts(p, i)) \in 1 .. i /\ p[Highest(Cuts(p, i))] = Slash
         /\ \A j \in 1 .. i : p[j] = Slash => j <= Highest(Cuts(p, i))
<1>0. Len(p) \in Nat /\ i \in Nat /\ p[1] = Slash
  BY LenProperties DEF Text, Plain
<1>1. Cuts(p, i) \in SUBSET (0 .. i) /\ 1 \in Cuts(p, i)
  BY <1>0 DEF Cuts
<1> DEFINE b == Highest(Cuts(p, i))
<1>2. b \in Cuts(p, i) /\ \A m \in Cuts(p, i) : m <= b
  BY <1>0, <1>1, HighestIs
<1> HIDE DEF b
<1>3. b \in 1 .. i
  BY <1>0, <1>1, <1>2
<1>4. p[b] = Slash
  BY <1>0, <1>2, <1>3 DEF Cuts
<1>5. \A j \in 1 .. i : p[j] = Slash => j <= b
  BY <1>2 DEF Cuts
<1> QED
  BY <1>3, <1>4, <1>5 DEF b

\* Without a backslash the two separators are one: a filesystem's names are
\* the segments.
LEMMA SegmentNames ==
  ASSUME NEW p \in Text, Plain(p), NEW i \in 1 .. Len(p), NEW v
  PROVE  (NameEnds(v, p, i) <=> SegmentStops(p, i)) /\ NameAt(v, p, i) = SegmentAt(p, i)
<1>0. Len(p) \in Nat /\ i \in Nat /\ \A j \in 1 .. Len(p) : p[j] # Backslash
  BY LenProperties DEF Text, Plain
<1>1. \A j \in 1 .. Len(p) : p[j] \in Separators(v) <=> p[j] = Slash
  BY <1>0 DEF Separators
<1>2. NameEnds(v, p, i) <=> SegmentStops(p, i)
  <2>1. i # Len(p) => i + 1 \in 1 .. Len(p)
    BY <1>0
  <2> QED
    BY <1>1, <2>1 DEF NameEnds, SegmentStops
<1>3. {j \in 1 .. i : p[j] \in Separators(v)} = {j \in 1 .. i : p[j] = Slash}
  <2>1. \A j \in 1 .. i : j \in 1 .. Len(p)
    BY <1>0
  <2> QED
    BY <1>1, <2>1
<1>4. NameAt(v, p, i) = SegmentAt(p, i)
  BY <1>3 DEF NameAt, SegmentAt
<1> QED
  BY <1>2, <1>4

\* A segment of a plain path is not empty and ends in neither a dot nor a space.
LEMMA SegmentAtIs ==
  ASSUME NEW p \in Text, Plain(p), NEW i \in 1 .. Len(p), SegmentStops(p, i)
  PROVE  /\ SegmentAt(p, i) = SubSeq(p, Highest(Cuts(p, i)) + 1, i) /\ SegmentAt(p, i) \in Text
         /\ Len(SegmentAt(p, i)) >= 1 /\ SegmentAt(p, i)[Len(SegmentAt(p, i))] \notin {Dot, Space}
<1>0. Len(p) \in Nat /\ i \in Nat /\ p[1] = Slash
  BY LenProperties DEF Text, Plain
<1> DEFINE b == Highest(Cuts(p, i))
<1>1. b \in 1 .. i - 1
  <2>1. b \in 1 .. i /\ p[b] = Slash
    BY CutsAre
  <2> QED
    BY <1>0, <2>1 DEF SegmentStops
<1>2. SegmentAt(p, i) = SubSeq(p, b + 1, i)
  <2>1. SegmentAt(p, i) = SubSeq(p, 1 + b, i)
    BY DEF SegmentAt, Cuts
  <2>2. 1 + b = b + 1
    BY <1>0, <1>1
  <2> QED
    BY <2>1, <2>2
<1> HIDE DEF b
<1>3. p[i] \notin {Dot, Space}
  <2>1. i \in 2 .. Len(p)
    BY <1>0, <1>1
  <2> QED
    BY <2>1 DEF Plain, SegmentStops
<1> DEFINE s == SubSeq(p, b + 1, i)
<1>4. b + 1 \in 1 .. Len(p) + 1 /\ i \in (b + 1) - 1 .. Len(p)
  BY <1>0, <1>1
<1>5. s \in Text /\ Len(s) = i - (b + 1) + 1 /\ \A k \in 1 .. i - (b + 1) + 1 : s[k] = p[(b + 1) + k - 1]
  BY <1>4, PieceIs
<1> HIDE DEF s
<1>6. Len(s) >= 1 /\ s[Len(s)] = p[i]
  BY <1>0, <1>1, <1>5
<1> QED
  BY <1>2, <1>3, <1>5, <1>6 DEF s, b

\* A name that ends in neither a dot nor a space is entered as it is written.
LEMMA EnteredIs ==
  ASSUME NEW v, NEW at, NEW s \in Text, Len(s) >= 1, s[Len(s)] \notin {Dot, Space}
  PROVE  Entered(v, at, s) = at \o Root \o Entry(v, s)
<1>0. Len(s) \in Nat
  BY LenProperties DEF Text
<1>1. s # <<Dot>> /\ s # <<Dot, Dot>>
  OBVIOUS
<1>2. Stripped(v, s) = s
  <2> DEFINE T == {0} \cup {n \in 1 .. Len(s) : s[n] \notin {Dot, Space}}
             h == Highest(T)
  <2>1. T \in SUBSET (0 .. Len(s)) /\ Len(s) \in T
    BY <1>0
  <2>2. h \in T /\ \A m \in T : m <= h
    BY <1>0, <2>1, HighestIs
  <2>3. Stripped(v, s) = IF v \in Fat THEN SubSeq(s, 1, h) ELSE s
    BY DEF Stripped
  <2> HIDE DEF h
  <2>4. h = Len(s)
    BY <1>0, <2>1, <2>2
  <2>5. SubSeq(s, 1, h) = s
    BY <2>4, SubSeqFull DEF Text
  <2> QED
    BY <2>3, <2>5
<1> QED
  BY <1>1, <1>2 DEF Entered

\* Whatever a volume takes for the same name, its walk of a plain path enters
\* the entry of each segment below that of the one before.
LEMMA OpenedIs ==
  ASSUME NEW p \in Text, Plain(p) \/ p = <<>>, NEW v
  PROVE  Opened(v, p) = Spelled(v, p)
<1> DEFINE Walk(f, i) ==
             IF i = 0 THEN <<>>
             ELSE IF NameEnds(v, p, i) THEN Entered(v, f[i - 1], NameAt(v, p, i)) ELSE f[i - 1]
           Read(f, i) ==
             IF i = 0 THEN <<>>
             ELSE IF SegmentStops(p, i) THEN f[i - 1] \o Root \o Entry(v, SegmentAt(p, i)) ELSE f[i - 1]
<1>1. ASSUME NEW f, NEW i \in 0 .. Len(p) PROVE Walk(f, i) = Read(f, i)
  <2>1. CASE i = 0
    BY <2>1
  <2>2. CASE i # 0
    <3>1. i \in 1 .. Len(p) /\ Plain(p)
      BY <2>2, LenProperties DEF Text
    <3>2. (NameEnds(v, p, i) <=> SegmentStops(p, i)) /\ NameAt(v, p, i) = SegmentAt(p, i)
      BY <3>1, SegmentNames
    <3>3. SegmentStops(p, i)
            => Entered(v, f[i - 1], SegmentAt(p, i)) = f[i - 1] \o Root \o Entry(v, SegmentAt(p, i))
      <4> SUFFICES ASSUME SegmentStops(p, i)
                   PROVE  Entered(v, f[i - 1], SegmentAt(p, i)) = f[i - 1] \o Root \o Entry(v, SegmentAt(p, i))
        OBVIOUS
      <4> DEFINE s == SegmentAt(p, i)
      <4>1. s \in Text /\ Len(s) >= 1 /\ s[Len(s)] \notin {Dot, Space}
        BY <3>1, SegmentAtIs
      <4> HIDE DEF s
      <4>2. Entered(v, f[i - 1], s) = f[i - 1] \o Root \o Entry(v, s)
        BY <4>1, EnteredIs
      <4> QED
        BY <4>2 DEF s
    <3> QED
      BY <2>2, <3>2, <3>3
  <2> QED
    BY <2>1, <2>2
<1> HIDE DEF Walk, Read
<1>2. \A f : [i \in 0 .. Len(p) |-> Walk(f, i)] = [i \in 0 .. Len(p) |-> Read(f, i)]
  BY <1>1
<1>3. (CHOOSE f : f = [i \in 0 .. Len(p) |-> Walk(f, i)]) = (CHOOSE f : f = [i \in 0 .. Len(p) |-> Read(f, i)])
  BY <1>2
<1>4. Opened(v, p) = (CHOOSE f : f = [i \in 0 .. Len(p) |-> Walk(f, i)])[Len(p)]
  BY DEF Opened, Walk
<1>5. Spelled(v, p) = (CHOOSE f : f = [i \in 0 .. Len(p) |-> Read(f, i)])[Len(p)]
  BY DEF Spelled, Read
<1> QED
  BY <1>3, <1>4, <1>5

-----------------------------------------------------------------------------
(* On the flash a path is the one spelling of what it opens.               *)

\* Where a reader of a plain path is after each byte.
Place(p, i) ==
  IF i = 0 THEN <<>>
  ELSE IF SegmentStops(p, i) THEN SubSeq(p, 1, i) ELSE SubSeq(p, 1, Highest(Cuts(p, i)) - 1)

\* A text, a slash in it and what follows make the text up to there.
LEMMA JoinIs ==
  ASSUME NEW p \in Text, NEW b \in 1 .. Len(p), NEW i \in b .. Len(p), p[b] = Slash
  PROVE  SubSeq(p, 1, b - 1) \o Root \o SubSeq(p, b + 1, i) = SubSeq(p, 1, i)
<1>0. Len(p) \in Nat /\ b \in Nat /\ i \in Nat /\ p \in Seq(Bytes)
  BY LenProperties DEF Text
<1>1. Root = SubSeq(p, b, b)
  <2>1. b \in 1 .. Len(p) + 1 /\ b \in b - 1 .. Len(p)
    BY <1>0
  <2>2. /\ SubSeq(p, b, b) \in Seq(Bytes) /\ Len(SubSeq(p, b, b)) = b - b + 1
        /\ \A k \in 1 .. b - b + 1 : SubSeq(p, b, b)[k] = p[b + k - 1]
    BY <2>1, PieceIs DEF Text
  <2>3. Len(SubSeq(p, b, b)) = 1 /\ SubSeq(p, b, b)[1] = Slash
    BY <1>0, <2>2
  <2>4. Root \in Seq(Bytes) /\ Len(Root) = 1 /\ Root[1] = Slash
    BY DEF Root, Bytes
  <2> QED
    BY <2>2, <2>3, <2>4, SeqEqual
<1>2. SubSeq(p, 1, b - 1) \o SubSeq(p, (b - 1) + 1, b) = SubSeq(p, 1, b)
  <2>1. 1 \in 1 .. Len(p) + 1 /\ b - 1 \in 1 - 1 .. Len(p) /\ b \in b - 1 .. Len(p)
    BY <1>0
  <2> QED
    BY <1>0, <2>1, ConcatAdjacentSubSeq
<1>3. SubSeq(p, 1, b) \o SubSeq(p, b + 1, i) = SubSeq(p, 1, i)
  <2>1. 1 \in 1 .. Len(p) + 1 /\ b \in 1 - 1 .. Len(p)
    BY <1>0
  <2> QED
    BY <1>0, <2>1, ConcatAdjacentSubSeq
<1>4. (b - 1) + 1 = b
  BY <1>0
<1> QED
  BY <1>1, <1>2, <1>3, <1>4

\* One byte more.
LEMMA PlaceStep ==
  ASSUME NEW p \in Text, Plain(p), NEW i \in 1 .. Len(p)
  PROVE  Place(p, i) = IF SegmentStops(p, i) THEN Place(p, i - 1) \o Root \o SegmentAt(p, i) ELSE Place(p, i - 1)
<1>0. /\ Len(p) \in Nat /\ i \in Nat /\ i # 0 /\ p[1] = Slash /\ \A j \in 1 .. Len(p) : p[j] # Backslash
      /\ (i - 1) + 1 = i
  BY LenProperties DEF Text, Plain
<1>1. CASE p[i] = Slash
  <2>1. ~SegmentStops(p, i)
    BY <1>1 DEF SegmentStops
  <2>2. Highest(Cuts(p, i)) = i
    <3>1. Highest(Cuts(p, i)) \in 1 .. i /\ i <= Highest(Cuts(p, i))
      BY <1>0, <1>1, CutsAre
    <3> QED
      BY <1>0, <3>1
  <2>3. Place(p, i) = SubSeq(p, 1, i - 1)
    BY <1>0, <2>1, <2>2 DEF Place
  <2>4. Place(p, i - 1) = SubSeq(p, 1, i - 1)
    <3>1. CASE i = 1
      <4>1. SubSeq(p, 1, 0) = <<>>
        <5>1. 1 \in 1 .. Len(p) + 1 /\ 0 \in 1 - 1 .. Len(p)
          BY <1>0
        <5>2. SubSeq(p, 1, 0) \in Seq(Bytes) /\ Len(SubSeq(p, 1, 0)) = 0 - 1 + 1
          BY <5>1, PieceIs DEF Text
        <5>3. Len(SubSeq(p, 1, 0)) = 0
          BY <5>2
        <5> QED
          BY <5>2, <5>3, EmptySeq
      <4> QED
        BY <3>1, <4>1 DEF Place
    <3>2. CASE i # 1
      <4>1. i - 1 \in 1 .. Len(p) /\ i - 1 # 0
        BY <1>0, <3>2
      <4>2. p[i - 1] # Slash
        BY <1>0, <1>1, <4>1 DEF Plain
      <4>3. SegmentStops(p, i - 1)
        BY <1>0, <1>1, <4>1, <4>2 DEF SegmentStops
      <4> QED
        BY <4>1, <4>3 DEF Place
    <3> QED
      BY <3>1, <3>2
  <2> QED
    BY <2>1, <2>3, <2>4
<1>2. CASE p[i] # Slash
  <2>1. i >= 2 /\ i - 1 \in 1 .. Len(p) /\ i - 1 # 0 /\ i - 1 # Len(p)
    BY <1>0, <1>2
  <2>3. ~SegmentStops(p, i - 1)
    BY <1>0, <1>2, <2>1 DEF SegmentStops
  <2>4. Cuts(p, i) = Cuts(p, i - 1)
    <3>1. \A j \in 1 .. i : j = i \/ j \in 1 .. i - 1
      BY <1>0
    <3>2. \A j \in 1 .. i - 1 : j \in 1 .. i
      BY <1>0
    <3> QED
      BY <1>2, <3>1, <3>2 DEF Cuts
  <2> DEFINE b == Highest(Cuts(p, i))
  <2>5. b \in 1 .. i - 1 /\ p[b] = Slash
    BY <2>1, <2>4, CutsAre
  <2>6. Place(p, i - 1) = SubSeq(p, 1, b - 1)
    BY <2>1, <2>3, <2>4 DEF Place
  <2>7. CASE SegmentStops(p, i)
    <3>1. Place(p, i) = SubSeq(p, 1, i)
      BY <1>0, <2>7 DEF Place
    <3>2. SegmentAt(p, i) = SubSeq(p, b + 1, i)
      BY <2>7, SegmentAtIs
    <3> HIDE DEF b
    <3>3. b \in 1 .. Len(p) /\ i \in b .. Len(p)
      BY <1>0, <2>5
    <3>4. SubSeq(p, 1, b - 1) \o Root \o SubSeq(p, b + 1, i) = SubSeq(p, 1, i)
      BY <2>5, <3>3, JoinIs
    <3> QED
      BY <2>6, <2>7, <3>1, <3>2, <3>4 DEF b
  <2>8. CASE ~SegmentStops(p, i)
    BY <1>0, <2>6, <2>8 DEF Place
  <2> QED
    BY <2>7, <2>8
<1> QED
  BY <1>1, <1>2

\* Without a second name for anything the entries of a path are its text.
LEMMA SpelledIs ==
  ASSUME NEW p \in Text, Plain(p) \/ p = <<>>, NEW v, v \notin Fat
  PROVE  Spelled(v, p) = p
<1> DEFINE Body(f, i) ==
             IF i = 0 THEN <<>>
             ELSE IF SegmentStops(p, i) THEN f[i - 1] \o Root \o Entry(v, SegmentAt(p, i)) ELSE f[i - 1]
           spelt == CHOOSE f : f = [i \in 0 .. Len(p) |-> Body(f, i)]
           place == [i \in 0 .. Len(p) |-> Place(p, i)]
<1>0. /\ Len(p) \in Nat /\ (Plain(p) => Len(p) >= 2) /\ (Len(p) # 0 => Plain(p))
      /\ \A s : Entry(v, s) = s
  BY LenProperties DEF Text, Plain, Entry
<1>1. place = [i \in 0 .. Len(p) |-> Body(place, i)]
  <2>1. ASSUME NEW i \in 0 .. Len(p) PROVE place[i] = Body(place, i)
    <3>1. CASE i = 0
      BY <3>1 DEF Place
    <3>2. CASE i # 0
      <4>1. i \in 1 .. Len(p) /\ i - 1 \in 0 .. Len(p)
        BY <1>0, <3>2
      <4>2. place[i] = Place(p, i) /\ place[i - 1] = Place(p, i - 1)
        BY <4>1
      <4>3. Place(p, i) = IF SegmentStops(p, i) THEN Place(p, i - 1) \o Root \o SegmentAt(p, i) ELSE Place(p, i - 1)
        BY <1>0, <4>1, PlaceStep
      <4> HIDE DEF place
      <4> QED
        BY <1>0, <3>2, <4>2, <4>3
    <3> QED
      BY <3>1, <3>2
  <2> HIDE DEF Body
  <2> QED
    BY <2>1
<1>2. spelt = [i \in 0 .. Len(p) |-> Body(spelt, i)]
  <2> HIDE DEF place, Body
  <2> QED
    BY <1>1
<1>3. Spelled(v, p) = spelt[Len(p)]
  BY DEF Spelled
<1> HIDE DEF spelt
<1>4. \A i \in 0 .. Len(p) : spelt[i] = Body(spelt, i)
  <2> HIDE DEF Body
  <2> QED
    BY <1>2
<1> DEFINE T == {i \in 0 .. Len(p) : spelt[i] = Place(p, i)}
<1>5. 0 \in T
  <2>1. spelt[0] = <<>>
    BY <1>0, <1>4
  <2> QED
    BY <1>0, <2>1 DEF Place
<1>6. ASSUME NEW i \in 0 .. Len(p) - 1, i \in T PROVE i + 1 \in T
  <2>1. i + 1 \in 1 .. Len(p) /\ i + 1 \in 0 .. Len(p) /\ i + 1 # 0 /\ (i + 1) - 1 = i /\ spelt[i] = Place(p, i)
    BY <1>0, <1>6
  <2> DEFINE n == i + 1
  <2>2. spelt[n] = IF SegmentStops(p, n) THEN spelt[n - 1] \o Root \o SegmentAt(p, n) ELSE spelt[n - 1]
    <3>1. spelt[n] = IF SegmentStops(p, n) THEN spelt[n - 1] \o Root \o Entry(v, SegmentAt(p, n)) ELSE spelt[n - 1]
      BY <1>4, <2>1
    <3>2. Entry(v, SegmentAt(p, n)) = SegmentAt(p, n)
      BY <1>0
    <3> HIDE DEF n
    <3> QED
      BY <3>1, <3>2
  <2>3. Place(p, n) = IF SegmentStops(p, n) THEN Place(p, n - 1) \o Root \o SegmentAt(p, n) ELSE Place(p, n - 1)
    <3>1. Plain(p) /\ n \in 1 .. Len(p)
      BY <1>0, <2>1
    <3> HIDE DEF n
    <3> QED
      BY <3>1, PlaceStep
  <2>4. spelt[n] = Place(p, n)
    BY <2>1, <2>2, <2>3
  <2> QED
    BY <2>1, <2>4
<1> HIDE DEF T
<1>7. \A i \in 0 .. Len(p) : i \in T
  BY <1>0, <1>5, <1>6, UpTo
<1>8. spelt[Len(p)] = Place(p, Len(p))
  BY <1>0, <1>7 DEF T
<1>9. Place(p, Len(p)) = p
  <2>1. CASE Len(p) = 0
    <3>1. p = <<>>
      BY <2>1, EmptySeq DEF Text
    <3> QED
      BY <2>1, <3>1 DEF Place
  <2>2. CASE Len(p) # 0
    <3>1. Plain(p) /\ Len(p) \in 1 .. Len(p) /\ Len(p) >= 2
      BY <1>0, <2>2
    <3>2. p[Len(p)] # Slash
      BY <1>0, <3>1 DEF Plain
    <3>3. SegmentStops(p, Len(p))
      BY <3>2 DEF SegmentStops
    <3>4. Place(p, Len(p)) = SubSeq(p, 1, Len(p))
      BY <2>2, <3>3 DEF Place
    <3> QED
      BY <3>4, SubSeqFull DEF Text
  <2> QED
    BY <2>1, <2>2
<1> QED
  BY <1>3, <1>8, <1>9

-----------------------------------------------------------------------------
(* What is accepted opens what it spells.                                  *)

LEMMA ResolvedIs ==
  ASSUME NEW p \in Text, NEW up, resolvePath(p, up).code = "ok"
  PROVE  /\ resolvePath(p, up).full = p /\ Mounted(p) \in up /\ split(p).volume = Mounted(p)
         /\ Within(p) \in Text /\ (Plain(Within(p)) \/ Within(p) = <<>>)
         /\ Len(p) <= 1 + MaxName + MaxPath
<1> DEFINE s == split(p)
           e == SegmentEnd(p, 2)
<1>1. /\ s.result = "ok" /\ check(s.rest) = "ok" /\ s.volume \in up
      /\ resolvePath(p, up).full = IF s.rest = Root THEN Root \o s.volume ELSE Root \o s.volume \o s.rest
  BY DEF resolvePath
<1>2. /\ Len(p) \in Nat /\ Len(p) >= 2 /\ Len(p) <= 1 + MaxName + MaxPath /\ p[1] = Slash
      /\ e \in 2 .. Len(p) /\ e + 1 # Len(p) /\ (e = Len(p) \/ p[e + 1] = Slash)
      /\ s.volume = SubSeq(p, 2, e) /\ \A i \in 2 .. e : p[i] \in VolumeBytes
      /\ s.rest = IF e = Len(p) THEN Root ELSE SubSeq(p, e + 1, Len(p))
  BY <1>1, SplitIs
<1>3. /\ Mounted(p) \in up /\ split(p).volume = Mounted(p)
      /\ Within(p) = SubSeq(p, e + 1, Len(p))
  BY <1>1, <1>2 DEF Segment, Mounted, Within
<1> HIDE DEF s, e
<1>4. Root \o s.volume = SubSeq(p, 1, e)
  <2>1. 1 \in 1 .. Len(p) /\ e \in 1 .. Len(p) /\ 1 \in 1 .. Len(p) + 1 /\ 0 \in 1 - 1 .. Len(p) /\ 1 - 1 = 0 /\ 1 + 1 = 2
    BY <1>2
  <2>2. SubSeq(p, 1, 1 - 1) \o Root \o SubSeq(p, 1 + 1, e) = SubSeq(p, 1, e)
    BY <1>2, <2>1, JoinIs
  <2>3. SubSeq(p, 1, 0) \in Seq(Bytes) /\ Len(SubSeq(p, 1, 0)) = 0 - 1 + 1
    BY <2>1, PieceIs DEF Text
  <2>4. SubSeq(p, 1, 0) = <<>>
    <3>1. Len(SubSeq(p, 1, 0)) = 0
      BY <2>3
    <3> QED
      BY <2>3, <3>1, EmptySeq
  <2>5. << >> \o Root = Root
    BY ConcatEmptySeq DEF Root, Bytes
  <2> QED
    BY <1>2, <2>1, <2>2, <2>4, <2>5
<1>5. CASE e = Len(p)
  <2>1. resolvePath(p, up).full = p
    BY <1>1, <1>2, <1>4, <1>5, SubSeqFull DEF Text
  <2>2. Within(p) \in Text /\ Within(p) = <<>>
    <3>1. e + 1 \in 1 .. Len(p) + 1 /\ Len(p) \in (e + 1) - 1 .. Len(p) /\ Len(p) - (e + 1) + 1 = 0
      BY <1>2, <1>5
    <3>2. Within(p) \in Text /\ Len(Within(p)) = 0
      BY <1>3, <3>1, PieceIs
    <3> QED
      BY <3>2, EmptySeq DEF Text
  <2> QED
    BY <1>2, <1>3, <2>1, <2>2
<1>6. CASE e # Len(p)
  <2> DEFINE q == SubSeq(p, e + 1, Len(p))
  <2>1. e + 1 \in 1 .. Len(p) + 1 /\ Len(p) \in (e + 1) - 1 .. Len(p) /\ e + 2 <= Len(p)
    BY <1>2, <1>6
  <2>2. q \in Text /\ Len(q) = Len(p) - (e + 1) + 1
    BY <2>1, PieceIs
  <2> HIDE DEF q
  <2>3. Len(q) >= 2
    BY <1>2, <2>1, <2>2
  <2>4. q # Root
    <3>1. Len(Root) = 1
      BY DEF Root
    <3> QED
      BY <2>3, <3>1
  <2>5. s.rest = q
    BY <1>2, <1>6 DEF q
  <2>6. Plain(q)
    BY <1>1, <2>2, <2>3, <2>5, CheckIs
  <2>8. SubSeq(p, 1, e) \o SubSeq(p, e + 1, Len(p)) = SubSeq(p, 1, Len(p))
    <3>1. 1 \in 1 .. Len(p) + 1 /\ e \in 1 - 1 .. Len(p) /\ Len(p) \in e .. Len(p) /\ p \in Seq(Bytes)
      BY <1>2 DEF Text
    <3> QED
      BY <3>1, ConcatAdjacentSubSeq
  <2>9. resolvePath(p, up).full = p
    BY <1>1, <1>4, <2>4, <2>5, <2>8, SubSeqFull DEF Text, q
  <2> QED
    BY <1>2, <1>3, <2>2, <2>6, <2>9 DEF q
<1> QED
  BY <1>5, <1>6

PathsTypeOK == path \in Seq(Alphabet) /\ volumesUp \in SUBSET Volumes

\* What a caller spells is a sequence of the bytes it may send, and what is up
\* is some of the volumes the module has.
THEOREM PathsTypeCorrect == PathsSpec => []PathsTypeOK
<1>1. PathsInit => PathsTypeOK
  BY EmptySeq DEF PathsInit, PathsTypeOK
<1>2. PathsTypeOK /\ [PathsNext]_pathsVars => PathsTypeOK'
  <2> SUFFICES ASSUME PathsTypeOK, [PathsNext]_pathsVars PROVE PathsTypeOK'
    OBVIOUS
  <2>1. ASSUME NEW b \in Alphabet, TypeByte(b) PROVE PathsTypeOK'
    BY <2>1, AppendProperties DEF TypeByte, PathsTypeOK
  <2>2. ASSUME NEW v \in Volumes, Mount(v) PROVE PathsTypeOK'
    BY <2>2 DEF Mount, PathsTypeOK
  <2>3. CASE UNCHANGED pathsVars
    BY <2>3 DEF pathsVars, PathsTypeOK
  <2> QED
    BY <2>1, <2>2, <2>3 DEF PathsNext
<1> QED
  BY <1>1, <1>2, PTL DEF PathsSpec

\* Whatever bytes a caller sends and however many, whatever names FAT takes for
\* the same and whatever aliases the card has, a path the module accepts goes to
\* the mounted volume it names and opens there what its segments say, which on
\* the flash is the text itself (pathsafe.h:81-150, volpath.h:107-183,
\* mod_storage.cpp:403-460).
THEOREM PathsOpenAsSpelled == PathsSpec => []OpensAsSpelled
<1>1. PathsTypeOK => OpensAsSpelled
  <2> DEFINE r == resolvePath(path, volumesUp)
  <2> SUFFICES ASSUME PathsTypeOK, r.code = "ok"
               PROVE  /\ Mounted(r.full) \in volumesUp /\ Mounted(r.full) = split(path).volume
                      /\ Opened(Mounted(r.full), Within(r.full)) = Spelled(Mounted(r.full), Within(path))
                      /\ Mounted(r.full) \notin Fat => Opened(Mounted(r.full), Within(r.full)) = Within(path)
                      /\ Len(r.full) <= 1 + MaxName + MaxPath
    BY DEF OpensAsSpelled
  <2>1. path \in Text
    <3>1. Alphabet \subseteq Bytes
      BY DEF Bytes
    <3> QED
      BY <3>1, SeqMonotonic DEF PathsTypeOK, Text
  <2>2. /\ r.full = path /\ Mounted(path) \in volumesUp /\ split(path).volume = Mounted(path)
        /\ Within(path) \in Text /\ (Plain(Within(path)) \/ Within(path) = <<>>)
        /\ Len(path) <= 1 + MaxName + MaxPath
    BY <2>1, ResolvedIs
  <2> HIDE DEF r
  <2>3. Opened(Mounted(path), Within(path)) = Spelled(Mounted(path), Within(path))
    BY <2>2, OpenedIs
  <2>4. Mounted(path) \notin Fat => Spelled(Mounted(path), Within(path)) = Within(path)
    BY <2>2, SpelledIs
  <2> QED
    BY <2>2, <2>3, <2>4
<1> QED
  BY <1>1, PathsTypeCorrect, PTL
=============================================================================
