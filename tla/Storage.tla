------------------------------- MODULE Storage -------------------------------
(***************************************************************************)
(* The storage module (mod_storage.cpp, fsmount.cpp): two volumes, the     *)
(* commands that change their files, and the verify job, the only thing    *)
(* that keeps a file open between two commands.  Every action holds the    *)
(* registry lock.                                                          *)
(*                                                                         *)
(* One file stands for a path of each volume.  Its bytes are counted in    *)
(* cells, the unit of a write and of one pass of the verify pump; a CRC is *)
(* the sequence of cells it was computed over.                             *)
(***************************************************************************)
EXTENDS Activity, Naturals, Sequences

CONSTANTS
  Cell,     \* what a cell may hold
  Hole,     \* a cell nobody wrote
  MaxLen    \* bound: the longest file, in cells

ASSUME StorageAssumption == MaxLen \in Nat \ {0} /\ Hole \notin Cell

VARIABLES
  on,       \* the registry's enabled flag of storage
  mounted,  \* sdMounted and Fs::mounted()
  file,     \* what is at the path on each volume
  verify,   \* the job
  lost      \* history: a volume went away under an open file

storage == <<on, mounted, file, verify, lost>>

Volume == {"sd", "fs"}

Data == Seq(Cell \cup {Hole})

NoFile == [exists |-> FALSE, data |-> <<>>]

\* `bytes` and `crc` are the code's; `original` is what the file held when the
\* job was accepted and `touched` that it was changed since: histories.
Job ==
  [active : BOOLEAN, open : BOOLEAN, vol : Volume, bytes : Nat, crc : Data,
   result : {"none", "ok", "EIO", "ECANCELLED"}, original : Data, touched : BOOLEAN]

NoJob ==
  [active |-> FALSE, open |-> FALSE, vol |-> "sd", bytes |-> 0, crc |-> <<>>,
   result |-> "none", original |-> <<>>, touched |-> FALSE]

\* The job after its file on v changed.
Touched(v) ==
  IF verify.active /\ verify.vol = v THEN [verify EXCEPT !.touched = TRUE] ELSE verify

-----------------------------------------------------------------------------
(* verify.                                                                  *)

\* finishVerify().  What the job computed, and the histories, stay for an
\* answer that speaks of them.
Finish(result) ==
  /\ verify' = [verify EXCEPT !.active = FALSE, !.open = FALSE, !.result = result,
                  !.bytes = 0,
                  !.crc = IF result = "ok" /\ ~verify.touched THEN @ ELSE <<>>,
                  !.original = IF result = "ok" /\ ~verify.touched THEN @ ELSE <<>>,
                  !.touched = IF result = "ok" THEN @ ELSE TRUE]
  /\ End(result = "ok")

\* Mutant of StartVerify: the last job's CRC is carried on.
StartVerifyNoInit(v) ==
  /\ on /\ ~verify.active
  /\ mounted[v] /\ file[v].exists
  /\ verify' = [active |-> TRUE, open |-> TRUE, vol |-> v, bytes |-> 0, crc |-> verify.crc,
                result |-> "none", original |-> file[v].data, touched |-> FALSE]
  /\ Begin("storage")
  /\ UNCHANGED <<on, mounted, file, lost>>

\* actVerify(): a second job is refused, not queued.
StartVerify(v) ==
  /\ on /\ ~verify.active
  /\ mounted[v] /\ file[v].exists
  /\ verify' = [active |-> TRUE, open |-> TRUE, vol |-> v, bytes |-> 0, crc |-> <<>>,
                result |-> "none", original |-> file[v].data, touched |-> FALSE]
  /\ Begin("storage")
  /\ UNCHANGED <<on, mounted, file, lost>>

\* Mutant of CancelVerify: closes the file and says nothing.
CancelVerifySilently ==
  /\ on /\ verify.active
  /\ verify' = [verify EXCEPT !.active = FALSE, !.open = FALSE]
  /\ End(FALSE)
  /\ UNCHANGED <<on, mounted, file, lost>>

\* actVerify() with cancel.
CancelVerify ==
  /\ on /\ verify.active
  /\ Finish("ECANCELLED")
  /\ UNCHANGED <<on, mounted, file, lost>>

\* What the next fread may return.  Once the file was changed under the handle
\* the filesystem may return any cell, or the end.
NextCells ==
  IF verify.touched THEN Cell
  ELSE IF verify.bytes < Len(file[verify.vol].data)
       THEN {file[verify.vol].data[verify.bytes + 1]} ELSE {}

\* storageTick() is one or more passes of its loop; it may stop after each,
\* when 5 ms are up.
PumpReads ==
  /\ on /\ verify.active
  /\ verify.bytes < MaxLen
  /\ \E c \in NextCells :
       verify' = [verify EXCEPT !.bytes = verify.bytes + 1, !.crc = Append(verify.crc, c)]
  /\ Progress
  /\ UNCHANGED <<on, mounted, file, lost>>

PumpEnds ==
  /\ on /\ verify.active
  /\ verify.touched \/ NextCells = {}
  /\ Finish("ok")
  /\ UNCHANGED <<on, mounted, file, lost>>

PumpFails ==
  /\ on /\ verify.active
  /\ Finish("EIO")
  /\ UNCHANGED <<on, mounted, file, lost>>

StorageTick == PumpReads \/ PumpEnds \/ PumpFails

-----------------------------------------------------------------------------
(* The module's life.                                                       *)

\* storageEnable(): mounts the card if there is one - this or another - and
\* needs one usable volume.  /fs was mounted at boot, or not.
StorageEnable ==
  /\ ~on
  /\ \E card \in BOOLEAN, other \in BOOLEAN :
       /\ mounted' = [mounted EXCEPT !["sd"] = card]
       /\ on' = (card \/ mounted["fs"])
       /\ file' = IF card /\ other THEN [file EXCEPT !["sd"] = NoFile] ELSE file
  /\ UNCHANGED <<verify, lost, activity>>

\* storageDisable(): the job is cancelled, then the card unmounted; /fs stays.
StorageDisable ==
  /\ on
  /\ on' = FALSE
  /\ IF verify.active THEN Finish("ECANCELLED") ELSE UNCHANGED <<verify, activity>>
  /\ lost' = (lost \/ (mounted["sd"] /\ verify'.open /\ verify.vol = "sd"))
  /\ mounted' = [mounted EXCEPT !["sd"] = FALSE]
  /\ UNCHANGED file

-----------------------------------------------------------------------------
(* The commands that change files.                                          *)

\* d with c in cell i+1; a gap before it is not written by anybody.
Overwritten(d, i, c) ==
  [k \in 1..(IF i < Len(d) THEN Len(d) ELSE i + 1) |->
     IF k = i + 1 THEN c ELSE IF k <= Len(d) THEN d[k] ELSE Hole]

\* actWrite()'s refusals: writes are contiguous.
MayWrite(v, offset, truncate) ==
  /\ truncate => offset = 0
  /\ offset > 0 => file[v].exists
  /\ file[v].exists /\ ~truncate => offset <= Len(file[v].data)

\* actWrite(): the file is created or truncated by fopen(), and then the data
\* may not fit.
Write(v, offset, c, truncate) ==
  /\ on /\ mounted[v]
  /\ offset < MaxLen
  /\ MayWrite(v, offset, truncate)
  /\ LET base == IF truncate THEN <<>> ELSE file[v].data IN
     \E data \in {base, Overwritten(base, offset, c)} :
       file' = [file EXCEPT ![v] = [exists |-> TRUE, data |-> data]]
  /\ verify' = Touched(v)
  /\ UNCHANGED <<on, mounted, lost, activity>>

\* actDelete(): nothing stops it from deleting the file being verified.
Delete(v) ==
  /\ on /\ mounted[v] /\ file[v].exists
  /\ file' = [file EXCEPT ![v] = NoFile]
  /\ verify' = Touched(v)
  /\ UNCHANGED <<on, mounted, lost, activity>>

\* actFormat() and Fs::format(): refused while a job runs; erased or not, the
\* volume may not mount again.
Format ==
  /\ on /\ ~verify.active
  /\ \E remounted \in BOOLEAN, data \in {NoFile, file["fs"]} :
       /\ mounted' = [mounted EXCEPT !["fs"] = remounted]
       /\ file' = [file EXCEPT !["fs"] = data]
  /\ lost' = (lost \/ (verify.open /\ verify.vol = "fs"))
  /\ UNCHANGED <<on, verify, activity>>

StorageStep ==
  \/ \E v \in Volume : StartVerify(v) \/ Delete(v)
  \/ CancelVerify
  \/ StorageTick
  \/ StorageEnable \/ StorageDisable
  \/ \E v \in Volume, i \in 0..MaxLen-1, c \in Cell, t \in BOOLEAN : Write(v, i, c, t)
  \/ Format

StorageTypeOK ==
  /\ on \in BOOLEAN
  /\ mounted \in [Volume -> BOOLEAN]
  /\ file \in [Volume -> [exists : BOOLEAN, data : Data]]
  /\ verify \in Job
  /\ lost \in BOOLEAN

StorageInit ==
  /\ on = FALSE
  /\ \E fs \in BOOLEAN : mounted = [v \in Volume |-> v = "fs" /\ fs]
  /\ file = [v \in Volume |-> NoFile]
  /\ verify = NoJob
  /\ lost = FALSE
=============================================================================
