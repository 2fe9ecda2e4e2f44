SPECIFICATION FairSpec
CONSTANTS
  MaxSeq = 4
  MinTicks = 1
  ConsoleGrace = 1
  MinUptime = 2
  Window = 3
  FlashOk = {TRUE, FALSE}
  Chunks = 2
  Body = {"good", "sick", "crash", "partial"}
INVARIANTS AlwaysBootable RevokedNeverRuns ConfirmedStays
PROPERTIES ConfirmedEarned TrialDecided
