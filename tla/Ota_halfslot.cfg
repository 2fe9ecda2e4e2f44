SPECIFICATION Spec
CONSTANTS
  MaxSeq = 3
  MinTicks = 1
  ConsoleGrace = 1
  MinUptime = 2
  Window = 3
  FlashOk = {TRUE, FALSE}
  Chunks = 2
  Body = {"good", "partial"}
INVARIANT HalfWrittenNeverSelected
