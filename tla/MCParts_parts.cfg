SPECIFICATION PartsSpec
CONSTANTS
  Levels <- AuthLevels
  Token <- TOKEN
  Physical <- PHYSICAL
  NoAs <- Missing
  Builtins <- BUILTINS
  OtaMutate <- OTA_MUTATE
  ModuleAuth <- ModulePolicy
  ActionAuth <- ActionPolicy
  Silent = {"cdc"}
  BootTime = {"hid"}
  Fds = {f1, f2, f3}
  MaxClients = 2
  EventSlots = 1
  MaxSession = 2
  MaxEvent = 1
  OwnerKeys <- OwnerPassphrases
  MintedKeys <- MintedPassphrases
  MaxTypeLen = 2
  MaxJobs = 1
  MaxLine = 2
  Lines <- TypedLines
  Requests <- AllRequests
  Posts <- Toggles
  Wrap = 16
  MaxFails = 3
  BaseDelay = 1
  MaxDelay = 2
  Lockout = 5
  MaxTrueTime = 36
  Intervals <- TaskIntervals
  MaxTasks = 12
  MaxRun = 2
  MaxLoopTime = 40
  Alphabet <- TypedBytes
  VolumeBytes = {"s", "f"}
  Reserved = {"*"}
  Control = {"nul"}
  Volumes <- VolumeNames
  Fat <- CardNames
  Fold <- Lower
  LongName <- Aliases
  MaxName = 1
  MaxPath = 3
  MaxSegment = 2
  MaxTyped = 5
  Names <- FileNames
  Size <- EntrySize
  TooLong = {"L"}
  Trees <- Cards
  Top <- Dir
  MaxDepth = 2
  MaxEntries = 4
  Budget = 3
  Limits = {1, 2}
  MaxDraw = 1
  MaxSeq = 3
INVARIANTS
  NoneAfterEnd
  DriftIsReported
  KeysReadAsAsked
  AnsweredWhole
  DowngradeIsExact
  ViewMatchesGate
  KeepsTrueTime
  RunsExactlyWhenDue
  OpensAsSpelled
  DeleteTruthful
  PagesCover
  PanelTellsTruth
PROPERTIES
  SilentSocketGoes
CHECK_DEADLOCK FALSE
