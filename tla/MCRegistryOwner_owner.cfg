SPECIFICATION OwnerSpec
CONSTANTS
  NoKey = NoKey
  Resource <- MCResource
  Module <- NewToolImage
  Desc <- MCDesc
  Rank <- MCRank
  Flaky = {"http", "monitor", "display"}
  Build <- ToolBuilds
  Upgrade <- ToolsGrowing
  Cap <- RoomForAll
  NvsOutcome = {"ok"}
INVARIANTS BootHonoursOwner
PROPERTY ImplementsIntent
