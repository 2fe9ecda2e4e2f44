SPECIFICATION Spec
CONSTANTS
  NoKey = NoKey
  Resource <- MCResource
  Module <- MixedImage
  Desc <- MCDesc
  Rank <- MCRank
  Flaky = {"wifiscan", "monitor"}
  Build <- MixedBuilds
  Upgrade <- MixedUpgrades
  Cap <- ExactRoom
  NvsOutcome = {"ok", "put"}
INVARIANTS IntentDurable EssentialLive NoConflict
PROPERTIES ResultAccurate OnlyBlockersStopped
