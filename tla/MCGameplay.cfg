SPECIFICATION GameplayFairSpec
CONSTANTS
  Block = {"hub", "walk", "far"}
  Hub = "hub"
  Dist <- MCDist
  Runtime = {"dirt", "stone"}
  Droppable = {"dirt"}
  Item = {"i", "j"}
  ItemPlace <- MCItemPlace
  Priority = {110, 120}
  MaxClicks = 1
  MaxCommands = 2
  MaxBreaks = 2
  ClickMenu = TRUE
  MaxInputs = 3
INVARIANTS
  GameplayTypeOK
  ProbeHasTarget
  PickupNeedsBreak
PROPERTIES
  PacketsKeepAction
  RejectedNotRetried
  AllItemsTried
  GameplayConcludes
CHECK_DEADLOCK FALSE
