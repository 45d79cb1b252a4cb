SPECIFICATION FairSpec
CONSTANTS
  SlotCount = 2
  Indices = {1, 2, 3}
  Updates <- RouteUpdates
  Maneuvers <- RouteManeuvers
  Lanes <- RouteLanes
INVARIANTS SlotsAgree EndsStay
PROPERTIES GuidanceKeepsItsSlots SilenceSettles
