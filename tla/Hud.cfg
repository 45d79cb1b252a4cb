SPECIFICATION Spec
CONSTANTS
  SlotCount = 2
  Stories <- MCStories
INVARIANTS DisplayIsSelected LanesOfActiveEvent SidesAreRight StreetsHaveLines
