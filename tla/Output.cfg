SPECIFICATION FairSpec
CONSTANTS
  Slots = 2
  Budgets <- SomeBudgets
INVARIANTS DecoderIsPrimed MarkerHasOutput AsksTheLiving
PROPERTIES PictureComes MarkerIsFollowed
CHECK_DEADLOCK FALSE
