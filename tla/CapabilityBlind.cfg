SPECIFICATION Spec
CONSTANTS
  Sid = {"s"}
  Ids <- MCIds
  Fragile <- MCFragile
  Sighted <- MCSighted
  Environments <- MCEnvironments
  FamilyCeiling = 1
  Offers = {2}
  MaxWarmups = 2
  MaxUnsaved = 1
  MaxStarts = 2
INVARIANTS PicturesNeverBlind
