SPECIFICATION Spec
CONSTANTS
  ResidentsV11 = TRUE
  DepotSpec <- MCDepotSpec
  FieldSpec <- MCFieldSpec
  Roster <- MCRoster
  Sources = {}
  MaxSources = 256
  CarcassPortions = 3
  PredatorMealPortions = 2
  HunterCargoCapacity = 2
  RaiderCargoCapacity = 2
  FarmerCargoCapacity = 2
  CarrierCargoCapacity = 2
  FieldCapacity = 3
  FieldRegrowMs = 2
  ClaimTtlMs = 1
  StartMs = 0
  MaxClaims = 3
  Times = {0, 3, 4}
  Lives = {1, 2}
  Serials = {1, 2}
  Requests = {1, 2}
INVARIANTS WithinCapacity FoodAccounted EventsOnce DepotBooks CropsKeepPace
PROPERTIES CropsNotBanked
