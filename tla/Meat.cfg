SPECIFICATION FairSpec
CONSTANTS
  ResidentsV11 = FALSE
  DepotSpec <- MCDepotSpec
  FieldSpec <- MCFieldSpec
  Roster <- MCRoster
  Sources = {11}
  MaxSources = 256
  CarcassPortions = 3
  PredatorMealPortions = 2
  HunterCargoCapacity = 2
  RaiderCargoCapacity = 2
  FarmerCargoCapacity = 2
  CarrierCargoCapacity = 2
  FieldCapacity = 2
  FieldRegrowMs = 2
  ClaimTtlMs = 1
  StartMs = 0
  MaxClaims = 3
  Times = {0, 1, 2}
  Lives = {1, 2}
  Serials = {1}
  Requests = {2}
INVARIANTS TypeOK ReservationsExact FoodAccounted ClaimsGood TokensUnique
PROPERTIES MeatOnlyFromNewLife ClaimsSettle ImplementsBook
