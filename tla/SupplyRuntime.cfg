CONSTANTS
    h1 = h1
    h2 = h2
    Sources = {1}
    Actors = {h1, h2}
    MaxGuid <- MCGuids
    MaxDeaths = 2
    MaxClaims = 2
SPECIFICATION RuntimeSpec
INVARIANTS
    OneCarcassPerDeath
    ClaimsHeld
PROPERTIES
    HarvestOfClaimedDeath
CHECK_DEADLOCK FALSE
