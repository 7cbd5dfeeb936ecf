CONSTANTS
    r1 = r1
    r2 = r2
    f1 = f1
    Returners = {r1, r2}
    Foragers = {f1, r2}
    Spacing = 1
    Patience = 2
    Forget = 3
    Places = 2
SPECIFICATION FairSpec
INVARIANTS
    ThreeToOne
PROPERTIES
    Served
