CONSTANTS
    a1 = a1
    Agents = {a1}
    Kinds = {"decision"}
    Limit <- MCOnePlace
    MaxId = 2
SPECIFICATION Spec
INVARIANT ConnectionsBounded
CHECK_DEADLOCK FALSE
