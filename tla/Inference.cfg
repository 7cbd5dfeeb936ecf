CONSTANTS
    a1 = a1
    Agents = {a1}
    Kinds = {"decision", "task", "recovery", "npc"}
    Limit <- MCOnePlace
    MaxId = 2
SPECIFICATION FairSpec
INVARIANTS
    SlotsExact
    OneAnswer
    WaitsForWhatComes
PROPERTIES
    EveryRequestEnds
CHECK_DEADLOCK FALSE
