CONSTANTS
    a1 = a1
    a2 = a2
    a3 = a3
    Agents = {a1, a2, a3}
    Profiles <- MCProfiles
    Recognizes <- MCCompeting
    MinMembers = 1
    MaxMembers = 2
    MaxInFlight = 2
    TopId = 2
    Manual = {a1}
SPECIFICATION FairSpec
INVARIANTS
    OneLooseGroup
    FormationUnbroken
    MarksExact
PROPERTIES
    FormationEnds
CHECK_DEADLOCK FALSE
