CONSTANTS
    wolf1 = wolf1
    wolf2 = wolf2
    bandit = bandit
    Wolves = Wolves
    Bandits = Bandits
    WolfLoose = WolfLoose
    NoProfile = NoProfile
    NoFaction = NoFaction
    Agents = {wolf1}
    Workers = {d1, d2}
    Profiles = {NoProfile}
    FactionOf <- MCFactionOf
    RequiredFaction <- MCRequired
    AgentSets <- MCEveryone
    SeedMembers = {wolf1}
    TopId = 4
    MaxVersion = 0
    MaxCalls = 2
    MaxLost = 1
SPECIFICATION FairSpec
INVARIANTS
    AllocatorSurvives
PROPERTIES
    Answered
CHECK_DEADLOCK FALSE
