CONSTANTS
    wolf1 = wolf1
    wolf2 = wolf2
    bandit = bandit
    Wolves = Wolves
    Bandits = Bandits
    WolfLoose = WolfLoose
    NoProfile = NoProfile
    NoFaction = NoFaction
    Agents = {wolf1, bandit}
    Workers = {d1, d2}
    Profiles = {NoProfile, WolfLoose}
    FactionOf <- MCFactionOf
    RequiredFaction <- MCRequired
    AgentSets <- MCEveryone
    SeedMembers = {wolf1}
    TopId = 3
    MaxVersion = 1
    MaxCalls = 4
    MaxLost = 0
SPECIFICATION Spec
SYMMETRY Symmetry
INVARIANTS
    RegistryFollowsTables
    ProfileKept
PROPERTIES
    ImplementsStore
CHECK_DEADLOCK FALSE
