SPECIFICATION Spec
CONSTANTS
  g1 = g1
  g2 = g2
  p1 = p1
  p2 = p2
  wolf = wolf
  boar = boar
  Nobody = Nobody
  Givers = {g1}
  Players = {p1, p2}
  Targets = {wolf, boar}
  MaxLive = 2
  ScanMaxPerPass = 2
  MaxPendingEvents = 1
  MaxId = 2
  MaxMs = 9
  MaxMoney = 5
  TestKillCreditLoss = TRUE
  StartMs = 0
  Times = {0, 1}
  RequiredCounts = {2}
  Rewards = {2}
  Expiries = {1}
  Balances = {0, 2, 3}
  ScriptedAmounts <- MCScripted
  MaxGuid = 1
  MaxKills = 3
SYMMETRY Interchangeable
INVARIANTS CreditExact KillCreditKept OutcomeOnce RewardExact
