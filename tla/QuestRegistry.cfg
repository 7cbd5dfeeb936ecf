SPECIFICATION FairSpec
CONSTANTS
  g1 = g1
  g2 = g2
  p1 = p1
  p2 = p2
  wolf = wolf
  boar = boar
  Nobody = Nobody
  Givers = {g1}
  Players = {p1}
  Targets = {wolf}
  MaxLive = 2
  ScanMaxPerPass = 1
  MaxPendingEvents = 1
  MaxId = 3
  MaxMs = 2
  MaxMoney = 5
  TestKillCreditLoss = TRUE
  StartMs = 0
  Times = {0, 1, 2}
  RequiredCounts = {1}
  Rewards = {1}
  Expiries = {1}
  Balances = {0}
  ScriptedAmounts = {2}
  MaxGuid = 2
  MaxKills = 1
INVARIANTS IndexExact ShownActionable LiveQuestShown
PROPERTIES QuestsEnd
