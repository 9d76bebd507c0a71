SPECIFICATION MCSpec
CONSTANTS
  p = p
  q = q
  gold = gold
  gem = gem
  sword = sword
  potion = potion
  Defs = {sword, potion}
  MaxStack <- MCMaxStack
  Slots = 2
  NoDef = NoDef
  Players = {p, q}
  Currencies = {gold}
  NoPlayer = NoPlayer
  NoCurrency = NoCurrency
  MaxBalance = 2
  Price <- MCPrice
  NoPrice = NoPrice
  Keys = {"mint", "send", "buy", "loot", "spend", "gift", "back", "give", "take"}
  Cmd <- MCCmd
  Capacity = 2
  Ttl = 1
  SingleFault = TRUE
  MaxFaults = 2
  MaxClock = 2
  Campaigns <- MCCampaigns
INVARIANTS Conservation LedgerExplainsBalances AtMostOnce NeverForgotten ReplayIsFirstResult
PROPERTIES RefusedIsNoOp DeliveredInFull
CHECK_DEADLOCK FALSE
