SPECIFICATION MCFairSpec
CONSTANTS
  p = p
  q = q
  gold = gold
  gem = gem
  sword = sword
  potion = potion
  Defs = {sword, potion}
  MaxStack <- MCMaxStack
  Slots = 2
  NoDef = NoDef
  Players = {p, q}
  Currencies = {gold}
  NoPlayer = NoPlayer
  NoCurrency = NoCurrency
  MaxBalance = 3
  Price <- MCPrice
  NoPrice = NoPrice
  Keys = {"mint", "loot"}
  Cmd <- MCCmd
  Capacity = 1
  Ttl = 1
  SingleFault = TRUE
  MaxFaults = 1
  MaxClock = 0
  Campaigns <- PendingCampaigns
PROPERTIES EntriesAreRedelivered
CHECK_DEADLOCK FALSE
