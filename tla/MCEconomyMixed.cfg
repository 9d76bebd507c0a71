SPECIFICATION MCSpec
CONSTANTS
  p = p
  q = q
  gold = gold
  gem = gem
  sword = sword
  potion = potion
  Defs = {sword, potion}
  MaxStack <- MCMaxStack
  Slots = 2
  NoDef = NoDef
  Players = {p, q}
  Currencies = {gold}
  NoPlayer = NoPlayer
  NoCurrency = NoCurrency
  MaxBalance = 3
  Price <- MCPrice
  NoPrice = NoPrice
  Keys = {"mint", "swap"}
  Cmd <- MCCmd
  Capacity = 2
  Ttl = 1
  SingleFault = TRUE
  MaxFaults = 0
  MaxClock = 0
  Campaigns <- MixedCampaigns
PROPERTIES RefusedIsNoOp
CHECK_DEADLOCK FALSE
