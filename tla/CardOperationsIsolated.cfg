SPECIFICATION Spec
CONSTANTS
  stampCard = stampCard
  pointCard = pointCard
  seasonalCard = seasonalCard
  idleCard = idleCard
  goneCard = goneCard
  k1 = k1
  k2 = k2
  k3 = k3
  shop = shop
  rival = rival
  cashier = cashier
  leaver = leaver
  Invocation = {i1, i2, i3}
  Key = {k1, k2, k3}
  Card <- MCCard
  Merchant = {shop, rival}
  Operator = {cashier, leaver}
  Profile = {cashier}
  Request <- LedgerRequests
  Rules <- MCRules
  Issued <- MCIssued
  CardMerchant <- MCCardMerchant
  Seasonal = {seasonalCard}
  Scale = 2
  ShortProducts = {}
  MaxAccruals = 1
  Window = 1
  MaxTime = 2
  AllowOverlap = FALSE
  Faults = {"wallet"}
CHECK_DEADLOCK FALSE
SYMMETRY InvocationSymmetry
INVARIANTS
  FraudGuard
  NothingLost
  OneUsePerSeasonalCard
PROPERTIES
  RefinesLedger
