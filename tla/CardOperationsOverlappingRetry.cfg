SPECIFICATION Spec
CONSTANTS
  stampCard = stampCard
  pointCard = pointCard
  seasonalCard = seasonalCard
  idleCard = idleCard
  goneCard = goneCard
  k1 = k1
  k2 = k2
  k3 = k3
  shop = shop
  rival = rival
  cashier = cashier
  leaver = leaver
  Invocation = {i1, i2}
  Key = {k1, k2, k3}
  Card <- MCCard
  Merchant = {shop, rival}
  Operator = {cashier, leaver}
  Profile = {cashier}
  Request <- OneAccrual
  Rules <- MCRules
  Issued <- MCIssued
  CardMerchant <- MCCardMerchant
  Seasonal = {seasonalCard}
  Scale = 2
  ShortProducts = {}
  MaxAccruals = 5
  Window = 1
  MaxTime = 0
  AllowOverlap = TRUE
  Faults = {}
CHECK_DEADLOCK FALSE
INVARIANT
  AppliedOncePerKey
