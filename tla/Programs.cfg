SPECIFICATION Spec
CONSTANTS
  Scale = 1
  ShortProducts = {}
  c1 = c1
  c2 = c2
  c3 = c3
  Card = {c1, c2, c3}
  Invocation = {i1, i2}
  CreateBody <- CreateBodies
  Request <- Requests
  PushLimit = 2
  MaxDay = 2
  MaxInteger = 4
  MaxRate = 3
  Faults = {"wallet", "crash"}
SYMMETRY Symmetries
CHECK_DEADLOCK FALSE
INVARIANTS
  TypeOK
  PassesFollowProgram
  NoLostEdit
  OfferStands
  BilledWhileUsable
  AppliedWhileOpen
PROPERTIES
  RefusedByCrossedDatesOrOverflow
