SPECIFICATION Spec
CONSTANTS
  ann = ann
  e1 = e1
  e2 = e2
  e3 = e3
  e4 = e4
  Invocation = {i1, i2}
  Shop = shop
  Owner = owner
  Staff = {ann}
  Email = {e1, e2, e3, e4}
  EmailOf <- MCEmailOf
  ShopTier = "starter"
  Request <- MCRequests
  Faults = {"crash", "auth", "db"}
  CardCounts <- MCCardCounts
  NotificationCounts <- MCNotificationCounts
  OperatorCounts <- MCOperatorCounts
\* Requests stop coming.
CHECK_DEADLOCK FALSE
SYMMETRY InvocationSymmetry
INVARIANTS
  TypeOK
  OnboardingIsAllOrNothing
  StrandedLoginsOnlyBehindFailures
  GhostOperatorsOnlyBehindRemovals
  EmailsAgreeOutsideEdits
  RemovedStaysRemoved
  InvoiceIsExactToTheCent
  UpgradeAdviceEndsAtCheapest
PROPERTIES
  LimitHolds
  TenantIsolation
