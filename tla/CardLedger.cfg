SPECIFICATION LedgerSpec
CONSTANTS
  stampCard = stampCard
  pointCard = pointCard
  Key = {k1, k2, k3}
  Account = {stampCard, pointCard}
  Txn = {t1}
  Requests <- MCRequests
  Rules <- MCRules
  Issued <- MCIssued
  Scale = 100
  ShortProducts <- MCShortProducts
\* The ledger stops when every key is answered.
CHECK_DEADLOCK FALSE
INVARIANTS
  LedgerBalances
  SplittingIsBounded
