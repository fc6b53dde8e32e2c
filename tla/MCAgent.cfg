CONSTANTS
  p = p
  q = q
  d = d
  r1 = r1
  r2 = r2
  torn = torn
  Peers = {p, q}
  Receive = {p}
  Local = d
  Routes = {r1, r2}
  Unusable = {r2}
  Paths <- MCPaths
  BgpCap = 1
  UpdatesCap = 1
  Torn = torn
  Budgets <- MCBudgets
SPECIFICATION Spec
INVARIANTS NothingLost ResyncComes FileWhole SavedIsFinal
PROPERTIES Converges Terminates StatusAnswered
CHECK_DEADLOCK FALSE
