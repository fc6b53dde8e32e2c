SPECIFICATION Spec
CONSTANTS
  Index = {i0, i1}
  Names = {eth0, eth1}
  Unnamed = Unnamed
  None = None
  Configs <- MCConfigs
  Defaults <- MCDefaults
  Scale = 144
  Base = 1002
  Budgets <- MCBudgets
SYMMETRY MCSymmetry
CHECK_DEADLOCK FALSE
INVARIANTS
  WindowExact
  Accounted
  LookupFollows
