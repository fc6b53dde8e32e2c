CONSTANTS
  Ifaces = {i1, i2}
  Selected = {i1, i2}
  dir = "ingress"
  Unset = Unset
  Rules = {none, r}
  NoRules = none
  FirstVpp <- MCFirst
  BootVpp <- BootBare
  MaxFaults = 2
  MaxIfaceDels = 0
  MaxIfaceAdds = 0
SYMMETRY Symmetric
SPECIFICATION Spec
INVARIANTS Enforced NoOrphans CleanExit
PROPERTIES ManualKept
CHECK_DEADLOCK FALSE
