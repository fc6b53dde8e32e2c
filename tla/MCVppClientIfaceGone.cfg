CONSTANTS
  Ifaces = {i1, i2}
  Selected = {i1, i2}
  dir = "ingress"
  Unset = Unset
  Rules = {none, r}
  NoRules = none
  FirstVpp <- MCFirst
  BootVpp <- BootBare
  MaxFaults = 1
  MaxIfaceDels = 1
  MaxIfaceAdds = 0
SYMMETRY Symmetric
SPECIFICATION Spec
INVARIANTS ResyncFollows
CHECK_DEADLOCK FALSE
