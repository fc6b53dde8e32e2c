CONSTANTS
  Ifaces = {i1, i2}
  Selected = {i1, i2}
  dir = "ingress"
  Unset = Unset
  Rules = {none, r}
  NoRules = none
  FirstVpp <- MCFirst
  BootVpp <- BootManual
  MaxFaults = 1
  MaxIfaceDels = 1
  MaxIfaceAdds = 1
SPECIFICATION FairSpec

PROPERTIES StaleWindow Recovers
CHECK_DEADLOCK FALSE
