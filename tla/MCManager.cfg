CONSTANTS
  Sessions = {"s1", "s2"}
  Nlris <- MCNlris
  Routes <- MCRoutes
  Keys <- MCKeys
  Families = {"ip4", "ip6"}
  NoKey = NoKey
  routeIdentity <- MCRouteIdentity
  aclKey <- MCAclKey
  keyFamily <- MCKeyFamily
SPECIFICATION Spec
INVARIANTS CountsAreRoutes IndexesAgree AclMatchesRoutes
PROPERTIES RemovedByHolder ImplementsRouteTable
