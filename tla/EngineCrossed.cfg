SPECIFICATION Spec
CONSTANTS
  r1 = r1
  r2 = r2
  api1 = api1
  Nobody = Nobody
  Requests <- TwoRequests
  Apis <- OneRoute
  RouteOf <- OneRouteOf
  Hooks = 0
  Kinds <- OnlyShared
INVARIANTS
  OwnResponse
CHECK_DEADLOCK FALSE
