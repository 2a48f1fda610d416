CONSTANTS
  Gates = {a1}
  Games = {g1, g2}
  None = None
  Fragile <- NotCenterGame
  MaxLogins = 1
  MaxIncidents = 0
  MaxVer = 0
SPECIFICATION Spec
CHECK_DEADLOCK FALSE
INVARIANT LogoutReachesRole
