CONSTANTS
  Gates = {a1, a2}
  Games = {g1, g2}
  None = None
  Fragile <- NotCenterGame
  MaxLogins = 2
  MaxIncidents = 1
  MaxVer = 1
SPECIFICATION Spec
SYMMETRY Symmetry
CONSTRAINT StillPromised
CHECK_DEADLOCK FALSE
INVARIANTS
  TypeOK
  SceneIsBacked
  OneRole
  Answered
  DataKept
