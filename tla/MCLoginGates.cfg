SPECIFICATION GatesSpec
CONSTANTS
  Clients = {c1}
  Users = {u1}
  Gates = {g1, g2}
  None = None
  NoUser = NoUser
  UserNumMax = 1
  LoginQueueProcess = 1
  LoginQueueTimer = 5
  UInt = 65536
  MaxNum = 0
  MaxDue = 1
  MaxWire = 2
  MaxLosses = 1
SYMMETRY GateSymmetry
INVARIANT RosterCovers
