SPECIFICATION Spec
CONSTANTS
  Clients = {c1, c2}
  Users = {u1, u2}
  Gates = {g1}
  None = None
  NoUser = NoUser
  UserNumMax = 1
  LoginQueueProcess = 1
  LoginQueueTimer = 5
  UInt = 65536
  MaxNum = 2
  MaxDue = 2
INVARIANTS TypeOK QueueTicks OwnersMatch
PROPERTIES ServedInOrder NobodyWaitsForEver
