CONSTANTS
  Uids = {u1}
  Sockets = {s1, s2, s3}
  Games = {g1, g2}
  NoUser = NoUser
  NoSock = NoSock
  NoGame = NoGame
  MaxLogins = 3
  MaxAhead = 1
SPECIFICATION Spec
SYMMETRY Symmetry
INVARIANTS
  NewestLoginPlays
  Watched
  ListedInScene
PROPERTY
  RoleIsRemembered
