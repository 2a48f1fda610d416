CONSTANTS
  Uids = {u1, u2}
  Sockets = {s1, s2}
  Games = {g1}
  NoUser = NoUser
  NoSock = NoSock
  NoGame = NoGame
  MaxLogins = 2
  MaxAhead = 1
SPECIFICATION Spec
SYMMETRY Symmetry
CONSTRAINT ThreeLogins
INVARIANTS
  TypeOK
  BindingAgrees
  ConnectedIffSocket
PROPERTIES
  SceneExitAnnounced
  
