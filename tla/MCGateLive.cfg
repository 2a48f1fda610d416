CONSTANTS
  Uids = {u1}
  Sockets = {s1, s2}
  Games = {g1}
  NoUser = NoUser
  NoSock = NoSock
  NoGame = NoGame
  MaxLogins = 2
  MaxAhead = 1
SPECIFICATION FairSpec
PROPERTIES
  VanishedIsReleased
  OfflineEnds
  LoginIsUsedOrDropped
