CONSTANTS
  Uids = {u1}
  Sockets = {s1}
  Games = {g1}
  NoUser = NoUser
  NoSock = NoSock
  NoGame = NoGame
  MaxLogins = 2
  MaxAhead = 1
SPECIFICATION FairSpec
PROPERTY PingpongTakesOver
