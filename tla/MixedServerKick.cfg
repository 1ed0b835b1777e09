CONSTANTS
  a = a
  b = b
  Clients = {a, b}
  UdpIds = {b}
  WebIds = {a}
  Kickable = {a, b}
  Conditioned = FALSE
  FatalDrain = FALSE
  SocketErrors = FALSE
  Quota = 2
SPECIFICATION FairSpec
PROPERTIES
  KickCompletes
  CallReturns
