CONSTANTS
  a = a
  Clients = {a}
  UdpIds = {}
  WebIds = {a}
  Kickable = {a}
  Conditioned = TRUE
  FatalDrain = TRUE
  SocketErrors = FALSE
  Quota = 2
SPECIFICATION FairSpec
PROPERTIES
  KickCompletes
