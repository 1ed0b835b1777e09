CONSTANTS
  a = a
  Clients = {a}
  UdpIds = {a}
  WebIds = {a}
  Kickable = {a}
  Conditioned = TRUE
  FatalDrain = FALSE
  SocketErrors = FALSE
  Quota = 2
SPECIFICATION Spec
PROPERTIES
  NativeSurvivesWebRtc
