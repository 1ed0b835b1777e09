CONSTANTS
  a = a
  Clients = {a}
  UdpIds = {a}
  WebIds = {a}
  Kickable = {}
  Conditioned = TRUE
  FatalDrain = FALSE
  SocketErrors = TRUE
  Quota = 5
SPECIFICATION Spec
INVARIANTS
  OwnershipAgrees
  QueueConverges
  
  DrainedBeforeMutation
PROPERTIES
  NoForeignRemoval
  DisconnectAllEmpties
