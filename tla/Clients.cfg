SPECIFICATION ClientsSpec
CONSTANTS
    Payload = {"data", "poison"}
    Poison = {"poison"}
    TIMEOUT = 2
    MaxHeld = 1
    Limit = 2
    Capacity = 2
    MaxSocket = 1
INVARIANT ReturnsTell
PROPERTY ImplementsSession
