SPECIFICATION ConnectSpec
CONSTANTS
    ICE_GATHER_TIMEOUT = 1
    DATA_CHANNEL_OPEN_TIMEOUT = 2
    MaxLifetime = 6
 
PROPERTIES
    AuthenticatedAtUse
    AttemptEnds
