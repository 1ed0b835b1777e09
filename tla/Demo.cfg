SPECIFICATION DemoSpec
CONSTANTS
    Client <- MCClient
    Spawn <- MCSpawn
    Edge = 1
    PelletCells = {1}
    PelletIds <- MCPelletIds
    TARGET_PELLET_COUNT = 1
    RESPAWN_TICKS = 2
    INPUT_STALE_TIMEOUT_TICKS = 1
    SeqSpace = 7
    MaxMass = 2
    INPUT_SEND_INTERVAL = 1
    MAX_INPUT_SEND_CATCH_UP_STEPS = 1
    MAX_PENDING_INPUT_COMMANDS = 2
    Me = 2
    FrameTimes = {0, 1}
    Steer = {1}
    MaxWire = 2
    Scenarios <- MCScenarios
INVARIANTS MirrorsServer PendingCoversUnacked PlayersAccounted
PROPERTIES NewestInputRules 
