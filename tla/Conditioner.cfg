CONSTANTS
    Direction = {incoming, outgoing}
    Revisions = 5
    Configs <- MCConfigs
    Durations = {0, 2}
    Sizes = {1, 2}
    MaxTime = 3
    MaxPackets = 3
    MaxChanges = 3
SPECIFICATION Spec
SYMMETRY Symmetric
INVARIANTS
    QueuesSound
    OutageReported
PROPERTIES
    DeliversCurrent
    OutageIsSilent
CHECK_DEADLOCK FALSE
