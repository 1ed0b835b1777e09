SPECIFICATION Spec
CONSTANTS
    Keys = {a, b, c}
    MaxPeers = 1
    Configs <- MCConfigs
    NoConfig = NoConfig
    Scale = 2
    Sizes = {1, 3}
    MaxTime = 2
    MaxSends = 3
SYMMETRY KeySymmetry
INVARIANTS
    Envelope
    ReserveForControl
    AllowanceIsExact
PROPERTIES
    NeverRestores
