CONSTANTS
    Direction = {incoming, outgoing}
    Revisions = 4
    Gates = {udp, web}
    Peers = {p, q}
    Configs <- MCConfigs
    Durations = {0, 1}
    Sizes = {1}
    Second = 1
    MaxTime = 2
    MaxPackets = 2
    MaxChanges = 2
    MaxOwners = 2
SPECIFICATION Spec
SYMMETRY Symmetric
INVARIANTS
    PeersOwned
    DrainsOwnPackets
    OutageIsGlobal
    PeerQueuesSound
    IdleReclaimed
CHECK_DEADLOCK FALSE
