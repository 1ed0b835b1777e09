SPECIFICATION PanelSpec
CONSTANTS
    Rtt = {2, 9}
    Target = {5, 12}
    SETTLE = 2
    OUTAGE = 1
    MaxDelay = 5
    MaxClock = 7
    NoEstimateYet = FALSE
INVARIANT TargetHolds
 
