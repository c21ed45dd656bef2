SPECIFICATION Spec
CONSTANTS
    l = l
    r = r
    Buds <- OneBud
    MaxTicks = 1
    MaxEvents = 3
    MaxQueue = 2
    Enabled = {"key", "plug_in", "plug_out"}
INVARIANT PulledOutSwitchesOn
CHECK_DEADLOCK FALSE
