SPECIFICATION Spec
CONSTANTS
    l = l
    r = r
    Buds <- TwoBuds
    MaxTicks = 1
    MaxEvents = 3
    MaxQueue = 1
    Enabled = {"key", "link_lost", "role_switch", "tone", "link_up", "plug_in"}
INVARIANT NothingForgotten
INVARIANT OnePoll
PROPERTY SwitchesOff
CHECK_DEADLOCK FALSE
