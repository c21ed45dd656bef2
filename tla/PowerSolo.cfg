SPECIFICATION Spec
CONSTANTS
    l = l
    r = r
    Buds <- OneBud
    MaxTicks = 1
    MaxEvents = 3
    MaxQueue = 2
    Enabled = {"key", "auto", "battery_low", "play", "led", "phone_up", "phone_lost", "plug_in", "plug_out", "keep", "call"}
INVARIANT TypeOK
INVARIANT NothingForgotten
INVARIANT NotStranded
INVARIANT OnePoll
PROPERTY SwitchesOff
CHECK_DEADLOCK FALSE
