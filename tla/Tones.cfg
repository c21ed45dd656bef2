SPECIFICATION Spec
CONSTANTS
    left = left
    right = right
    Buds <- TwoBuds
    First = left
    N = 2
    MaxEvents = 1
    Kinds = {"shared", "urgent", "ring", "local"}
    Faults = {"no_file", "no_start", "full", "failed", "link", "stop", "files"}
INVARIANTS TypeOK OneStop AddingHasReason HeadPlays
PROPERTY PlaysOut
CHECK_DEADLOCK FALSE
