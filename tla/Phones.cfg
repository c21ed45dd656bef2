SPECIFICATION Spec
CONSTANTS
    p1 = p1
    p2 = p2
    Phones <- Both
    NoPhone = NoPhone
    MaxEvents = 3
    MaxQueue = 2
    Faults = {"in", "out", "silent", "stop", "lost", "tone", "parse", "start"}
SYMMETRY EitherPhone
INVARIANTS TypeOK Attended Heard MarkEnds CallAudioMatches MusicYields OneReader
CHECK_DEADLOCK FALSE
