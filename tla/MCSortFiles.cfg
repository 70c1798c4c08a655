SPECIFICATION Spec
CONSTANTS
    Sched = Sched
    Null = Null
    Missing = Missing
    Coros = {0, 1, 2}
    FileCount = 3
    Contents <- SomeContents
    INT_MAX = 9
INVARIANTS
    ControlIsAlive
    TurnsFair
    SlotsPaired
    OutputSorted
PROPERTIES
    ProgramEnds
