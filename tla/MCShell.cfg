SPECIFICATION Spec
CONSTANTS
    BadLine = BadLine
    Scripts <- SomeScripts
    Programs = {"run"}
    Longest = 5
    Capacity = 1
    MaxItems = 2
INVARIANTS
    PipesConnect
    WritersAreWriters
    NothingLeft
PROPERTIES
    LineEnds
