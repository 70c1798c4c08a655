SPECIFICATION Spec
CONSTANTS
    f1 = f1
    f2 = f2
    n1 = n1
    n2 = n2
    x = x
    y = y
    None = None
    Zero = Zero
    Garbage = Zero
    Files = {f1, f2}
    Names = {n1, n2}
    Bytes = {Zero}
    BLOCK_SIZE = 2
    MAX_FILE_SIZE = 3
    FirstCapacity = 1
    MaxCapacity = 2
    MaxRequest = 2
    MaxBlocks = 3
    OpenFlags <- Plain
    Overwriting = TRUE
    ReadersResize = TRUE
SYMMETRY Symmetry
VIEW NoAnswers
INVARIANTS
    FilesLive
    WalksInside
