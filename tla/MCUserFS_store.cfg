SPECIFICATION Spec
CONSTANTS
    f1 = f1
    f2 = f2
    n1 = n1
    n2 = n2
    x = x
    y = y
    None = None
    Zero = Zero
    Garbage = Garbage
    Files = {f1, f2}
    Names = {n1}
    Bytes = {x}
    BLOCK_SIZE = 2
    MAX_FILE_SIZE = 3
    FirstCapacity = 1
    MaxCapacity = 2
    MaxRequest = 2
    MaxBlocks = 2
    OpenFlags <- ReadOrWrite
    Overwriting = FALSE
    ReadersResize = FALSE
SYMMETRY ByteSymmetry
VIEW NoAnswers
INVARIANTS
    TypeOK
    ChainMatchesSize
PROPERTIES
    ImplementsStore
