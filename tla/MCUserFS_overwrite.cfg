SPECIFICATION Spec
CONSTANTS
    f1 = f1
    f2 = f2
    n1 = n1
    n2 = n2
    x = x
    y = y
    None = None
    Zero = Zero
    Garbage = Garbage
    Files = {f1}
    Names = {n1}
    Bytes = {x, y}
    BLOCK_SIZE = 2
    MAX_FILE_SIZE = 4
    FirstCapacity = 1
    MaxCapacity = 1
    MaxRequest = 2
    MaxBlocks = 4
    OpenFlags <- Plain
    Overwriting = TRUE
    ReadersResize = FALSE
PROPERTIES
    ImplementsStore
