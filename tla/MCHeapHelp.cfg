SPECIFICATION Spec
CONSTANTS
    main = main
    worker = worker
    a1 = a1
    a2 = a2
    a3 = a3
    Threads <- MCThreads
    Main = main
    Addresses <- MCAddresses
    NoAddress = NoAddress
    BatchSize = 2
    StaticSize = 2
INVARIANTS
    MutualExclusion
    RecordsConserved
    AccountsBalance
    AssertionsExplained
    
SYMMETRY Symmetry
