SPECIFICATION Spec
CONSTANTS
    Null = Null
    Chars <- AllChars
    Inputs <- SomeInputs
    Chunks = {1, 3}
INVARIANTS
    LinesWellFormed
    SplitIndependent
    QuotingReadsBack
PROPERTIES
    PopsEnd
