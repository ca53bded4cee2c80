CONSTANTS
    Request = {"a1", "a3", "a5", "im", "w3", "w4", "x4"}
    Prompt <- Prompts
    Image = {"im"}
    DecodeOffset <- ImageOffsets
    MaxGen = 4
    PrefillBatch = 2
    PrefillStep = 3
    BlockBytes = 2
    Engine <- HybridEngines
    Step = 2
    Hybrid = TRUE
SPECIFICATION Spec
INVARIANTS
    RowsExact
CHECK_DEADLOCK FALSE
