CONSTANTS
    Request = {"a1", "a3", "a5", "im", "w3", "w4", "x4"}
    Prompt <- Prompts
    Image = {"im"}
    DecodeOffset <- ImageOffsets
    MaxGen = 4
    PrefillBatch = 3
    PrefillStep = 3
    BlockBytes = 2
    Engine <- Engines
    Step = 3
    Hybrid = FALSE
SPECIFICATION Spec
INVARIANTS
    RowsExact
    CacheTight
    PoolExact
