SPECIFICATION Spec
CONSTANTS
    config = config  weights = weights  q4_0 = q4_0  q4_k = q4_k  q8_0 = q8_0
    p1 = p1  p2 = p2
    Proc = {p1, p2}
    ModelFile = {config, weights}
    Weights = {weights}
    Config = config
    Gguf = {q4_0, q4_k, q8_0}
    Listings <- MCListings
    Tag = {"q4", "q4_0", "q5"}
    Contains <- MCContains
    MaxStarts = 3
SYMMETRY Symm
INVARIANT VariantUsable
PROPERTIES CommitsWhole PullLeavesNoTmp
CHECK_DEADLOCK FALSE
