SPECIFICATION KVSpec
CONSTANTS
    NumBlocks = 4
    BlockSize = 1
    MaxModelLen = 3
    RequestIds = {r1, r2, r3}
    Tokens = {1}
    Prompts <- NestedPrompts
    PromptLogprobs = {}
SYMMETRY Symmetry
INVARIANTS
    CacheIsPrefixClosed
