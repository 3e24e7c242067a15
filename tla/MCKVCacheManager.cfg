SPECIFICATION KVSpec
CONSTANTS
    NumBlocks = 4
    BlockSize = 2
    MaxModelLen = 4
    RequestIds = {r1, r2}
    Tokens = {1, 2}
    Prompts <- ForkingPrompts
    PromptLogprobs = {}
SYMMETRY Symmetry
INVARIANTS
    KVTypeOK
    RefCountIsHolders
    FreeQueueIsUnreferenced
    HashMapConsistent
    CachedBlocksAreOwnPrefix
    UncachedBlocksArePrivate
    AssertsHold
PROPERTIES
    HeldBlocksKeepHash
