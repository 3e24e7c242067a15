SPECIFICATION Spec
CONSTANTS
    NumBlocks = 5
    BlockSize = 1
    MaxModelLen = 4
    RequestIds = {1, 2}
    Tokens = {1, 2}
    Prompts <- AllPrompts
    PromptLogprobs = {}
    OutputTokens = {1}
    Policy = "fcfs"
    MaxNumScheduledTokens = 4
    MaxNumRunningReqs = 2
    LongPrefillThreshold = 2
    ChunkedPrefill = TRUE
    BatchQueueSize = 3
    PinTTL = 1
    PromptOf <- ChunkPrompts
    MetaOf <- PlainMeta
    LateAborts = FALSE
INVARIANTS
    TokensInOrder
