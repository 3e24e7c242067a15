SPECIFICATION Spec
CONSTANTS
    NumBlocks = 5
    BlockSize = 2
    MaxModelLen = 4
    RequestIds = {1, 2, 3}
    Tokens = {1, 2}
    Prompts <- AllPrompts
    PromptLogprobs = {}
    OutputTokens = {1}
    Policy = "mimir"
    MaxNumScheduledTokens = 4
    MaxNumRunningReqs = 2
    LongPrefillThreshold = 0
    ChunkedPrefill = TRUE
    BatchQueueSize = 1
    PinTTL = 1
    PromptOf <- PrefixPrompts
    MetaOf <- PrefixMeta
    LateAborts = FALSE
INVARIANTS
    CommonPrefixShared
