SPECIFICATION FairSpec
CONSTANTS
    NumBlocks = 4
    BlockSize = 2
    MaxModelLen = 4
    RequestIds = {1, 2, 3}
    Tokens = {1, 2}
    Prompts <- AllPrompts
    PromptLogprobs = {}
    OutputTokens = {1}
    Policy = "mimir"
    MaxNumScheduledTokens = 4
    MaxNumRunningReqs = 2
    LongPrefillThreshold = 0
    ChunkedPrefill = FALSE
    BatchQueueSize = 1
    PinTTL = 1
    PromptOf <- LivePrompts
    MetaOf <- LiveMeta
    LateAborts = FALSE
PROPERTIES
    EveryRequestFinishes
