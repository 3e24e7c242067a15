SPECIFICATION Spec
CONSTANTS
    NumBlocks = 4
    BlockSize = 2
    MaxModelLen = 4
    RequestIds = {1, 2}
    Tokens = {1, 2}
    Prompts <- AllPrompts
    PromptLogprobs = {}
    OutputTokens = {1}
    Policy = "fcfs"
    MaxNumScheduledTokens = 3
    MaxNumRunningReqs = 2
    LongPrefillThreshold = 0
    ChunkedPrefill = TRUE
    BatchQueueSize = 1
    PinTTL = 1
    PromptOf <- ShortPrompts
    MetaOf <- GuidedMeta
    LateAborts = FALSE
PROPERTIES
    SkippedKeepOrder
