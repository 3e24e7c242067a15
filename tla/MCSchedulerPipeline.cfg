SPECIFICATION Spec
CONSTANTS
    NumBlocks = 4
    BlockSize = 2
    MaxModelLen = 4
    RequestIds = {1, 2, 3}
    Tokens = {1, 2}
    Prompts <- AllPrompts
    PromptLogprobs = {}
    OutputTokens = {1}
    Policy = "fcfs"
    MaxNumScheduledTokens = 3
    MaxNumRunningReqs = 2
    LongPrefillThreshold = 0
    ChunkedPrefill = TRUE
    BatchQueueSize = 2
    PinTTL = 1
    PromptOf <- MixedPrompts
    MetaOf <- MixedMeta
    LateAborts = FALSE
INVARIANTS
    ComputedIsWritten
    SchedulerAsserts
    WorkersInStep
    TokensInOrder
    CommonPrefixShared
PROPERTIES
    KVSpec
    FinishedIsFinal
