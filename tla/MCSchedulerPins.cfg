SPECIFICATION Spec
CONSTANTS
    NumBlocks = 4
    BlockSize = 2
    MaxModelLen = 4
    RequestIds = {1, 2, 3}
    Tokens = {1, 2}
    Prompts <- AllPrompts
    PromptLogprobs = {3}
    OutputTokens = {1}
    Policy = "mimir"
    MaxNumScheduledTokens = 3
    MaxNumRunningReqs = 2
    LongPrefillThreshold = 0
    ChunkedPrefill = TRUE
    BatchQueueSize = 1
    PinTTL = 1
    PromptOf <- AgentPrompts
    MetaOf <- AgentMeta
    LateAborts = TRUE
INVARIANTS
    SchedTypeOK
    QueuesMatchStatus
    BlocksHaveOwner
    PinServesNextTurn
PROPERTIES
    KVSpec
    PinnedKVStays
    FCFSOrder
