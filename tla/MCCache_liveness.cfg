SPECIFICATION FairSpec
CONSTANTS
    MaxNegativeTtl = 2
    Questions <- MCQuestions
    Responses <- MCFewResponses
    Inserters = {p1, p2}
    NoThread = NoThread
    NumShards = 2
    ShardOf <- MCShardOf
    Capacity = 1
    UsizeModulus = 16
    TicksPerSecond = 2
    MaxTime = 2
    MaxCalls = 2
PROPERTIES
    InsertReturns
    ExpiredEntriesLeave
