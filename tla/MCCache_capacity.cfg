SPECIFICATION Spec
CONSTANTS
    MaxNegativeTtl = 2
    Questions <- MCQuestions
    Responses <- MCResponses
    Inserters = {p1, p2}
    NoThread = NoThread
    NumShards = 2
    ShardOf <- MCShardOf
    Capacity = 1
    UsizeModulus = 16
    TicksPerSecond = 2
    MaxTime = 3
    MaxCalls = 3
INVARIANT
    CapacityRespectedWhenIdle
