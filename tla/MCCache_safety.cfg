SPECIFICATION Spec
CONSTANTS
    MaxNegativeTtl = 2
    Questions <- MCQuestions
    Responses <- MCResponses
    Inserters = {p1, p2}
    NoThread = NoThread
    NumShards = 2
    ShardOf <- MCShardOf
    Capacity = 1
    UsizeModulus = 16
    TicksPerSecond = 2
    MaxTime = 4
    MaxCalls = 3
SYMMETRY Perms
INVARIANTS
    TypeOK
    LenTracksEntries
    LenExactWhenQuiet
    ShardLockDiscipline
    ServedFresh
    CapacityRespected
PROPERTY
    EvictsOnlyWhenFull
