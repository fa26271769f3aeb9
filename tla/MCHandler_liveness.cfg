SPECIFICATION FairSpec
CONSTANTS
    Tasks = {t1, t2}
    Upstreams = {u1, u2}
    Queries <- MCFewQueries
    Bodies <- MCFewBodies
    None = None
    MaxNegativeTtl = 2

PROPERTY QueryFinishes
