SPECIFICATION Spec
CONSTANTS
    Tasks = {t1, t2}
    Upstreams = {u1, u2}
    Queries <- MCQueries
    Bodies <- MCBodies
    None = None
    MaxNegativeTtl = 2

SYMMETRY Perms
INVARIANT NoOptUnasked
