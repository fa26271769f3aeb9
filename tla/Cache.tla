------------------------------- MODULE Cache -------------------------------
(***************************************************************************)
(* The concurrent, sharded response cache (dnser-cache/src/lib.rs).        *)
(*                                                                         *)
(* Each shard is a map behind a read-write lock; the number of entries of  *)
(* all shards is kept in one atomic counter, len, which is not updated     *)
(* under a common lock.  Query tasks call insert() and get() in parallel,  *)
(* and one reaper task calls evict_expired() again and again.              *)
(*                                                                         *)
(* Granularity.  A thread's steps that touch only a shard whose lock it    *)
(* holds are joined with its neighbouring step; every access to len is in  *)
(* a step of its own, except that a step which removes entries under the   *)
(* lock and then subtracts from len is one step (nobody sees the shard     *)
(* before the lock is released).                                           *)
(***************************************************************************)
EXTENDS CachePolicy, FiniteSets

CONSTANTS
    Questions,       \* the questions that responses answer and clients ask
    Responses,       \* the responses that insert() may be called with
    Inserters,       \* query tasks that call insert()
    NoThread,        \* the holder of a free lock
    NumShards,
    ShardOf,         \* the hash of a key, masked to a shard index
    Capacity,        \* Cache::capacity
    UsizeModulus,    \* 2^64 in the code: len wraps around at this value
    TicksPerSecond,  \* resolution of the clock, finer than the TTLs'
    MaxTime,         \* bound: the clock stops here
    MaxCalls         \* bound: number of calls of insert()

Keys == {CacheKey(q) : q \in Questions}

Shards == 0 .. (NumShards - 1)

ASSUME CacheAssumption ==
    /\ IsFiniteSet(Keys)
    /\ IsFiniteSet(Inserters)
    /\ NoThread \notin Inserters
    /\ NumShards \in Nat \ {0}
    /\ ShardOf \in [Keys -> Shards]
    /\ Capacity \in Nat \ {0}
    /\ UsizeModulus \in Nat
    /\ UsizeModulus > Cardinality(Keys) + 2 * Cardinality(Inserters)
    /\ TicksPerSecond \in Nat \ {0}
    /\ MaxTime \in Nat
    /\ MaxCalls \in Nat

ASSUME ResponsesAssumption == Responses \subseteq Message(Questions)

VARIABLES
    store,    \* key -> CacheEntry or None; the shards' maps put together
    len,      \* Cache::len
    lock,     \* shard -> the thread that holds its write lock, or NoThread
    clock,    \* Instant::now(), in ticks
    pc,       \* where each inserter is within insert()
    job,      \* the local variables of each inserter: key, entry, now, scan
    reaper,   \* the reaper's position: next shard (or NumShards: idle), now
    calls,    \* calls of insert() so far
    overlapped \* history: have two calls of insert() been in progress at once?

vars == <<store, len, lock, clock, pc, job, reaper, calls, overlapped>>

\* A key without an entry; an inserter without a call.
None == [none |-> TRUE]

CacheEntry ==
    [response: Responses, inserted_at: Nat, expires_at: Nat, received: Nat]

InsertSteps == {"idle", "lock", "evict", "scan", "sub", "relock", "store", "add"}

\* hash_one(key) & (NUM_SHARDS - 1): the same for a CacheKey and a Lookup.
ShardIndex(key) == ShardOf[key]

Cached == {k \in Keys : store[k] # None}
InShard(s) == {k \in Cached : ShardIndex(k) = s}

TypeOK ==
    /\ store \in [Keys -> CacheEntry \cup {None}]
    /\ len \in 0 .. (UsizeModulus - 1)
    /\ lock \in [Shards -> Inserters \cup {NoThread}]
    /\ clock \in Nat
    /\ pc \in [Inserters -> InsertSteps]
    /\ job \in [Inserters ->
                  [key: Keys, entry: CacheEntry, scan: 0 .. NumShards] \cup {None}]
    /\ \A p \in Inserters : pc[p] # "idle" => job[p] # None
    /\ reaper \in [next: 0 .. NumShards, now: Nat]
    /\ calls \in Nat
    /\ overlapped \in {"no", "yes"}

Init ==
    /\ store = [k \in Keys |-> None]
    /\ len = 0
    /\ lock = [s \in Shards |-> NoThread]
    /\ clock = 0
    /\ pc = [p \in Inserters |-> "idle"]
    /\ job = [p \in Inserters |-> None]
    /\ reaper = [next |-> NumShards, now |-> 0]
    /\ calls = 0
    /\ overlapped = "no"

----------------------------------------------------------------------------
(* Helpers. *)

\* AtomicUsize::fetch_add and fetch_sub wrap around.
MutSaturatingSubLen(a, n) == IF a >= n THEN a - n ELSE 0
MutUncheckedSubLen(a, n) == a - n
WrappingAdd(a, n) == IF a + n < UsizeModulus THEN a + n ELSE a + n - UsizeModulus
WrappingSub(a, n) == IF a >= n THEN a - n ELSE a - n + UsizeModulus

OwnShard(p) == ShardIndex(job[p].key)

MutExpiredLate(k, now) == now > store[k].expires_at
Expired(k, now) == now >= store[k].expires_at

\* evict_one: an expired entry if there is one, otherwise any entry; which
\* one depends on the iteration order of the map.
EvictOne(s, now) ==
    LET expired == {k \in InShard(s) : Expired(k, now)}
    IN  IF expired # {} THEN expired ELSE InShard(s)

MutFullEarly == len + 1 >= Capacity
MutFullLate == len > Capacity
CacheFull == len >= Capacity

WriteLockFree(s) == lock[s] = NoThread

\* HashMap::insert(..).is_none()
MutAlwaysNew(p) == p \in Inserters
IsNew(p) == store[job[p].key] = None

Goto(p, step) == pc' = [pc EXCEPT ![p] = step]

----------------------------------------------------------------------------
(* insert() *)

NewEntry(r, now) ==
    [response    |-> r,
     inserted_at |-> now,
     expires_at  |-> now + EffectiveTtl(r) * TicksPerSecond,
     received    |-> clock]

\* Line 214 reads the clock before any lock is taken.
InsertStart(p, r) ==
    /\ pc[p] = "idle"
    /\ calls < MaxCalls
    /\ EffectiveTtl(r) # NotCacheable
    /\ job' = [job EXCEPT ![p] = [key   |-> CacheKey(r.questions[1]),
                                  entry |-> NewEntry(r, clock),
                                  scan  |-> 0]]
    /\ Goto(p, "lock")
    /\ calls' = calls + 1
    /\ overlapped' = IF \E other \in Inserters \ {p} : pc[other] # "idle"
                        THEN "yes" ELSE overlapped
    /\ UNCHANGED <<store, len, lock, clock, reaper>>

\* The early returns: the response is dropped.
InsertRejected(p, r) ==
    /\ pc[p] = "idle"
    /\ calls < MaxCalls
    /\ EffectiveTtl(r) = NotCacheable
    /\ calls' = calls + 1
    /\ UNCHANGED <<store, len, lock, clock, pc, job, reaper, overlapped>>

\* Takes the write lock of the own shard and compares len with capacity.
InsertLockRoom(p) ==
    /\ pc[p] = "lock"
    /\ WriteLockFree(OwnShard(p))
    /\ ~CacheFull
    /\ lock' = [lock EXCEPT ![OwnShard(p)] = p]
    /\ Goto(p, "store")
    /\ UNCHANGED <<store, len, clock, job, reaper, calls, overlapped>>

InsertLockFull(p) ==
    /\ pc[p] = "lock"
    /\ WriteLockFree(OwnShard(p))
    /\ CacheFull
    /\ InShard(OwnShard(p)) # {}
    /\ lock' = [lock EXCEPT ![OwnShard(p)] = p]
    /\ Goto(p, "evict")
    /\ UNCHANGED <<store, len, clock, job, reaper, calls, overlapped>>

\* The own shard has nothing to evict: the lock is given up for the scan.
MutScanKeepsLock(p) ==
    /\ pc[p] = "lock"
    /\ WriteLockFree(OwnShard(p))
    /\ CacheFull
    /\ InShard(OwnShard(p)) = {}
    /\ lock' = [lock EXCEPT ![OwnShard(p)] = p]
    /\ Goto(p, "scan")
    /\ UNCHANGED <<store, len, clock, job, reaper, calls, overlapped>>

InsertLockEmpty(p) ==
    /\ pc[p] = "lock"
    /\ WriteLockFree(OwnShard(p))
    /\ CacheFull
    /\ InShard(OwnShard(p)) = {}
    /\ Goto(p, "scan")
    /\ UNCHANGED <<store, len, lock, clock, job, reaper, calls, overlapped>>

\* The own shard's victim, removed and subtracted under the own lock.
InsertEvictOwn(p) ==
    /\ pc[p] = "evict"
    /\ \E k \in EvictOne(OwnShard(p), job[p].entry.inserted_at) :
           store' = [store EXCEPT ![k] = None]
    /\ len' = WrappingSub(len, 1)
    /\ Goto(p, "store")
    /\ UNCHANGED <<lock, clock, job, reaper, calls, overlapped>>

\* The scan over the other shards, in index order; each shard is locked for
\* its own iteration only.
InsertScanNext(p) ==
    LET s == job[p].scan
    IN  /\ pc[p] = "scan"
        /\ s < NumShards
        /\ s = OwnShard(p) \/ (WriteLockFree(s) /\ InShard(s) = {})
        /\ job' = [job EXCEPT ![p].scan = s + 1]
        /\ UNCHANGED <<store, len, lock, clock, pc, reaper, calls, overlapped>>

InsertScanEvict(p) ==
    LET s == job[p].scan
    IN  /\ pc[p] = "scan"
        /\ s < NumShards
        /\ s # OwnShard(p)
        /\ WriteLockFree(s)
        /\ \E k \in EvictOne(s, job[p].entry.inserted_at) :
               store' = [store EXCEPT ![k] = None]
        /\ Goto(p, "sub")
        /\ UNCHANGED <<len, lock, clock, job, reaper, calls, overlapped>>

InsertScanEnd(p) ==
    /\ pc[p] = "scan"
    /\ job[p].scan = NumShards
    /\ Goto(p, "relock")
    /\ UNCHANGED <<store, len, lock, clock, job, reaper, calls, overlapped>>

\* The scan's victim is subtracted when no lock is held any more.
InsertSub(p) ==
    /\ pc[p] = "sub"
    /\ len' = WrappingSub(len, 1)
    /\ Goto(p, "relock")
    /\ UNCHANGED <<store, lock, clock, job, reaper, calls, overlapped>>

InsertRelock(p) ==
    /\ pc[p] = "relock"
    /\ WriteLockFree(OwnShard(p))
    /\ lock' = [lock EXCEPT ![OwnShard(p)] = p]
    /\ Goto(p, "store")
    /\ UNCHANGED <<store, len, clock, job, reaper, calls, overlapped>>

\* HashMap::insert and the release of the lock.
InsertStore(p) ==
    /\ pc[p] = "store"
    /\ store' = [store EXCEPT ![job[p].key] = job[p].entry]
    /\ lock' = [lock EXCEPT ![OwnShard(p)] = NoThread]
    /\ Goto(p, IF IsNew(p) THEN "add" ELSE "idle")
    /\ job' = IF IsNew(p) THEN job ELSE [job EXCEPT ![p] = None]
    /\ UNCHANGED <<len, clock, reaper, calls, overlapped>>

\* A new key is counted after the lock has been released.
InsertAdd(p) ==
    /\ pc[p] = "add"
    /\ len' = WrappingAdd(len, 1)
    /\ Goto(p, "idle")
    /\ job' = [job EXCEPT ![p] = None]
    /\ UNCHANGED <<store, lock, clock, reaper, calls, overlapped>>

InsertStep(p) ==
    \/ InsertLockRoom(p)
    \/ InsertLockFull(p)
    \/ InsertLockEmpty(p)
    \/ InsertEvictOwn(p)
    \/ InsertScanNext(p)
    \/ InsertScanEvict(p)
    \/ InsertScanEnd(p)
    \/ InsertSub(p)
    \/ InsertRelock(p)
    \/ InsertStore(p)
    \/ InsertAdd(p)

----------------------------------------------------------------------------
(* evict_expired(), called by the reaper task on every tick of its interval *)

MutReaperNowOnce ==
    /\ reaper.next = NumShards
    /\ reaper' = [reaper EXCEPT !.next = 0]
    /\ UNCHANGED <<store, len, lock, clock, pc, job, calls, overlapped>>

ReaperStart ==
    /\ reaper.next = NumShards
    /\ reaper' = [next |-> 0, now |-> clock]
    /\ UNCHANGED <<store, len, lock, clock, pc, job, calls, overlapped>>

ReaperSweep ==
    LET s    == reaper.next
        dead == {k \in InShard(s) : Expired(k, reaper.now)}
    IN  /\ s < NumShards
        /\ WriteLockFree(s)
        /\ store' = [k \in Keys |-> IF k \in dead THEN None ELSE store[k]]
        /\ len' = WrappingSub(len, Cardinality(dead))
        /\ reaper' = [reaper EXCEPT !.next = s + 1]
        /\ UNCHANGED <<lock, clock, pc, job, calls, overlapped>>

Tick ==
    /\ clock < MaxTime
    /\ clock' = clock + 1
    /\ UNCHANGED <<store, len, lock, pc, job, reaper, calls, overlapped>>

----------------------------------------------------------------------------
(* get() changes nothing, so it is an operator of the state.  It reads the *)
(* entry and the clock under the read lock, which excludes a writer.       *)

Elapsed(e) == (clock - e.inserted_at) \div TicksPerSecond

GetMatches(q) == {k \in Cached : LookupEquivalent(q, k)}

Get(q) ==
    IF \A k \in GetMatches(q) : Expired(k, clock) THEN None
    ELSE LET e == store[CHOOSE k \in GetMatches(q) : TRUE]
         IN  AgedResponse(e.response, Elapsed(e))

ReadLockFree(q) == lock[ShardIndex(CacheKey(q))] = NoThread

----------------------------------------------------------------------------

Next ==
    \/ \E p \in Inserters, r \in Responses : InsertStart(p, r)
    \/ \E p \in Inserters, r \in Responses : InsertRejected(p, r)
    \/ \E p \in Inserters : InsertStep(p)
    \/ ReaperStart
    \/ ReaperSweep
    \/ Tick

Spec == Init /\ [][Next]_vars

(***************************************************************************)
(* Fairness: every thread that has work and is not blocked is scheduled,   *)
(* the reaper's interval keeps ticking and time passes.  Only weak         *)
(* fairness is assumed of the locks.                                       *)
(***************************************************************************)
FairSpec ==
    /\ Spec
    /\ \A p \in Inserters : WF_vars(InsertStep(p))
    /\ WF_vars(ReaperStart)
    /\ WF_vars(ReaperSweep)
    /\ WF_vars(Tick)

----------------------------------------------------------------------------
(* Properties *)

InStep(step) == {p \in Inserters : pc[p] = step}

\* The entries, corrected by the fetch_add and fetch_sub still to come.
ExpectedLen ==
    Cardinality(Cached) - Cardinality(InStep("add")) + Cardinality(InStep("sub"))

\* The atomic counter is, at every moment, the number of entries less the
\* insertions not yet counted plus the evictions not yet counted, modulo the
\* word size: it can be off while insert() runs, but it never drifts, although
\* insert() and evict_expired() update it under different locks or under none.
LenTracksEntries ==
    len = IF ExpectedLen >= 0 THEN ExpectedLen ELSE ExpectedLen + UsizeModulus

\* Whenever no insert() is between its change of a shard and its change of
\* the counter, Cache::len() is the number of entries in the shards.
LenExactWhenQuiet ==
    InStep("add") \cup InStep("sub") = {} => len = Cardinality(Cached)

\* insert() holds the lock of its own shard exactly while it evicts from it or
\* stores into it, and gives it up before it scans the other shards, so that it
\* never waits for one lock while it keeps another; a thread that found its own
\* shard non-empty still has a victim there when it evicts.
ShardLockDiscipline ==
    /\ \A s \in Shards, p \in Inserters :
           lock[s] = p <=> pc[p] \in {"evict", "store"} /\ OwnShard(p) = s
    /\ \A p \in InStep("evict") : InShard(OwnShard(p)) # {}

\* Cache::capacity: the shards never hold more entries than that, as long as
\* no two calls of insert() overlap; the reaper may run at any time.
CapacityRespected == overlapped = "no" => Cardinality(Cached) <= Capacity

\* Cache::capacity, "Maximum number of cached DNS responses", after every
\* insert() has returned: what is over the limit then, stays over it until
\* entries expire or later insertions evict them.
CapacityRespectedWhenIdle ==
    InStep("idle") = Inserters => Cardinality(Cached) <= Capacity

\* insert() starts to evict from a cache that is not full only while another
\* insert() owes the counter an update.
EvictsOnlyWhenFull ==
    [][\A p \in Inserters :
          pc[p] = "lock" /\ pc'[p] \in {"evict", "scan"} =>
              \/ Cardinality(Cached) >= Capacity
              \/ InStep("add") \cup InStep("sub") # {}]_vars

\* A client that gets record now, served with that TTL, drops it less than a
\* second after its TTL, counted from the receipt at time t, has run out.
DroppedInTime(served, record, t) ==
    clock + served.ttl * TicksPerSecond < t + (record.ttl + 1) * TicksPerSecond

\* A response that get() returns was received for this question whatever its
\* spelling, however long insert() waited for locks before it stored it.  If it is
\* an answer, every answer record has TTL left and is dropped by the client in time.
\* If it is negative (NODATA, or NXDOMAIN with or without answers), it is served
\* for less than the TTL and the MINIMUM of a SOA record it came with and less than
\* max_negative_ttl, and the client drops that SOA record in time; the answers of
\* an NXDOMAIN response (an alias) are served as long, with TTL 0 after their own
\* TTL has run out.
ServedFresh ==
    \A q \in Questions :
        ReadLockFree(q) =>
            LET got   == Get(q)
                e     == store[CacheKey(q)]
                given == e.response
                Younger(seconds) == clock < e.received + seconds * TicksPerSecond
                InTime(served, records) ==
                    \A i \in DOMAIN records :
                        served[i].ttl = 0 \/ DroppedInTime(served[i], records[i], e.received)
            IN  got # None =>
                /\ CacheKey(given.questions[1]) = CacheKey(q)
                /\ InTime(got.answers, given.answers)
                /\ InTime(got.authority, given.authority)
                /\ IF given.rcode = "NoError" /\ given.answers # << >>
                   THEN \A i \in DOMAIN given.answers : got.answers[i].ttl > 0
                   ELSE /\ Younger(MaxNegativeTtl)
                        /\ \E i \in DOMAIN given.authority :
                              /\ given.authority[i].type = "SOA"
                              /\ Younger(given.authority[i].ttl)
                              /\ Younger(given.authority[i].minimum)

\* Every call of insert() returns: no inserter waits for a lock for ever.
InsertReturns == \A p \in Inserters : pc[p] # "idle" ~> pc[p] = "idle"

\* The reaper removes (or an insert replaces) every entry that has expired.
ExpiredEntriesLeave ==
    \A k \in Keys :
        (k \in Cached /\ Expired(k, clock)) ~> ~(k \in Cached /\ Expired(k, clock))
=============================================================================
