---------------------------- MODULE CacheProofs ----------------------------
(***************************************************************************)
(* Proofs about Cache, for any number of shards, keys, inserters and any   *)
(* capacity.                                                               *)
(***************************************************************************)
EXTENDS Cache, FiniteSetTheorems, WellFoundedInduction, TLAPS

(***************************************************************************)
(* Lifetimes are natural numbers.                                          *)
(***************************************************************************)

\* Min, which picks the shortest TTL of an answer section, is well defined on
\* every non-empty set of natural numbers.
LEMMA MinNat ==
    ASSUME NEW S \in SUBSET Nat, S # {}
    PROVE  /\ Min(S) \in S
           /\ \A x \in S : Min(S) <= x
<1>1. PICK m \in S : \A y \in S : ~(<<y, m>> \in OpToRel(<, Nat))
    BY NatLessThanWellFounded, WFMin
<1>2. \A y \in S : m <= y
    <2> SUFFICES ASSUME NEW y \in S PROVE ~(y < m)
        OBVIOUS
    <2>1. <<y, m>> \in OpToRel(<, Nat) <=> y < m
        BY DEF OpToRel
    <2> QED BY <1>1, <2>1
<1> QED BY <1>2 DEF Min

\* The elements of a sequence, and its indices.
LEMMA SeqElement ==
    ASSUME NEW T, NEW s \in Seq(T), NEW i \in DOMAIN s
    PROVE  s[i] \in T /\ i \in Nat
OBVIOUS

\* A non-empty sequence has a first element.
LEMMA NonEmptySeq ==
    ASSUME NEW T, NEW s \in Seq(T), s # << >>
    PROVE  1 \in DOMAIN s
OBVIOUS

\* The lifetime that insert() computes for any response is a natural number.
LEMMA EffectiveTtlType ==
    ASSUME NEW r \in Message(Questions)
    PROVE  EffectiveTtl(r) \in Nat
<1>1. SoaNegativeTtl(r.authority) \in Nat
    <2> DEFINE soas == {i \in DOMAIN r.authority : r.authority[i].type = "SOA"}
    <2>1. r.authority \in Seq(ResourceRecord)
        BY DEF Message
    <2>2. soas \in SUBSET Nat
        BY <2>1, SeqElement
    <2>3. CASE soas = {}
        BY <2>3 DEF SoaNegativeTtl, NotCacheable
    <2>4. CASE soas # {}
        <3>1. Min(soas) \in soas
            BY <2>2, <2>4, MinNat
        <3>2. r.authority[Min(soas)] \in ResourceRecord
            BY <2>1, <3>1, SeqElement
        <3> HIDE DEF soas
        <3>3. Smaller(r.authority[Min(soas)].ttl, r.authority[Min(soas)].minimum) \in Nat
            BY <3>2 DEF ResourceRecord, Smaller
        <3> QED BY <2>4, <3>3 DEF SoaNegativeTtl, soas
    <2> QED BY <2>3, <2>4
<1>2. ASSUME r.answers # << >> PROVE MinAnswerTtl(r.answers) \in Nat
    <2> DEFINE ttls == {r.answers[i].ttl : i \in DOMAIN r.answers}
    <2>1. r.answers \in Seq(ResourceRecord)
        BY DEF Message
    <2>2. ttls \in SUBSET Nat
        <3> SUFFICES ASSUME NEW i \in DOMAIN r.answers PROVE r.answers[i].ttl \in Nat
            OBVIOUS
        <3>1. r.answers[i] \in ResourceRecord
            BY <2>1, SeqElement
        <3> QED BY <3>1 DEF ResourceRecord
    <2>3. ttls # {}
        <3>1. 1 \in DOMAIN r.answers
            BY <1>2, <2>1, NonEmptySeq
        <3> QED BY <3>1
    <2> HIDE DEF ttls
    <2>4. Min(ttls) \in Nat
        BY <2>2, <2>3, MinNat
    <2> QED BY <2>4 DEF MinAnswerTtl, ttls
<1>3. r.rcode = "NoError" \/ r.rcode = "NXDomain" \/ r.rcode \notin {"NoError", "NXDomain"}
    OBVIOUS
<1> QED
    BY <1>1, <1>2, MaxNegativeTtlAssumption
    DEF EffectiveTtl, IsNegative, Smaller, NotCacheable

(***************************************************************************)
(* Type correctness.                                                       *)
(***************************************************************************)

\* The wrapping arithmetic of the atomic counter stays within a word.
LEMMA WrappingType ==
    ASSUME NEW a \in 0 .. (UsizeModulus - 1), NEW n \in 0 .. (UsizeModulus - 1)
    PROVE  /\ WrappingAdd(a, n) \in 0 .. (UsizeModulus - 1)
           /\ WrappingSub(a, n) \in 0 .. (UsizeModulus - 1)
BY CacheAssumption DEF WrappingAdd, WrappingSub

\* The cardinalities that the counter is compared with.
LEMMA Cardinalities ==
    /\ Cardinality(Keys) \in Nat
    /\ Cardinality(Inserters) \in Nat
    /\ UsizeModulus \in Nat
    /\ UsizeModulus > Cardinality(Keys) + 2 * Cardinality(Inserters)
    /\ \A S \in SUBSET Keys :
           IsFiniteSet(S) /\ Cardinality(S) \in Nat /\ Cardinality(S) <= Cardinality(Keys)
    /\ \A S \in SUBSET Inserters :
           IsFiniteSet(S) /\ Cardinality(S) \in Nat /\ Cardinality(S) <= Cardinality(Inserters)
BY CacheAssumption, FS_CardinalityType, FS_Subset

\* One update fits a word, and so does the removal of a set of keys.
LEMMA UpdatesFitWord ==
    /\ 0 \in 0 .. (UsizeModulus - 1)
    /\ Inserters # {} => 1 \in 0 .. (UsizeModulus - 1)
    /\ \A S \in SUBSET Keys : Cardinality(S) \in 0 .. (UsizeModulus - 1)
<1>1. Inserters # {} => Cardinality(Inserters) > 0
    BY CacheAssumption, FS_EmptySet, Cardinalities
<1> QED BY <1>1, Cardinalities

\* None is not the entry of a key.
LEMMA NoneIsNoEntry == None \notin CacheEntry
<1> SUFFICES ASSUME None \in CacheEntry PROVE FALSE
    OBVIOUS
<1>1. DOMAIN None = {"response", "inserted_at", "expires_at", "received"}
    BY DEF CacheEntry
<1>2. DOMAIN None = {"none"}
    BY DEF None
<1> QED BY <1>1, <1>2

\* None is not the call of an inserter.
LEMMA NoneIsNoJob == None \notin [key: Keys, entry: CacheEntry, scan: 0 .. NumShards]
<1> SUFFICES ASSUME None \in [key: Keys, entry: CacheEntry, scan: 0 .. NumShards]
             PROVE  FALSE
    OBVIOUS
<1>1. DOMAIN None = {"key", "entry", "scan"}
    OBVIOUS
<1>2. DOMAIN None = {"none"}
    BY DEF None
<1> QED BY <1>1, <1>2

Job == [key: Keys, entry: CacheEntry, scan: 0 .. NumShards]

\* An inserter within insert() has its local variables.
LEMMA JobType ==
    ASSUME TypeOK, NEW p \in Inserters, pc[p] # "idle"
    PROVE  /\ job[p] \in Job
           /\ job[p].key \in Keys
           /\ job[p].entry \in CacheEntry
           /\ job[p].scan \in 0 .. NumShards
           /\ OwnShard(p) \in Shards
BY CacheAssumption DEF TypeOK, Job, OwnShard, ShardIndex

\* What insert() builds before it takes a lock.
LEMMA NewEntryType ==
    ASSUME NEW r \in Responses, EffectiveTtl(r) # NotCacheable, clock \in Nat
    PROVE  /\ NewEntry(r, clock) \in CacheEntry
           /\ CacheKey(r.questions[1]) \in Keys
<1>1. r \in Message(Questions)
    BY ResponsesAssumption
<1>2. EffectiveTtl(r) \in Nat
    BY <1>1, EffectiveTtlType
<1>3. EffectiveTtl(r) * TicksPerSecond \in Nat
    BY <1>2, CacheAssumption
<1>4. NewEntry(r, clock) \in CacheEntry
    BY <1>3 DEF NewEntry, CacheEntry
<1>5. r.questions \in Seq(Questions) /\ Len(r.questions) = 1
    BY <1>1 DEF Message, EffectiveTtl
<1>6. r.questions[1] \in Questions
    BY <1>5
<1> QED BY <1>4, <1>6 DEF Keys

\* TypeOK with names for its sets, which the provers need not look into.
EntryOrNone == CacheEntry \cup {None}
JobOrNone == Job \cup {None}
Word == 0 .. (UsizeModulus - 1)
Holders == Inserters \cup {NoThread}
ReaperState == [next: 0 .. NumShards, now: Nat]
Flag == {"no", "yes"}

Types ==
    /\ store \in [Keys -> EntryOrNone]
    /\ len \in Word
    /\ lock \in [Shards -> Holders]
    /\ clock \in Nat
    /\ pc \in [Inserters -> InsertSteps]
    /\ job \in [Inserters -> JobOrNone]
    /\ \A p \in Inserters : pc[p] # "idle" => job[p] # None
    /\ reaper \in ReaperState
    /\ calls \in Nat
    /\ overlapped \in Flag

\* The members of those sets that the actions assign.
LEMMA Members ==
    /\ {"idle", "lock", "evict", "scan", "sub", "relock", "store", "add"} \subseteq InsertSteps
    /\ "no" \in Flag /\ "yes" \in Flag
    /\ None \in EntryOrNone /\ None \in JobOrNone
    /\ CacheEntry \subseteq EntryOrNone /\ Job \subseteq JobOrNone
    /\ NoThread \in Holders /\ Inserters \subseteq Holders
    /\ None \notin Job
BY NoneIsNoJob DEF InsertSteps, Flag, EntryOrNone, JobOrNone, Holders, Job

\* fetch_add and fetch_sub of one, and fetch_sub of the size of a set of keys,
\* stay within a word.
LEMMA WordUpdates ==
    ASSUME NEW a \in Word
    PROVE  /\ Inserters # {} => WrappingAdd(a, 1) \in Word /\ WrappingSub(a, 1) \in Word
           /\ \A S \in SUBSET Keys : WrappingSub(a, Cardinality(S)) \in Word
BY WrappingType, UpdatesFitWord DEF Word

\* Every variable keeps its type in every behaviour of the cache; in particular
\* the counter is always a machine word.
THEOREM TypeCorrect == Spec => []TypeOK
<1>1. Init => Types
    <2>1. 0 \in Word
        BY UpdatesFitWord DEF Word
    <2>2. [next |-> NumShards, now |-> 0] \in ReaperState
        BY CacheAssumption DEF ReaperState
    <2> QED BY <2>1, <2>2, Members DEF Init, Types
<1>2. Types <=> TypeOK
    BY DEF Types, TypeOK, EntryOrNone, JobOrNone, Job, Word, Holders, ReaperState, Flag
<1>3. Types /\ [Next]_vars => Types'
    <2>0. SUFFICES ASSUME Types, [Next]_vars PROVE Types'
        OBVIOUS
    <2>a. ASSUME NEW p \in Inserters, pc[p] # "idle"
          PROVE  /\ job[p] \in Job /\ job[p].key \in Keys /\ job[p].entry \in CacheEntry
                 /\ job[p].scan \in 0 .. NumShards /\ OwnShard(p) \in Shards
        <3>1. TypeOK
            BY <1>2, <2>0
        <3> QED BY <2>a, <3>1, JobType
    <2>b. ASSUME NEW p \in Inserters
          PROVE  WrappingAdd(len, 1) \in Word /\ WrappingSub(len, 1) \in Word
        BY <2>0, <2>b, WordUpdates DEF Types
    <2>1. ASSUME NEW p \in Inserters, NEW r \in Responses, InsertStart(p, r)
          PROVE  Types'
        <3>1. /\ NewEntry(r, clock) \in CacheEntry
              /\ CacheKey(r.questions[1]) \in Keys
            BY <2>0, <2>1, NewEntryType DEF InsertStart, Types
        <3> DEFINE j == [key |-> CacheKey(r.questions[1]), entry |-> NewEntry(r, clock), scan |-> 0]
        <3>2. j \in Job
            BY <3>1, CacheAssumption DEF Job
        <3>3. job' = [job EXCEPT ![p] = j]
            BY <2>1 DEF InsertStart
        <3> HIDE DEF j
        <3>4. overlapped' \in Flag
            BY <2>0, <2>1, Members DEF InsertStart, Types
        <3>5. pc' = [pc EXCEPT ![p] = "lock"] /\ calls' = calls + 1
                 /\ UNCHANGED <<store, len, lock, clock, reaper>>
            BY <2>1 DEF InsertStart, Goto
        <3> QED BY <2>0, <3>2, <3>3, <3>4, <3>5, Members DEF Types
    <2>2. ASSUME NEW p \in Inserters, NEW r \in Responses, InsertRejected(p, r)
          PROVE  Types'
        BY <2>0, <2>2 DEF InsertRejected, Types
    <2>3. ASSUME NEW p \in Inserters, InsertLockRoom(p) \/ InsertLockFull(p) \/ InsertRelock(p)
          PROVE  Types'
        <3>1. OwnShard(p) \in Shards
            BY <2>3, <2>a DEF InsertLockRoom, InsertLockFull, InsertRelock
        <3>2. pc[p] # "idle"
            BY <2>3 DEF InsertLockRoom, InsertLockFull, InsertRelock
        <3>3. /\ lock' = [lock EXCEPT ![OwnShard(p)] = p]
              /\ pc' = [pc EXCEPT ![p] = "store"] \/ pc' = [pc EXCEPT ![p] = "evict"]
              /\ UNCHANGED <<store, len, clock, job, reaper, calls, overlapped>>
            BY <2>3 DEF InsertLockRoom, InsertLockFull, InsertRelock, Goto
        <3> QED BY <2>0, <3>1, <3>2, <3>3, Members DEF Types
    <2>4. ASSUME NEW p \in Inserters, InsertLockEmpty(p) \/ InsertScanEnd(p) PROVE Types'
        <3>1. /\ pc[p] # "idle"
              /\ pc' = [pc EXCEPT ![p] = "scan"] \/ pc' = [pc EXCEPT ![p] = "relock"]
              /\ UNCHANGED <<store, len, lock, clock, job, reaper, calls, overlapped>>
            BY <2>4 DEF InsertLockEmpty, InsertScanEnd, Goto
        <3> QED BY <2>0, <3>1, Members DEF Types
    <2>5. ASSUME NEW p \in Inserters, InsertEvictOwn(p) \/ InsertScanEvict(p) PROVE Types'
        <3>1. \E k : store' = [store EXCEPT ![k] = None]
            BY <2>5 DEF InsertEvictOwn, InsertScanEvict
        <3>2. /\ pc[p] # "idle"
              /\ len' = WrappingSub(len, 1) \/ len' = len
              /\ pc' = [pc EXCEPT ![p] = "store"] \/ pc' = [pc EXCEPT ![p] = "sub"]
              /\ UNCHANGED <<lock, clock, job, reaper, calls, overlapped>>
            BY <2>5 DEF InsertEvictOwn, InsertScanEvict, Goto
        <3> QED BY <2>0, <2>b, <3>1, <3>2, Members DEF Types
    <2>6. ASSUME NEW p \in Inserters, InsertScanNext(p) PROVE Types'
        <3>1. job[p] \in Job /\ job[p].scan + 1 \in 0 .. NumShards
            BY <2>6, <2>a, CacheAssumption DEF InsertScanNext
        <3>2. [job[p] EXCEPT !.scan = job[p].scan + 1] \in Job
            BY <3>1 DEF Job
        <3>3. job' = [job EXCEPT ![p] = [job[p] EXCEPT !.scan = job[p].scan + 1]]
            BY <2>0, <2>6 DEF InsertScanNext, Types
        <3>4. UNCHANGED <<store, len, lock, clock, pc, reaper, calls, overlapped>>
            BY <2>6 DEF InsertScanNext
        <3> QED BY <2>0, <3>2, <3>3, <3>4, Members DEF Types
    <2>7. ASSUME NEW p \in Inserters, InsertSub(p) PROVE Types'
        BY <2>0, <2>7, <2>b, Members DEF InsertSub, Goto, Types
    <2>8. ASSUME NEW p \in Inserters, InsertStore(p) PROVE Types'
        <3>1. job[p].key \in Keys /\ job[p].entry \in CacheEntry /\ OwnShard(p) \in Shards
            BY <2>8, <2>a DEF InsertStore
        <3>2. /\ store' = [store EXCEPT ![job[p].key] = job[p].entry]
              /\ lock' = [lock EXCEPT ![OwnShard(p)] = NoThread]
              /\ UNCHANGED <<len, clock, reaper, calls, overlapped>>
            BY <2>8 DEF InsertStore
        <3>3. \/ pc' = [pc EXCEPT ![p] = "add"] /\ job' = job
              \/ pc' = [pc EXCEPT ![p] = "idle"] /\ job' = [job EXCEPT ![p] = None]
            BY <2>8 DEF InsertStore, Goto
        <3>4. pc[p] # "idle"
            BY <2>8 DEF InsertStore
        <3>5. store' \in [Keys -> EntryOrNone] /\ lock' \in [Shards -> Holders]
            BY <2>0, <3>1, <3>2, Members DEF Types
        <3>6. /\ pc' \in [Inserters -> InsertSteps] /\ job' \in [Inserters -> JobOrNone]
              /\ \A q \in Inserters : pc'[q] # "idle" => job'[q] # None
            BY <2>0, <3>3, <3>4, Members DEF Types
        <3> QED BY <2>0, <3>2, <3>5, <3>6 DEF Types
    <2>9. ASSUME NEW p \in Inserters, InsertAdd(p) PROVE Types'
        BY <2>0, <2>9, <2>b, Members DEF InsertAdd, Goto, Types
    <2>10. CASE ReaperStart
        <3>1. reaper' \in ReaperState
            BY <2>0, <2>10, CacheAssumption DEF ReaperStart, ReaperState, Types
        <3> QED BY <2>0, <2>10, <3>1 DEF ReaperStart, Types
    <2>11. CASE ReaperSweep
        <3> DEFINE dead == {k \in InShard(reaper.next) : Expired(k, reaper.now)}
        <3>1. dead \in SUBSET Keys
            BY DEF InShard, Cached
        <3>2. /\ len' = WrappingSub(len, Cardinality(dead))
              /\ store' = [k \in Keys |-> IF k \in dead THEN None ELSE store[k]]
            BY <2>11 DEF ReaperSweep
        <3> HIDE DEF dead
        <3>3. len' \in Word /\ store' \in [Keys -> EntryOrNone]
            BY <2>0, <3>1, <3>2, WordUpdates, Members DEF Types
        <3>4. reaper' \in ReaperState
            BY <2>0, <2>11, CacheAssumption DEF ReaperSweep, ReaperState, Types
        <3> QED BY <2>0, <2>11, <3>3, <3>4 DEF ReaperSweep, Types
    <2>12. CASE Tick
        BY <2>0, <2>12 DEF Tick, Types
    <2>13. CASE UNCHANGED vars
        BY <2>0, <2>13 DEF vars, Types
    <2> QED
        BY <2>0, <2>1, <2>2, <2>3, <2>4, <2>5, <2>6, <2>7, <2>8, <2>9, <2>10, <2>11,
           <2>12, <2>13
        DEF Next, InsertStep
<1> QED BY <1>1, <1>2, <1>3, PTL DEF Spec

(***************************************************************************)
(* The counter.  LenTracksEntries is inductive together with TypeOK: it    *)
(* accounts for every thread that has changed a shard but not yet len.     *)
(***************************************************************************)

Wrap(x) == IF x >= 0 THEN x ELSE x + UsizeModulus

WordRange == -(UsizeModulus - 1) .. (UsizeModulus - 1)

\* fetch_sub and fetch_add on a wrapped value wrap the result.
LEMMA WrapArithmetic ==
    ASSUME NEW x \in WordRange, NEW n \in Nat
    PROVE  /\ x - n \in WordRange => WrappingSub(Wrap(x), n) = Wrap(x - n)
           /\ x + n \in WordRange => WrappingAdd(Wrap(x), n) = Wrap(x + n)
<1>1. UsizeModulus \in Nat
    BY Cardinalities
<1> QED BY <1>1 DEF Wrap, WordRange, WrappingSub, WrappingAdd

\* The corrected count fits a word, so that the wrapped counter determines it.
LEMMA ExpectedLenRange == ExpectedLen \in WordRange
<1>1. Cached \in SUBSET Keys /\ InStep("add") \in SUBSET Inserters
        /\ InStep("sub") \in SUBSET Inserters
    BY DEF Cached, InStep
<1> QED BY <1>1, Cardinalities DEF ExpectedLen, WordRange

\* A step of one inserter changes the number of inserters at a position by
\* that inserter alone.
LEMMA InStepCount ==
    ASSUME TypeOK, NEW p \in Inserters, NEW to, Goto(p, to), NEW s
    PROVE  Cardinality(InStep(s)') = Cardinality(InStep(s))
             + (IF to = s THEN 1 ELSE 0) - (IF pc[p] = s THEN 1 ELSE 0)
<1>1. InStep(s) \in SUBSET Inserters /\ IsFiniteSet(InStep(s)) /\ Cardinality(InStep(s)) \in Nat
    BY Cardinalities DEF InStep
<1>2. p \in InStep(s) <=> pc[p] = s
    BY DEF InStep
<1>3. CASE to = s
    <2>1. InStep(s)' = InStep(s) \cup {p}
        BY <1>3 DEF InStep, Goto, TypeOK
    <2> QED BY <1>1, <1>2, <1>3, <2>1, FS_AddElement
<1>4. CASE to # s
    <2>1. InStep(s)' = InStep(s) \ {p}
        BY <1>4 DEF InStep, Goto, TypeOK
    <2>2. Cardinality(InStep(s) \ {p}) =
              IF p \in InStep(s) THEN Cardinality(InStep(s)) - 1 ELSE Cardinality(InStep(s))
        BY <1>1, FS_RemoveElement
    <2> QED BY <1>1, <1>2, <1>4, <2>1, <2>2
<1> QED BY <1>3, <1>4

\* The eviction of one key.
LEMMA RemoveCount ==
    ASSUME TypeOK, NEW k \in Cached, store' = [store EXCEPT ![k] = None]
    PROVE  Cardinality(Cached') = Cardinality(Cached) - 1
<1>1. Cached' = Cached \ {k}
    BY DEF Cached, TypeOK
<1>2. IsFiniteSet(Cached)
    BY Cardinalities DEF Cached
<1> QED BY <1>1, <1>2, FS_RemoveElement

\* The storing of an entry.
LEMMA StoreCount ==
    ASSUME TypeOK, NEW k \in Keys, NEW e \in CacheEntry, store' = [store EXCEPT ![k] = e]
    PROVE  Cardinality(Cached') =
               Cardinality(Cached) + (IF store[k] = None THEN 1 ELSE 0)
<1>1. Cached' = Cached \cup {k}
    BY NoneIsNoEntry DEF Cached, TypeOK
<1>2. IsFiniteSet(Cached) /\ Cardinality(Cached) \in Nat
    BY Cardinalities DEF Cached
<1>3. k \in Cached <=> store[k] # None
    BY DEF Cached
<1> QED BY <1>1, <1>2, <1>3, FS_AddElement

\* The reaper's sweep of one shard.
LEMMA SweepCount ==
    ASSUME TypeOK, NEW dead \in SUBSET Cached,
           store' = [k \in Keys |-> IF k \in dead THEN None ELSE store[k]]
    PROVE  Cardinality(Cached') = Cardinality(Cached) - Cardinality(dead)
<1>1. Cached' = Cached \ dead
    BY DEF Cached, TypeOK
<1>2. IsFiniteSet(Cached) /\ IsFiniteSet(dead)
    BY Cardinalities DEF Cached
<1>3. Cached \cap dead = dead
    OBVIOUS
<1> QED BY <1>1, <1>2, <1>3, FS_Difference

\* The counter never drifts: it equals the number of entries, corrected by the
\* updates that threads still owe, modulo the word size.
THEOREM CounterTracks == Spec => []LenTracksEntries
<1>1. Init => LenTracksEntries
    <2> SUFFICES ASSUME Init PROVE LenTracksEntries
        OBVIOUS
    <2>1. Cached = {} /\ InStep("add") = {} /\ InStep("sub") = {}
        BY DEF Init, Cached, InStep
    <2>2. Cardinality({}) = 0
        BY FS_EmptySet
    <2>3. ExpectedLen = 0
        BY <2>1, <2>2 DEF ExpectedLen
    <2> QED BY <2>3 DEF Init, LenTracksEntries
<1>2. TypeOK /\ LenTracksEntries /\ [Next]_vars => LenTracksEntries'
    <2> SUFFICES ASSUME TypeOK, LenTracksEntries, [Next]_vars PROVE LenTracksEntries'
        OBVIOUS
    <2> DEFINE N == Cardinality(Cached)
               A == Cardinality(InStep("add"))
               B == Cardinality(InStep("sub"))
    <2>1. N \in Nat /\ A \in Nat /\ B \in Nat
        BY Cardinalities DEF Cached, InStep
    <2>2. ExpectedLen = N - A + B /\ ExpectedLen' = N' - A' + B'
        BY DEF ExpectedLen
    <2>3. ExpectedLen \in WordRange /\ ExpectedLen' \in WordRange
        <3>1. ExpectedLen \in WordRange
            BY ExpectedLenRange
        <3>2. /\ Cached' \in SUBSET Keys
              /\ InStep("add")' \in SUBSET Inserters
              /\ InStep("sub")' \in SUBSET Inserters
            BY DEF Cached, InStep
        <3>3. ExpectedLen' \in WordRange
            BY <3>2, Cardinalities DEF ExpectedLen, WordRange
        <3> QED BY <3>1, <3>3
    <2>4. len = Wrap(ExpectedLen)
        BY DEF LenTracksEntries, Wrap
    <2>5. SUFFICES len' = Wrap(ExpectedLen')
        BY DEF LenTracksEntries, Wrap
    <2>a. ASSUME NEW p \in Inserters, NEW to, Goto(p, to)
          PROVE  /\ A' = A + (IF to = "add" THEN 1 ELSE 0) - (IF pc[p] = "add" THEN 1 ELSE 0)
                 /\ B' = B + (IF to = "sub" THEN 1 ELSE 0) - (IF pc[p] = "sub" THEN 1 ELSE 0)
        BY <2>a, InStepCount
    <2> HIDE DEF N, A, B
    \* Steps that change neither a shard nor the counter.
    <2>6. ASSUME NEW p \in Inserters, NEW to, Goto(p, to), UNCHANGED <<store, len>>,
                 to \notin {"add", "sub"}, pc[p] \notin {"add", "sub"}
          PROVE  len' = Wrap(ExpectedLen')
        <3>1. N' = N
            BY <2>6 DEF N, Cached
        <3>2. A' = A /\ B' = B
            BY <2>1, <2>6, <2>a
        <3> QED BY <2>2, <2>4, <2>6, <3>1, <3>2
    <2>7. ASSUME UNCHANGED <<store, len, pc>> PROVE len' = Wrap(ExpectedLen')
        BY <2>4, <2>7 DEF ExpectedLen, Cached, InStep
    <2>8. ASSUME NEW p \in Inserters, InsertStep(p) PROVE len' = Wrap(ExpectedLen')
        <3>1. CASE InsertLockRoom(p)
            BY <2>6, <3>1 DEF InsertLockRoom
        <3>2. CASE InsertLockFull(p)
            BY <2>6, <3>2 DEF InsertLockFull
        <3>3. CASE InsertLockEmpty(p)
            BY <2>6, <3>3 DEF InsertLockEmpty
        <3>4. CASE InsertEvictOwn(p)
            <4>1. PICK k \in Cached : store' = [store EXCEPT ![k] = None]
                BY <3>4 DEF InsertEvictOwn, EvictOne, InShard
            <4>2. N' = N - 1
                BY <4>1, RemoveCount DEF N
            <4>3. A' = A /\ B' = B
                <5>1. Goto(p, "store") /\ pc[p] = "evict"
                    BY <3>4 DEF InsertEvictOwn
                <5> QED BY <2>1, <2>a, <5>1
            <4>4. ExpectedLen' = ExpectedLen - 1
                BY <2>1, <2>2, <4>2, <4>3
            <4> QED BY <2>3, <2>4, <3>4, <4>4, WrapArithmetic DEF InsertEvictOwn
        <3>5. CASE InsertScanNext(p)
            BY <2>7, <3>5 DEF InsertScanNext
        <3>6. CASE InsertScanEvict(p)
            <4>1. PICK k \in Cached : store' = [store EXCEPT ![k] = None]
                BY <3>6 DEF InsertScanEvict, EvictOne, InShard
            <4>2. N' = N - 1
                BY <4>1, RemoveCount DEF N
            <4>3. A' = A /\ B' = B + 1
                <5>1. Goto(p, "sub") /\ pc[p] = "scan"
                    BY <3>6 DEF InsertScanEvict
                <5> QED BY <2>1, <2>a, <5>1
            <4>4. ExpectedLen' = ExpectedLen
                BY <2>1, <2>2, <4>2, <4>3
            <4> QED BY <2>4, <3>6, <4>4 DEF InsertScanEvict
        <3>7. CASE InsertScanEnd(p)
            BY <2>6, <3>7 DEF InsertScanEnd
        <3>8. CASE InsertSub(p)
            <4>1. N' = N
                BY <3>8 DEF InsertSub, N, Cached
            <4>2. A' = A /\ B' = B - 1
                <5>1. Goto(p, "relock") /\ pc[p] = "sub"
                    BY <3>8 DEF InsertSub
                <5> QED BY <2>1, <2>a, <5>1
            <4>3. ExpectedLen' = ExpectedLen - 1
                BY <2>1, <2>2, <4>1, <4>2
            <4> QED BY <2>3, <2>4, <3>8, <4>3, WrapArithmetic DEF InsertSub
        <3>9. CASE InsertRelock(p)
            BY <2>6, <3>9 DEF InsertRelock
        <3>10. CASE InsertStore(p)
            <4>1. job[p].key \in Keys /\ job[p].entry \in CacheEntry
                BY <3>10, JobType DEF InsertStore
            <4>2. N' = N + (IF store[job[p].key] = None THEN 1 ELSE 0)
                BY <3>10, <4>1, StoreCount DEF InsertStore, N
            <4>3. A' = A + (IF store[job[p].key] = None THEN 1 ELSE 0) /\ B' = B
                <5>1. /\ Goto(p, IF store[job[p].key] = None THEN "add" ELSE "idle")
                      /\ pc[p] = "store"
                    BY <3>10 DEF InsertStore, IsNew
                <5> QED BY <2>1, <2>a, <5>1
            <4>4. ExpectedLen' = ExpectedLen
                BY <2>1, <2>2, <4>2, <4>3
            <4> QED BY <2>4, <3>10, <4>4 DEF InsertStore
        <3>11. CASE InsertAdd(p)
            <4>1. N' = N
                BY <3>11 DEF InsertAdd, N, Cached
            <4>2. A' = A - 1 /\ B' = B
                <5>1. Goto(p, "idle") /\ pc[p] = "add"
                    BY <3>11 DEF InsertAdd
                <5> QED BY <2>1, <2>a, <5>1
            <4>3. ExpectedLen' = ExpectedLen + 1
                BY <2>1, <2>2, <4>1, <4>2
            <4> QED BY <2>3, <2>4, <3>11, <4>3, WrapArithmetic DEF InsertAdd
        <3> QED
            BY <2>8, <3>1, <3>2, <3>3, <3>4, <3>5, <3>6, <3>7, <3>8, <3>9, <3>10, <3>11
            DEF InsertStep
    <2>9. ASSUME NEW p \in Inserters, NEW r \in Responses, InsertStart(p, r)
          PROVE  len' = Wrap(ExpectedLen')
        BY <2>6, <2>9 DEF InsertStart
    <2>10. ASSUME NEW p \in Inserters, NEW r \in Responses, InsertRejected(p, r)
           PROVE  len' = Wrap(ExpectedLen')
        BY <2>7, <2>10 DEF InsertRejected
    <2>11. CASE ReaperStart \/ Tick \/ UNCHANGED vars
        BY <2>7, <2>11 DEF ReaperStart, Tick, vars
    <2>12. CASE ReaperSweep
        <3> DEFINE dead == {k \in InShard(reaper.next) : Expired(k, reaper.now)}
        <3>1. dead \in SUBSET Cached
            BY DEF InShard
        <3>2. Cardinality(dead) \in Nat
            BY <3>1, Cardinalities DEF Cached
        <3>3. N' = N - Cardinality(dead)
            BY <2>12, <3>1, SweepCount DEF ReaperSweep, N
        <3>4. A' = A /\ B' = B
            BY <2>12 DEF ReaperSweep, A, B, InStep
        <3>5. len' = WrappingSub(len, Cardinality(dead))
            BY <2>12 DEF ReaperSweep
        <3> HIDE DEF dead
        <3>6. ExpectedLen' = ExpectedLen - Cardinality(dead)
            BY <2>1, <2>2, <3>2, <3>3, <3>4
        <3> QED BY <2>3, <2>4, <3>2, <3>5, <3>6, WrapArithmetic
    <2> QED
        BY <2>8, <2>9, <2>10, <2>11, <2>12 DEF Next
<1> QED BY <1>1, <1>2, TypeCorrect, PTL DEF Spec

\* Whenever no thread owes the counter an update, Cache::len() is exact.
THEOREM CounterExact == Spec => []LenExactWhenQuiet
<1>1. LenTracksEntries => LenExactWhenQuiet
    <2> SUFFICES ASSUME LenTracksEntries, InStep("add") \cup InStep("sub") = {}
                 PROVE  len = Cardinality(Cached)
        BY DEF LenExactWhenQuiet
    <2>1. Cardinality(InStep("add")) = 0 /\ Cardinality(InStep("sub")) = 0
        <3>1. InStep("add") = {} /\ InStep("sub") = {}
            OBVIOUS
        <3> QED BY <3>1, FS_EmptySet
    <2>2. Cardinality(Cached) \in Nat
        BY Cardinalities DEF Cached
    <2> QED BY <2>1, <2>2 DEF LenTracksEntries, ExpectedLen
<1> QED BY <1>1, CounterTracks, PTL

(***************************************************************************)
(* The shard locks.                                                        *)
(***************************************************************************)

\* The types that the locks depend on.
LockTypes ==
    /\ store \in [Keys -> EntryOrNone]
    /\ lock \in [Shards -> Holders]
    /\ pc \in [Inserters -> InsertSteps]
    /\ job \in [Inserters -> JobOrNone]
    /\ \A p \in Inserters : pc[p] # "idle" => OwnShard(p) \in Shards

Critical == {"evict", "store"}

\* A step of an inserter outside its critical section that touches no lock.
LEMMA LocksUntouched ==
    ASSUME LockTypes, ShardLockDiscipline, NEW p \in Inserters, NEW to,
           pc[p] \notin Critical, to \notin Critical,
           pc' = [pc EXCEPT ![p] = to],
           \A q \in Inserters \ {p} : job'[q] = job[q],
           UNCHANGED <<store, lock>>
    PROVE  ShardLockDiscipline'
BY DEF LockTypes, ShardLockDiscipline, Critical, InStep, OwnShard, InShard, Cached

\* An inserter takes the lock of its own shard.
LEMMA LockTaken ==
    ASSUME LockTypes, ShardLockDiscipline, NEW p \in Inserters, NEW to \in Critical,
           pc[p] \notin Critical, pc[p] # "idle", WriteLockFree(OwnShard(p)),
           to = "evict" => InShard(OwnShard(p)) # {},
           pc' = [pc EXCEPT ![p] = to],
           lock' = [lock EXCEPT ![OwnShard(p)] = p],
           UNCHANGED <<store, job>>
    PROVE  ShardLockDiscipline'
<1>1. OwnShard(p) \in Shards /\ lock[OwnShard(p)] = NoThread /\ NoThread \notin Inserters
    BY CacheAssumption DEF LockTypes, WriteLockFree
<1>2. \A q \in Inserters : OwnShard(q)' = OwnShard(q)
    BY DEF OwnShard
<1>3. \A q \in Inserters : InShard(OwnShard(q))' = InShard(OwnShard(q))
    BY DEF InShard, Cached, OwnShard
<1>4. ASSUME NEW s \in Shards, NEW q \in Inserters
      PROVE  lock'[s] = q <=> pc'[q] \in Critical /\ OwnShard(q)' = s
    BY <1>1, <1>2 DEF LockTypes, ShardLockDiscipline, Critical
<1>5. ASSUME NEW q \in Inserters, pc'[q] = "evict" PROVE InShard(OwnShard(q))' # {}
    BY <1>3, <1>5 DEF LockTypes, ShardLockDiscipline, InStep
<1> QED BY <1>4, <1>5 DEF ShardLockDiscipline, Critical, InStep

\* A step that removes keys of a shard which no other inserter has locked leaves
\* the victims of the others alone.
LEMMA VictimsStay ==
    ASSUME LockTypes, ShardLockDiscipline, NEW s \in Shards, NEW q \in Inserters,
           pc[q] = "evict", lock[s] # q,
           \A k \in Keys : ShardIndex(k) # s => store'[k] = store[k]
    PROVE  InShard(OwnShard(q))' # {} \/ OwnShard(q)' # OwnShard(q)
<1>1. OwnShard(q) # s
    BY DEF ShardLockDiscipline
<1>2. PICK k \in InShard(OwnShard(q)) : TRUE
    BY DEF ShardLockDiscipline, InStep
<1>3. k \in Keys /\ store'[k] = store[k] /\ store[k] # None /\ ShardIndex(k) = OwnShard(q)
    BY <1>1, <1>2 DEF InShard, Cached
<1> QED BY <1>3 DEF InShard, Cached

\* insert() holds its own shard's lock exactly while it evicts from it or stores
\* into it, and no lock while it scans the others; eviction from the own shard
\* always finds a victim.
THEOREM LocksExclusive == Spec => []ShardLockDiscipline
<1>1. Init => ShardLockDiscipline
    BY CacheAssumption DEF Init, ShardLockDiscipline, InStep
<1>2. TypeOK /\ ShardLockDiscipline /\ [Next]_vars => ShardLockDiscipline'
    <2>0. SUFFICES ASSUME TypeOK, ShardLockDiscipline, [Next]_vars
                 PROVE  ShardLockDiscipline'
        OBVIOUS
    <2>1. LockTypes
        <3>1. \A p \in Inserters : pc[p] # "idle" => OwnShard(p) \in Shards
            BY <2>0, JobType
        <3> QED BY <2>0, <3>1 DEF TypeOK, LockTypes, EntryOrNone, JobOrNone, Job, Holders
    <2>2. ASSUME NEW p \in Inserters, NEW r \in Responses, InsertStart(p, r)
          PROVE  ShardLockDiscipline'
        BY <2>0, <2>1, <2>2, LocksUntouched DEF InsertStart, Goto, Critical, LockTypes
    <2>3. ASSUME UNCHANGED <<store, lock, pc, job>> PROVE ShardLockDiscipline'
        BY <2>0, <2>3 DEF ShardLockDiscipline, InStep, OwnShard, InShard, Cached
    <2>4. ASSUME NEW p \in Inserters, InsertLockEmpty(p) \/ InsertScanEnd(p) \/ InsertSub(p)
          PROVE  ShardLockDiscipline'
        <3>1. /\ pc[p] \notin Critical
              /\ \E to \in {"scan", "relock"} : pc' = [pc EXCEPT ![p] = to]
              /\ UNCHANGED <<store, lock, job>>
            BY <2>4 DEF InsertLockEmpty, InsertScanEnd, InsertSub, Goto, Critical
        <3> QED BY <2>0, <2>1, <3>1, LocksUntouched DEF Critical
    <2>5. ASSUME NEW p \in Inserters, InsertScanNext(p) PROVE ShardLockDiscipline'
        <3>1. pc' = [pc EXCEPT ![p] = "scan"] /\ pc[p] = "scan" /\ UNCHANGED <<store, lock>>
            BY <2>0, <2>1, <2>5 DEF InsertScanNext, LockTypes
        <3>2. \A q \in Inserters \ {p} : job'[q] = job[q]
            BY <2>0, <2>1, <2>5 DEF InsertScanNext, LockTypes
        <3> QED BY <2>0, <2>1, <3>1, <3>2, LocksUntouched DEF Critical
    <2>6. ASSUME NEW p \in Inserters, InsertAdd(p) PROVE ShardLockDiscipline'
        <3>1. pc' = [pc EXCEPT ![p] = "idle"] /\ pc[p] = "add" /\ UNCHANGED <<store, lock>>
            BY <2>6 DEF InsertAdd, Goto
        <3>2. \A q \in Inserters \ {p} : job'[q] = job[q]
            BY <2>0, <2>1, <2>6 DEF InsertAdd, LockTypes
        <3> QED BY <2>0, <2>1, <3>1, <3>2, LocksUntouched DEF Critical
    <2>7. ASSUME NEW p \in Inserters, InsertLockRoom(p) \/ InsertLockFull(p) \/ InsertRelock(p)
          PROVE  ShardLockDiscipline'
        <3>1. /\ pc[p] \notin Critical /\ pc[p] # "idle" /\ WriteLockFree(OwnShard(p))
              /\ lock' = [lock EXCEPT ![OwnShard(p)] = p]
              /\ UNCHANGED <<store, job>>
            BY <2>7 DEF InsertLockRoom, InsertLockFull, InsertRelock, Critical
        <3>2. PICK to \in Critical : /\ pc' = [pc EXCEPT ![p] = to]
                                     /\ to = "evict" => InShard(OwnShard(p)) # {}
            BY <2>7 DEF InsertLockRoom, InsertLockFull, InsertRelock, Critical, Goto
        <3> QED BY <2>0, <2>1, <3>1, <3>2, LockTaken
    <2>8. ASSUME NEW p \in Inserters, InsertEvictOwn(p) PROVE ShardLockDiscipline'
        <3>1. pc[p] = "evict" /\ pc' = [pc EXCEPT ![p] = "store"] /\ UNCHANGED <<lock, job>>
            BY <2>8 DEF InsertEvictOwn, Goto
        <3>2. OwnShard(p) \in Shards /\ lock[OwnShard(p)] = p
            BY <2>0, <2>1, <3>1 DEF LockTypes, ShardLockDiscipline
        <3>3. \A q \in Inserters : OwnShard(q)' = OwnShard(q)
            BY <3>1 DEF OwnShard
        <3>4. \A k \in Keys : ShardIndex(k) # OwnShard(p) => store'[k] = store[k]
            BY <2>0, <2>1, <2>8 DEF InsertEvictOwn, EvictOne, InShard, Cached, LockTypes
        <3>5. \A s \in Shards, q \in Inserters :
                  lock'[s] = q <=> pc'[q] \in {"evict", "store"} /\ OwnShard(q)' = s
            BY <2>0, <2>1, <3>1, <3>3 DEF LockTypes, ShardLockDiscipline
        <3>6. ASSUME NEW q \in Inserters, pc'[q] = "evict" PROVE InShard(OwnShard(q))' # {}
            <4>1. q # p /\ pc[q] = "evict"
                BY <2>0, <2>1, <3>1, <3>6 DEF LockTypes
            <4> QED BY <2>0, <2>1, <3>2, <3>3, <3>4, <4>1, VictimsStay
        <3> QED BY <3>5, <3>6 DEF ShardLockDiscipline, InStep
    <2>9. ASSUME NEW p \in Inserters, InsertScanEvict(p) PROVE ShardLockDiscipline'
        <3> DEFINE s == job[p].scan
        <3>1. pc[p] = "scan" /\ pc' = [pc EXCEPT ![p] = "sub"] /\ UNCHANGED <<lock, job>>
            BY <2>9 DEF InsertScanEvict, Goto
        <3>2. s \in Shards /\ lock[s] = NoThread /\ NoThread \notin Inserters
            BY <2>0, <2>9, <3>1, JobType, CacheAssumption DEF InsertScanEvict, WriteLockFree, Shards
        <3>3. \A q \in Inserters : OwnShard(q)' = OwnShard(q)
            BY <3>1 DEF OwnShard
        <3>4. \A k \in Keys : ShardIndex(k) # s => store'[k] = store[k]
            BY <2>0, <2>1, <2>9 DEF InsertScanEvict, EvictOne, InShard, Cached, LockTypes
        <3> HIDE DEF s
        <3>5. \A t \in Shards, q \in Inserters :
                  lock'[t] = q <=> pc'[q] \in {"evict", "store"} /\ OwnShard(q)' = t
            BY <2>0, <2>1, <3>1, <3>3 DEF LockTypes, ShardLockDiscipline
        <3>6. ASSUME NEW q \in Inserters, pc'[q] = "evict" PROVE InShard(OwnShard(q))' # {}
            <4>1. q # p /\ pc[q] = "evict"
                BY <2>0, <2>1, <3>1, <3>6 DEF LockTypes
            <4> QED BY <2>0, <2>1, <3>2, <3>3, <3>4, <4>1, VictimsStay
        <3> QED BY <3>5, <3>6 DEF ShardLockDiscipline, InStep
    <2>10. ASSUME NEW p \in Inserters, InsertStore(p) PROVE ShardLockDiscipline'
        <3>1. /\ pc[p] = "store"
              /\ lock' = [lock EXCEPT ![OwnShard(p)] = NoThread]
              /\ store' = [store EXCEPT ![job[p].key] = job[p].entry]
            BY <2>10 DEF InsertStore
        <3>2. PICK to \in {"add", "idle"} : pc' = [pc EXCEPT ![p] = to]
            BY <2>10 DEF InsertStore, Goto
        <3>3. \A q \in Inserters \ {p} : job'[q] = job[q]
            BY <2>0, <2>1, <2>10 DEF InsertStore, LockTypes
        <3>4. \A q \in Inserters \ {p} : OwnShard(q)' = OwnShard(q)
            BY <3>3 DEF OwnShard
        <3>5. OwnShard(p) \in Shards /\ lock[OwnShard(p)] = p /\ NoThread \notin Inserters
            BY <2>0, <2>1, <3>1, CacheAssumption DEF LockTypes, ShardLockDiscipline
        <3>6. ASSUME NEW s \in Shards, NEW q \in Inserters
              PROVE  lock'[s] = q <=> pc'[q] \in {"evict", "store"} /\ OwnShard(q)' = s
            <4>1. CASE q = p
                BY <2>0, <2>1, <3>1, <3>2, <3>5, <4>1 DEF LockTypes, ShardLockDiscipline
            <4>2. CASE q # p
                BY <2>0, <2>1, <3>1, <3>2, <3>4, <3>5, <4>2 DEF LockTypes, ShardLockDiscipline
            <4> QED BY <4>1, <4>2
        <3>7. \A k \in Keys : ShardIndex(k) # OwnShard(p) => store'[k] = store[k]
            BY <2>0, <2>1, <3>1 DEF OwnShard, LockTypes
        <3>8. ASSUME NEW q \in Inserters, pc'[q] = "evict" PROVE InShard(OwnShard(q))' # {}
            <4>1. q # p /\ pc[q] = "evict"
                BY <2>0, <2>1, <3>2, <3>8 DEF LockTypes
            <4> QED BY <2>0, <2>1, <3>4, <3>5, <3>7, <4>1, VictimsStay
        <3> QED BY <3>6, <3>8 DEF ShardLockDiscipline, InStep
    <2>11. CASE ReaperSweep
        <3> DEFINE s == reaper.next
        <3>1. UNCHANGED <<lock, pc, job>>
            BY <2>11 DEF ReaperSweep
        <3>2. s \in Shards /\ lock[s] = NoThread /\ NoThread \notin Inserters
            BY <2>0, <2>11, CacheAssumption DEF ReaperSweep, WriteLockFree, Shards, TypeOK
        <3>3. \A q \in Inserters : OwnShard(q)' = OwnShard(q)
            BY <3>1 DEF OwnShard
        <3>4. \A k \in Keys : ShardIndex(k) # s => store'[k] = store[k]
            BY <2>11 DEF ReaperSweep, InShard, Cached
        <3> HIDE DEF s
        <3>5. ASSUME NEW q \in Inserters, pc'[q] = "evict" PROVE InShard(OwnShard(q))' # {}
            BY <2>0, <2>1, <3>1, <3>2, <3>3, <3>4, <3>5, VictimsStay
        <3> QED BY <2>0, <3>1, <3>3, <3>5 DEF ShardLockDiscipline, InStep
    <2>12. CASE ReaperStart \/ Tick \/ UNCHANGED vars
        BY <2>3, <2>12 DEF ReaperStart, Tick, vars
    <2>13. ASSUME NEW p \in Inserters, NEW r \in Responses, InsertRejected(p, r)
           PROVE  ShardLockDiscipline'
        BY <2>3, <2>13 DEF InsertRejected
    <2> QED
        BY <2>0, <2>2, <2>4, <2>5, <2>6, <2>7, <2>8, <2>9, <2>10, <2>11, <2>12, <2>13
        DEF Next, InsertStep
<1> QED BY <1>1, <1>2, TypeCorrect, PTL DEF Spec
=============================================================================
