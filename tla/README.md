# dnser in TLA+

`dnser` is a caching, forwarding DNS server in Rust on tokio. This directory
models its concurrent core, checks it with TLC on small instances, and proves
part of it with TLAPS for every value of the constants. The source is the
reference: definitions carry its names, and `PROJECT.json` maps each of them to
the lines it stands for.

## The system

| Part | State | Operations | What makes it hard |
|---|---|---|---|
| Cache (`dnser-cache`) | sharded maps behind read-write locks, one atomic `len` | `get`, `insert` with eviction, `evict_expired` | `len` is read and changed outside the shard locks; an insert locks several shards in turn |
| Upstream socket (`dnser-resolver`) | table id → oneshot sender, guards, `recv_loop` | `query`, `recv_loop`, TCP fallback | lost, duplicated, late datagrams; reuse of ids; timeout and cancellation against `recv_loop` |
| Resolver race | one future per upstream | `resolve` | any order of successes and failures |
| Query handling (`handler.rs`, `handle_query`, `handle_conn`) | the cache, shared by all tasks | `process_query`, EDNS, truncation | a message made for one client goes to another |
| Lifecycle (`dnser-server`) | workers, JoinSets, permits, TCP listener and connections, reaper, watch channel | `start`, `run` loops, `shutdown` | drain against timeout, abort, shared permits, detached tasks |
| Framing (`dnser-net`) | none | `read_framed`, `write_framed` | partial frames |
| Wire format (`dnser-proto`) | none | parse, serialise | name compression |
| Configuration, binary, logging, test support | none at run time | load, validate | none concurrent |

A client's datagram or frame reaches a task (Server), which runs `process_query`
(Handler); that asks the cache (Cache) and otherwise races the upstreams, each of
which is an UpstreamSocket.

## Modules

* **CachePolicy**: keys, lifetimes and ageing as operators: `CacheKey`,
  `EffectiveTtl` (positive: smallest answer TTL; negative: SOA, capped),
  `RewriteTtls`. Used by Cache and Handler.
* **Cache**: `insert` in the steps other threads can see: lock own shard and
  decide by `len`; evict under that lock, or release it and scan the other
  shards; `fetch_sub`; lock again; store and unlock; `fetch_add`. The reaper
  sweeps shard by shard with the time taken at the start. Steps under one lock are merged
  with taking it, because other threads cannot observe the states in between.
  `len` is modulo `UsizeModulus`. The atomics are relaxed, but all accesses are to
  one location, whose modifications are totally ordered; a load that returns an
  older value of `len` than the newest is not modelled.
* **UpstreamSocket**: one upstream. `Allocate` is `allocate_and_insert` under its lock;
  the guard is `armed`, its drop is a step of its own (`GuardDrop`), because
  `recv_loop` may run between a query's end and it. `recv_loop` takes the entry
  (`RecvTake`) and sends to the channel (`RecvSend`) in two steps, as in the code.
  The network may deliver a datagram late, several times, or never.
* **Handler**: `process_query` and the code around it that sends the response. The
  cache is a map that may forget an entry at any time; an upstream answers or fails.
  Of an upstream's message only the QR bit and the question section are checked and only
  the id is replaced, so its RD bit is any value. The one assumption on upstreams is that
  they send an OPT record only in reply to one.
* **Server**: start, UDP workers, permits, connections, shutdown, drop of the handle,
  process exit. A query task is opaque here: it ends, or it does not.
* **MC\***: instances for TLC. **CacheProofs**, **UpstreamSocketProofs**: theorems.

Operators named `Mut...` are faulty variants of the definition below them. No
specification uses them; they show that a property notices such a fault.

## Runs

Passing:

| Run | Shows |
|---|---|
| `cache_safety` | `len` accounts for every entry (`LenTracksEntries`), is exact when no update is owed (`LenExactWhenQuiet`), `insert` keeps no lock while it scans (`ShardLockDiscipline`), `get` serves positive answers within their own TTLs and negative responses within the SOA record's TTL and MINIMUM and the configured cap (`ServedFresh`), the capacity holds as long as inserts do not overlap (`CapacityRespected`), and eviction from a cache that is not full needs an update owed (`EvictsOnlyWhenFull`) |
| `cache_liveness` | `insert` returns; expired entries leave |
| `upstream_safety` | no id leaks, answers fit the question, a sender is lost only to a stale guard |
| `upstream_liveness` | `query` returns, also when `recv_loop` is dead |
| `handler_safety` | id, question and OPT record of responses fit the client, UDP responses its advertised size and 4096 bytes; the data was given for its key; a response from the cache or of the server's own making has the query's RD bit (`RdKept`); only whole answers that still hold are passed on to other clients (`SharedAnswersUsable`); SERVFAIL only if all upstreams failed |
| `handler_liveness` | every UDP query ends; a TCP query ends or is for ever writing to a client that does not read |
| `server` | permits are conserved, every task is in one JoinSet, nothing of UDP runs after `shutdown`; `shutdown` returns; a dropped handle ends workers, queries and listener as well (`DropStopsServing`); permits come back unless a task or a peer hangs |

Runs that show the code and its documentation disagree (details under `findings`):

| Run | Disagreement |
|---|---|
| `cache_capacity` | concurrent inserts leave more than `max_entries` entries. The surplus is not bounded by the number of inserters less one: with four shards, two inserters reach capacity + 2 |
| `upstream_stale_guard` | a timed-out query's guard can remove another query's entry |
| `handler_opt_unasked` | a cache hit can give an OPT record to a client without EDNS |
| `server_tcp_drain` | shutdown does not wait for TCP queries; README.md promises it for all, the comment on `shutdown_drain_secs` for UDP only |

Smaller ones that reading the code shows, without a run of their own:

* The reaper can subtract an entry before it was added, `len` wraps around, and inserts
  then evict from a cache that is not full. A thread has to be delayed by a TTL between
  unlock and `fetch_add`; `EvictsOnlyWhenFull` names this exception.
* The resolver's README says a fresh UDP socket is opened per attempt. The socket is
  shared, so a late reply reaches the query that reuses its id; `AnswersOwnQuestion`
  shows that it is not taken for an answer to another question.
* SERVFAIL to an EDNS client has no OPT record, unlike the comment on `process_query`.
* The aliases of an NXDOMAIN response are kept as long as its SOA record allows, and served
  with TTL 0 once their own TTL has run out; `ServedFresh` names this case.
* On a cache miss the client gets the upstream's RD bit: the resolver sets RD in the UDP
  query it sends, and `process_query` restores the client's bit on a hit only.
* An open TCP connection starts new queries after the shutdown signal.
* The TCP idle timeout does not cover writing; `IdleConnsClose` names this exception.

### Bounds

* Cache: two inserters, two shards (two keys in one, one in the other), capacity 1,
  `MaxCalls` inserts, clock up to `MaxTime` half seconds.
  Two inserters suffice for every race of two threads; one shard can be empty while
  the other is full, so the scan is exercised; one answer, one NODATA response limited by
  its SOA record's TTL and one NXDOMAIN response with an alias, limited by the cap, all
  expire within the clock's range; half seconds tell whole-second ageing from exact expiry.
* UpstreamSocket: three queries and one id, so ids are reused at once; two questions,
  one of them asked twice. 65536 ids would only make the same races rarer.
* Handler: two tasks with any pair of seven queries (letter case, type, RD, OPT and its
  version, size, transport, two questions), two upstreams, six answers on both sides
  of the size limits and with either RD bit. The liveness run has a plain, an EDNS and a
  TCP query.
* Server: two workers, two permits, three task slots, two connections for one
  connection permit. A task slot is used again once the task was joined.

Symmetry is used in safety runs only, over sets whose members no definition tells apart.

### Fairness

Weak fairness throughout, of steps that tokio or the operating system performs once they
are possible: a thread inside `insert`, the reaper and the clock; the next step of a
`query` (its timeout is always possible while it waits); the next step of a
handler task, except while it writes to a TCP client (`write_framed` has no timeout); in Server, leaving the loop after the signal, the drain timeout, joining,
cancellation at an await, the idle timeout of a read, and the return of `process_query`
on a connection. Nothing is assumed of clients, upstreams, the network, or of UDP
query tasks ending: `ShutdownCompletes` holds without it, and `OverloadPasses` names a
task that never ends as the one exception. `ConnWritten` is not fair: it waits for the peer.

## Proofs

`CacheProofs`, for any finite sets of keys and inserters and any shards, capacity and
lifetimes: `TypeCorrect`, `CounterTracks`, `CounterExact`, `LocksExclusive`.
`LenExactWhenQuiet` is not inductive: it says nothing while an update is owed.
`LenTracksEntries` strengthens it with the additions and subtractions that threads
still owe, and is inductive together with `TypeOK`: each action changes the number of entries, of
owed updates and the counter by amounts that cancel. It does not depend on the locks. The
lemmas count how one step changes the set of entries and the set of threads at a
position; the cardinality facts come from the finite-set library.
`ShardLockDiscipline` is inductive together with `TypeOK`. `CacheAssumption` asks that the
word be larger than the number of keys plus twice the number of inserters, so that a
wrapped counter determines the count; a 64-bit `usize` meets that for any cache that fits
in memory. `MaxTime` and `MaxCalls` are arbitrary in the proofs.

`UpstreamSocketProofs`, for any queries, ids and questions. `TableConsistent` proves the
inductive invariant `TableInv`, that is `TypeOK`, `NoLeakedIds`, `SenderUnique` and
`GuardState`. `SenderUnique` says that a query's Sender is in one place only, which Rust's
ownership gives the code and the model has to show. `GuardState` is needed because the
other three do not say which queries have an armed guard: it is armed exactly from the allocation of the id to the end of the
future, and a channel is non-empty only while its receiver lives. `IdsNotLeaked` follows at
once. `OwnAnswers` is inductive with `TypeOK`. For `LostToStaleGuard`, the invariant
`ResultState` (theorem `StaleGuards`) records, for every closed channel, a query that had the
same id and ended with its guard armed; ids are assigned once and results are
final, so that this query stays a witness.

The assumptions are the named `ASSUME`s of CachePolicy, Cache and UpstreamSocket, which TLC
evaluates in the runs.

Only model-checked: all liveness properties (fairness is out of the prover's
reach), `ServedFresh`, and everything in Handler and Server.

## Not modelled

Wire format and framing at byte level (single steps with outcomes, where used);
configuration; the binary, but for its end (`Exit`); logging; test support. The hash that picks a shard is an
arbitrary function. Random draws of ids are a choice among the vacant ones.

## Plan

1. `NameCodec`: `read_name` and `write_name` with compression as operators, against a
   reference definition; `Framing`: `read_framed` on partial input, timeouts, close.
2. `Config`: `validate` and the narrowing of `max_negative_ttl_secs`.
3. An abstract lossy map that Cache implements, and Handler uses; an abstract
   request-reply channel that UpstreamSocket implements; Handler composed with them.
4. Eviction order (the README promises LRU) and the case of a full cache that
   overwrites a key it already holds.
5. Proofs: `ServedFresh`; Server's `PermitsConserved`, `TasksOwned` and
   `UdpQuietAfterShutdown`; Handler's `ResponseMatchesQuery`, `AnswerGivenForKey`
   and `SharedAnswersUsable`; the refinements of 3.
