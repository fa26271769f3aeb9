------------------------------- MODULE Server -------------------------------
(***************************************************************************)
(* The tasks of a running server and their lifecycle (dnser-server/src:    *)
(* lib.rs, worker.rs, tcp.rs): start, the UDP workers with the query tasks *)
(* they spawn, the TCP listener with its connection tasks, the permits     *)
(* that bound both, and shutdown with drain, drain timeout and abort.      *)
(*                                                                         *)
(* What happens inside a query is module Handler.                          *)
(***************************************************************************)
EXTENDS Naturals, FiniteSets

CONSTANTS
    Workers,            \* the UDP workers
    Tasks,              \* slots for query tasks (more than there are permits)
    Conns,              \* slots for TCP connections
    UdpMaxInflight,
    TcpMaxConnections

ASSUME ServerAssumption ==
    /\ UdpMaxInflight \in Nat
    /\ TcpMaxConnections \in Nat
    /\ IsFiniteSet(Tasks)
    /\ IsFiniteSet(Conns)

VARIABLES
    handle,       \* the ServerHandle, from start() to the end of the process
    stop,         \* the watch channel has changed, or lost its sender
    worker,       \* where Worker::run is, for each worker
    queries,      \* the JoinSet of each worker
    task,         \* the query tasks
    udpFree,      \* permits left in udp_inflight
    listener,     \* where TcpWorker::run is
    conn,         \* the connection tasks
    tcpFree,      \* permits left in tcp_connections
    reaper,       \* is the cache reaper running?
    expired       \* history: a drain timeout ran out

udpVars == <<worker, queries, task, udpFree, expired>>
tcpVars == <<listener, conn, tcpFree>>
vars == <<handle, stop, udpVars, tcpVars, reaper>>

\* The tasks that have not given their permit back.
Unfinished == {t \in Tasks : task[t] \in {"running", "aborting"}}

Open == {c \in Conns : conn[c] # "none"}

TypeOK ==
    /\ handle \in {"starting", "failed", "serving", "stopping", "returned", "exited", "dropped"}
    /\ stop \in BOOLEAN
    /\ worker \in [Workers -> {"off", "run", "drain", "abort", "done"}]
    /\ queries \in [Workers -> SUBSET Tasks]
    /\ task \in [Tasks -> {"free", "running", "aborting", "finished"}]
    /\ udpFree \in 0..UdpMaxInflight
    /\ listener \in {"off", "run", "done"}
    /\ conn \in [Conns -> {"none", "reading", "handling", "writing"}]
    /\ tcpFree \in 0..TcpMaxConnections
    /\ reaper \in BOOLEAN
    /\ expired \in BOOLEAN

Init ==
    /\ handle = "starting"
    /\ stop = FALSE
    /\ worker = [w \in Workers |-> "off"]
    /\ queries = [w \in Workers |-> {}]
    /\ task = [t \in Tasks |-> "free"]
    /\ udpFree = UdpMaxInflight
    /\ listener = "off"
    /\ conn = [c \in Conns |-> "none"]
    /\ tcpFree = TcpMaxConnections
    /\ reaper = FALSE
    /\ expired = FALSE

----------------------------------------------------------------------------
(* start() *)

\* All sockets are bound: the workers and the listener are spawned.
Start ==
    /\ handle = "starting"
    /\ handle' = "serving"
    /\ reaper' = TRUE
    /\ worker' = [w \in Workers |-> "run"]
    /\ listener' = "run"
    /\ UNCHANGED <<stop, queries, task, udpFree, conn, tcpFree, expired>>

\* The resolver's sockets cannot be bound; nothing has been spawned yet.
ResolverFails ==
    /\ handle = "starting"
    /\ handle' = "failed"
    /\ UNCHANGED <<stop, udpVars, tcpVars, reaper>>

\* A UDP socket or the TCP listener cannot be bound; the reaper has been spawned
\* before and runs on.
BindFails ==
    /\ handle = "starting"
    /\ handle' = "failed"
    /\ reaper' = TRUE
    /\ UNCHANGED <<stop, udpVars, tcpVars>>

----------------------------------------------------------------------------
(* Worker::run and its query tasks *)

MutRecvOnlyChecksPermit(w, t) ==
    /\ worker[w] = "run"
    /\ task[t] = "free"
    /\ udpFree > 0
    /\ task' = [task EXCEPT ![t] = "running"]
    /\ queries' = [queries EXCEPT ![w] = @ \cup {t}]
    /\ UNCHANGED <<handle, stop, worker, udpFree, tcpVars, reaper, expired>>

\* A datagram arrives and a permit is free: spawn handle_query with both.
Recv(w, t) ==
    /\ worker[w] = "run"
    /\ task[t] = "free"
    /\ udpFree > 0
    /\ udpFree' = udpFree - 1
    /\ task' = [task EXCEPT ![t] = "running"]
    /\ queries' = [queries EXCEPT ![w] = @ \cup {t}]
    /\ UNCHANGED <<handle, stop, worker, tcpVars, reaper, expired>>

\* Otherwise the datagram is dropped.
RecvDropped(w) ==
    /\ worker[w] = "run"
    /\ udpFree = 0
    /\ UNCHANGED vars

MutTaskEndsKeepsPermit(t) ==
    /\ task[t] = "running"
    /\ task' = [task EXCEPT ![t] = "finished"]
    /\ UNCHANGED <<handle, stop, worker, queries, udpFree, tcpVars, reaper, expired>>

\* handle_query returns, with a response sent or with an error.
TaskEnds(t) ==
    /\ task[t] = "running"
    /\ task' = [task EXCEPT ![t] = "finished"]
    /\ udpFree' = udpFree + 1
    /\ UNCHANGED <<handle, stop, worker, queries, tcpVars, reaper, expired>>

MutCancelLeaksPermit(t) ==
    /\ task[t] = "aborting"
    /\ task' = [task EXCEPT ![t] = "finished"]
    /\ UNCHANGED <<handle, stop, worker, queries, udpFree, tcpVars, reaper, expired>>

\* An aborted task is dropped at its next await, or ends before it gets there;
\* either way its permit goes back.
TaskCancelled(t) ==
    /\ task[t] = "aborting"
    /\ task' = [task EXCEPT ![t] = "finished"]
    /\ udpFree' = udpFree + 1
    /\ UNCHANGED <<handle, stop, worker, queries, tcpVars, reaper, expired>>

\* queries.join_next(): in the select loop, while draining, and after abort_all.
\* The drain loops end when the set is empty.
Join(w, t) ==
    /\ worker[w] \in {"run", "drain", "abort"}
    /\ t \in queries[w]
    /\ task[t] = "finished"
    /\ task' = [task EXCEPT ![t] = "free"]
    /\ queries' = [queries EXCEPT ![w] = @ \ {t}]
    /\ worker' = IF worker[w] # "run" /\ queries[w] = {t}
                   THEN [worker EXCEPT ![w] = "done"]
                   ELSE worker
    /\ UNCHANGED <<handle, stop, udpFree, tcpVars, reaper, expired>>

MutBreakSkipsDrain(w) ==
    /\ worker[w] = "run"
    /\ stop
    /\ worker' = [worker EXCEPT ![w] = "done"]
    /\ UNCHANGED <<handle, stop, queries, task, udpFree, tcpVars, reaper, expired>>

MutBreakOnValueOnly(w) ==
    /\ worker[w] = "run"
    /\ stop /\ handle # "dropped"
    /\ worker' = [worker EXCEPT ![w] = IF queries[w] = {} THEN "done" ELSE "drain"]
    /\ UNCHANGED <<handle, stop, queries, task, udpFree, tcpVars, reaper, expired>>

\* select! takes the shutdown branch: changed() returned a value, or the error that
\* the sender is gone.
Break(w) ==
    /\ worker[w] = "run"
    /\ stop
    /\ worker' = [worker EXCEPT ![w] = IF queries[w] = {} THEN "done" ELSE "drain"]
    /\ UNCHANGED <<handle, stop, queries, task, udpFree, tcpVars, reaper, expired>>

MutTimeoutForgetsAbort(w) ==
    /\ worker[w] = "drain"
    /\ worker' = [worker EXCEPT ![w] = "abort"]
    /\ expired' = TRUE
    /\ UNCHANGED <<handle, stop, queries, task, udpFree, tcpVars, reaper>>

\* The drain timeout: abort_all() the tasks of this worker.
DrainTimeout(w) ==
    /\ worker[w] = "drain"
    /\ worker' = [worker EXCEPT ![w] = "abort"]
    /\ task' = [t \in Tasks |->
                   IF t \in queries[w] /\ task[t] = "running" THEN "aborting" ELSE task[t]]
    /\ expired' = TRUE
    /\ UNCHANGED <<handle, stop, queries, udpFree, tcpVars, reaper>>

----------------------------------------------------------------------------
(* TcpWorker::run and its connection tasks *)

\* A connection is accepted and a permit is free; otherwise it is closed at once.
Accept(c) ==
    /\ listener = "run"
    /\ conn[c] = "none"
    /\ tcpFree > 0
    /\ tcpFree' = tcpFree - 1
    /\ conn' = [conn EXCEPT ![c] = "reading"]
    /\ UNCHANGED <<handle, stop, udpVars, listener, reaper>>

\* The shutdown branch: the listener goes, the connection tasks stay.
ListenerBreak ==
    /\ listener = "run"
    /\ stop
    /\ listener' = "done"
    /\ UNCHANGED <<handle, stop, udpVars, conn, tcpFree, reaper>>

ConnGoto(c, step) ==
    /\ conn' = [conn EXCEPT ![c] = step]
    /\ UNCHANGED <<handle, stop, udpVars, listener, tcpFree, reaper>>

\* handle_conn returns and drops its permit.
Close(c) ==
    /\ conn' = [conn EXCEPT ![c] = "none"]
    /\ tcpFree' = tcpFree + 1
    /\ UNCHANGED <<handle, stop, udpVars, listener, reaper>>

\* A complete frame that parses: process_query starts.
ConnQuery(c) == conn[c] = "reading" /\ ConnGoto(c, "handling")

MutNoIdleTimeout(c) == conn[c] = "reading" /\ handle = "returned" /\ Close(c)

\* The idle timeout, end of stream, an empty frame, an I/O or a parse error.
ConnReadEnds(c) == conn[c] = "reading" /\ Close(c)

\* process_query returns and the response is being written.
ConnResponse(c) == conn[c] = "handling" /\ ConnGoto(c, "writing")

\* The response does not serialise.
ConnResponseFails(c) == conn[c] = "handling" /\ Close(c)

\* write_framed returns; how soon is up to the peer, no timeout applies.
ConnWritten(c) == conn[c] = "writing" /\ ConnGoto(c, "reading")

ConnWriteFails(c) == conn[c] = "writing" /\ Close(c)

----------------------------------------------------------------------------
(* ServerHandle, run() and main() *)

\* shutdown() up to its first await.
Shutdown ==
    /\ handle = "serving"
    /\ handle' = "stopping"
    /\ stop' = TRUE
    /\ reaper' = FALSE
    /\ UNCHANGED <<udpVars, tcpVars>>

\* The workers and the listener have been awaited.
ShutdownReturns ==
    /\ handle = "stopping"
    /\ \A w \in Workers : worker[w] = "done"
    /\ listener = "done"
    /\ handle' = "returned"
    /\ UNCHANGED <<stop, udpVars, tcpVars, reaper>>

\* The owner drops the handle instead: changed() fails, which also ends the
\* loops, but nobody waits for them and the reaper runs on.
DropHandle ==
    /\ handle = "serving"
    /\ handle' = "dropped"
    /\ stop' = TRUE
    /\ UNCHANGED <<udpVars, tcpVars, reaper>>

\* main() returns and the runtime drops what is left.
Exit ==
    /\ handle = "returned"
    /\ handle' = "exited"
    /\ conn' = [c \in Conns |-> "none"]
    /\ tcpFree' = tcpFree + Cardinality(Open)
    /\ UNCHANGED <<stop, udpVars, listener, reaper>>

----------------------------------------------------------------------------

WorkerStep(w) ==
    \/ \E t \in Tasks : Join(w, t)
    \/ Break(w)
    \/ DrainTimeout(w)

ConnStep(c) ==
    \/ ConnQuery(c)
    \/ ConnReadEnds(c)
    \/ ConnResponse(c)
    \/ ConnResponseFails(c)
    \/ ConnWritten(c)
    \/ ConnWriteFails(c)

\* Nothing more need happen.
Ended == handle \in {"failed", "exited", "dropped"}

Next ==
    \/ Start
    \/ ResolverFails
    \/ BindFails
    \/ \E w \in Workers, t \in Tasks : Recv(w, t)
    \/ \E w \in Workers : RecvDropped(w)
    \/ \E t \in Tasks : TaskEnds(t)
    \/ \E t \in Tasks : TaskCancelled(t)
    \/ \E w \in Workers : WorkerStep(w)
    \/ \E c \in Conns : Accept(c)
    \/ ListenerBreak
    \/ \E c \in Conns : ConnStep(c)
    \/ Shutdown
    \/ ShutdownReturns
    \/ DropHandle
    \/ Exit
    \/ Ended /\ UNCHANGED vars

Spec == Init /\ [][Next]_vars

\* The runtime polls what is ready, select! does not starve a ready branch, and
\* timers fire: the drain timeout, and the idle timeout of a connection that
\* reads.  Nothing is assumed of the query tasks, of datagrams or of TCP peers.
FairSpec ==
    /\ Spec
    /\ \A w \in Workers : WF_vars(Break(w)) /\ WF_vars(DrainTimeout(w))
    /\ \A w \in Workers : \A t \in Tasks : WF_vars(Join(w, t))
    /\ \A t \in Tasks : WF_vars(TaskCancelled(t))
    /\ WF_vars(ListenerBreak)
    /\ WF_vars(ShutdownReturns)
    /\ \A c \in Conns : WF_vars(ConnReadEnds(c)) /\ WF_vars(ConnResponse(c))

----------------------------------------------------------------------------
(* Properties *)

\* No permit is lost or invented, whether a query task returns, fails or is
\* aborted, and whichever of the workers that share the semaphore it belongs to.
PermitsConserved ==
    /\ udpFree + Cardinality(Unfinished) = UdpMaxInflight
    /\ tcpFree + Cardinality(Open) = TcpMaxConnections

\* Every query task is in the JoinSet of exactly one worker until it is joined,
\* and a worker that is done has none left: no task escapes the drain.
TasksOwned ==
    /\ \A t \in Tasks :
           task[t] # "free" => Cardinality({w \in Workers : t \in queries[w]}) = 1
    /\ \A w \in Workers :
           /\ worker[w] = "done" => queries[w] = {}
           /\ \A t \in queries[w] : task[t] # "free"

\* After shutdown() has returned no UDP query is running and all permits are back.
UdpQuietAfterShutdown ==
    handle \in {"returned", "exited"} => Unfinished = {} /\ udpFree = UdpMaxInflight

\* shutdown() returns, even if query tasks hang and clients keep their TCP
\* connections open.
ShutdownCompletes == handle = "stopping" ~> handle \in {"returned", "exited"}

\* The owner of the server may drop the handle instead of calling shutdown(), and
\* nobody waits for the tasks then: still every worker drains or aborts its queries
\* and ends, and so does the listener, so that the sockets are given back.
DropStopsServing ==
    handle = "dropped" ~>
        /\ \A w \in Workers : worker[w] = "done"
        /\ listener = "done"
        /\ Unfinished = {}

\* Overload passes: the permits run out for good only if some query task never
\* ends.
OverloadPasses == []<>(udpFree > 0) \/ \E t \in Tasks : <>[](task[t] = "running")

\* A connection keeps its permit for good only if its client sends queries for
\* ever or stops reading a response; an idle one is closed.
IdleConnsClose ==
    \A c \in Conns :
        []<>(conn[c] = "none") \/ []<>(conn[c] = "handling") \/ <>[](conn[c] = "writing")

\* README: "waits for in-flight ones to drain (up to `shutdown_drain_secs`), then
\* exits": unless a drain timeout ran out, nothing is in flight on return.
DrainedOnReturn ==
    handle = "returned" /\ ~expired => \A c \in Conns : conn[c] \notin {"handling", "writing"}
=============================================================================
