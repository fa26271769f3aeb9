--------------------------- MODULE UpstreamSocket ---------------------------
(***************************************************************************)
(* One upstream of the resolver (dnser-resolver/src/lib.rs, tcp.rs): a     *)
(* connected UDP socket that all queries to this upstream share, the table *)
(* of in-flight query IDs, and the recv_loop task that hands each datagram *)
(* to the query registered under the datagram's ID.                        *)
(*                                                                         *)
(* A query is one call of UpstreamSocket::query().  The network may lose,  *)
(* duplicate, delay and reorder datagrams.  A query's future may be        *)
(* dropped at any await: resolve() drops the losers of its race, and the   *)
(* server aborts tasks when its drain timeout runs out.                    *)
(***************************************************************************)
EXTENDS Naturals

CONSTANTS
    Queries,      \* calls of query()
    Ids,          \* the values of a query ID (u16 in the code)
    Questions,
    QuestionOf,   \* the question section of each query
    None          \* a vacant slot of the in-flight table, an id not assigned

ASSUME UpstreamAssumption ==
    /\ QuestionOf \in [Queries -> Questions]
    /\ None \notin Queries
    /\ None \notin Ids

VARIABLES
    inFlight,  \* InFlight::map: id -> the query whose Sender it holds
    pc,        \* where each query is
    id,        \* assigned_id of each query, once allocated
    armed,     \* InFlightGuard: does dropping it remove the id?
    inbox,     \* the oneshot channel of each query
    result,    \* what query() returned
    recvLoop,  \* what recv_loop is doing
    net        \* datagrams on their way back from the upstream

vars == <<inFlight, pc, id, armed, inbox, result, recvLoop, net>>

(***************************************************************************)
(* A datagram from the upstream carries the ID and the question it was     *)
(* sent in reply to.  "garbled" stands for one that has a header but fails *)
(* to parse or is not a response.                                          *)
(***************************************************************************)
Datagrams == [id: Ids, question: Questions,
              kind: {"answer", "truncated", "garbled"}]

Empty  == [chan |-> "empty"]
Closed == [chan |-> "closed"]    \* the Sender was dropped without a send

Errors == {"Write", "IdSpaceExhausted", "Io", "InvalidResponse", "AllFailed", "Timeout"}

Pending   == [state |-> "pending"]
Cancelled == [state |-> "cancelled"]
Err(e)    == [state |-> "err", error |-> e]
Ok(question) == [state |-> "ok", question |-> question]

Results == {Pending, Cancelled} \cup {Err(e) : e \in Errors}
              \cup {Ok(x) : x \in Questions}

Idle == [at |-> "recv"]
Dead == [at |-> "dead"]
Holding(q, d) == [at |-> "send", query |-> q, datagram |-> d]

TypeOK ==
    /\ inFlight \in [Ids -> Queries \cup {None}]
    /\ pc \in [Queries -> {"new", "send", "wait", "tcp", "drop", "done"}]
    /\ id \in [Queries -> Ids \cup {None}]
    /\ armed \in [Queries -> BOOLEAN]
    /\ inbox \in [Queries -> Datagrams \cup {Empty, Closed}]
    /\ result \in [Queries -> Results]
    /\ recvLoop \in {Idle, Dead} \cup {Holding(q, d) : q \in Queries, d \in Datagrams}
    /\ net \in SUBSET Datagrams

Init ==
    /\ inFlight = [i \in Ids |-> None]
    /\ pc = [q \in Queries |-> "new"]
    /\ id = [q \in Queries |-> None]
    /\ armed = [q \in Queries |-> FALSE]
    /\ inbox = [q \in Queries |-> Empty]
    /\ result = [q \in Queries |-> Pending]
    /\ recvLoop = Idle
    /\ net = {}

----------------------------------------------------------------------------
(* query() *)

\* A message that was parsed need not serialise again (`to_bytes_mut()?`).
EncodeFails(q) ==
    /\ pc[q] = "new"
    /\ result' = [result EXCEPT ![q] = Err("Write")]
    /\ pc' = [pc EXCEPT ![q] = "done"]
    /\ UNCHANGED <<inFlight, id, armed, inbox, recvLoop, net>>

Vacant == {i \in Ids : inFlight[i] = None}

\* allocate_and_insert under the table's lock: random draws, then a scan,
\* find a vacant id exactly when there is one.
Allocate(q, i) ==
    /\ pc[q] = "new"
    /\ i \in Vacant
    /\ inFlight' = [inFlight EXCEPT ![i] = q]
    /\ id' = [id EXCEPT ![q] = i]
    /\ armed' = [armed EXCEPT ![q] = TRUE]
    /\ pc' = [pc EXCEPT ![q] = "send"]
    /\ UNCHANGED <<inbox, result, recvLoop, net>>

MutAllocateFailureIgnored(q) ==
    /\ pc[q] = "new"
    /\ Vacant = {}
    /\ pc' = [pc EXCEPT ![q] = "send"]
    /\ UNCHANGED <<inFlight, id, armed, inbox, result, recvLoop, net>>

AllocateFails(q) ==
    /\ pc[q] = "new"
    /\ Vacant = {}
    /\ result' = [result EXCEPT ![q] = Err("IdSpaceExhausted")]
    /\ pc' = [pc EXCEPT ![q] = "done"]
    /\ UNCHANGED <<inFlight, id, armed, inbox, recvLoop, net>>

\* The future ends, and its Receiver is dropped.  If the guard is still armed,
\* the guard's drop comes next.
EndArmed(q, r) ==
    /\ result' = [result EXCEPT ![q] = r]
    /\ inbox' = [inbox EXCEPT ![q] = Empty]
    /\ pc' = [pc EXCEPT ![q] = "drop"]
    /\ UNCHANGED armed

EndDisarmed(q, r) ==
    /\ armed' = [armed EXCEPT ![q] = FALSE]
    /\ result' = [result EXCEPT ![q] = r]
    /\ inbox' = [inbox EXCEPT ![q] = Empty]
    /\ pc' = [pc EXCEPT ![q] = "done"]

\* The request leaves; whether and what the upstream answers is open.
Send(q) ==
    /\ pc[q] = "send"
    /\ pc' = [pc EXCEPT ![q] = "wait"]
    /\ \/ UNCHANGED net
       \/ \E kind \in {"answer", "truncated", "garbled"} :
              net' = net \cup {[id |-> id[q], question |-> QuestionOf[q],
                                kind |-> kind]}
    /\ UNCHANGED <<inFlight, id, armed, inbox, result, recvLoop>>

SendFails(q) ==
    /\ pc[q] = "send"
    /\ EndArmed(q, Err("Io"))
    /\ UNCHANGED <<inFlight, id, recvLoop, net>>

\* parse_validated_response: the ID was recv_loop's business, the question
\* section must be the query's own.
MutValidAnyQuestion(q, d) == d.kind # "garbled" /\ d.question \in Questions
Valid(q, d) == d.kind # "garbled" /\ d.question = QuestionOf[q]

MutReceiveArmed(q) ==
    /\ pc[q] = "wait"
    /\ inbox[q] \notin {Empty, Closed}
    /\ EndArmed(q, IF Valid(q, inbox[q]) THEN Ok(inbox[q].question)
                                        ELSE Err("InvalidResponse"))
    /\ UNCHANGED <<inFlight, id, recvLoop, net>>

Receive(q) ==
    /\ pc[q] = "wait"
    /\ inbox[q] \notin {Empty, Closed}
    /\ IF ~Valid(q, inbox[q])
         THEN EndDisarmed(q, Err("InvalidResponse"))
         ELSE IF inbox[q].kind = "truncated"
                THEN /\ armed' = [armed EXCEPT ![q] = FALSE]
                     /\ pc' = [pc EXCEPT ![q] = "tcp"]
                     /\ inbox' = [inbox EXCEPT ![q] = Empty]
                     /\ UNCHANGED result
                ELSE EndDisarmed(q, Ok(inbox[q].question))
    /\ UNCHANGED <<inFlight, id, recvLoop, net>>

SenderDropped(q) ==
    /\ pc[q] = "wait"
    /\ inbox[q] = Closed
    /\ EndDisarmed(q, Err("AllFailed"))
    /\ UNCHANGED <<inFlight, id, recvLoop, net>>

MutTimeoutDisarms(q) ==
    /\ pc[q] = "wait"
    /\ inbox[q] = Empty
    /\ EndDisarmed(q, Err("Timeout"))
    /\ UNCHANGED <<inFlight, id, recvLoop, net>>

MutTimeoutNeedsLoop(q) ==
    /\ pc[q] = "wait"
    /\ inbox[q] = Empty
    /\ recvLoop # Dead
    /\ EndArmed(q, Err("Timeout"))
    /\ UNCHANGED <<inFlight, id, recvLoop, net>>

\* tokio's timeout polls the channel first, so it fires on an empty one.
Timeout(q) ==
    /\ pc[q] = "wait"
    /\ inbox[q] = Empty
    /\ EndArmed(q, Err("Timeout"))
    /\ UNCHANGED <<inFlight, id, recvLoop, net>>

\* The future is dropped at one of its awaits.
Cancel(q) ==
    /\ pc[q] \in {"send", "wait", "tcp"}
    /\ IF armed[q] THEN EndArmed(q, Cancelled)
                   ELSE EndDisarmed(q, Cancelled)
    /\ UNCHANGED <<inFlight, id, recvLoop, net>>

\* A query whose future has not ended holds the Receiver of its channel.
Listening(q) == pc[q] \in {"send", "wait"}

\* The owner of the Sender that is removed from slot i sees its channel close.
DropSender(i) ==
    /\ inFlight' = [inFlight EXCEPT ![i] = None]
    /\ inbox' = [q \in Queries |->
                    IF q = inFlight[i] /\ Listening(q) THEN Closed ELSE inbox[q]]

\* <InFlightGuard as Drop>::drop removes the id, whoever is registered there.
GuardDrop(q) ==
    /\ pc[q] = "drop"
    /\ DropSender(id[q])
    /\ armed' = [armed EXCEPT ![q] = FALSE]
    /\ pc' = [pc EXCEPT ![q] = "done"]
    /\ UNCHANGED <<id, result, recvLoop, net>>

\* tcp_query over a fresh connection: answered, or refused, broken off, invalid
\* or out of time (one error stands for these).
TcpAnswer(q) ==
    /\ pc[q] = "tcp"
    /\ EndDisarmed(q, Ok(QuestionOf[q]))
    /\ UNCHANGED <<inFlight, id, recvLoop, net>>

TcpFails(q) ==
    /\ pc[q] = "tcp"
    /\ EndDisarmed(q, Err("InvalidResponse"))
    /\ UNCHANGED <<inFlight, id, recvLoop, net>>

----------------------------------------------------------------------------
(* recv_loop *)

\* A datagram (possibly one of several copies) whose id is registered: the
\* Sender is taken out of the table under the lock ...
RecvTake(d) ==
    /\ recvLoop = Idle
    /\ d \in net
    /\ net' \in {net, net \ {d}}
    /\ inFlight[d.id] # None
    /\ recvLoop' = Holding(inFlight[d.id], d)
    /\ inFlight' = [inFlight EXCEPT ![d.id] = None]
    /\ UNCHANGED <<pc, id, armed, inbox, result>>

\* ... and used after the lock has been released.
RecvSend ==
    /\ recvLoop.at = "send"
    /\ inbox' = IF Listening(recvLoop.query)
                  THEN [inbox EXCEPT ![recvLoop.query] = recvLoop.datagram]
                  ELSE inbox
    /\ recvLoop' = Idle
    /\ UNCHANGED <<inFlight, pc, id, armed, result, net>>

\* "late or spurious response"; datagrams can also get lost on the way.
RecvIgnore(d) ==
    /\ recvLoop = Idle
    /\ d \in net
    /\ inFlight[d.id] = None
    /\ net' = net \ {d}
    /\ UNCHANGED <<inFlight, pc, id, armed, inbox, result, recvLoop>>

\* Any error but ECONNREFUSED ends the loop for good.
RecvFatal ==
    /\ recvLoop = Idle
    /\ recvLoop' = Dead
    /\ UNCHANGED <<inFlight, pc, id, armed, inbox, result, net>>

----------------------------------------------------------------------------

QueryStep(q) ==
    \/ \E i \in Ids : Allocate(q, i)
    \/ AllocateFails(q)
    \/ EncodeFails(q)
    \/ Send(q)
    \/ SendFails(q)
    \/ Receive(q)
    \/ SenderDropped(q)
    \/ Timeout(q)
    \/ GuardDrop(q)
    \/ TcpAnswer(q)
    \/ TcpFails(q)

Finished == \A q \in Queries : pc[q] = "done"

Next ==
    \/ \E q \in Queries : QueryStep(q)
    \/ \E q \in Queries : Cancel(q)
    \/ \E d \in net : RecvTake(d)
    \/ RecvSend
    \/ \E d \in net : RecvIgnore(d)
    \/ RecvFatal
    \/ Finished /\ UNCHANGED vars

Spec == Init /\ [][Next]_vars

\* The runtime polls every future that can make progress, and the timers of
\* query() and tcp_query() fire.  Nothing is assumed of the upstream, of the
\* network or of recv_loop.
FairSpec == Spec /\ \A q \in Queries : WF_vars(QueryStep(q))

----------------------------------------------------------------------------
(* Properties *)

\* Every id in the in-flight table belongs to a query that is still running
\* with an armed guard: timeouts, send errors and dropped futures give their
\* ids back, so that the 65536 ids never run out for good.
NoLeakedIds ==
    \A i \in Ids :
        inFlight[i] # None =>
            LET q == inFlight[i]
            IN  id[q] = i /\ armed[q] /\ pc[q] \in {"send", "wait", "drop"}

\* An answer that query() returns is an answer to its own question, although a
\* late reply to an earlier query may arrive under the same, reused id.
AnswersOwnQuestion ==
    \A q \in Queries :
        result[q].state = "ok" => result[q].question = QuestionOf[q]

\* A query loses its Sender only through the guard of another query that had
\* the same id and ended by timeout, send error or cancellation: an answered
\* query never takes its successor's entry away.
SenderLostToStaleGuardOnly ==
    \A q \in Queries :
        result[q] = Err("AllFailed") =>
            \E other \in Queries \ {q} :
                /\ id[other] = id[q]
                /\ result[other] \in {Cancelled, Err("Timeout"), Err("Io")}

\* query() returns, whatever the upstream and the network do, and even after
\* recv_loop has ended.
QueryReturns == \A q \in Queries : <>(pc[q] = "done")

\* The error arm for a lost Sender: "Sender dropped without sending (upstream
\* socket shut down)".  The socket lives as long as the query borrows it, so
\* no running query should ever see its channel closed.
SenderKeptWhileWaiting ==
    \A q \in Queries : pc[q] = "wait" => inbox[q] # Closed
=============================================================================
