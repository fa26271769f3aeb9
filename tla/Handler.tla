------------------------------- MODULE Handler -------------------------------
(***************************************************************************)
(* What happens to a client's query inside the server: handle_query        *)
(* (dnser-server/src/worker.rs) and one turn of handle_conn (tcp.rs), with  *)
(* process_query (handler.rs) and the race of Resolver::resolve             *)
(* (dnser-resolver/src/lib.rs) between the upstreams.                       *)
(*                                                                         *)
(* Tasks run concurrently and meet in the cache, which is here a map from  *)
(* keys to stored messages that may forget an entry at any moment (expiry, *)
(* eviction); module Cache has its inner steps.  One upstream's query()    *)
(* either returns a validated message or fails; module UpstreamSocket has  *)
(* its inner steps.                                                        *)
(***************************************************************************)
EXTENDS CachePolicy

CONSTANTS
    Tasks,        \* queries being handled, each in its own tokio task
    Upstreams,    \* Resolver::upstreams
    Queries,      \* what clients may send
    Bodies,       \* what upstreams may answer
    None          \* no entry, no message

VARIABLES
    query,     \* the query each task handles
    pc,        \* where the task is
    futs,      \* resolve(): the upstream queries that had not finished yet
    msg,       \* the message a task holds
    cache,     \* Cache, as a map
    sent,      \* the response that went out
    given      \* history: <<task, key, data>>, what upstreams answered

vars == <<query, pc, futs, msg, cache, sent, given>>

----------------------------------------------------------------------------
(* Messages.  The query has an OPT version if it carries an OPT record;    *)
(* bytes is the size on the wire without OPT records; data stands for the  *)
(* contents of the answer and tells the answers of upstreams apart.        *)

MaxUdpPayload == 512
MaxUdpSize == 4096
OptBytes == 11
Local == "local"    \* the data of a message the server made up itself

Keys == {CacheKey(q.questions[1]) : q \in {r \in Queries : r.questions # << >>}}

HasOpt(q) == q.opt # None

IsOpt(rr) == rr.type = "OPT"

Size(m) == m.bytes + OptBytes * Cardinality({i \in DOMAIN m.additional : IsOpt(m.additional[i])})

Carries(m) == \E i \in DOMAIN m.additional : IsOpt(m.additional[i])

MutQueryUdpLimitUncapped(q) ==
    IF ~HasOpt(q) THEN MaxUdpPayload ELSE Max({MaxUdpPayload, q.udpSize})

\* The advertised size, clamped to [512, 4096].
QueryUdpLimit(q) ==
    IF ~HasOpt(q) THEN MaxUdpPayload
    ELSE Max({MaxUdpPayload, Min({q.udpSize, MaxUdpSize})})

\* ResourceRecord::edns_opt; a non-zero ttl holds the extended rcode.
EdnsOpt(extendedRcode) == [type |-> "OPT", ttl |-> extendedRcode, minimum |-> 0]

MutAddEdnsOptKeepsOld(m) == [m EXCEPT !.additional = Append(@, EdnsOpt(0))]

AddEdnsOpt(m) ==
    [m EXCEPT !.additional =
        Append(SelectSeq(@, LAMBDA rr : ~IsOpt(rr)), EdnsOpt(0))]

\* Header::reply_to with the query's question section.
ReplyTo(q, tc, rcode, additional) ==
    [id |-> q.id, rd |-> q.rd, tc |-> tc, rcode |-> rcode,
     questions |-> q.questions, answers |-> << >>, authority |-> << >>,
     additional |-> additional, data |-> Local, bytes |-> q.bytes]

BuildServfail(q) == ReplyTo(q, FALSE, "Other", << >>)
BuildTruncated(q) == ReplyTo(q, TRUE, "NoError", << >>)
BuildBadvers(q) == ReplyTo(q, FALSE, "NoError", << EdnsOpt(1) >>)

\* A validated upstream message: the question section is the query's own and the
\* client's id is back in place.  Nothing else of the header is checked or changed;
\* the upstream is free to set RD or not.
UpstreamMessage(q, body, rd) ==
    [id |-> q.id, rd |-> rd, tc |-> body.tc, rcode |-> body.rcode,
     questions |-> q.questions, answers |-> body.answers, authority |-> body.authority,
     additional |-> body.additional, data |-> body.data, bytes |-> body.bytes]

\* What query() may return.  A truncated message leads to the TCP fallback when it
\* comes over UDP, and is returned when it comes over TCP.  An upstream sends an OPT
\* record only in reply to one.
Answers(q) ==
    {UpstreamMessage(q, b, rd) : b \in {b \in Bodies : Carries(b) => HasOpt(q)}, rd \in BOOLEAN}

----------------------------------------------------------------------------

States == {"recv", "race", "insert", "send", "done", "failed"}

Messages == UNION {Answers(q) : q \in Queries}

TypeOK ==
    /\ query \in [Tasks -> Queries]
    /\ pc \in [Tasks -> States]
    /\ futs \in [Tasks -> SUBSET Upstreams]
    /\ \A t \in Tasks : pc[t] \in {"insert", "send"} <=> msg[t] # None
    /\ \A t \in Tasks : pc[t] = "done" <=> sent[t] # None
    /\ cache \in [Keys -> Messages \cup {None}]

Init ==
    /\ query \in [Tasks -> Queries]
    /\ pc = [t \in Tasks |-> "recv"]
    /\ futs = [t \in Tasks |-> Upstreams]
    /\ msg = [t \in Tasks |-> None]
    /\ cache = [k \in Keys |-> None]
    /\ sent = [t \in Tasks |-> None]
    /\ given = {}

Goto(t, step) == pc' = [pc EXCEPT ![t] = step]

Hold(t, m) == msg' = [msg EXCEPT ![t] = m]

\* process_query returns m.
Return(t, m) == Goto(t, "send") /\ Hold(t, m)

----------------------------------------------------------------------------
(* process_query up to its await: no other task gets between the checks,   *)
(* the lookup and the return.                                              *)

\* Message::parse fails: no response, and over TCP the connection closes.
ParseFails(t) ==
    /\ pc[t] = "recv"
    /\ Goto(t, "failed")
    /\ UNCHANGED <<query, futs, msg, cache, sent, given>>

BadVersion(q) == HasOpt(q) /\ q.opt # 0

BadVers(t) ==
    /\ pc[t] = "recv"
    /\ BadVersion(query[t])
    /\ Return(t, BuildBadvers(query[t]))
    /\ UNCHANGED <<query, futs, cache, sent, given>>

\* The entry cache.get() finds for the question, if it is the only one.
Lookup(q) ==
    LET hits == {k \in Keys : Len(q.questions) = 1 /\ LookupEquivalent(q.questions[1], k)}
    IN  IF hits = {} THEN None ELSE cache[CHOOSE k \in hits : TRUE]

MutFromCacheKeepsId(q, stored, elapsed) ==
    LET m == [AgedResponse(stored, elapsed) EXCEPT !.rd = q.rd]
    IN  IF HasOpt(q) THEN AddEdnsOpt(m) ELSE m

MutFromCacheKeepsRd(q, stored, elapsed) ==
    LET m == [AgedResponse(stored, elapsed) EXCEPT !.id = q.id]
    IN  IF HasOpt(q) THEN AddEdnsOpt(m) ELSE m

\* The cached message, aged by the time it was stored, with the client's id and
\* RD bit and, for a client that sent one, an OPT record of ours.
FromCache(q, stored, elapsed) ==
    LET m == [AgedResponse(stored, elapsed) EXCEPT !.id = q.id, !.rd = q.rd]
    IN  IF HasOpt(q) THEN AddEdnsOpt(m) ELSE m

CacheHit(t) ==
    LET stored == Lookup(query[t]) IN
    /\ pc[t] = "recv"
    /\ ~BadVersion(query[t])
    /\ stored # None
    /\ \E elapsed \in 0..(EffectiveTtl(stored) - 1) :
           Return(t, FromCache(query[t], stored, elapsed))
    /\ UNCHANGED <<query, futs, cache, sent, given>>

\* resolve() starts a query to every upstream.
CacheMiss(t) ==
    /\ pc[t] = "recv"
    /\ ~BadVersion(query[t])
    /\ Lookup(query[t]) = None
    /\ Goto(t, "race")
    /\ UNCHANGED <<query, futs, msg, cache, sent, given>>

----------------------------------------------------------------------------
(* resolve() and the rest of process_query. *)

UpstreamFails(t, u) ==
    /\ pc[t] = "race"
    /\ u \in futs[t]
    /\ futs' = [futs EXCEPT ![t] = @ \ {u}]
    /\ UNCHANGED <<query, pc, msg, cache, sent, given>>

\* The first message ends the race; the other futures are dropped.
UpstreamAnswers(t, u, m) ==
    /\ pc[t] = "race"
    /\ u \in futs[t]
    /\ m \in Answers(query[t])
    /\ futs' = [futs EXCEPT ![t] = @ \ {u}]
    /\ Goto(t, "insert")
    /\ Hold(t, m)
    /\ given' = given \cup
           {<<t, IF Len(m.questions) = 1 THEN CacheKey(m.questions[1]) ELSE None, m.data>>}
    /\ UNCHANGED <<query, cache, sent>>

MutAllFailedEarly(t) ==
    /\ pc[t] = "race"
    /\ futs[t] # Upstreams
    /\ Return(t, BuildServfail(query[t]))
    /\ UNCHANGED <<query, futs, cache, sent, given>>

MutAllFailedRetries(t) ==
    /\ pc[t] = "race"
    /\ futs[t] = {}
    /\ futs' = [futs EXCEPT ![t] = Upstreams]
    /\ UNCHANGED <<query, pc, msg, cache, sent, given>>

\* NoUpstreams and AllFailed lead to the same response.
AllFailed(t) ==
    /\ pc[t] = "race"
    /\ futs[t] = {}
    /\ Return(t, BuildServfail(query[t]))
    /\ UNCHANGED <<query, futs, cache, sent, given>>

\* cache.insert() keeps what may be kept, under the key of the message.
CacheAfterInsert(m) ==
    IF EffectiveTtl(m) = NotCacheable THEN cache
    ELSE [cache EXCEPT ![CacheKey(m.questions[1])] = m]

MutInsertAfterOpt(t) ==
    LET m == IF HasOpt(query[t]) THEN AddEdnsOpt(msg[t]) ELSE msg[t] IN
    /\ pc[t] = "insert"
    /\ cache' = CacheAfterInsert(m)
    /\ Return(t, m)
    /\ UNCHANGED <<query, futs, sent, given>>

\* The cache gets the message as the upstream sent it, the client with our OPT.
Insert(t) ==
    /\ pc[t] = "insert"
    /\ cache' = CacheAfterInsert(msg[t])
    /\ Return(t, IF HasOpt(query[t]) THEN AddEdnsOpt(msg[t]) ELSE msg[t])
    /\ UNCHANGED <<query, futs, sent, given>>

\* Expiry, the reaper, or an eviction on behalf of another key.
Forget(k) ==
    /\ cache[k] # None
    /\ cache' = [cache EXCEPT ![k] = None]
    /\ UNCHANGED <<query, pc, futs, msg, sent, given>>

----------------------------------------------------------------------------
(* The response goes out. *)

Send(t, m) ==
    /\ Goto(t, "done")
    /\ Hold(t, None)
    /\ sent' = [sent EXCEPT ![t] = m]
    /\ UNCHANGED <<query, futs, cache, given>>

Fits(q, m) == Size(m) <= QueryUdpLimit(q)

SendUdp(t) ==
    /\ pc[t] = "send"
    /\ query[t].transport = "udp"
    /\ Send(t, IF Fits(query[t], msg[t]) THEN msg[t] ELSE BuildTruncated(query[t]))

SendTcp(t) ==
    /\ pc[t] = "send"
    /\ query[t].transport = "tcp"
    /\ Send(t, msg[t])

\* The response does not serialise, or the socket reports an error.
SendFails(t) ==
    /\ pc[t] = "send"
    /\ Goto(t, "failed")
    /\ Hold(t, None)
    /\ UNCHANGED <<query, futs, cache, sent, given>>

----------------------------------------------------------------------------

TaskStep(t) ==
    \/ ParseFails(t)
    \/ BadVers(t)
    \/ CacheHit(t)
    \/ CacheMiss(t)
    \/ \E u \in Upstreams : UpstreamFails(t, u)
    \/ \E u \in Upstreams : \E m \in Answers(query[t]) : UpstreamAnswers(t, u, m)
    \/ AllFailed(t)
    \/ Insert(t)
    \/ SendUdp(t)
    \/ SendTcp(t)
    \/ SendFails(t)

Finished == \A t \in Tasks : pc[t] \in {"done", "failed"}

Next ==
    \/ \E t \in Tasks : TaskStep(t)
    \/ \E k \in Keys : Forget(k)
    \/ Finished /\ UNCHANGED vars

Spec == Init /\ [][Next]_vars

\* write_framed waits for the peer to read, without a timeout.
WritingTcp(t) == pc[t] = "send" /\ query[t].transport = "tcp"

\* The runtime polls every task that can run, and every upstream query returns,
\* with a message or an error (UpstreamSocket, QueryReturns).  A TCP client need
\* not read its response: nothing is assumed of a task that writes to it.
FairSpec == Spec /\ \A t \in Tasks : WF_vars(~WritingTcp(t) /\ TaskStep(t))

----------------------------------------------------------------------------
(* Properties *)

Responded(t) == sent[t] # None

\* No upstream answered this task's own query.
NoOwnAnswer(t) == \A g \in given : g[1] # t

SameQuestions(m, q) ==
    /\ Len(m.questions) = Len(q.questions)
    /\ Len(q.questions) = 1 => LookupEquivalent(q.questions[1], CacheKey(m.questions[1]))
    /\ Len(q.questions) # 1 => m.questions = q.questions

\* A response carries the id of the query it goes back to and asks the same
\* question up to letter case, also when it was first given to another client
\* and came out of the cache.
ResponseMatchesQuery ==
    \A t \in Tasks : Responded(t) =>
        sent[t].id = query[t].id /\ SameQuestions(sent[t], query[t])

\* What a client is told was told by an upstream for the client's own key, to
\* this or to another task: the cache never mixes up keys.
AnswerGivenForKey ==
    \A t \in Tasks : Responded(t) /\ sent[t].data # Local /\ Len(query[t].questions) = 1 =>
        \E other \in Tasks :
            <<other, CacheKey(query[t].questions[1]), sent[t].data>> \in given

\* A response out of the cache, or of the server's own making, has the RD bit of its
\* query, although the stored message was made for another client by an upstream
\* that may set RD as it likes.  An upstream's answer to the task's own query keeps
\* the upstream's RD bit.
RdKept ==
    \A t \in Tasks : Responded(t) /\ (sent[t].data = Local \/ NoOwnAnswer(t)) =>
        sent[t].rd = query[t].rd

\* An answer that was fetched for one client is passed on to another one only if it
\* is whole and still holds: not truncated, neither an error nor a refusal, and every
\* record of a positive answer with some of its TTL left.
SharedAnswersUsable ==
    \A t \in Tasks : Responded(t) /\ sent[t].data # Local /\ NoOwnAnswer(t) =>
        /\ ~sent[t].tc
        /\ sent[t].rcode \in {"NoError", "NXDomain"}
        /\ sent[t].rcode = "NoError" =>
               \A i \in DOMAIN sent[t].answers : sent[t].answers[i].ttl > 0

\* A client that sent an OPT record gets exactly one in an answer: ours, not the
\* upstream's, and not one aged in the cache.
OneOwnOpt ==
    \A t \in Tasks : Responded(t) /\ HasOpt(query[t]) /\ sent[t].data # Local =>
        SelectSeq(sent[t].additional, IsOpt) = << EdnsOpt(0) >>

\* SERVFAIL of our own making means that every upstream failed, and an answer
\* that reached resolve() reaches the client, in full or as a TC reply.
RaceDecidesResponse ==
    \A t \in Tasks : Responded(t) =>
        /\ sent[t] = BuildServfail(query[t]) =>
               futs[t] = {} /\ NoOwnAnswer(t)
        /\ \A g \in given : g[1] = t =>
               sent[t].data = g[3] \/ sent[t] = BuildTruncated(query[t])

\* A UDP response, with the OPT record that process_query adds, has at most 4096
\* bytes and at most the size the client advertised, or 512 if that is more or the
\* client advertised none.  The exception is the bare TC reply, which repeats the
\* question section however long it is.
UdpResponseFits ==
    \A t \in Tasks : Responded(t) /\ query[t].transport = "udp" =>
        \/ /\ Size(sent[t]) <= 4096
           /\ Size(sent[t]) <= 512 \/ (HasOpt(query[t]) /\ Size(sent[t]) <= query[t].udpSize)
        \/ sent[t] = BuildTruncated(query[t])

\* Every UDP query is answered, or ends with an error of the parser or the socket,
\* also when all upstreams fail.  So does a TCP query, unless its client never reads
\* the response and the task writes for ever.
QueryFinishes ==
    \A t \in Tasks : <>(pc[t] \in {"done", "failed"}) \/ <>[]WritingTcp(t)

\* A test of the server says: "non-EDNS query must not get OPT record"
NoOptUnasked ==
    \A t \in Tasks : Responded(t) /\ ~HasOpt(query[t]) => ~Carries(sent[t])
=============================================================================
