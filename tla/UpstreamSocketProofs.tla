------------------------ MODULE UpstreamSocketProofs ------------------------
(***************************************************************************)
(* Proofs about UpstreamSocket, for any number of queries, ids and         *)
(* questions.                                                              *)
(***************************************************************************)
EXTENDS UpstreamSocket, TLAPS

\* The Sender of a query, which cannot be copied, is in one place at most: in the
\* in-flight table under the query's own id, in recv_loop's hands, or used up.
SenderUnique ==
    /\ \A i \in Ids : inFlight[i] # None => id[inFlight[i]] = i
    /\ \A i \in Ids : inFlight[i] # None => inbox[inFlight[i]] = Empty
    /\ recvLoop.at = "send" =>
          /\ inbox[recvLoop.query] = Empty
          /\ \A i \in Ids : inFlight[i] # recvLoop.query

\* A guard is armed from the allocation of the id until the future's end; a
\* channel holds something only while its receiver lives.
GuardState ==
    /\ \A q \in Queries : armed[q] <=> pc[q] \in {"send", "wait", "drop"}
    /\ \A q \in Queries : armed[q] => id[q] \in Ids
    /\ \A q \in Queries : inbox[q] # Empty => Listening(q)
    /\ recvLoop.at = "send" => pc[recvLoop.query] # "new"

\* The endings that leave the guard armed.
ArmedEndings == {Cancelled, Err("Timeout"), Err("Io")}

\* Another query had the id of q and ended with its guard armed.
PredecessorEnded(q) ==
    \E other \in Queries \ {q} : id[other] = id[q] /\ result[other] \in ArmedEndings

\* What a query has returned, by where it is; and who closed its channel.
ResultState ==
    /\ \A q \in Queries : pc[q] \in {"new", "send", "wait", "tcp"} => result[q] = Pending
    /\ \A q \in Queries : pc[q] = "drop" => result[q] \in ArmedEndings
    /\ \A q \in Queries : inbox[q] = Closed => PredecessorEnded(q)
    /\ \A q \in Queries : result[q] = Err("AllFailed") => PredecessorEnded(q)

TableInv == TypeOK /\ GuardState /\ SenderUnique /\ NoLeakedIds

\* The three shapes of a result and of a channel do not overlap.
LEMMA Distinct ==
    /\ Empty # Closed
    /\ Empty \notin Datagrams /\ Closed \notin Datagrams
    /\ Pending \notin ArmedEndings
    /\ \A e \in Errors : Err(e).state = "err" /\ Err(e) # Pending /\ Err(e) # Cancelled
    /\ \A x : Ok(x).state = "ok" /\ Ok(x).question = x
    /\ \A x : Ok(x) # Err("AllFailed")
    /\ Err("AllFailed") \notin ArmedEndings
    /\ Pending.state # "ok" /\ Cancelled.state # "ok"
    /\ Idle.at = "recv" /\ Dead.at = "dead"
    /\ \A q, d : /\ Holding(q, d).at = "send"
                 /\ Holding(q, d).query = q
                 /\ Holding(q, d).datagram = d
<1>1. Empty # Closed
    BY DEF Empty, Closed
<1>2. Empty \notin Datagrams /\ Closed \notin Datagrams
    <2>1. DOMAIN Empty = {"chan"} /\ DOMAIN Closed = {"chan"}
        BY DEF Empty, Closed
    <2>2. \A d \in Datagrams : DOMAIN d = {"id", "question", "kind"}
        BY DEF Datagrams
    <2> QED BY <2>1, <2>2
<1>3. \A e : /\ Err(e).state = "err" /\ Err(e).error = e
             /\ Err(e) # Pending /\ Err(e) # Cancelled
    BY DEF Err, Pending, Cancelled
<1>4. \A x : Ok(x).state = "ok" /\ Ok(x).question = x
    BY DEF Ok
<1>5. Pending.state = "pending" /\ Cancelled.state = "cancelled"
    BY DEF Pending, Cancelled
<1>6. Pending \notin ArmedEndings /\ Err("AllFailed") \notin ArmedEndings
    BY <1>3, <1>5 DEF ArmedEndings
<1>7. \A x : Ok(x) # Err("AllFailed")
    BY <1>3, <1>4
<1>8. /\ Idle.at = "recv" /\ Dead.at = "dead"
      /\ \A q, d : /\ Holding(q, d).at = "send"
                   /\ Holding(q, d).query = q
                   /\ Holding(q, d).datagram = d
    BY DEF Idle, Dead, Holding
<1> QED BY <1>1, <1>2, <1>3, <1>4, <1>5, <1>6, <1>7, <1>8

\* What recv_loop holds between taking a Sender and using it.
LEMMA HoldingType ==
    ASSUME TypeOK, recvLoop.at = "send"
    PROVE  recvLoop.query \in Queries /\ recvLoop.datagram \in Datagrams
BY Distinct DEF TypeOK

\* Results have their type.
LEMMA ResultTypes ==
    /\ Pending \in Results /\ Cancelled \in Results
    /\ \A e \in Errors : Err(e) \in Results
    /\ \A x \in Questions : Ok(x) \in Results
BY DEF Results

\* A query that is no longer in the in-flight table may end without its guard.
LEMMA EndDisarmedKeeps ==
    ASSUME TableInv, NEW q \in Queries, NEW r \in Results,
           \A i \in Ids : inFlight[i] # q,
           EndDisarmed(q, r), UNCHANGED <<inFlight, id, recvLoop, net>>
    PROVE  TableInv'
<1>1. TypeOK'
    BY DEF TableInv, TypeOK, EndDisarmed
<1>2. GuardState'
    BY DEF TableInv, TypeOK, GuardState, Listening, EndDisarmed
<1>3. SenderUnique'
    BY DEF TableInv, TypeOK, SenderUnique, EndDisarmed
<1>4. NoLeakedIds'
    BY UpstreamAssumption DEF TableInv, TypeOK, NoLeakedIds, EndDisarmed
<1> QED BY <1>1, <1>2, <1>3, <1>4 DEF TableInv

\* The in-flight table is consistent in every behaviour: its variables keep
\* their types, a Sender is in one place only, and no id outlives its query.
THEOREM TableConsistent == Spec => []TableInv
<1> USE DEF TableInv
<1>1. Init => TableInv
    BY UpstreamAssumption, Distinct, ResultTypes
    DEF Init, TypeOK, GuardState, SenderUnique, NoLeakedIds, Listening
<1>2. TableInv /\ [Next]_vars => TableInv'
    <2> SUFFICES ASSUME TableInv, [Next]_vars PROVE TableInv'
        OBVIOUS
    <2>1. ASSUME NEW q \in Queries, NEW i \in Ids, Allocate(q, i) PROVE TableInv'
        BY <2>1, UpstreamAssumption, Distinct, ResultTypes
        DEF Allocate, Vacant, TypeOK, GuardState, SenderUnique, NoLeakedIds, Listening
    <2>2. ASSUME NEW q \in Queries, AllocateFails(q) \/ EncodeFails(q) PROVE TableInv'
        BY <2>2, UpstreamAssumption, Distinct, ResultTypes
        DEF AllocateFails, EncodeFails, EndArmed, EndDisarmed, Errors, TypeOK, GuardState, SenderUnique, NoLeakedIds, Listening
    <2>3. ASSUME NEW q \in Queries, Send(q) PROVE TableInv'
        <3>1. id[q] \in Ids
            BY <2>3 DEF Send, GuardState
        <3>2. \A kind \in {"answer", "truncated", "garbled"} :
                  [id |-> id[q], question |-> QuestionOf[q], kind |-> kind]
                      \in Datagrams
            BY <3>1, UpstreamAssumption DEF Datagrams
        <3>3. net' \subseteq Datagrams
            BY <2>3, <3>2 DEF Send, TypeOK
        <3> QED BY <2>3, <3>3 DEF Send, TypeOK, GuardState, SenderUnique, NoLeakedIds, Listening
    <2>4. ASSUME NEW q \in Queries, SendFails(q) PROVE TableInv'
        BY <2>4, UpstreamAssumption, Distinct, ResultTypes
        DEF SendFails, EndArmed, EndDisarmed, Errors, TypeOK, GuardState, SenderUnique, NoLeakedIds, Listening
    <2>5. ASSUME NEW q \in Queries, Receive(q) PROVE TableInv'
        <3>1. inbox[q] \in Datagrams
            BY <2>5 DEF Receive, TypeOK
        <3>2. inbox[q].question \in Questions
            BY <3>1 DEF Datagrams
        <3>3. \A i \in Ids : inFlight[i] # q
            BY <2>5, UpstreamAssumption DEF Receive, SenderUnique, TypeOK
        <3>4. CASE ~Valid(q, inbox[q])
            BY <2>5, <3>3, <3>4, EndDisarmedKeeps, ResultTypes DEF Receive, Errors
        <3>5. CASE Valid(q, inbox[q]) /\ inbox[q].kind = "truncated"
            <4>1. /\ armed' = [armed EXCEPT ![q] = FALSE]
                  /\ pc' = [pc EXCEPT ![q] = "tcp"]
                  /\ inbox' = [inbox EXCEPT ![q] = Empty]
                  /\ UNCHANGED <<inFlight, id, result, recvLoop, net>>
                BY <2>5, <3>5 DEF Receive
            <4>2. TypeOK'
                BY <4>1 DEF TypeOK
            <4>3. GuardState'
                BY <4>1 DEF TypeOK, GuardState, Listening
            <4>4. SenderUnique'
                BY <4>1 DEF TypeOK, SenderUnique
            <4>5. NoLeakedIds'
                BY <3>3, <4>1, UpstreamAssumption DEF TypeOK, NoLeakedIds
            <4> QED BY <4>2, <4>3, <4>4, <4>5
        <3>6. CASE Valid(q, inbox[q]) /\ inbox[q].kind # "truncated"
            BY <2>5, <3>2, <3>3, <3>6, EndDisarmedKeeps, ResultTypes DEF Receive
        <3> QED BY <3>4, <3>5, <3>6
    <2>6. ASSUME NEW q \in Queries, SenderDropped(q) PROVE TableInv'
        BY <2>6, UpstreamAssumption, Distinct, ResultTypes
        DEF SenderDropped, EndArmed, EndDisarmed, Errors, TypeOK, GuardState, SenderUnique, NoLeakedIds, Listening
    <2>7. ASSUME NEW q \in Queries, Timeout(q) PROVE TableInv'
        BY <2>7, UpstreamAssumption, Distinct, ResultTypes
        DEF Timeout, EndArmed, EndDisarmed, Errors, TypeOK, GuardState, SenderUnique, NoLeakedIds, Listening
    <2>8. ASSUME NEW q \in Queries, Cancel(q) PROVE TableInv'
        <3>1. CASE armed[q]
            BY <2>8, <3>1, UpstreamAssumption, Distinct, ResultTypes DEF Cancel, EndArmed, TypeOK, GuardState, SenderUnique, NoLeakedIds, Listening
        <3>2. CASE ~armed[q]
            <4>1. \A i \in Ids : inFlight[i] # q
                BY <3>2, UpstreamAssumption DEF NoLeakedIds
            <4> QED BY <2>8, <3>2, <4>1, EndDisarmedKeeps, ResultTypes DEF Cancel
        <3> QED BY <3>1, <3>2
    <2>9. ASSUME NEW q \in Queries, GuardDrop(q) PROVE TableInv'
        <3>1. id[q] \in Ids /\ ~Listening(q)
            BY <2>9 DEF GuardDrop, GuardState, Listening
        <3>2. \A i \in Ids : inFlight'[i] # None => inFlight'[i] = inFlight[i] /\ i # id[q]
            BY <2>9, <3>1 DEF GuardDrop, DropSender, TypeOK
        <3>3. \A i \in Ids : inFlight'[i] # q
            BY <3>2, UpstreamAssumption DEF NoLeakedIds
        <3>4. \A i \in Ids : inFlight'[i] # None => inFlight'[i] # inFlight[id[q]]
            BY <3>1, <3>2, UpstreamAssumption DEF NoLeakedIds
        <3>5. /\ inFlight' \in [Ids -> Queries \cup {None}]
              /\ inbox' \in [Queries -> Datagrams \cup {Empty, Closed}]
              /\ \A p \in Queries : inbox'[p] # Empty => Listening(p)
              /\ \A p \in Queries : inbox'[p] # inbox[p] => p = inFlight[id[q]]
            BY <2>9, <3>1 DEF GuardDrop, DropSender, TypeOK, GuardState
        <3>6. TypeOK'
            <4>1. pc' \in [Queries -> {"new", "send", "wait", "tcp", "drop", "done"}]
                BY <2>9 DEF GuardDrop, TypeOK
            <4>2. armed' \in [Queries -> BOOLEAN]
                BY <2>9 DEF GuardDrop, TypeOK
            <4>3. UNCHANGED <<id, result, recvLoop, net>>
                BY <2>9 DEF GuardDrop
            <4> QED BY <3>5, <4>1, <4>2, <4>3 DEF TypeOK
        <3>7. GuardState'
            BY <2>9, <3>1, <3>5 DEF GuardDrop, GuardState, Listening, TypeOK
        <3>8. SenderUnique'
            <4>1. UNCHANGED <<id, recvLoop>>
                BY <2>9 DEF GuardDrop
            <4>2. ASSUME NEW i \in Ids, inFlight'[i] # None
                  PROVE  id'[inFlight'[i]] = i /\ inbox'[inFlight'[i]] = Empty
                <5>1. inFlight'[i] = inFlight[i] /\ inFlight[i] \in Queries
                    BY <3>2, <4>2 DEF TypeOK
                <5>2. inbox'[inFlight[i]] = inbox[inFlight[i]]
                    BY <3>4, <3>5, <4>2, <5>1
                <5> QED BY <4>1, <4>2, <5>1, <5>2 DEF SenderUnique
            <4>3. ASSUME recvLoop'.at = "send"
                  PROVE  /\ inbox'[recvLoop'.query] = Empty
                         /\ \A i \in Ids : inFlight'[i] # recvLoop'.query
                <5>1. /\ recvLoop.query \in Queries
                      /\ inbox[recvLoop.query] = Empty
                      /\ \A i \in Ids : inFlight[i] # recvLoop.query
                    BY <4>1, <4>3, HoldingType DEF SenderUnique
                <5>2. inbox'[recvLoop.query] = inbox[recvLoop.query]
                    BY <3>1, <3>5, <5>1
                <5>3. \A i \in Ids : inFlight'[i] # recvLoop.query
                    BY <3>2, <5>1, UpstreamAssumption
                <5> QED BY <4>1, <5>1, <5>2, <5>3
            <4> QED BY <4>2, <4>3 DEF SenderUnique
        <3>9. NoLeakedIds'
            BY <2>9, <3>2, <3>3 DEF GuardDrop, NoLeakedIds, TypeOK
        <3> QED BY <3>6, <3>7, <3>8, <3>9
    <2>10. ASSUME NEW q \in Queries, TcpAnswer(q) PROVE TableInv'
        <3>1. \A i \in Ids : inFlight[i] # q
            BY <2>10, UpstreamAssumption DEF TcpAnswer, NoLeakedIds
        <3> QED
            BY <2>10, <3>1, EndDisarmedKeeps, ResultTypes, UpstreamAssumption
            DEF TcpAnswer, Errors
    <2>11. ASSUME NEW q \in Queries, TcpFails(q) PROVE TableInv'
        <3>1. \A i \in Ids : inFlight[i] # q
            BY <2>11, UpstreamAssumption DEF TcpFails, NoLeakedIds
        <3> QED
            BY <2>11, <3>1, EndDisarmedKeeps, ResultTypes, UpstreamAssumption
            DEF TcpFails, Errors
    <2>12. ASSUME NEW d \in net, RecvTake(d) PROVE TableInv'
        <3>1. d \in Datagrams /\ d.id \in Ids
            BY DEF TypeOK, Datagrams
        <3>2. inFlight[d.id] \in Queries
            BY <2>12, <3>1 DEF RecvTake, TypeOK
        <3>3. \A i \in Ids : inFlight'[i] # None => inFlight'[i] = inFlight[i] /\ i # d.id
            BY <2>12, <3>1 DEF RecvTake, TypeOK
        <3>4. TypeOK'
            BY <2>12, <3>1, <3>2 DEF RecvTake, TypeOK
        <3>5. recvLoop'.at = "send" /\ recvLoop'.query = inFlight[d.id]
            BY <2>12, Distinct DEF RecvTake
        <3>6. GuardState'
            BY <2>12, <3>1, <3>5 DEF RecvTake, GuardState, NoLeakedIds, Listening
        <3>7. SenderUnique'
            BY <2>12, <3>1, <3>2, <3>3, <3>5, UpstreamAssumption
            DEF RecvTake, SenderUnique
        <3>8. NoLeakedIds'
            BY <2>12, <3>3 DEF RecvTake, NoLeakedIds
        <3> QED BY <3>4, <3>6, <3>7, <3>8
    <2>13. ASSUME NEW d \in net, RecvIgnore(d) PROVE TableInv'
        BY <2>13, UpstreamAssumption, Distinct, ResultTypes
        DEF RecvIgnore, TypeOK, GuardState, SenderUnique, NoLeakedIds, Listening
    <2>14. CASE RecvSend
        BY <2>14, UpstreamAssumption, Distinct, HoldingType
        DEF RecvSend, TypeOK, GuardState, SenderUnique, NoLeakedIds, Listening
    <2>15. CASE RecvFatal
        BY <2>15, UpstreamAssumption, Distinct, HoldingType
        DEF RecvFatal, TypeOK, GuardState, SenderUnique, NoLeakedIds, Listening
    <2>16. CASE UNCHANGED vars
        BY <2>16, UpstreamAssumption, Distinct, HoldingType
        DEF vars, TypeOK, GuardState, SenderUnique, NoLeakedIds, Listening
    <2> QED
        BY <2>1, <2>2, <2>3, <2>4, <2>5, <2>6, <2>7, <2>8, <2>9, <2>10, <2>11, <2>12, <2>13, <2>14, <2>15, <2>16
        DEF Next, QueryStep
<1> QED BY <1>1, <1>2, PTL DEF Spec

\* An answer that query() returns is to its own question (parse_validated_response
\* compares the question sections), whatever ids are reused and however late
\* replies arrive.
THEOREM OwnAnswers == Spec => []AnswersOwnQuestion
<1>1. Init => AnswersOwnQuestion
    BY DEF Init, AnswersOwnQuestion, Pending
<1>2. TypeOK /\ AnswersOwnQuestion /\ [Next]_vars => AnswersOwnQuestion'
    <2> SUFFICES ASSUME TypeOK, AnswersOwnQuestion, [Next]_vars
                 PROVE  AnswersOwnQuestion'
        OBVIOUS
    <2>1. ASSUME NEW q \in Queries, NEW r, result' = [result EXCEPT ![q] = r],
                 r.state = "ok" => r.question = QuestionOf[q]
          PROVE  AnswersOwnQuestion'
        BY <2>1 DEF TypeOK, AnswersOwnQuestion
    <2>2. ASSUME UNCHANGED result PROVE AnswersOwnQuestion'
        BY <2>2 DEF AnswersOwnQuestion
    <2>3. /\ Cancelled.state # "ok"
          /\ \A e : Err(e).state # "ok"
          /\ \A x : Ok(x).question = x
        BY DEF Cancelled, Err, Ok
    <2>4. ASSUME NEW q \in Queries, QueryStep(q) PROVE AnswersOwnQuestion'
        <3>1. CASE \/ AllocateFails(q) \/ EncodeFails(q) \/ SendFails(q)
                   \/ SenderDropped(q) \/ Timeout(q) \/ TcpFails(q)
            BY <2>1, <2>3, <3>1
            DEF AllocateFails, EncodeFails, SendFails, SenderDropped, Timeout, TcpFails, EndArmed, EndDisarmed
        <3>2. CASE Receive(q)
            BY <2>1, <2>2, <2>3, <3>2 DEF Receive, EndDisarmed, Valid
        <3>3. CASE TcpAnswer(q)
            BY <2>1, <2>3, <3>3 DEF TcpAnswer, EndDisarmed
        <3>4. CASE (\E i \in Ids : Allocate(q, i)) \/ Send(q) \/ GuardDrop(q)
            BY <2>2, <3>4 DEF Allocate, Send, GuardDrop
        <3> QED BY <2>4, <3>1, <3>2, <3>3, <3>4 DEF QueryStep
    <2>5. ASSUME NEW q \in Queries, Cancel(q) PROVE AnswersOwnQuestion'
        BY <2>1, <2>3, <2>5 DEF Cancel, EndArmed, EndDisarmed
    <2>6. CASE \E d \in net : RecvTake(d) \/ RecvIgnore(d)
        BY <2>2, <2>6 DEF RecvTake, RecvIgnore
    <2>7. CASE RecvSend \/ RecvFatal \/ UNCHANGED vars
        BY <2>2, <2>7 DEF RecvSend, RecvFatal, vars
    <2> QED BY <2>4, <2>5, <2>6, <2>7 DEF Next
<1>3. TableInv => TypeOK
    BY DEF TableInv
<1> QED BY <1>1, <1>2, <1>3, TableConsistent, PTL DEF Spec

\* Timeouts, send errors and dropped futures give their ids back.
THEOREM IdsNotLeaked == Spec => [](TypeOK /\ SenderUnique /\ NoLeakedIds)
<1>1. TableInv => TypeOK /\ SenderUnique /\ NoLeakedIds
    BY DEF TableInv
<1> QED BY <1>1, TableConsistent, PTL

\* Results are final and ids are assigned once, so that a predecessor that has
\* ended stays one.
LEMMA PredecessorStays ==
    ASSUME TypeOK, ResultState, NEW q \in Queries, pc[q] # "new", PredecessorEnded(q),
           \A p \in Queries : pc[p] # "new" => id'[p] = id[p],
           \A p \in Queries : result[p] # Pending => result'[p] = result[p]
    PROVE  PredecessorEnded(q)'
<1>1. PICK other \in Queries \ {q} : id[other] = id[q] /\ result[other] \in ArmedEndings
    BY DEF PredecessorEnded
<1>2. result[other] # Pending
    BY <1>1, Distinct
<1>3. pc[other] # "new"
    BY <1>2 DEF ResultState
<1> QED BY <1>1, <1>2, <1>3 DEF PredecessorEnded, ArmedEndings

\* Who closes a channel, and what the endings are.
THEOREM StaleGuards == Spec => []ResultState
<1>1. Init => ResultState
    BY Distinct DEF Init, ResultState, Pending, Err, Empty, Closed
<1>2. TableInv /\ ResultState /\ [Next]_vars => ResultState'
    <2> SUFFICES ASSUME TableInv, ResultState, [Next]_vars PROVE ResultState'
        OBVIOUS
    <2> DEFINE Frame == /\ \A p \in Queries : pc[p] # "new" => id'[p] = id[p]
                        /\ \A p \in Queries : result[p] # Pending => result'[p] = result[p]
    <2>1. TypeOK /\ GuardState /\ SenderUnique /\ NoLeakedIds
        BY DEF TableInv
    <2>2. \A p \in Queries : pc[p] # "new" /\ PredecessorEnded(p) /\ Frame
              => PredecessorEnded(p)'
        BY <2>1, PredecessorStays
    <2>3. /\ \A p \in Queries : inbox[p] = Closed => pc[p] # "new" /\ PredecessorEnded(p)
          /\ \A p \in Queries : result[p] = Err("AllFailed") =>
                 pc[p] # "new" /\ PredecessorEnded(p)
        BY <2>1, Distinct DEF ResultState, GuardState, Listening, Errors
    <2>4. ASSUME NEW q \in Queries, NEW i \in Ids, Allocate(q, i) PROVE ResultState'
        <3>1. Frame
            BY <2>1, <2>4 DEF Allocate, TypeOK
        <3> QED BY <2>1, <2>2, <2>3, <2>4, <3>1 DEF Allocate, TypeOK, ResultState, ArmedEndings
    <2>5. ASSUME NEW q \in Queries, NEW r, r # Pending, r # Err("AllFailed"),
                 pc[q] \in {"new", "send", "wait", "tcp"},
                 \/ pc' = [pc EXCEPT ![q] = "done"]
                 \/ r \in ArmedEndings /\ pc' = [pc EXCEPT ![q] = "drop"],
                 result' = [result EXCEPT ![q] = r],
                 inbox' = [inbox EXCEPT ![q] = Empty], UNCHANGED id
          PROVE  ResultState'
        <3>1. Frame
            BY <2>1, <2>5 DEF TypeOK, ResultState
        <3>2. \A p \in Queries : inbox'[p] = Closed => PredecessorEnded(p)'
            BY <2>1, <2>2, <2>3, <2>5, <3>1, Distinct DEF TypeOK
        <3>3. \A p \in Queries : result'[p] = Err("AllFailed") => PredecessorEnded(p)'
            BY <2>1, <2>2, <2>3, <2>5, <3>1 DEF TypeOK
        <3>4. \A p \in Queries : pc'[p] \in {"new", "send", "wait", "tcp"} => result'[p] = Pending
            BY <2>1, <2>5 DEF TypeOK, ResultState
        <3>5. \A p \in Queries : pc'[p] = "drop" => result'[p] \in ArmedEndings
            BY <2>1, <2>5 DEF TypeOK, ResultState
        <3> QED BY <3>2, <3>3, <3>4, <3>5 DEF ResultState, ArmedEndings
    <2>6. ASSUME NEW q \in Queries, AllocateFails(q) \/ EncodeFails(q) PROVE ResultState'
        <3>1. inbox[q] = Empty
            BY <2>1, <2>6 DEF AllocateFails, EncodeFails, GuardState, Listening
        <3>2. inbox' = [inbox EXCEPT ![q] = Empty]
            BY <2>1, <2>6, <3>1 DEF AllocateFails, EncodeFails, TypeOK
        <3>3. \A e \in {"IdSpaceExhausted", "Write"} : Err(e) # Pending /\ Err(e) # Err("AllFailed")
            BY DEF Err, Pending
        <3> QED BY <2>5, <2>6, <3>2, <3>3 DEF AllocateFails, EncodeFails
    <2>7. ASSUME NEW q \in Queries, Send(q) PROVE ResultState'
        <3>1. Frame
            BY <2>7 DEF Send
        <3> QED BY <2>1, <2>2, <2>3, <2>7, <3>1 DEF Send, TypeOK, ResultState, ArmedEndings
    <2>8. /\ \A e \in {"Io", "Timeout"} : /\ Err(e) # Pending /\ Err(e) # Err("AllFailed")
                                         /\ Err(e) \in ArmedEndings
          /\ Err("InvalidResponse") # Pending /\ Err("InvalidResponse") # Err("AllFailed")
          /\ Cancelled # Pending /\ Cancelled # Err("AllFailed") /\ Cancelled \in ArmedEndings
          /\ \A x : Ok(x) # Pending /\ Ok(x) # Err("AllFailed")
        BY DEF Err, Ok, Pending, Cancelled, ArmedEndings
    <2>9. ASSUME NEW q \in Queries, SendFails(q) \/ Timeout(q) PROVE ResultState'
        BY <2>5, <2>8, <2>9 DEF SendFails, Timeout, EndArmed
    <2>10. ASSUME NEW q \in Queries, Cancel(q) PROVE ResultState'
        BY <2>5, <2>8, <2>10 DEF Cancel, EndArmed, EndDisarmed
    <2>11. ASSUME NEW q \in Queries, TcpAnswer(q) \/ TcpFails(q) PROVE ResultState'
        BY <2>5, <2>8, <2>11 DEF TcpAnswer, TcpFails, EndDisarmed
    <2>12. ASSUME NEW q \in Queries, Receive(q) PROVE ResultState'
        <3>1. CASE Valid(q, inbox[q]) /\ inbox[q].kind = "truncated"
            <4>1. /\ pc' = [pc EXCEPT ![q] = "tcp"] /\ pc[q] = "wait"
                  /\ inbox' = [inbox EXCEPT ![q] = Empty]
                  /\ UNCHANGED <<id, result>>
                BY <2>12, <3>1 DEF Receive
            <4>2. Frame
                BY <4>1
            <4> QED BY <2>1, <2>2, <2>3, <4>1, <4>2, Distinct DEF TypeOK, ResultState, ArmedEndings
        <3>2. CASE ~(Valid(q, inbox[q]) /\ inbox[q].kind = "truncated")
            BY <2>5, <2>8, <2>12, <3>2 DEF Receive, EndDisarmed
        <3> QED BY <3>1, <3>2
    <2>13. ASSUME NEW q \in Queries, SenderDropped(q) PROVE ResultState'
        <3>1. /\ pc' = [pc EXCEPT ![q] = "done"] /\ pc[q] = "wait" /\ inbox[q] = Closed
              /\ inbox' = [inbox EXCEPT ![q] = Empty]
              /\ result' = [result EXCEPT ![q] = Err("AllFailed")]
              /\ UNCHANGED id
            BY <2>13 DEF SenderDropped, EndDisarmed
        <3>2. Frame
            BY <2>1, <3>1 DEF TypeOK, ResultState
        <3>3. \A p \in Queries : inbox'[p] = Closed => PredecessorEnded(p)'
            BY <2>1, <2>2, <2>3, <3>1, <3>2, Distinct DEF TypeOK
        <3>4. \A p \in Queries : result'[p] = Err("AllFailed") => PredecessorEnded(p)'
            BY <2>1, <2>2, <2>3, <3>1, <3>2 DEF TypeOK
        <3> QED BY <2>1, <3>1, <3>3, <3>4 DEF TypeOK, ResultState, ArmedEndings
    <2>14. ASSUME NEW q \in Queries, GuardDrop(q) PROVE ResultState'
        <3>1. /\ pc' = [pc EXCEPT ![q] = "done"] /\ pc[q] = "drop"
              /\ UNCHANGED <<id, result>>
            BY <2>14 DEF GuardDrop
        <3>2. Frame
            BY <3>1
        <3>3. ASSUME NEW p \in Queries, inbox'[p] = Closed PROVE PredecessorEnded(p)'
            <4>1. CASE inbox[p] = Closed
                BY <2>2, <2>3, <3>2, <4>1
            <4>2. CASE inbox[p] # Closed
                <5>1. p = inFlight[id[q]] /\ Listening(p)
                    BY <2>14, <3>3, <4>2 DEF GuardDrop, DropSender
                <5>2. id[q] \in Ids
                    BY <2>1, <3>1 DEF GuardState
                <5>3. id[p] = id[q]
                    BY <2>1, <5>1, <5>2, UpstreamAssumption DEF SenderUnique
                <5>4. q \in Queries \ {p}
                    BY <3>1, <5>1 DEF Listening
                <5>5. result[q] \in ArmedEndings
                    BY <3>1 DEF ResultState
                <5> QED BY <3>1, <5>3, <5>4, <5>5 DEF PredecessorEnded, ArmedEndings
            <4> QED BY <4>1, <4>2
        <3>4. \A p \in Queries : result'[p] = Err("AllFailed") => PredecessorEnded(p)'
            BY <2>2, <2>3, <3>1, <3>2
        <3> QED BY <2>1, <3>1, <3>3, <3>4 DEF TypeOK, ResultState, ArmedEndings
    <2>15. ASSUME NEW d \in net, RecvTake(d) \/ RecvIgnore(d) PROVE ResultState'
        BY <2>2, <2>3, <2>15 DEF RecvTake, RecvIgnore, ResultState, ArmedEndings
    <2>16. CASE RecvSend
        <3>1. UNCHANGED <<pc, id, result>>
            BY <2>16 DEF RecvSend
        <3>2. \A p \in Queries : inbox'[p] = Closed => inbox[p] = Closed
            BY <2>1, <2>16, HoldingType, Distinct DEF RecvSend, TypeOK
        <3> QED BY <2>2, <2>3, <3>1, <3>2 DEF ResultState, ArmedEndings
    <2>17. CASE RecvFatal \/ UNCHANGED vars
        BY <2>2, <2>3, <2>17 DEF RecvFatal, vars, ResultState, ArmedEndings
    <2> QED
        BY <2>4, <2>6, <2>7, <2>9, <2>10, <2>11, <2>12, <2>13, <2>14, <2>15, <2>16, <2>17
        DEF Next, QueryStep
<1> QED BY <1>1, <1>2, TableConsistent, PTL DEF Spec

\* A query() that fails because its Sender was dropped (lib.rs, the `Ok(Err(_))`
\* arm) lost it to the guard of an earlier query with the same id that had
\* ended by timeout, send error or cancellation, and to nothing else.
THEOREM LostToStaleGuard == Spec => []SenderLostToStaleGuardOnly
<1>1. ResultState => SenderLostToStaleGuardOnly
    BY DEF ResultState, PredecessorEnded, ArmedEndings, SenderLostToStaleGuardOnly
<1> QED BY <1>1, StaleGuards, PTL
=============================================================================
