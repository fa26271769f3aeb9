------------------------------ MODULE MCHandler ------------------------------
(***************************************************************************)
(* Instances of Handler: two tasks, two upstreams.  The queries differ in  *)
(* letter case, type, RD, OPT record, advertised size, transport and       *)
(* number of questions; the answers in rcode, TTL, size, OPT and TC.       *)
(***************************************************************************)
EXTENDS Handler, TLC

Question(upper, qtype) ==
    [name |-> [label |-> "a", upper |-> upper], qtype |-> qtype, qclass |-> "IN"]

Ask(id, questions, rd, opt, udpSize, transport) ==
    [id |-> id, questions |-> questions, rd |-> rd, opt |-> opt, udpSize |-> udpSize,
     transport |-> transport, bytes |-> IF Len(questions) > 1 THEN 600 ELSE 30]

OneA == << Question(FALSE, "A") >>

MCQueries == {
    Ask(1, OneA, TRUE, None, 0, "udp"),
    Ask(2, << Question(TRUE, "A") >>, TRUE, 0, 0, "udp"),
    Ask(3, OneA, FALSE, 0, 4096, "tcp"),
    Ask(4, << Question(FALSE, "AAAA") >>, TRUE, 0, 65535, "udp"),
    Ask(5, OneA, FALSE, None, 0, "tcp"),
    Ask(6, << Question(FALSE, "A"), Question(FALSE, "AAAA") >>, TRUE, None, 0, "udp"),
    Ask(7, OneA, TRUE, 1, 512, "udp") }

A(ttl) == [type |-> "A", ttl |-> ttl, minimum |-> 0]
Soa(ttl, minimum) == [type |-> "SOA", ttl |-> ttl, minimum |-> minimum]

Body(data, tc, rcode, answers, authority, additional, bytes) ==
    [data |-> data, tc |-> tc, rcode |-> rcode, answers |-> answers,
     authority |-> authority, additional |-> additional, bytes |-> bytes]

MCBodies == {
    Body("short", FALSE, "NoError", << A(2), A(1) >>, << >>, << >>, 60),
    Body("withOpt", FALSE, "NoError", << A(2) >>, << >>, << EdnsOpt(1) >>, 505),
    Body("none", FALSE, "NXDomain", << >>, << Soa(2, 1) >>, << >>, 80),
    Body("long", FALSE, "NoError", << A(1) >>, << >>, << >>, 4100),
    Body("cut", TRUE, "NoError", << A(1) >>, << >>, << >>, 40),
    Body("refused", FALSE, "Other", << A(1) >>, << >>, << >>, 30) }

\* For liveness: a plain client, an EDNS client and a TCP client; one answer that is
\* kept, one not.
MCFewQueries == {q \in MCQueries : q.id \in {1, 2, 5}}
MCFewBodies == {b \in MCBodies : b.data \in {"short", "refused"}}

Perms == Permutations(Tasks) \cup Permutations(Upstreams)
=============================================================================
