------------------------------ MODULE MCCache ------------------------------
(***************************************************************************)
(* Instances of Cache for TLC.  Names "a", "b" and "c", where "a" is also  *)
(* asked for in upper case.                                                *)
(***************************************************************************)
EXTENDS Cache, TLC

Question(l, u) == [name |-> [letters |-> l, upper |-> u], qtype |-> "A", qclass |-> "IN"]
Key(l) == CacheKey(Question(l, FALSE))

RR(type, ttl, minimum) == [type |-> type, ttl |-> ttl, minimum |-> minimum]

Positive(l, u, ttls) ==
    [questions |-> <<Question(l, u)>>, tc |-> FALSE, rcode |-> "NoError",
     answers |-> [i \in DOMAIN ttls |-> RR("A", ttls[i], 0)],
     authority |-> << >>, additional |-> <<RR("OPT", 0, 0)>>]

\* NXDOMAIN; the answers are the aliases that led to the missing name.
NXDomain(l, aliasTtls, ttl, minimum) ==
    [questions |-> <<Question(l, FALSE)>>, tc |-> FALSE, rcode |-> "NXDomain",
     answers |-> [i \in DOMAIN aliasTtls |-> RR("CNAME", aliasTtls[i], 0)],
     authority |-> <<RR("SOA", ttl, minimum)>>, additional |-> << >>]

NoData(l, ttl, minimum) == [NXDomain(l, << >>, ttl, minimum) EXCEPT !.rcode = "NoError"]

MCQuestions == {Question("a", FALSE), Question("a", TRUE),
                Question("b", FALSE), Question("c", FALSE)}

\* Three keys over two shards: "a" and "b" share the first one.
MCShardOf == [k \in {CacheKey(q) : q \in MCQuestions} |->
                 IF k = Key("c") THEN 1 ELSE 0]

\* An answer of two records; a NODATA response limited by the TTL of its SOA record;
\* an NXDOMAIN response whose alias has a shorter TTL than its SOA record, which is
\* above the cap of two seconds; and a truncated response that is not cached.
MCResponses ==
    {Positive("a", TRUE, <<2, 1>>), NXDomain("b", <<1>>, 3, 3), NoData("c", 1, 2),
     [Positive("c", FALSE, <<1>>) EXCEPT !.tc = TRUE]}

\* One key per shard, with TTLs within the clock's range.
MCFewResponses ==
    {Positive("a", TRUE, <<1>>), Positive("c", FALSE, <<1>>)}

Perms == Permutations(Inserters)
=============================================================================
