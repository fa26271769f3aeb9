---------------------------- MODULE CachePolicy ----------------------------
(***************************************************************************)
(* The pure part of dnser-cache: how a question becomes a cache key, how   *)
(* long a response may be kept, and how the TTLs of a stored response are  *)
(* aged when it is served again.                                           *)
(*                                                                         *)
(* Data abstraction.  A name is its letters together with the way it was   *)
(* spelled (upper or lower case).  A record keeps its type, its TTL and,   *)
(* for a SOA, its MINIMUM field.  A message keeps the fields that decide   *)
(* whether and for how long it is cached.                                  *)
(***************************************************************************)
EXTENDS Integers, Sequences, FiniteSetsExt

CONSTANT MaxNegativeTtl   \* Cache::max_negative_ttl, in seconds

ASSUME MaxNegativeTtlAssumption == MaxNegativeTtl \in Nat

Rcodes == {"NoError", "NXDomain", "Other", "Invalid"}
RecordTypes == {"A", "CNAME", "SOA", "OPT"}

ResourceRecord == [type: RecordTypes, ttl: Nat, minimum: Nat]

Message(questions) ==
    [questions: Seq(questions), tc: BOOLEAN, rcode: Rcodes,
     answers: Seq(ResourceRecord), authority: Seq(ResourceRecord),
     additional: Seq(ResourceRecord)]

----------------------------------------------------------------------------
(* Keys: lowercased name, type and class. *)

ToAsciiLowercase(name) == [name EXCEPT !.upper = FALSE]

CacheKey(q) ==
    [name |-> ToAsciiLowercase(q.name), qtype |-> q.qtype, qclass |-> q.qclass]

MutLookupAnyType(q, key) ==
    /\ q.qclass = key.qclass
    /\ ToAsciiLowercase(q.name) = key.name

\* <Lookup as Equivalent<CacheKey>>::equivalent: compares without building
\* a key, lowercasing only the side that comes from the question.
LookupEquivalent(q, key) ==
    /\ q.qtype = key.qtype
    /\ q.qclass = key.qclass
    /\ ToAsciiLowercase(q.name) = key.name

----------------------------------------------------------------------------
(* Lifetimes, in seconds.  insert() drops a response with no lifetime and  *)
(* one with lifetime zero alike, so zero stands for both.                  *)

NotCacheable == 0

Smaller(a, b) == IF a <= b THEN a ELSE b

\* The first SOA record of the authority section decides.
SoaNegativeTtl(authority) ==
    LET soas == {i \in DOMAIN authority : authority[i].type = "SOA"}
    IN  IF soas = {} THEN NotCacheable
        ELSE LET rr == authority[Min(soas)] IN Smaller(rr.ttl, rr.minimum)

MinAnswerTtl(answers) == Min({answers[i].ttl : i \in DOMAIN answers})

IsNegative(response) ==
    \/ response.rcode = "NXDomain"
    \/ response.rcode = "NoError" /\ response.answers = << >>

MutEffectiveTtlOfTruncated(response) ==
    CASE Len(response.questions) # 1 -> NotCacheable
      [] response.rcode \notin {"NoError", "NXDomain"} -> NotCacheable
      [] OTHER ->
           IF IsNegative(response)
           THEN Smaller(SoaNegativeTtl(response.authority), MaxNegativeTtl)
           ELSE MinAnswerTtl(response.answers)

\* The number of seconds insert() keeps the response; the first three cases
\* are its early returns.
EffectiveTtl(response) ==
    CASE Len(response.questions) # 1 -> NotCacheable
      [] response.tc -> NotCacheable
      [] response.rcode \notin {"NoError", "NXDomain"} -> NotCacheable
      [] OTHER ->
           IF IsNegative(response)
           THEN Smaller(SoaNegativeTtl(response.authority), MaxNegativeTtl)
           ELSE MinAnswerTtl(response.answers)

----------------------------------------------------------------------------
(* Ageing. *)

SaturatingSub(a, b) == IF a >= b THEN a - b ELSE 0

RewriteTtls(records, elapsed) ==
    [i \in DOMAIN records |->
        [records[i] EXCEPT !.ttl = SaturatingSub(records[i].ttl, elapsed)]]

\* What get() returns for a response that has been stored for elapsed seconds.
AgedResponse(response, elapsed) ==
    [response EXCEPT !.answers    = RewriteTtls(response.answers, elapsed),
                     !.authority  = RewriteTtls(response.authority, elapsed),
                     !.additional = RewriteTtls(response.additional, elapsed)]
=============================================================================
