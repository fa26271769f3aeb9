-------------------------- MODULE MCUpstreamSocket --------------------------
(***************************************************************************)
(* Instances of UpstreamSocket for TLC: more queries than ids, so that ids *)
(* are reused, and two of the queries ask the same question.               *)
(***************************************************************************)
EXTENDS UpstreamSocket, TLC

CONSTANTS q1, q2, q3, x, y

MCQuestionOf == [q \in Queries |-> IF q = q2 THEN y ELSE x]

\* q1 and q3 ask the same question; the ids are interchangeable.
Symmetry == Permutations({q1, q3}) \cup Permutations(Ids)
=============================================================================
