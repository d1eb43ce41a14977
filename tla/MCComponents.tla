----------------------------- MODULE MCComponents -----------------------------
(* Components on small instances: the values its configuration shares. *)
EXTENDS Components

\* Two messages of partition p1 have one id, the one of p2 has none.
MCTopic == [p \in {"p1", "p2"} |-> IF p = "p1" THEN <<"a", "b", "a">> ELSE <<NoId>>]

\* The first anomaly expires before the others do.
MCTtl == [e \in Entries |-> IF e = "e1" THEN 0 ELSE 1]
=============================================================================
