---------------------------- MODULE MCAsyncBatch ----------------------------
(* AsyncBatch on small instances: the values its configurations share.     *)
EXTENDS AsyncBatch, TLC

CONSTANTS HIGH, LOW

\* The queue of one priority fills up sooner than the other's.
MCQueueLimit == [p \in Priorities |-> IF p = HIGH THEN 1 ELSE 2]

MCSymmetry == Permutations(Jobs)
=============================================================================
