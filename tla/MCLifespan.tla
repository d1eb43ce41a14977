------------------------------ MODULE MCLifespan ------------------------------
(* Lifespan on small instances: its configurations give the constants values. *)
EXTENDS Lifespan
=============================================================================
