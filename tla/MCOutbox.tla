------------------------------ MODULE MCOutbox ------------------------------
(***************************************************************************)
(* Outbox on small instances: pools are interchangeable, and so are        *)
(* conversations.                                                          *)
(***************************************************************************)
EXTENDS Outbox, TLC

Symmetry == Permutations(Pools) \cup Permutations(Convs)
=============================================================================
