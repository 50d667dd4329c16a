---------------------------- MODULE MCToolWrites ----------------------------
(* The symmetry of the runs of ToolWrites.                                  *)
EXTENDS ToolWrites, TLC

Sym == Permutations(Calls) \cup Permutations(Keys)
=============================================================================
