---------------------------- MODULE MCMemoryWrites ----------------------------
\* The sentences are alike, and so are the handlers.
EXTENDS MemoryWrites, TLC

Symmetry == Permutations(Handlers) \cup Permutations(Contents)
=============================================================================
