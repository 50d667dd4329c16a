------------------------ MODULE MCConversationTurns ------------------------
(* Small instances of ConversationTurns for TLC. *)
EXTENDS ConversationTurns, TLC

\* Ids are opaque and the specification treats all of them alike.
Symmetry == Permutations(Convs) \cup Permutations(Turns)
            \cup Permutations(Requests) \cup Permutations(Handlers)
=============================================================================
