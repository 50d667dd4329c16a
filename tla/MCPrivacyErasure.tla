-------------------------- MODULE MCPrivacyErasure --------------------------
(***************************************************************************)
(* PrivacyErasure on small instances: every writer lives in one and the    *)
(* same process.                                                           *)
(***************************************************************************)
EXTENDS PrivacyErasure

HomeOf == [w \in Writers |-> CHOOSE p \in Pools : TRUE]
=============================================================================
