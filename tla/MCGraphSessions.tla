-------------------------- MODULE MCGraphSessions --------------------------
(***************************************************************************)
(* Instances of GraphSessionsPromises for TLC.                             *)
(***************************************************************************)
EXTENDS GraphSessionsPromises, TLC

MCSymmetry == Permutations(Caller) \cup Permutations(Session) \cup Permutations(Root \ {SchemaRoot})
=============================================================================
