---------------------------- MODULE MCPartySession ----------------------------
(* Model values and symmetry for the model checking of PartySession. *)
EXTENDS PartySession, TLC

Symmetry == Permutations(Codes) \cup Permutations(Joins) \cup Permutations(Objs)
=============================================================================
