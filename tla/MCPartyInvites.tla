---------------------------- MODULE MCPartyInvites ----------------------------
(* Model values and symmetry for the model checking of PartyInvites. *)
EXTENDS PartyInvites, TLC

Symmetry ==
  Permutations(Ids) \cup Permutations(Names) \cup Permutations(Codes)
    \cup Permutations(Conns) \cup Permutations(Objs) \cup Permutations(Invs)
=============================================================================
