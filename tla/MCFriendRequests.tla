--------------------------- MODULE MCFriendRequests ---------------------------
(* Symmetry for the model checking of FriendRequests: goroutines of a kind. *)
EXTENDS FriendRequests, TLC

Symmetry == Permutations(Ids \ Test) \cup Permutations(Admins)
=============================================================================
