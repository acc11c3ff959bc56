------------------------------ MODULE MCLanParty ------------------------------
(***************************************************************************)
(* The two views of a party on the local network: LanParty, the protocol   *)
(* with one call of the application at a time, and LanCalls, the calls     *)
(* that overlap.  They share no variable; view picks the one followed.     *)
(***************************************************************************)
EXTENDS LanParty, TLC

CONSTANTS Callers, MaxClients, MaxRuns

VARIABLES
  view,
  integration, runs, field, made, client, sockets, readers, dials, mutex,
  callOf,  \* call of LanCalls
  overlapped, alone

callVars == <<integration, runs, field, made, client, sockets, readers, dials, mutex, callOf,
              overlapped, alone>>
C == INSTANCE LanCalls WITH call <- callOf

BothInit ==
  /\ view \in {"protocol", "calls"}
  /\ Init /\ C!CallsInit
  /\ view = "protocol" \/ call = "none"
BothNext ==
  /\ UNCHANGED view
  /\ \/ view = "protocol" /\ Next /\ UNCHANGED callVars
     \/ view = "calls" /\ C!CallsNext /\ UNCHANGED vars
BothSpec == BothInit /\ [][BothNext]_<<view, vars, callVars>>

(* LostByOverlap of LanCalls: the connection of a call that no other       *)
(* overlaps is never lost track of (integration.go:653).                   *)
LostByOverlap == C!LostByOverlap

Symmetry == Permutations(Links) \cup Permutations(Callers)
===============================================================================
