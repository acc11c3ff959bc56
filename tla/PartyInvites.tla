----------------------------- MODULE PartyInvites -----------------------------
(***************************************************************************)
(* Party invitations (h.invites of party-server/internal/hub/hub.go) on    *)
(* top of the hub's connections and parties (PartyHub).                    *)
(*                                                                         *)
(* h.invites maps a client ID to the list of invitations sent to it and is *)
(* guarded by its own lock, inviteMu, which is never held together with    *)
(* h.mu.  handleInviteFriend and handleCancelInvite read the sender's      *)
(* party code before they take inviteMu; handleAcceptInvite takes the      *)
(* invitation out under inviteMu, releases it, joins the party under h.mu, *)
(* and only then tells the inviter.  Each of these sections is an action;  *)
(* pend[cn] is what the goroutine of cn has read and not used yet.         *)
(*                                                                         *)
(* Abstractions: the list of one addressee is a set (its order only picks  *)
(* which of several inviters to one party is told); an invitation is a     *)
(* pointer, and the clock is whether it is past its ExpiresAt.             *)
(***************************************************************************)
EXTENDS PartyHub

CONSTANTS
  Invs,     \* PartyInvite objects that can be allocated (bound of the model)
  NoInv, Free

VARIABLES
  invites,   \* invites[i]: h.invites[i]
  inv,       \* inv[v]: the immutable fields of invitation v, NoInv if unallocated
  expired,   \* the invitations past their ExpiresAt
  pend       \* pend[cn]: the invitation handler of cn between two sections

inviteVars == <<invites, inv, expired, pend>>
allVars == <<vars, inviteVars>>

Invite == [from : Ids, to : Ids, code : Codes]
Pending == [op : {"invite", "cancel"}, to : Ids, code : Codes]
             \cup [op : {"join", "notify"}, inv : Invs]

ASSUME PartyInvitesAssumption ==
  /\ NoInv \notin Invite
  /\ Free \notin Pending

InvitesTypeOK ==
  /\ invites \in [Ids -> SUBSET Invs]
  /\ inv \in [Invs -> Invite \cup {NoInv}]
  /\ expired \in SUBSET Invs
  /\ pend \in [Conns -> Pending \cup {Free}]

InvitesInit ==
  /\ Init
  /\ invites = [i \in Ids |-> {}]
  /\ inv = [v \in Invs |-> NoInv]
  /\ expired = {}
  /\ pend = [cn \in Conns |-> Free]

Me(cn) == info[cl[cn]].id

\* The connection's goroutine is back in its read loop, with a client.
Ready(cn) == InLoop(cn) /\ pend[cn] = Free

-----------------------------------------------------------------------------
(* Sending and withdrawing *)

\* handleInviteFriend: reads the own party code and looks the target up.
HandleInviteFriend(cn, j) ==
  /\ Ready(cn)
  /\ code[cl[cn]] # NoCode
  /\ clients[j] # NoObj
  /\ pend' = [pend EXCEPT ![cn] = [op |-> "invite", to |-> j, code |-> code[cl[cn]]]]
  /\ UNCHANGED <<vars, invites, inv, expired>>

\* ... and appends the invitation under inviteMu, whatever happened since.
AppendInvite(cn, v) ==
  /\ pend[cn] # Free /\ pend[cn].op = "invite"
  /\ inv[v] = NoInv
  /\ inv' = [inv EXCEPT ![v] = [from |-> Me(cn), to |-> pend[cn].to, code |-> pend[cn].code]]
  /\ invites' = [invites EXCEPT ![pend[cn].to] = @ \cup {v}]
  /\ pend' = [pend EXCEPT ![cn] = Free]
  /\ UNCHANGED <<vars, expired>>

\* handleCancelInvite: reads the own party code ...
HandleCancelInvite(cn, j) ==
  /\ Ready(cn)
  /\ code[cl[cn]] # NoCode
  /\ pend' = [pend EXCEPT ![cn] = [op |-> "cancel", to |-> j, code |-> code[cl[cn]]]]
  /\ UNCHANGED <<vars, invites, inv, expired>>

\* ... and drops its own invitations to that party, and every expired one.
WithdrawInvite(cn) ==
  LET mine(v) == inv[v].from = Me(cn) /\ inv[v].code = pend[cn].code
  IN /\ pend[cn] # Free /\ pend[cn].op = "cancel"
     /\ invites' = [invites EXCEPT ![pend[cn].to] = {v \in @ : ~mine(v) /\ v \notin expired}]
     /\ pend' = [pend EXCEPT ![cn] = Free]
     /\ UNCHANGED <<vars, inv, expired>>

-----------------------------------------------------------------------------
(* Answering *)

\* Mutant of HandleAcceptInvite: the invitation found stays in the list.
HandleAcceptInviteKeeps(cn, p) ==
  LET matching == {v \in invites[Me(cn)] \ expired : inv[v].code = p}
  IN /\ Ready(cn)
     /\ invites' = [invites EXCEPT ![Me(cn)] = @ \ expired]
     /\ \/ matching = {} /\ UNCHANGED pend
        \/ \E v \in matching : pend' = [pend EXCEPT ![cn] = [op |-> "join", inv |-> v]]
     /\ UNCHANGED <<vars, inv, expired>>

\* handleAcceptInvite takes out the unexpired invitations to party p, and
\* every expired one; without one of the former it reports an error.
HandleAcceptInvite(cn, p) ==
  LET matching == {v \in invites[Me(cn)] \ expired : inv[v].code = p}
  IN /\ Ready(cn)
     /\ invites' = [invites EXCEPT ![Me(cn)] = @ \ (matching \cup expired)]
     /\ \/ matching = {} /\ UNCHANGED pend
        \/ \E v \in matching : pend' = [pend EXCEPT ![cn] = [op |-> "join", inv |-> v]]
     /\ UNCHANGED <<vars, inv, expired>>

Answering(cn, op) == pend[cn] # Free /\ pend[cn].op = op

\* Mutants of JoinInvitedParty: an invitation lets one in past the capacity;
\* a failed join puts the invitation back.
JoinInvitedPartyUnchecked(cn) ==
  LET p == inv[pend[cn].inv].code
  IN /\ Answering(cn, "join")
     /\ \/ p \in parties /\ AddMember(p, cl[cn])
        \/ p \notin parties /\ UNCHANGED <<code, members, halted>>
     /\ pend' = [pend EXCEPT ![cn] = [op |-> "notify", inv |-> pend[cn].inv]]
     /\ UNCHANGED <<st, cl, info, clients, parties, removal, invites, inv, expired>>

JoinInvitedPartyPutsBack(cn) ==
  LET v == pend[cn].inv
  IN /\ Answering(cn, "join")
     /\ \/ HandleJoinParty(cn, inv[v].code) /\ UNCHANGED invites
        \/ /\ ~(/\ code[cl[cn]] = NoCode
                /\ inv[v].code \in parties
                /\ HasRoom(inv[v].code))
           /\ invites' = [invites EXCEPT ![Me(cn)] = @ \cup {v}]
           /\ UNCHANGED vars
     /\ pend' = [pend EXCEPT ![cn] = [op |-> "notify", inv |-> v]]
     /\ UNCHANGED <<inv, expired>>

\* handleJoinParty on behalf of handleAcceptInvite: its error messages (in a
\* party already, no such party, party full) are sent and then forgotten.
JoinInvitedParty(cn) ==
  LET p == inv[pend[cn].inv].code
  IN /\ Answering(cn, "join")
     /\ \/ HandleJoinParty(cn, p)
        \/ /\ ~(code[cl[cn]] = NoCode /\ p \in parties /\ HasRoom(p))
           /\ UNCHANGED vars
     /\ pend' = [pend EXCEPT ![cn] = [op |-> "notify", inv |-> pend[cn].inv]]
     /\ UNCHANGED <<invites, inv, expired>>

\* "Notify inviter": InviteAccepted to the inviter, if it is still online.
NotifyInviter(cn) ==
  /\ Answering(cn, "notify")
  /\ pend' = [pend EXCEPT ![cn] = Free]
  /\ UNCHANGED <<vars, invites, inv, expired>>

HandleDeclineInvite(cn, p) ==
  /\ Ready(cn)
  /\ invites' = [invites EXCEPT ![Me(cn)] = {v \in @ : inv[v].code # p /\ v \notin expired}]
  /\ UNCHANGED <<vars, inv, expired, pend>>

-----------------------------------------------------------------------------
(* Time *)

Expire(v) ==
  /\ inv[v] # NoInv
  /\ expired' = expired \cup {v}
  /\ UNCHANGED <<vars, invites, inv, pend>>

CleanupExpiredInvites ==
  /\ invites' = [i \in Ids |-> invites[i] \ expired]
  /\ UNCHANGED <<vars, inv, expired, pend>>

-----------------------------------------------------------------------------
\* A goroutine in the middle of an invitation handler does not read messages.
HubStep ==
  /\ \/ \E cn \in Conns : pend[cn] = Free /\ ConnNext(cn)
     \/ AdminNext
     \/ CleanupEmptyParties
  /\ UNCHANGED <<invites, inv, expired, pend>>

InviteStep(cn) ==
  \/ \E j \in Ids : HandleInviteFriend(cn, j) \/ HandleCancelInvite(cn, j)
  \/ \E v \in Invs : AppendInvite(cn, v)
  \/ WithdrawInvite(cn)
  \/ \E p \in Codes : HandleAcceptInvite(cn, p) \/ HandleDeclineInvite(cn, p)
  \/ JoinInvitedParty(cn)
  \/ NotifyInviter(cn)

InvitesNext ==
  \/ HubStep
  \/ \E cn \in Conns : InviteStep(cn)
  \/ \E v \in Invs : Expire(v)
  \/ CleanupExpiredInvites

InvitesSpec == InvitesInit /\ [][InvitesNext]_allVars

-----------------------------------------------------------------------------
(* Properties *)

Taken(cn) == IF pend[cn] # Free /\ pend[cn].op \in {"join", "notify"} THEN {pend[cn].inv} ELSE {}

\* Handlers that hold h.inviteMu and h.mu in turn, and join on another
\* handler's behalf, still only do to parties what PartyHub allows: every rule
\* of joining (one party at a time, capacity, existence) holds for invited
\* clients too.
HubSpec == Spec

\* An invitation is in no list but its addressee's.
Delivered == \A i \in Ids : \A v \in invites[i] : inv[v] # NoInv /\ inv[v].to = i

\* An invitation serves once: while a goroutine acts on it, it is in no list
\* and no other goroutine (of a second connection of the same client) has it.
TakenOnce ==
  \A cn \in Conns : \A v \in Taken(cn) :
    /\ \A i \in Ids : v \notin invites[i]
    /\ \A other \in Conns \ {cn} : v \notin Taken(other)

\* The inductive invariant of PartyInvitesProofs: also, only a goroutine that
\* serves a registered client is in a handler, and it has a real invitation.
InviteInv ==
  /\ InvitesTypeOK
  /\ Delivered
  /\ TakenOnce
  /\ \A cn \in Conns : pend[cn] # Free => InLoop(cn)
  /\ \A cn \in Conns : \A v \in Taken(cn) : inv[v] # NoInv

\* An invitation accepted, declined, cancelled or expired does not come back
\* ("declined invites reappearing" was a bug, CHANGELOG.md).
NeverReturns ==
  [][\A v \in Invs : inv[v] # NoInv =>
       \A i \in Ids : v \in invites'[i] => v \in invites[i]]_allVars

\* "Valid invite -> accept joins the party and consumes the invite"
\* (hub_test.go): when the inviter, still in that party, is told that somebody
\* else accepted, that client has been let in.  Violated: handleAcceptInvite
\* consumes the invitation and tells the inviter whatever handleJoinParty did.
AcceptJoins ==
  \A cn \in Conns :
    Answering(cn, "notify") =>
      LET v == pend[cn].inv IN
      /\ inv[v].from # Me(cn)
      /\ \E o \in members[inv[v].code] : info[o].id = inv[v].from
      => cl[cn] \in members[inv[v].code]

=============================================================================
