-------------------------- MODULE PartyInvitesProofs --------------------------
(* Theorems about PartyInvites, for every value of its constants. *)
EXTENDS PartyInvites, PartyHubProofs

USE PartyInvitesAssumption

\* A pending handler's fields have their types.
LEMMA PendingType ==
  ASSUME InvitesTypeOK, NEW cn \in Conns, pend[cn] # Free
  PROVE  /\ pend[cn].op \in {"invite", "cancel"} => pend[cn].to \in Ids /\ pend[cn].code \in Codes
         /\ pend[cn].op \in {"join", "notify"} => pend[cn].inv \in Invs
  BY DEF InvitesTypeOK, Pending

\* A client in its read loop has an ID and, if any, the code of a party.
LEMMA MeType ==
  ASSUME PartyInv, NEW cn \in Conns, InLoop(cn)
  PROVE  /\ cl[cn] \in Objs
         /\ Me(cn) \in Ids
         /\ code[cl[cn]] \in Codes \cup {NoCode}
  BY DEF PartyInv, TypeOK, WiringOK, InLoop, Me, Allocated, Info

-----------------------------------------------------------------------------
\* What an invitation handler does to parties is a handleJoinParty or nothing.
LEMMA JoinInvitedRefines ==
  ASSUME InviteInv, NEW cn \in Conns, JoinInvitedParty(cn)
  PROVE  Next \/ UNCHANGED vars
  <1>1. inv[pend[cn].inv].code \in Codes
    <2>1. pend[cn].inv \in Taken(cn) /\ pend[cn].inv \in Invs
      BY PendingType DEF JoinInvitedParty, Answering, Taken, InviteInv
    <2>2. inv[pend[cn].inv] \in Invite
      BY <2>1 DEF InviteInv, InvitesTypeOK
    <2> QED
      BY <2>2 DEF Invite
  <1>2. CASE HandleJoinParty(cn, inv[pend[cn].inv].code)
    BY <1>1, <1>2 DEF Next, ConnNext
  <1> QED
    BY <1>2 DEF JoinInvitedParty

\* A step of the composition is a step of the hub or leaves it alone.
LEMMA StepRefinesHub == InviteInv /\ [InvitesNext]_allVars => [Next]_vars
  <1> SUFFICES ASSUME InviteInv, [InvitesNext]_allVars PROVE Next \/ UNCHANGED vars
    OBVIOUS
  <1>1. CASE HubStep
    BY <1>1 DEF HubStep, Next
  <1>2. ASSUME NEW cn \in Conns, JoinInvitedParty(cn) PROVE Next \/ UNCHANGED vars
    BY <1>2, JoinInvitedRefines
  <1> QED
    BY <1>1, <1>2 DEF InvitesNext, allVars, InviteStep, HandleInviteFriend,
       HandleCancelInvite, AppendInvite, WithdrawInvite, HandleAcceptInvite,
       HandleDeclineInvite, NotifyInviter, Expire, CleanupExpiredInvites

-----------------------------------------------------------------------------
\* A hub step of other goroutines leaves a handler in its loop: only its own
\* goroutine ends it or takes its client away.
LEMMA HubStepKeepsBusy ==
  ASSUME TypeOK, HubStep, NEW cn \in Conns, pend[cn] # Free, InLoop(cn)
  PROVE  InLoop(cn)'
  <1>1. CASE CleanupEmptyParties
    BY <1>1 DEF CleanupEmptyParties, InLoop, Serving
  <1>2. CASE AdminNext
    <2>1. UNCHANGED <<st, cl>>
      BY <1>2 DEF AdminNext, CreateTestClient, RemoveTestClient, FinishRemoval,
         CleanupTestClients, CreateTestParty, JoinTestParty, LeaveTestParty, DeleteParty
    <2> QED
      BY <2>1 DEF InLoop, Serving
  <1>3. ASSUME NEW c \in Conns, pend[c] = Free, ConnNext(c) PROVE InLoop(cn)'
    <2> c # cn
      BY <1>3
    <2>1. CASE Open(c) \/ ReadFails(c) \/ FinishDisconnect(c) \/ Panic(c) \/ LeavePanics(c)
      BY <2>1 DEF TypeOK, Open, ReadFails, FinishDisconnect, Panic, LeavePanics, InLoop, Serving
    <2>2. ASSUME NEW i \in Ids, NEW n \in Names, RegisterRejected(c, i, n)
          PROVE  InLoop(cn)'
      BY <2>2 DEF TypeOK, RegisterRejected, InLoop, Serving
    <2>3. ASSUME NEW i \in Ids, NEW n \in Names, NEW o \in Objs, Register(c, i, n, o)
          PROVE  InLoop(cn)'
      <3>1. cl'[cn] = cl[cn]
        BY <2>3 DEF TypeOK, Register
      <3>2. st'[cn] = st[cn] \/ st'[cn] = "closed"
        BY <2>3 DEF TypeOK, Register, CloseConn
      <3> QED
        BY <3>1, <3>2 DEF InLoop, Serving
    <2>4. CASE UNCHANGED <<st, cl>>
      BY <2>4 DEF InLoop, Serving
    <2>5. ASSUME NEW i \in Ids, NEW n \in Names, NEW o \in Objs, RegisterPanics(c, i, n, o)
          PROVE  InLoop(cn)'
      <3>1. cl'[cn] = cl[cn]
        BY <2>5 DEF RegisterPanics
      <3>2. st'[cn] = st[cn] \/ st'[cn] = "closed"
        BY <2>5 DEF TypeOK, RegisterPanics
      <3> QED
        BY <3>1, <3>2 DEF InLoop, Serving
    <2> QED
      BY <1>3, <2>1, <2>2, <2>3, <2>4, <2>5
         DEF ConnNext, HandleCreateParty, HandleJoinParty, HandleLeaveParty
  <1> QED
    BY <1>1, <1>2, <1>3 DEF HubStep

\* Steps that allocate no invitation, put none into a list and take none into
\* a hand keep the invariant.
LEMMA ShrinkingStep ==
  ASSUME InviteInv, UNCHANGED inv, expired' \in SUBSET Invs,
         invites' \in [Ids -> SUBSET Invs], pend' \in [Conns -> Pending \cup {Free}],
         \A i \in Ids : invites'[i] \subseteq invites[i],
         \A cn \in Conns : Taken(cn)' \subseteq Taken(cn),
         \A cn \in Conns : pend'[cn] # Free => InLoop(cn)'
  PROVE  InviteInv'
  <1>1. Delivered'
    BY DEF InviteInv, Delivered
  <1>2. TakenOnce'
    BY DEF InviteInv, TakenOnce
  <1> QED
    BY <1>1, <1>2 DEF InviteInv, InvitesTypeOK

\* A handler that is over, or has only read its own code, holds nothing.
LEMMA TakenAfter ==
  ASSUME InvitesTypeOK, NEW cn \in Conns, NEW q \in Pending \cup {Free},
         pend' = [pend EXCEPT ![cn] = q],
         q = Free \/ q.op \in {"invite", "cancel"} \/ q.inv \in Taken(cn)
  PROVE  /\ pend' \in [Conns -> Pending \cup {Free}]
         /\ \A c \in Conns : Taken(c)' \subseteq Taken(c)
         /\ \A c \in Conns : c # cn => pend'[c] = pend[c]
  <1>1. \A c \in Conns : c # cn => pend'[c] = pend[c]
    BY DEF InvitesTypeOK
  <1>2. pend'[cn] = q
    BY DEF InvitesTypeOK
  <1> QED
    BY <1>1, <1>2 DEF InvitesTypeOK, Taken

\* Every step of the composition keeps the invariant.
LEMMA InviteInvNext ==
  PartyInv /\ InviteInv /\ [InvitesNext]_allVars => InviteInv'
  <1> SUFFICES ASSUME PartyInv, InviteInv, [InvitesNext]_allVars PROVE InviteInv'
    OBVIOUS
  <1> InvitesTypeOK /\ TypeOK
    BY DEF InviteInv, PartyInv
  <1>1. CASE HubStep
    <2>1. \A cn \in Conns : pend'[cn] # Free => InLoop(cn)'
      BY <1>1, HubStepKeepsBusy DEF HubStep, InviteInv
    <2> QED
      BY <1>1, <2>1, ShrinkingStep DEF HubStep, InvitesTypeOK, Taken
  <1>2. ASSUME NEW cn \in Conns, InviteStep(cn) PROVE InviteInv'
    <2>0. InLoop(cn)
      BY <1>2 DEF InviteStep, HandleInviteFriend, HandleCancelInvite, AppendInvite,
         WithdrawInvite, HandleAcceptInvite, HandleDeclineInvite, JoinInvitedParty,
         NotifyInviter, Answering, Ready, InviteInv
    <2>1. st' = st /\ cl' = cl
      BY <1>2 DEF InviteStep, HandleInviteFriend, HandleCancelInvite, AppendInvite,
         WithdrawInvite, HandleAcceptInvite, HandleDeclineInvite, JoinInvitedParty,
         NotifyInviter, HandleJoinParty, vars
    <2>2. \A c \in Conns : InLoop(c)' = InLoop(c)
      BY <2>1 DEF InLoop, Serving
    <2>3. \A c \in Conns : pend'[c] = pend[c] \/ c = cn => (pend'[c] # Free => InLoop(c)')
      BY <2>0, <2>2 DEF InviteInv
    <2>4. ASSUME NEW j \in Ids, HandleInviteFriend(cn, j) \/ HandleCancelInvite(cn, j)
          PROVE  InviteInv'
      <3>1. PICK op \in {"invite", "cancel"} :
              pend' = [pend EXCEPT ![cn] = [op |-> op, to |-> j, code |-> code[cl[cn]]]]
        BY <2>4 DEF HandleInviteFriend, HandleCancelInvite
      <3>2. [op |-> op, to |-> j, code |-> code[cl[cn]]] \in Pending
        BY <2>0, <2>4, MeType DEF Pending, HandleInviteFriend, HandleCancelInvite
      <3> DEFINE q == [op |-> op, to |-> j, code |-> code[cl[cn]]]
      <3>3. q.op \in {"invite", "cancel"}
        OBVIOUS
      <3> HIDE DEF q
      <3>4. /\ pend' \in [Conns -> Pending \cup {Free}]
            /\ \A c \in Conns : Taken(c)' \subseteq Taken(c)
            /\ \A c \in Conns : c # cn => pend'[c] = pend[c]
        BY <3>1, <3>2, <3>3, TakenAfter DEF q
      <3> QED
        BY <2>3, <2>4, <3>4, ShrinkingStep
           DEF HandleInviteFriend, HandleCancelInvite, InvitesTypeOK
    <2>5. ASSUME NEW v \in Invs, AppendInvite(cn, v) PROVE InviteInv'
      <3>1. pend[cn].to \in Ids /\ pend[cn].code \in Codes /\ Me(cn) \in Ids
        BY <2>0, <2>5, PendingType, MeType DEF AppendInvite
      <3> DEFINE new == [from |-> Me(cn), to |-> pend[cn].to, code |-> pend[cn].code]
      <3>2. new \in Invite /\ new.to = pend[cn].to
        BY <3>1 DEF Invite
      <3> HIDE DEF new
      <3>3. inv' = [inv EXCEPT ![v] = new] /\ inv[v] = NoInv
        BY <2>5 DEF AppendInvite, new
      <3>4. /\ pend' \in [Conns -> Pending \cup {Free}]
            /\ \A c \in Conns : Taken(c)' \subseteq Taken(c)
            /\ \A c \in Conns : c # cn => pend'[c] = pend[c]
        BY <2>5, TakenAfter DEF AppendInvite
      <3>5. InvitesTypeOK'
        BY <2>5, <3>1, <3>2, <3>3, <3>4 DEF AppendInvite, InvitesTypeOK
      <3>6. Delivered'
        <4> SUFFICES ASSUME NEW i \in Ids, NEW w \in invites'[i]
                     PROVE  inv'[w] # NoInv /\ inv'[w].to = i
          BY DEF Delivered
        <4>1. w \in Invs
          BY <3>5 DEF InvitesTypeOK
        <4>2. CASE w = v
          <5>1. v \notin invites[i]
            BY <3>3 DEF InviteInv, Delivered
          <5>2. i = pend[cn].to
            BY <2>5, <3>1, <4>2, <5>1 DEF AppendInvite, InvitesTypeOK
          <5> QED
            BY <3>2, <3>3, <4>2, <5>2 DEF InvitesTypeOK
        <4>3. CASE w # v
          <5>1. w \in invites[i]
            BY <2>5, <3>1, <4>3 DEF AppendInvite, InvitesTypeOK
          <5> QED
            BY <3>3, <4>1, <4>3, <5>1 DEF InviteInv, Delivered, InvitesTypeOK
        <4> QED
          BY <4>2, <4>3
      <3>7. \A c \in Conns : v \notin Taken(c)
        BY <3>3 DEF InviteInv
      <3>8. TakenOnce'
        BY <2>5, <3>1, <3>4, <3>7 DEF AppendInvite, InviteInv, TakenOnce, InvitesTypeOK
      <3>9. \A c \in Conns : \A w \in Taken(c)' : inv'[w] # NoInv
        BY <3>2, <3>3, <3>4, <3>7 DEF InviteInv, InvitesTypeOK
      <3> QED
        BY <2>3, <3>4, <3>5, <3>6, <3>8, <3>9 DEF InviteInv
    <2>6. CASE WithdrawInvite(cn)
      <3>1. /\ pend' \in [Conns -> Pending \cup {Free}]
            /\ \A c \in Conns : Taken(c)' \subseteq Taken(c)
            /\ \A c \in Conns : c # cn => pend'[c] = pend[c]
        BY <2>6, TakenAfter DEF WithdrawInvite
      <3>2. /\ invites' \in [Ids -> SUBSET Invs]
            /\ \A i \in Ids : invites'[i] \subseteq invites[i]
        BY <2>6 DEF WithdrawInvite, InvitesTypeOK
      <3> QED
        BY <2>3, <2>6, <3>1, <3>2, ShrinkingStep DEF WithdrawInvite, InvitesTypeOK
    <2>7. ASSUME NEW p \in Codes, HandleAcceptInvite(cn, p) PROVE InviteInv'
      <3> DEFINE matching == {v \in invites[Me(cn)] \ expired : inv[v].code = p}
      <3>1. Me(cn) \in Ids
        BY <2>0, MeType
      <3>2. /\ invites' \in [Ids -> SUBSET Invs]
            /\ \A i \in Ids : invites'[i] \subseteq invites[i]
            /\ invites'[Me(cn)] = invites[Me(cn)] \ (matching \cup expired)
        BY <2>7, <3>1 DEF HandleAcceptInvite, InvitesTypeOK
      <3>3. CASE UNCHANGED pend
        BY <2>3, <2>7, <3>2, <3>3, ShrinkingStep
           DEF HandleAcceptInvite, InvitesTypeOK, Taken
      <3>4. ASSUME NEW v \in matching,
                   pend' = [pend EXCEPT ![cn] = [op |-> "join", inv |-> v]]
            PROVE  InviteInv'
        <4>1. v \in Invs /\ inv[v] # NoInv /\ inv[v].to = Me(cn) /\ v \in invites[Me(cn)]
          BY <3>1 DEF InvitesTypeOK, InviteInv, Delivered
        <4>2. /\ pend' \in [Conns -> Pending \cup {Free}]
              /\ \A c \in Conns : c # cn => pend'[c] = pend[c]
              /\ pend'[cn] = [op |-> "join", inv |-> v]
              /\ pend'[cn] # Free
          BY <3>4, <4>1 DEF InvitesTypeOK, Pending
        <4>3. /\ \A c \in Conns : c # cn => Taken(c)' = Taken(c)
              /\ Taken(cn)' = {v}
          BY <4>2 DEF Taken
        <4>4. \A i \in Ids : v \notin invites'[i]
          <5>1. ASSUME NEW i \in Ids, v \in invites[i] PROVE i = Me(cn)
            BY <4>1, <5>1 DEF InviteInv, Delivered
          <5> QED
            BY <3>1, <3>2, <5>1
        <4>5. \A c \in Conns : v \notin Taken(c)
          BY <3>1, <4>1 DEF InviteInv, TakenOnce
        <4>6. InvitesTypeOK'
          BY <2>7, <3>2, <4>2 DEF HandleAcceptInvite, InvitesTypeOK
        <4>7. Delivered'
          BY <2>7, <3>2 DEF HandleAcceptInvite, InviteInv, Delivered
        <4>8. TakenOnce'
          BY <3>2, <4>3, <4>4, <4>5 DEF InviteInv, TakenOnce
        <4>9. \A c \in Conns : \A w \in Taken(c)' : inv'[w] # NoInv
          BY <2>7, <4>1, <4>3 DEF HandleAcceptInvite, InviteInv
        <4> QED
          BY <2>3, <4>2, <4>6, <4>7, <4>8, <4>9 DEF InviteInv
      <3> QED
        BY <2>7, <3>3, <3>4 DEF HandleAcceptInvite
    <2>8. ASSUME NEW p \in Codes, HandleDeclineInvite(cn, p) PROVE InviteInv'
      <3>1. /\ invites' \in [Ids -> SUBSET Invs]
            /\ \A i \in Ids : invites'[i] \subseteq invites[i]
        BY <2>8 DEF HandleDeclineInvite, InvitesTypeOK
      <3> QED
        BY <2>3, <2>8, <3>1, ShrinkingStep DEF HandleDeclineInvite, InvitesTypeOK, Taken
    <2>9. CASE JoinInvitedParty(cn) \/ NotifyInviter(cn)
      <3>1. /\ pend' \in [Conns -> Pending \cup {Free}]
            /\ \A c \in Conns : Taken(c)' \subseteq Taken(c)
            /\ \A c \in Conns : c # cn => pend'[c] = pend[c]
        <4>1. CASE NotifyInviter(cn)
          BY <4>1, TakenAfter DEF NotifyInviter
        <4>2. CASE JoinInvitedParty(cn)
          <5> DEFINE q == [op |-> "notify", inv |-> pend[cn].inv]
          <5>1. pend[cn].inv \in Invs /\ pend[cn].inv \in Taken(cn)
            BY <4>2, PendingType DEF JoinInvitedParty, Answering, Taken
          <5>2. q \in Pending /\ q.inv \in Taken(cn)
            BY <5>1 DEF Pending
          <5>3. pend' = [pend EXCEPT ![cn] = q]
            BY <4>2 DEF JoinInvitedParty
          <5> HIDE DEF q
          <5> QED
            BY <5>2, <5>3, TakenAfter
        <4> QED
          BY <2>9, <4>1, <4>2
      <3> QED
        BY <2>3, <2>9, <3>1, ShrinkingStep DEF JoinInvitedParty, NotifyInviter, InvitesTypeOK
    <2> QED
      BY <1>2, <2>4, <2>5, <2>6, <2>7, <2>8, <2>9 DEF InviteStep
  <1>3. CASE (\E v \in Invs : Expire(v)) \/ CleanupExpiredInvites \/ UNCHANGED allVars
    <2>1. /\ UNCHANGED <<vars, inv, pend>>
          /\ expired' \in SUBSET Invs
          /\ invites' \in [Ids -> SUBSET Invs]
          /\ \A i \in Ids : invites'[i] \subseteq invites[i]
      BY <1>3 DEF Expire, CleanupExpiredInvites, allVars, inviteVars, InvitesTypeOK
    <2>2. \A c \in Conns : InLoop(c)' = InLoop(c)
      BY <2>1 DEF InLoop, Serving, vars
    <2> QED
      BY <2>1, <2>2, ShrinkingStep DEF InvitesTypeOK, InviteInv, Taken
  <1> QED
    BY <1>1, <1>2, <1>3 DEF InvitesNext

\* The invariants of hub and invitations, by induction together: the hub's
\* gives the invitation handlers their client, theirs give the hub its step.
LEMMA BothInvariants == InvitesSpec => [](PartyInv /\ InviteInv)
  <1>1. InvitesInit => PartyInv /\ InviteInv
    <2>1. InvitesInit => InviteInv
      BY DEF InvitesInit, InviteInv, InvitesTypeOK, Delivered, TakenOnce, Taken
    <2> QED
      BY <2>1, PartyInvInit DEF InvitesInit
  <1>2. PartyInv /\ InviteInv /\ [InvitesNext]_allVars => PartyInv' /\ InviteInv'
    BY StepRefinesHub, InviteInvNext, PartyInvNext
  <1> QED
    BY <1>1, <1>2, PTL DEF InvitesSpec

\* The hub with invitations implements the hub: a client let in through an
\* invitation is let in by the rules of handleJoinParty and by nothing else.
THEOREM ImplementsHub == InvitesSpec => HubSpec
  <1>1. InvitesInit => Init
    BY DEF InvitesInit
  <1> QED
    BY <1>1, StepRefinesHub, BothInvariants, PTL DEF InvitesSpec, HubSpec, Spec

\* What the handlers have taken from the lists, and what the lists hold, are
\* disjoint; every invitation is with its addressee.
THEOREM InvitationsServeOnce == InvitesSpec => []TakenOnce
  <1>1. InviteInv => TakenOnce
    BY DEF InviteInv
  <1> QED
    BY <1>1, BothInvariants, PTL

\* An invitation is listed for nobody but the client it was sent to.
THEOREM InvitationsAreDelivered == InvitesSpec => []Delivered
  <1>1. InviteInv => Delivered
    BY DEF InviteInv
  <1> QED
    BY <1>1, BothInvariants, PTL

\* No handler lists an invitation that was made before: the one step that adds
\* to a list allocates what it adds.
LEMMA ListsShrink ==
  ASSUME InviteInv, InvitesNext, NEW v \in Invs, inv[v] # NoInv, NEW i \in Ids, v \in invites'[i]
  PROVE  v \in invites[i]
  <1>0. invites \in [Ids -> SUBSET Invs]
    BY DEF InviteInv, InvitesTypeOK
  <1>1. CASE HubStep
    BY <1>1 DEF HubStep
  <1>2. ASSUME NEW cn \in Conns, InviteStep(cn) PROVE v \in invites[i]
    <2>1. ASSUME NEW w \in Invs, AppendInvite(cn, w) PROVE v \in invites[i]
      <3>1. v # w /\ invites'[i] \subseteq invites[i] \cup {w}
        BY <1>0, <2>1 DEF AppendInvite
      <3> QED
        BY <3>1
    <2>2. ASSUME NEW p \in Codes, HandleAcceptInvite(cn, p) \/ HandleDeclineInvite(cn, p)
          PROVE  v \in invites[i]
      BY <1>0, <2>2 DEF HandleAcceptInvite, HandleDeclineInvite
    <2>3. CASE WithdrawInvite(cn)
      BY <1>0, <2>3 DEF WithdrawInvite
    <2> QED
      BY <1>2, <2>1, <2>2, <2>3 DEF InviteStep, HandleInviteFriend, HandleCancelInvite,
         JoinInvitedParty, NotifyInviter
  <1>3. CASE CleanupExpiredInvites \/ \E w \in Invs : Expire(w)
    BY <1>3 DEF CleanupExpiredInvites, Expire
  <1> QED
    BY <1>1, <1>2, <1>3 DEF InvitesNext

\* An invitation accepted, declined, cancelled or expired does not come back,
\* whatever handlers of other connections had read before.
THEOREM InvitationsNeverReturn == InvitesSpec => NeverReturns
  <1>1. InviteInv /\ [InvitesNext]_allVars =>
          [\A v \in Invs : inv[v] # NoInv =>
             \A i \in Ids : v \in invites'[i] => v \in invites[i]]_allVars
    BY ListsShrink
  <1> QED
    BY <1>1, BothInvariants, PTL DEF InvitesSpec, NeverReturns

=============================================================================
