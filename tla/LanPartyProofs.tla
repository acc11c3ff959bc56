---------------------------- MODULE LanPartyProofs ----------------------------
(* Theorems about LanParty, for every value of its constants. *)
EXTENDS LanParty, TLAPS

USE LanServerAssumption, LanPartyAssumption

\* What a step does to the server: one operation of LanServer, or nothing.
\* The application itself never sends a leave message.
ServerStep ==
  \/ \E k \in Links : \/ \E i \in RemoteIds : Accept(k, i)
                      \/ CloseLink(k) \/ HandleJoin(k) \/ Handler(k) \/ LinkFails(k)
                      \/ owner[k] # Me /\ HandleLeave(k)
  \/ CleanupInactive \/ StopServer \/ UNCHANGED serverVars

\* Two connections share a RemoteID.
Shared == \E k, l \in Links : k # l /\ owner[k] = owner[l] /\ owner[k] # NoId

\* The goroutines and their tables: who is at work has a RemoteID, a client that
\* is announced or removed is in the table, one that is announced is in the party
\* unless RemoteIDs are shared, and a read loop ends only with its connection.
ServerInv ==
  /\ LanTypeOK
  /\ \A k \in Links : pc[k] = "none" <=> owner[k] = NoId
  /\ \A k \in Links : pc[k] = "none" => table[k] = NoId
  /\ \A k \in Links : pc[k] \in {"announce", "remove"} /\ server => table[k] # NoId
  /\ \A k \in Links : ending[k] => link[k] \in {"closing", "closed"}
  /\ \A k \in Links : pc[k] \in {"register", "announce"} => owner[k] \in members \/ Shared

\* The application's connections: none leaves but at its end, and the one that
\* will remove the application from the party is alone and has added it.
OwnInv ==
  /\ \A k \in Links : owner[k] = Me /\ pc[k] \in {"remove", "count", "delete"} => ending[k]
  /\ server /\ listed =>
       \A k \in Links : owner[k] = Me /\ WillRemove(k) =>
         /\ Me \in members
         /\ \A l \in Links : owner[l] = Me /\ WillRemove(l) => l = k

\* The client: it dials without a connection and joins with one, which is its own,
\* and a welcome means that the server will remember to remove it.
ClientInv ==
  /\ PartyTypeOK
  /\ call = "dial" => mine = NoLink
  /\ call \in {"send", "sent", "await"} => mine # NoLink
  /\ mine # NoLink => owner[mine] = Me
  /\ /\ mine # NoLink /\ link[mine] = "open" /\ server
     /\ joined \/ answer = "welcome" \/ inbox = "welcome"
     => WillRemove(mine)

LanInv == ServerInv /\ NoGhostLanMember /\ PanicNeedsSharedId /\ OwnInv /\ ClientInv

-----------------------------------------------------------------------------
\* Every step of the system is a step of the server or leaves it alone.
LEMMA NextIsServerStep ==
  ASSUME LanTypeOK, [Next]_vars, mine \in Links \cup {NoLink}, mine = NoLink => ~connected
  PROVE  ServerStep /\ (panicked => panicked')
  <1>1. ASSUME Disconnect PROVE ServerStep /\ panicked' = panicked
    <2>1. CASE connected /\ ~joined /\ link[mine] = "open"
      <3>1. mine \in Links
        BY <2>1
      <3>2. CloseLink(mine)
        BY <1>1, <2>1 DEF Disconnect, CloseLink
      <3> QED
        BY <1>1, <3>1, <3>2 DEF ServerStep, Disconnect
    <2>2. CASE ~(connected /\ ~joined /\ link[mine] = "open")
      BY <1>1, <2>2 DEF Disconnect, ServerStep, serverVars
    <2> QED
      BY <2>1, <2>2
  <1>2. CASE Client
    <2>1. CASE DropPrevious \/ Abandon \/ StopIntegration
      BY <1>1, <2>1 DEF DropPrevious, Abandon, StopIntegration
    <2>2. CASE DisconnectFromParty
      BY <1>1, <2>2 DEF DisconnectFromParty, ServerStep, serverVars
    <2>3. CASE Dial
      BY <2>3 DEF Dial, ServerStep, serverVars, Accept
    <2>4. CASE StopPartyServer
      BY <2>4 DEF StopPartyServer, ServerStep, StopServer
    <2>5. CASE SendJoin \/ Select \/ GetAnswer \/ TimeOut \/ ReadAnswer \/ ReaderEnds
      BY <2>5 DEF SendJoin, Select, GetAnswer, TimeOut, ReadAnswer, ReaderEnds, ServerStep, serverVars
    <2> QED
      BY <1>2, <2>1, <2>2, <2>3, <2>4, <2>5 DEF Client
  <1>3. CASE Others
    BY <1>3 DEF Others, ServerStep, CloseLink, CleanupInactive, StopServer
  <1>4. CASE Call \/ StartIntegration \/ UNCHANGED vars
    BY <1>4 DEF Call, StartIntegration, vars, ServerStep, serverVars
  <1>5. ASSUME NEW k \in Links,
               Guest(k) \/ GuestMessage(k) \/ JoinArrives(k) \/ LinkEnds(k)
        PROVE  ServerStep /\ panicked' = panicked
    BY <1>5 DEF Guest, GuestMessage, JoinArrives, LinkEnds, ServerStep, Accept, HandleJoin,
       HandleLeave, LinkFails
  <1>6. ASSUME NEW k \in Links, Serve(k), ~panicked PROVE ServerStep
    BY <1>6 DEF Serve, ServerStep
  <1> QED
    BY <1>2, <1>3, <1>4, <1>5, <1>6 DEF Next

\* The server's variables keep their types.
LEMMA LanTypeNext ==
  ASSUME LanTypeOK, ServerStep, \A k \in Links : pc[k] = "none" <=> owner[k] = NoId
  PROVE  LanTypeOK'
  <1>1. ASSUME NEW k \in Links, NEW i \in RemoteIds, Accept(k, i) PROVE LanTypeOK'
    BY <1>1 DEF Accept, Step, LanTypeOK, Handling
  <1>2. ASSUME NEW k \in Links, CloseLink(k) \/ HandleJoin(k) \/ HandleLeave(k) \/ LinkFails(k)
        PROVE  LanTypeOK'
    BY <1>2 DEF CloseLink, HandleJoin, HandleLeave, LinkFails, Step, LanTypeOK, Handling
  <1>3. ASSUME NEW k \in Links, Handler(k) PROVE LanTypeOK'
    <2>1. CASE AddMember(k)
      <3>1. members' \subseteq members \cup {owner[k]} /\ owner[k] \in RemoteIds \cup {NoId}
        BY <2>1 DEF AddMember, LanTypeOK
      <3>2. pc' \in [Links -> Handling \cup {"none", "done"}]
        BY <2>1 DEF AddMember, Step, LanTypeOK, Handling
      <3>3. pc[k] = "add" /\ owner[k] # NoId
        BY <2>1 DEF AddMember, Step
      <3> QED
        BY <2>1, <3>1, <3>2, <3>3 DEF AddMember, LanTypeOK
    <2>5. CASE RegisterClient(k)
      BY <2>5 DEF RegisterClient, Step, LanTypeOK, Handling
    <2>6. CASE Announce(k)
      <3>1. panicked' \in BOOLEAN
        BY <2>6 DEF Announce
      <3> QED
        BY <2>6, <3>1 DEF Announce, Step, LanTypeOK, Handling
    <2>2. Return(k) \in Handling
      BY DEF Return, Handling, LanTypeOK
    <2>3. CASE RemoveMember(k) \/ CountMembers(k) \/ DeleteLanParty(k)
      <3>1. /\ pc' \in [Links -> Handling \cup {"none", "done"}] /\ members' \subseteq members
            /\ listed' \in {listed, FALSE}
        BY <2>2, <2>3 DEF RemoveMember, CountMembers, DeleteLanParty, Step, LanTypeOK, Handling
      <3> QED
        BY <2>3, <3>1 DEF RemoveMember, CountMembers, DeleteLanParty, LanTypeOK
    <2>4. CASE Forget(k)
      BY <2>4 DEF Forget, Step, LanTypeOK, Handling
    <2> QED
      BY <1>3, <2>1, <2>3, <2>4, <2>5, <2>6 DEF Handler, CleanUp
  <1>4. CASE CleanupInactive \/ StopServer \/ UNCHANGED serverVars
    BY <1>4 DEF CleanupInactive, StopServer, serverVars, LanTypeOK
  <1> QED
    BY <1>1, <1>2, <1>3, <1>4 DEF ServerStep

\* A goroutine works for the RemoteID of its connection, which does not change.
LEMMA OwnersNext ==
  ASSUME LanTypeOK, ServerStep, \A k \in Links : pc[k] = "none" <=> owner[k] = NoId
  PROVE  /\ \A k \in Links : pc'[k] = "none" <=> owner'[k] = NoId
         /\ \A k \in Links : owner[k] # NoId => owner'[k] = owner[k]
         /\ \A k \in Links : owner'[k] # owner[k] => pc'[k] = "read" /\ table'[k] = table[k]
         /\ Shared => Shared'
  <1> DEFINE Goal == /\ \A k \in Links : pc'[k] = "none" <=> owner'[k] = NoId
                     /\ \A k \in Links : owner[k] # NoId => owner'[k] = owner[k]
                     /\ \A k \in Links : owner'[k] # owner[k] =>
                                            pc'[k] = "read" /\ table'[k] = table[k]
  <1>1. ASSUME NEW k \in Links, NEW i \in RemoteIds, Accept(k, i) PROVE Goal
    BY <1>1 DEF Accept, Step, LanTypeOK
  <1>2. ASSUME NEW k \in Links, CloseLink(k) \/ HandleJoin(k) \/ HandleLeave(k) \/ LinkFails(k)
        PROVE  Goal
    BY <1>2 DEF CloseLink, HandleJoin, HandleLeave, LinkFails, Step, LanTypeOK
  <1>3. ASSUME NEW k \in Links, Handler(k) PROVE Goal
    <2>1. Return(k) # "none"
      BY DEF Return
    <2>2. CASE AddMember(k) \/ RegisterClient(k) \/ Announce(k)
      BY <2>2 DEF AddMember, RegisterClient, Announce, Step, LanTypeOK
    <2>3. CASE RemoveMember(k) \/ CountMembers(k) \/ DeleteLanParty(k) \/ Forget(k)
      BY <2>1, <2>3 DEF RemoveMember, CountMembers, DeleteLanParty, Forget, Step, LanTypeOK
    <2> QED
      BY <1>3, <2>2, <2>3 DEF Handler, CleanUp
  <1>4. ASSUME CleanupInactive \/ StopServer \/ UNCHANGED serverVars PROVE Goal
    BY <1>4 DEF CleanupInactive, StopServer, serverVars
  <1>5. Goal
    BY <1>1, <1>2, <1>3, <1>4 DEF ServerStep
  <1>6. Shared => Shared'
    <2> SUFFICES ASSUME NEW k \in Links, NEW l \in Links,
                        k # l, owner[k] = owner[l], owner[k] # NoId
                 PROVE  Shared'
      BY DEF Shared
    <2>1. owner'[k] = owner[k] /\ owner'[l] = owner[l]
      BY <1>5
    <2> QED
      BY <2>1 DEF Shared
  <1> QED
    BY <1>5, <1>6

\* One step per operation of the server.
LEMMA ServerInvNext == ServerInv /\ ServerStep => ServerInv'
  <1> SUFFICES ASSUME ServerInv, ServerStep PROVE ServerInv'
    OBVIOUS
  <1> USE DEF ServerInv
  <1>1. LanTypeOK'
    BY LanTypeNext
  <1>2. \A k \in Links : pc'[k] = "none" <=> owner'[k] = NoId
    BY OwnersNext
  <1>3. \A k \in Links : pc'[k] \in {"announce", "remove"} /\ server' => table'[k] # NoId
    <2> SUFFICES ASSUME NEW k \in Links, pc'[k] \in {"announce", "remove"}, server'
                 PROVE  table'[k] # NoId
      OBVIOUS
    <2>1. ASSUME NEW l \in Links, NEW i \in RemoteIds, Accept(l, i) PROVE table'[k] # NoId
      BY <2>1 DEF Accept, Step, LanTypeOK
    <2>2. ASSUME NEW l \in Links, CloseLink(l) \/ HandleJoin(l) \/ HandleLeave(l) \/ LinkFails(l)
          PROVE  table'[k] # NoId
      BY <2>2 DEF CloseLink, HandleJoin, HandleLeave, LinkFails, Step, LanTypeOK
    <2>3. ASSUME NEW l \in Links, AddMember(l) \/ Announce(l) PROVE table'[k] # NoId
      BY <2>3 DEF AddMember, Announce, Step, LanTypeOK
    <2>4. ASSUME NEW l \in Links, RegisterClient(l) PROVE table'[k] # NoId
      <3>1. owner[l] # NoId
        BY <2>4 DEF RegisterClient, Step
      <3> QED
        BY <2>4, <3>1 DEF RegisterClient, Step, LanTypeOK
    <2>5. ASSUME NEW l \in Links, CleanUp(l) PROVE table'[k] # NoId
      <3>1. Return(l) \notin {"announce", "remove"}
        BY DEF Return
      <3>2. CASE RemoveMember(l) \/ CountMembers(l) \/ DeleteLanParty(l)
        BY <3>1, <3>2 DEF RemoveMember, CountMembers, DeleteLanParty, Step, LanTypeOK
      <3>3. CASE Forget(l)
        BY <3>3 DEF Forget, Step, LanTypeOK
      <3> QED
        BY <2>5, <3>2, <3>3 DEF CleanUp
    <2>6. CASE CleanupInactive \/ StopServer \/ UNCHANGED serverVars
      BY <2>6 DEF CleanupInactive, StopServer, serverVars
    <2> QED
      BY <2>1, <2>2, <2>3, <2>4, <2>5, <2>6 DEF ServerStep, Handler
  <1>4. \A k \in Links : pc'[k] \in {"register", "announce"} => owner'[k] \in members' \/ Shared'
    <2> SUFFICES ASSUME NEW k \in Links, pc'[k] \in {"register", "announce"}, ~Shared
                 PROVE  owner'[k] \in members'
      BY OwnersNext
    <2>1. owner[k] # NoId => owner'[k] = owner[k]
      BY OwnersNext
    <2>2. ASSUME NEW l \in Links, NEW i \in RemoteIds, Accept(l, i) PROVE owner'[k] \in members'
      BY <2>2 DEF Accept, Step, LanTypeOK
    <2>3. ASSUME NEW l \in Links, CloseLink(l) \/ HandleJoin(l) \/ HandleLeave(l) \/ LinkFails(l)
          PROVE  owner'[k] \in members'
      BY <2>3 DEF CloseLink, HandleJoin, HandleLeave, LinkFails, Step, LanTypeOK
    <2>4. ASSUME NEW l \in Links, AddMember(l) \/ RegisterClient(l) \/ Announce(l)
          PROVE  owner'[k] \in members'
      BY <2>4 DEF AddMember, RegisterClient, Announce, Step, LanTypeOK
    <2>5. ASSUME NEW l \in Links, RemoveMember(l) PROVE owner'[k] \in members'
      <3>1. k # l /\ pc[k] \in {"register", "announce"} /\ owner'[k] = owner[k]
        BY <2>5 DEF RemoveMember, Step, LanTypeOK, Return
      <3>2. owner[k] # owner[l]
        BY <3>1 DEF Shared
      <3> QED
        BY <2>5, <3>1, <3>2 DEF RemoveMember
    <2>6. ASSUME NEW l \in Links, CountMembers(l) \/ DeleteLanParty(l) \/ Forget(l)
          PROVE  owner'[k] \in members'
      BY <2>6 DEF CountMembers, DeleteLanParty, Forget, Step, LanTypeOK, Return
    <2>7. CASE CleanupInactive \/ StopServer \/ UNCHANGED serverVars
      BY <2>7 DEF CleanupInactive, StopServer, serverVars
    <2> QED
      BY <2>2, <2>3, <2>4, <2>5, <2>6, <2>7 DEF ServerStep, Handler, CleanUp
  <1>5. \A k \in Links : pc'[k] = "none" => table'[k] = NoId
    <2>1. ASSUME NEW l \in Links, RegisterClient(l) \/ Forget(l)
          PROVE  \A k \in Links : pc'[k] = "none" => table'[k] = NoId
      BY <2>1 DEF RegisterClient, Forget, Step, LanTypeOK
    <2>2. CASE StopServer
      BY <2>2 DEF StopServer
    <2>3. CASE table' = table
      <3>1. \A k \in Links : pc'[k] = "none" => pc[k] = "none"
        BY <1>2, OwnersNext
      <3> QED
        BY <2>3, <3>1
    <2> QED
      BY <2>1, <2>2, <2>3 DEF ServerStep, Handler, CleanUp, Accept, CloseLink, HandleJoin, HandleLeave,
         LinkFails, AddMember, Announce, RemoveMember, CountMembers, DeleteLanParty, CleanupInactive,
         serverVars
  <1>6. \A k \in Links : ending'[k] => link'[k] \in {"closing", "closed"}
    <2>1. ASSUME NEW l \in Links, NEW i \in RemoteIds, Accept(l, i)
          PROVE  \A k \in Links : ending'[k] => link'[k] \in {"closing", "closed"}
      BY <2>1 DEF Accept, LanTypeOK
    <2>2. ASSUME NEW l \in Links, CloseLink(l) \/ LinkFails(l) \/ Forget(l)
          PROVE  \A k \in Links : ending'[k] => link'[k] \in {"closing", "closed"}
      BY <2>2 DEF CloseLink, LinkFails, Forget, LanTypeOK
    <2>3. CASE StopServer
      BY <2>3 DEF StopServer
    <2>4. CASE link' = link /\ ending' = ending
      BY <2>4
    <2> QED
      BY <2>1, <2>2, <2>3, <2>4 DEF ServerStep, Handler, CleanUp, HandleJoin, HandleLeave,
         AddMember, RegisterClient, Announce, RemoveMember, CountMembers, DeleteLanParty,
         CleanupInactive, serverVars
  <1> QED
    BY <1>1, <1>2, <1>3, <1>4, <1>5, <1>6

\* Only the second look-up of a new member panics, and it finds a member that
\* no other connection of the same RemoteID has removed.
LEMMA PanicNext ==
  ASSUME ServerInv, PanicNeedsSharedId, ServerStep
  PROVE  PanicNeedsSharedId'
  <1>1. panicked' => panicked \/ Shared
    <2>1. ASSUME NEW k \in Links, Announce(k) PROVE panicked' => Shared
      BY <2>1 DEF Announce, Step, ServerInv
    <2> QED
      BY <2>1 DEF ServerStep, Handler, CleanUp, Accept, CloseLink, HandleJoin, HandleLeave, LinkFails,
         AddMember, RegisterClient, RemoveMember, CountMembers, DeleteLanParty, Forget,
         CleanupInactive, StopServer, serverVars
  <1>2. Shared => Shared'
    BY OwnersNext DEF ServerInv
  <1> QED
    BY <1>1, <1>2 DEF PanicNeedsSharedId, Shared

\* Who will remove a member still does, unless it has; who is added will be.
LEMMA NoGhostNext ==
  ASSUME ServerInv, NoGhostLanMember, ServerStep
  PROVE  NoGhostLanMember'
  <1> SUFFICES ASSUME server', listed', NEW i \in members'
               PROVE  \E k \in Links : owner'[k] = i /\ WillRemove(k)'
    BY DEF NoGhostLanMember
  <1> USE DEF ServerInv
  <1>0. i # NoId
    BY LanTypeNext DEF LanTypeOK
  <1>1. server /\ listed
    BY DEF ServerStep, Handler, CleanUp, Accept, CloseLink, HandleJoin, HandleLeave, LinkFails,
       AddMember, RegisterClient, Announce, RemoveMember, CountMembers, DeleteLanParty, Forget,
       CleanupInactive, StopServer, serverVars, LanTypeOK
  <1>2. ASSUME NEW l \in Links, AddMember(l), i \notin members
        PROVE  owner'[l] = i /\ WillRemove(l)'
    BY <1>2 DEF AddMember, Step, LanTypeOK, WillRemove
  <1>3. CASE i \in members
    <2>1. PICK k \in Links : owner[k] = i /\ WillRemove(k)
      BY <1>1, <1>3 DEF NoGhostLanMember
    <2>2. owner'[k] = i
      BY <1>0, <2>1, OwnersNext
    <2>3. ASSUME NEW l \in Links, NEW j \in RemoteIds, Accept(l, j) PROVE WillRemove(k)'
      BY <2>1, <2>3 DEF Accept, Step, LanTypeOK, WillRemove
    <2>4. ASSUME NEW l \in Links, CloseLink(l) \/ HandleJoin(l) \/ HandleLeave(l) \/ LinkFails(l)
          PROVE  WillRemove(k)'
      BY <2>1, <2>4 DEF CloseLink, HandleJoin, HandleLeave, LinkFails, Step, LanTypeOK, WillRemove
    <2>5. ASSUME NEW l \in Links, AddMember(l) PROVE WillRemove(k)'
      BY <2>1, <2>5 DEF AddMember, Step, LanTypeOK, WillRemove
    <2>6. ASSUME NEW l \in Links, RegisterClient(l) PROVE WillRemove(k)'
      BY <2>1, <2>6 DEF RegisterClient, Step, LanTypeOK, WillRemove
    <2>7. ASSUME NEW l \in Links, Announce(l) PROVE WillRemove(k)'
      BY <1>1, <2>1, <2>7 DEF Announce, Step, LanTypeOK, WillRemove
    <2>8. ASSUME NEW l \in Links, RemoveMember(l) PROVE WillRemove(k)'
      <3>1. l # k
        BY <1>1, <2>1, <2>8 DEF RemoveMember, LanTypeOK
      <3> QED
        BY <2>1, <2>8, <3>1 DEF RemoveMember, Step, LanTypeOK, WillRemove
    <2>9. ASSUME NEW l \in Links, CountMembers(l) \/ DeleteLanParty(l) \/ Forget(l)
          PROVE  WillRemove(k)'
      BY <2>1, <2>9 DEF CountMembers, DeleteLanParty, Forget, Step, LanTypeOK, WillRemove
    <2>10. CASE CleanupInactive \/ StopServer \/ UNCHANGED serverVars
      BY <2>1, <2>2, <2>10 DEF CleanupInactive, StopServer, serverVars, WillRemove
    <2>11. CASE WillRemove(k)'
      BY <2>2, <2>11
    <2> QED
      BY <2>3, <2>4, <2>5, <2>6, <2>7, <2>8, <2>9, <2>10, <2>11 DEF ServerStep, Handler, CleanUp
  <1>4. CASE i \notin members
    BY <1>2, <1>4 DEF ServerStep, Handler, CleanUp, Accept, CloseLink, HandleJoin, HandleLeave,
       LinkFails, RegisterClient, Announce, RemoveMember, CountMembers, DeleteLanParty, Forget,
       CleanupInactive, StopServer, serverVars
  <1> QED
    BY <1>3, <1>4

\* The application does not leave before its connection ends.
LEMMA OwnEndsNext ==
  ASSUME ServerInv, ServerStep,
         \A k \in Links : owner[k] = Me /\ pc[k] \in {"remove", "count", "delete"} => ending[k]
  PROVE  \A k \in Links : owner'[k] = Me /\ pc'[k] \in {"remove", "count", "delete"} => ending'[k]
  <1> USE DEF ServerInv
  <1> SUFFICES ASSUME NEW k \in Links, owner'[k] = Me, pc'[k] \in {"remove", "count", "delete"}
               PROVE  ending'[k]
    OBVIOUS
  <1>1. owner[k] = Me
    BY OwnersNext
  <1>2. ASSUME NEW l \in Links, NEW j \in RemoteIds, Accept(l, j) PROVE ending'[k]
    BY <1>1, <1>2 DEF Accept, Step, LanTypeOK
  <1>3. ASSUME NEW l \in Links, CloseLink(l) \/ HandleJoin(l) PROVE ending'[k]
    BY <1>1, <1>3 DEF CloseLink, HandleJoin, Step, LanTypeOK
  <1>4. ASSUME NEW l \in Links, HandleLeave(l), owner[l] # Me PROVE ending'[k]
    BY <1>1, <1>4 DEF HandleLeave, Step, LanTypeOK
  <1>5. ASSUME NEW l \in Links, LinkFails(l) PROVE ending'[k]
    BY <1>1, <1>5 DEF LinkFails, Step, LanTypeOK
  <1>6. ASSUME NEW l \in Links, AddMember(l) \/ RegisterClient(l) \/ Announce(l) PROVE ending'[k]
    BY <1>1, <1>6 DEF AddMember, RegisterClient, Announce, Step, LanTypeOK
  <1>7. ASSUME NEW l \in Links, RemoveMember(l) \/ CountMembers(l) \/ DeleteLanParty(l) PROVE ending'[k]
    BY <1>1, <1>7 DEF RemoveMember, CountMembers, DeleteLanParty, Return, Step, LanTypeOK
  <1>8. ASSUME NEW l \in Links, Forget(l) PROVE ending'[k]
    BY <1>1, <1>8 DEF Forget, Step, LanTypeOK
  <1>9. CASE CleanupInactive \/ StopServer \/ UNCHANGED serverVars
    BY <1>1, <1>9 DEF CleanupInactive, StopServer, serverVars
  <1> QED
    BY <1>2, <1>3, <1>4, <1>5, <1>6, <1>7, <1>8, <1>9 DEF ServerStep, Handler, CleanUp

\* A goroutine begins to hold the application's membership only by adding it.
LEMMA WillRemoveGained ==
  ASSUME ServerInv, OwnInv, ServerStep, server', listed',
         NEW k \in Links, owner'[k] = Me, WillRemove(k)'
  PROVE  /\ server /\ listed /\ owner[k] = Me
         /\ WillRemove(k) \/ (AddMember(k) /\ Me \notin members)
  <1> USE DEF ServerInv
  <1>1. server /\ listed
    BY DEF ServerStep, Handler, CleanUp, Accept, CloseLink, HandleJoin, HandleLeave, LinkFails,
       AddMember, RegisterClient, Announce, RemoveMember, CountMembers, DeleteLanParty, Forget,
       CleanupInactive, StopServer, serverVars, LanTypeOK
  <1> DEFINE Goal == WillRemove(k) \/ (AddMember(k) /\ Me \notin members)
  <1>2. owner[k] = Me
    BY OwnersNext DEF WillRemove
  <1>3. ASSUME NEW l \in Links, NEW j \in RemoteIds, Accept(l, j) PROVE Goal
    BY <1>2, <1>3 DEF Accept, Step, LanTypeOK, WillRemove
  <1>4. ASSUME NEW l \in Links, CloseLink(l) \/ HandleJoin(l) \/ HandleLeave(l) \/ LinkFails(l)
        PROVE  Goal
    BY <1>4 DEF CloseLink, HandleJoin, HandleLeave, LinkFails, Step, LanTypeOK, WillRemove
  <1>5. ASSUME NEW l \in Links, AddMember(l) PROVE Goal
    BY <1>2, <1>5 DEF AddMember, Step, LanTypeOK, WillRemove
  <1>6. ASSUME NEW l \in Links, RegisterClient(l) \/ Announce(l) \/ Forget(l) PROVE Goal
    BY <1>6 DEF RegisterClient, Announce, Forget, Step, LanTypeOK, WillRemove
  <1>7. ASSUME NEW l \in Links, RemoveMember(l) \/ CountMembers(l) \/ DeleteLanParty(l) PROVE Goal
    <2>1. ending[l] \/ l # k
      BY <1>2, <1>7 DEF OwnInv, RemoveMember, CountMembers, DeleteLanParty, Step
    <2> QED
      BY <1>7, <2>1 DEF RemoveMember, CountMembers, DeleteLanParty, Return, Step, LanTypeOK, WillRemove
  <1>8. CASE CleanupInactive \/ StopServer \/ UNCHANGED serverVars
    BY <1>8 DEF CleanupInactive, StopServer, serverVars, WillRemove
  <1>9. Goal
    BY <1>3, <1>4, <1>5, <1>6, <1>7, <1>8 DEF ServerStep, Handler, CleanUp
  <1> QED
    BY <1>1, <1>2, <1>9

\* Who adds the application finds it absent, so nobody else holds its membership.
LEMMA OwnNext == ServerInv /\ OwnInv /\ ServerStep => OwnInv'
  <1> SUFFICES ASSUME ServerInv, OwnInv, ServerStep PROVE OwnInv'
    OBVIOUS
  <1>1. \A k \in Links : owner'[k] = Me /\ pc'[k] \in {"remove", "count", "delete"} => ending'[k]
    BY OwnEndsNext DEF OwnInv
  <1>2. ASSUME server', listed', NEW k \in Links, owner'[k] = Me, WillRemove(k)'
        PROVE  Me \in members'
    <2>1. server /\ listed /\ owner[k] = Me /\ (WillRemove(k) \/ (AddMember(k) /\ Me \notin members))
      BY <1>2, WillRemoveGained
    <2>2. CASE WillRemove(k)
      <3>1. Me \in members
        BY <2>1, <2>2 DEF OwnInv
      <3>2. ASSUME NEW l \in Links, RemoveMember(l), owner[l] = Me PROVE FALSE
        <4>1. WillRemove(l) /\ pc'[l] = "count"
          BY <2>1, <3>2 DEF RemoveMember, Step, ServerInv, LanTypeOK, WillRemove
        <4>2. l = k
          BY <2>1, <2>2, <3>2, <4>1 DEF OwnInv
        <4> QED
          BY <1>2, <4>1, <4>2 DEF WillRemove
      <3>3. CASE members \subseteq members'
        BY <3>1, <3>3
      <3>4. ASSUME NEW l \in Links, RemoveMember(l) PROVE Me \in members'
        BY <3>1, <3>2, <3>4 DEF RemoveMember
      <3>5. ASSUME NEW l \in Links, AddMember(l) PROVE members \subseteq members'
        BY <3>5 DEF AddMember
      <3> QED
        BY <3>3, <3>4, <3>5 DEF ServerStep, Handler, CleanUp, Accept, CloseLink, HandleJoin, HandleLeave,
           LinkFails, RegisterClient, Announce, CountMembers, DeleteLanParty, Forget,
           CleanupInactive, StopServer, serverVars
    <2>3. CASE AddMember(k) /\ ~WillRemove(k)
      BY <1>2, <2>1, <2>3 DEF AddMember, Step, WillRemove, ServerInv, LanTypeOK
    <2> QED
      BY <2>1, <2>2, <2>3
  <1>3. ASSUME server', listed', NEW k \in Links, owner'[k] = Me, WillRemove(k)',
               NEW l \in Links, owner'[l] = Me, WillRemove(l)'
        PROVE  l = k
    <2>1. server /\ listed /\ owner[k] = Me /\ (WillRemove(k) \/ (AddMember(k) /\ Me \notin members))
      BY <1>3, WillRemoveGained
    <2>2. owner[l] = Me /\ (WillRemove(l) \/ (AddMember(l) /\ Me \notin members))
      BY <1>3, WillRemoveGained
    <2>3. CASE WillRemove(k) /\ WillRemove(l)
      BY <2>1, <2>2, <2>3 DEF OwnInv
    <2>4. WillRemove(k) \/ WillRemove(l) => Me \in members
      BY <2>1, <2>2 DEF OwnInv
    <2>5. CASE AddMember(k) /\ AddMember(l)
      BY <2>5 DEF AddMember, Step, ServerInv, LanTypeOK
    <2> QED
      BY <2>1, <2>2, <2>3, <2>4, <2>5
  <1> QED
    BY <1>1, <1>2, <1>3 DEF OwnInv

\* While the application's connection is up its membership will be removed.
LEMMA StaysMember ==
  ASSUME ServerInv, OwnInv, ServerStep, server', NEW k \in Links, owner[k] = Me,
         link'[k] = "open", WillRemove(k)
  PROVE  WillRemove(k)'
  <1> USE DEF ServerInv
  <1>1. ASSUME NEW l \in Links, NEW j \in RemoteIds, Accept(l, j) PROVE WillRemove(k)'
    BY <1>1 DEF Accept, Step, LanTypeOK, WillRemove
  <1>2. ASSUME NEW l \in Links, CloseLink(l) \/ HandleJoin(l) PROVE WillRemove(k)'
    BY <1>2 DEF CloseLink, HandleJoin, Step, LanTypeOK, WillRemove
  <1>3. ASSUME NEW l \in Links, HandleLeave(l) PROVE WillRemove(k)'
    BY <1>3 DEF HandleLeave, Step, LanTypeOK, WillRemove
  <1>4. ASSUME NEW l \in Links, LinkFails(l) PROVE WillRemove(k)'
    BY <1>4 DEF LinkFails, Step, LanTypeOK, WillRemove
  <1>5. ASSUME NEW l \in Links, AddMember(l) PROVE WillRemove(k)'
    BY <1>5 DEF AddMember, Step, LanTypeOK, WillRemove
  <1>6. ASSUME NEW l \in Links, RegisterClient(l) PROVE WillRemove(k)'
    BY <1>6 DEF RegisterClient, Step, LanTypeOK, WillRemove
  <1>7. ASSUME NEW l \in Links, Announce(l) PROVE WillRemove(k)'
    <2>1. server
      BY <1>7 DEF Announce
    <2> QED
      BY <1>7, <2>1 DEF Announce, Step, LanTypeOK, WillRemove
  <1>8. ASSUME NEW l \in Links, CleanUp(l) PROVE WillRemove(k)'
    <2>1. CASE l = k
      <3>1. pc[k] # "remove"
        BY <1>8, <2>1 DEF OwnInv, CleanUp, RemoveMember, CountMembers, DeleteLanParty, Forget, Step
      <3> QED
        BY <1>8, <2>1, <3>1 DEF CleanUp, RemoveMember, CountMembers, DeleteLanParty, Forget, Step, WillRemove
    <2>2. CASE l # k
      BY <1>8, <2>2 DEF CleanUp, RemoveMember, CountMembers, DeleteLanParty, Forget, Step, LanTypeOK,
         WillRemove
    <2> QED
      BY <2>1, <2>2
  <1>9. CASE CleanupInactive \/ StopServer \/ UNCHANGED serverVars
    BY <1>9 DEF CleanupInactive, StopServer, serverVars, WillRemove
  <1> QED
    BY <1>1, <1>2, <1>3, <1>4, <1>5, <1>6, <1>7, <1>8, <1>9 DEF ServerStep, Handler

-----------------------------------------------------------------------------
(* The client *)

\* Disconnect gives up the connection, or blocks and keeps everything.
LEMMA Disconnects ==
  ASSUME PartyTypeOK, Disconnect
  PROVE  /\ connected' \in BOOLEAN /\ deadlocked' \in BOOLEAN
         /\ deadlocked' <=> connected /\ joined
         /\ connected' <=> connected /\ joined
         /\ inbox' \in {inbox, "nothing"}
         /\ \A k \in Links : link'[k] = "open" => link[k] = "open" /\ (k = mine => ~connected \/ joined)
         /\ owner' = owner
  <1>1. /\ connected' \in BOOLEAN /\ deadlocked' \in BOOLEAN
        /\ deadlocked' <=> connected /\ joined
        /\ connected' <=> connected /\ joined
    BY DEF Disconnect, PartyTypeOK
  <1>2. inbox' \in {inbox, "nothing"} /\ owner' = owner
    BY DEF Disconnect
  <1>3. ASSUME NEW k \in Links, link'[k] = "open"
        PROVE  link[k] = "open" /\ (k = mine => ~connected \/ joined)
    BY <1>3 DEF Disconnect, PartyTypeOK, LanTypeOK
  <1> QED
    BY <1>1, <1>2, <1>3

\* A client is dropped when Disconnect returns.
LEMMA Drops ==
  ASSUME PartyTypeOK, Disconnect, DropClient
  PROVE  /\ joined' \in BOOLEAN
         /\ \/ mine' = NoLink /\ ~connected' /\ ~joined' /\ ~deadlocked'
            \/ mine' = mine /\ mine # NoLink /\ connected' /\ connected /\ joined' /\ joined /\ deadlocked'
  <1>1. connected' \in BOOLEAN /\ deadlocked' \in BOOLEAN
        /\ (deadlocked' <=> connected /\ joined) /\ (connected' <=> connected /\ joined)
    BY Disconnects
  <1>2. joined' \in BOOLEAN /\ (joined' <=> deadlocked' /\ joined)
    BY <1>1 DEF DropClient, PartyTypeOK
  <1>3. mine' = IF deadlocked' THEN mine ELSE NoLink
    BY DEF DropClient
  <1>4. connected => mine # NoLink
    BY DEF PartyTypeOK
  <1> QED
    BY <1>1, <1>2, <1>3, <1>4

\* The steps in which the application takes part leave its variables well typed.
LEMMA ClientTypes ==
  ASSUME ClientInv, Client, LanTypeOK'
  PROVE  PartyTypeOK'
  <1> USE DEF ClientInv
  <1>1. ASSUME DropPrevious \/ Abandon \/ StopIntegration PROVE PartyTypeOK'
    <2>1. Disconnect /\ DropClient /\ answer' = answer /\ outbox' = outbox
      BY <1>1 DEF DropPrevious, Abandon, StopIntegration
    <2>2. call' \in Calls
      BY <1>1 DEF DropPrevious, Abandon, StopIntegration, Calls, PartyTypeOK
    <2>3. running' \in BOOLEAN
      BY <1>1, <2>1, Disconnects DEF DropPrevious, Abandon, StopIntegration, PartyTypeOK
    <2>4. mine' \in Links \cup {NoLink} /\ (mine' = NoLink => ~connected' /\ ~joined')
      BY <2>1, Drops DEF PartyTypeOK
    <2>5. inbox' \in {"nothing", "welcome", "error"}
      BY <2>1, Disconnects DEF PartyTypeOK
    <2> QED
      BY <2>1, <2>2, <2>3, <2>4, <2>5, Disconnects, Drops DEF PartyTypeOK
  <1>2. CASE Dial
    <2>1. mine = NoLink /\ ~connected /\ ~joined
      BY <1>2 DEF Dial, PartyTypeOK
    <2>2. UNCHANGED <<running, outbox, deadlocked>>
      BY <1>2 DEF Dial
    <2>3. ASSUME NEW k \in Links,
                 mine' = k /\ connected' = TRUE /\ joined' = FALSE,
                 answer' = "nil" /\ inbox' = "nothing" /\ call' = "send"
          PROVE  PartyTypeOK'
      BY <2>2, <2>3 DEF PartyTypeOK, Calls
    <2>4. ASSUME mine' = NoLink /\ call' = "none", UNCHANGED <<connected, joined, answer, inbox>>
          PROVE  PartyTypeOK'
      BY <2>1, <2>2, <2>4 DEF PartyTypeOK, Calls
    <2> QED
      BY <1>2, <2>3, <2>4 DEF Dial
  <1>3. CASE SendJoin
    BY <1>3 DEF SendJoin, PartyTypeOK, Calls
  <1>4. CASE Select \/ TimeOut
    BY <1>4 DEF Select, TimeOut, PartyTypeOK, Calls
  <1>5. CASE GetAnswer
    <2>1. joined' \in BOOLEAN
      BY <1>5 DEF GetAnswer
    <2>2. mine' # NoLink
      BY <1>5 DEF GetAnswer
    <2> QED
      BY <1>5, <2>1, <2>2 DEF GetAnswer, PartyTypeOK, Calls
  <1>6. CASE DisconnectFromParty
    <2>1. Disconnect \/ UNCHANGED <<serverVars, connected, deadlocked, inbox>>
      BY <1>6 DEF DisconnectFromParty
    <2>2. call' \in Calls
      BY <1>6 DEF DisconnectFromParty, Calls, PartyTypeOK
    <2>3. /\ connected' \in BOOLEAN /\ deadlocked' \in BOOLEAN
          /\ connected' => connected
          /\ inbox' \in {"nothing", "welcome", "error"}
      BY <2>1, Disconnects DEF PartyTypeOK
    <2> QED
      BY <1>6, <2>2, <2>3 DEF DisconnectFromParty, PartyTypeOK
  <1>7. CASE StopPartyServer
    BY <1>7 DEF StopPartyServer, PartyTypeOK, Calls
  <1>8. CASE ReadAnswer \/ ReaderEnds
    BY <1>8 DEF ReadAnswer, ReaderEnds, PartyTypeOK
  <1> QED
    BY <1>1, <1>2, <1>3, <1>4, <1>5, <1>6, <1>7, <1>8 DEF Client

\* All other steps leave the call, the connection and what the client believes alone.
LEMMA OthersKeep ==
  ASSUME PartyTypeOK, Next, ~Client
  PROVE  /\ UNCHANGED <<mine, connected, joined, answer, deadlocked>>
         /\ call' = call \/ call' \in {"drop", "leave", "stop", "unhost"}
         /\ running' \in BOOLEAN /\ outbox' \in SUBSET Links
         /\ inbox' \in {"nothing", "welcome", "error"}
         /\ inbox' = "welcome" /\ inbox # "welcome" =>
              mine \in Links /\ RegisterClient(mine)
  <1> DEFINE Goal == /\ UNCHANGED <<mine, connected, joined, answer, deadlocked>>
                     /\ call' = call \/ call' \in {"drop", "leave", "stop", "unhost"}
                     /\ running' \in BOOLEAN /\ outbox' \in SUBSET Links
                     /\ inbox' \in {"nothing", "welcome", "error"}
                     /\ inbox' = "welcome" /\ inbox # "welcome" =>
                          mine \in Links /\ RegisterClient(mine)
  <1>1. ASSUME Call \/ StartIntegration PROVE Goal
    BY <1>1 DEF Call, StartIntegration, PartyTypeOK
  <1>2. ASSUME UNCHANGED clientVars PROVE Goal
    BY <1>2 DEF clientVars, PartyTypeOK
  <1>3. ASSUME NEW k \in Links, JoinArrives(k) PROVE Goal
    BY <1>3 DEF JoinArrives, PartyTypeOK
  <1>4. ASSUME NEW k \in Links, Serve(k) PROVE Goal
    <2>1. UNCHANGED <<running, call, mine, connected, joined, answer, outbox, deadlocked>>
      BY <1>4 DEF Serve
    <2>2. \/ k = mine /\ pc[k] = "register" /\ inbox' = "welcome"
          \/ inbox' = "error" \/ inbox' = inbox
      BY <1>4 DEF Serve
    <2>3. Handler(k) /\ pc[k] = "register" => RegisterClient(k)
      BY DEF Handler, CleanUp, AddMember, Announce, RemoveMember, CountMembers, DeleteLanParty, Forget, Step
    <2> QED
      BY <1>4, <2>1, <2>2, <2>3 DEF PartyTypeOK, Serve
  <1> QED
    BY <1>1, <1>2, <1>3, <1>4 DEF Next, Others, Guest, GuestMessage, LinkEnds

LEMMA PartyTypeNext ==
  ASSUME ServerInv, ClientInv, [Next]_vars
  PROVE  PartyTypeOK'
  <1>1. ServerStep
    BY NextIsServerStep DEF ClientInv, PartyTypeOK
  <1>2. LanTypeOK'
    BY <1>1, LanTypeNext DEF ServerInv
  <1>3. CASE Client
    BY <1>2, <1>3, ClientTypes
  <1>4. CASE Next /\ ~Client
    BY <1>2, <1>4, OthersKeep DEF ClientInv, PartyTypeOK, Calls
  <1>5. CASE UNCHANGED vars
    BY <1>2, <1>5 DEF vars, clientVars, ClientInv, PartyTypeOK
  <1> QED
    BY <1>3, <1>4, <1>5

\* What a step of the application does to its call, its connection and its belief.
LEMMA ClientMoves ==
  ASSUME ServerInv, ClientInv, Client
  PROVE  \/ mine' = NoLink /\ call' \notin {"send", "sent", "await"}
         \/ /\ mine' = mine
            /\ joined' \/ answer' = "welcome" \/ inbox' = "welcome" =>
                 joined \/ answer = "welcome" \/ inbox = "welcome"
            /\ call' = "dial" => call = "dial"
            /\ call' \in {"send", "sent", "await"} => call \in {"send", "sent", "await"}
         \/ /\ mine = NoLink /\ mine' \in Links /\ Accept(mine', Me)
            /\ call' = "send" /\ connected' /\ ~joined' /\ answer' = "nil" /\ inbox' = "nothing"
  <1> USE DEF ClientInv
  <1> DEFINE Drop == mine' = NoLink /\ call' \notin {"send", "sent", "await"}
             Keep == /\ mine' = mine
                     /\ joined' \/ answer' = "welcome" \/ inbox' = "welcome" =>
                          joined \/ answer = "welcome" \/ inbox = "welcome"
                     /\ call' = "dial" => call = "dial"
                     /\ call' \in {"send", "sent", "await"} => call \in {"send", "sent", "await"}
  <1>1. ASSUME DropPrevious \/ Abandon \/ StopIntegration PROVE Drop \/ Keep
    <2>1. Disconnect /\ DropClient /\ answer' = answer
      BY <1>1 DEF DropPrevious, Abandon, StopIntegration
    <2>2. inbox' \in {inbox, "nothing"}
      BY <2>1, Disconnects
    <2>3. CASE mine' = NoLink
      BY <1>1, <2>3 DEF DropPrevious, Abandon, StopIntegration
    <2>4. CASE mine' = mine /\ joined /\ deadlocked'
      BY <1>1, <2>1, <2>2, <2>4 DEF DropPrevious, Abandon, StopIntegration
    <2> QED
      BY <2>1, <2>3, <2>4, Drops
  <1>2. CASE Dial
    <2>1. mine = NoLink /\ call = "dial" /\ ~joined
      BY <1>2 DEF Dial, PartyTypeOK
    <2>2. ASSUME NEW k \in Links, Accept(k, Me), mine' = k,
                 connected' = TRUE /\ joined' = FALSE /\ answer' = "nil" /\ inbox' = "nothing" /\ call' = "send"
          PROVE  /\ mine' \in Links /\ Accept(mine', Me) /\ call' = "send"
                 /\ connected' /\ ~joined' /\ answer' = "nil" /\ inbox' = "nothing"
      BY <2>2
    <2>3. ASSUME mine' = NoLink /\ call' = "none" PROVE Drop
      BY <2>3
    <2> QED
      BY <1>2, <2>1, <2>2, <2>3 DEF Dial
  <1>3. ASSUME DisconnectFromParty PROVE Keep
    <2>1. inbox' \in {inbox, "nothing"}
      BY <1>3, Disconnects DEF DisconnectFromParty
    <2>2. call' \in {call, "none", "stopServer"}
      BY <1>3 DEF DisconnectFromParty
    <2>3. call' # "dial" /\ call' \notin {"send", "sent", "await"}
      BY <1>3, <2>2 DEF DisconnectFromParty
    <2>4. UNCHANGED <<mine, joined, answer>>
      BY <1>3 DEF DisconnectFromParty
    <2> QED
      BY <2>1, <2>3, <2>4
  <1>4. ASSUME SendJoin \/ Select \/ TimeOut \/ GetAnswer \/ StopPartyServer PROVE Keep
    <2>1. CASE GetAnswer
      <3>1. joined' = (answer = "welcome")
        BY <2>1 DEF GetAnswer
      <3>2. joined' => answer = "welcome"
        BY <3>1
      <3>3. /\ UNCHANGED <<mine, inbox>> /\ answer' = "nil"
            /\ call' \in {"none", "abandon"}
        BY <2>1 DEF GetAnswer
      <3> QED
        BY <3>2, <3>3
    <2>2. CASE SendJoin \/ Select \/ TimeOut \/ StopPartyServer
      BY <2>2 DEF SendJoin, Select, TimeOut, StopPartyServer
    <2> QED
      BY <1>4, <2>1, <2>2
  <1>5. ASSUME ReadAnswer \/ ReaderEnds PROVE Keep
    BY <1>5 DEF ReadAnswer, ReaderEnds
  <1> QED
    BY <1>1, <1>2, <1>3, <1>4, <1>5 DEF Client

\* A connection opens only for whom Accept names, and stays with its owner.
LEMMA OpensByAccept ==
  ASSUME ServerInv, ServerStep, NEW k \in Links, link'[k] = "open"
  PROVE  link[k] = "open" \/ \E i \in RemoteIds : Accept(k, i)
  <1> USE DEF ServerInv
  <1>1. ASSUME NEW l \in Links, NEW i \in RemoteIds, Accept(l, i)
        PROVE  link[k] = "open" \/ \E j \in RemoteIds : Accept(k, j)
    BY <1>1 DEF Accept, LanTypeOK
  <1>2. ASSUME NEW l \in Links, CloseLink(l) \/ Forget(l) PROVE link[k] = "open"
    BY <1>2 DEF CloseLink, Forget, LanTypeOK
  <1>3. CASE StopServer
    BY <1>3 DEF StopServer
  <1> QED
    BY <1>1, <1>2, <1>3 DEF ServerStep, Handler, CleanUp, HandleJoin, HandleLeave, LinkFails,
       AddMember, RegisterClient, Announce, RemoveMember, CountMembers, DeleteLanParty,
       CleanupInactive, serverVars

\* What the client believes, the server's goroutines confirm.
LEMMA ClientInvNext ==
  ASSUME ServerInv, OwnInv, ClientInv, [Next]_vars
  PROVE  ClientInv'
  <1> DEFINE Told == joined \/ answer = "welcome" \/ inbox = "welcome"
             Welcomed == mine # NoLink /\ link[mine] = "open" /\ server /\ Told
  <1>0. ServerStep /\ PartyTypeOK'
    BY NextIsServerStep, PartyTypeNext DEF ClientInv, PartyTypeOK
  <1> DEFINE Rest == /\ call' = "dial" => mine' = NoLink
                     /\ call' \in {"send", "sent", "await"} => mine' # NoLink
                     /\ mine' # NoLink => owner'[mine'] = Me
                     /\ Welcomed' => WillRemove(mine)'
  <1>1. ASSUME mine' = NoLink, call' \notin {"send", "sent", "await"} PROVE Rest
    BY <1>1
  <1>2. ASSUME mine' = mine, Told' => Told \/ (mine \in Links /\ RegisterClient(mine)),
               call' = "dial" => call = "dial",
               call' \in {"send", "sent", "await"} => call \in {"send", "sent", "await"}
        PROVE  Rest
    <2>1. mine # NoLink => mine \in Links /\ owner[mine] = Me /\ owner'[mine] = Me
      BY OwnersNext, <1>0 DEF ClientInv, PartyTypeOK, ServerInv
    <2>2. ASSUME Welcomed', RegisterClient(mine), mine \in Links PROVE WillRemove(mine)'
      <3>1. pc'[mine] = "announce"
        BY <2>2 DEF RegisterClient, Step, ServerInv, LanTypeOK
      <3> QED
        BY <1>2, <3>1 DEF WillRemove
    <2>3. ASSUME Welcomed', Told PROVE WillRemove(mine)'
      <3>1. mine \in Links /\ owner[mine] = Me /\ link'[mine] = "open" /\ server'
        BY <1>2, <2>1, <2>3
      <3>2. link[mine] = "open"
        <4>1. \A i \in RemoteIds : ~Accept(mine, i)
          BY <3>1 DEF Accept, Step, ServerInv, LanTypeOK
        <4> QED
          BY <1>0, <3>1, <4>1, OpensByAccept
      <3>3. server
        BY <1>0, <3>1 DEF ServerStep, Handler, CleanUp, Accept, CloseLink, HandleJoin, HandleLeave,
           LinkFails, AddMember, RegisterClient, Announce, RemoveMember, CountMembers, DeleteLanParty,
           Forget, CleanupInactive, StopServer, serverVars
      <3>4. WillRemove(mine)
        BY <2>3, <3>1, <3>2, <3>3 DEF ClientInv
      <3>5. WillRemove(mine)' \/ ~(mine' = mine)
        BY <1>0, <3>1, <3>4, StaysMember DEF WillRemove
      <3> QED
        BY <1>2, <3>5
    <2> QED
      BY <1>2, <2>1, <2>2, <2>3 DEF ClientInv
  <1>3. ASSUME mine' \in Links, Accept(mine', Me), call' = "send",
               ~joined', answer' = "nil", inbox' = "nothing"
        PROVE  Rest
    BY <1>3 DEF Accept, ServerInv, LanTypeOK
  <1>4. ASSUME Client PROVE Rest
    BY <1>1, <1>2, <1>3, <1>4, ClientMoves
  <1>5. ASSUME Next, ~Client PROVE Rest
    BY <1>2, <1>5, OthersKeep DEF ClientInv
  <1>6. ASSUME UNCHANGED vars PROVE Rest
    BY <1>2, <1>6 DEF vars, clientVars
  <1>7. Rest
    BY <1>4, <1>5, <1>6
  <1> QED
    BY <1>0, <1>7 DEF ClientInv

-----------------------------------------------------------------------------
(* The theorems *)

LEMMA LanInit == Init => LanInv
  <1> SUFFICES ASSUME Init PROVE LanInv
    OBVIOUS
  <1> USE DEF Init, ServerInit
  <1>1. LanTypeOK
    BY DEF LanTypeOK
  <1>2. ServerInv
    BY <1>1 DEF ServerInv
  <1>3. NoGhostLanMember /\ PanicNeedsSharedId
    BY DEF NoGhostLanMember, PanicNeedsSharedId
  <1>4. OwnInv
    BY DEF OwnInv, WillRemove
  <1>5. PartyTypeOK
    BY <1>1 DEF PartyTypeOK, Calls
  <1>6. ClientInv
    BY <1>5 DEF ClientInv
  <1> QED
    BY <1>2, <1>3, <1>4, <1>6 DEF LanInv

LEMMA LanNext == LanInv /\ [Next]_vars => LanInv'
  <1> SUFFICES ASSUME LanInv, [Next]_vars PROVE LanInv'
    OBVIOUS
  <1>1. ServerInv /\ NoGhostLanMember /\ PanicNeedsSharedId /\ OwnInv /\ ClientInv
    BY DEF LanInv
  <1>2. ServerStep
    BY <1>1, NextIsServerStep DEF ClientInv, PartyTypeOK, ServerInv
  <1>3. ServerInv' /\ NoGhostLanMember' /\ PanicNeedsSharedId' /\ OwnInv'
    BY <1>1, <1>2, ServerInvNext, NoGhostNext, PanicNext, OwnNext
  <1>4. ClientInv'
    BY <1>1, ClientInvNext
  <1> QED
    BY <1>3, <1>4 DEF LanInv

\* The invariant that all the theorems below follow from.
THEOREM LanInvariant == Spec => []LanInv
  BY LanInit, LanNext, PTL DEF Spec

\* The variables keep their types: of the server's goroutines (handleClient and
\* what it calls), and of the client's calls and reader.
THEOREM LanTypeCorrect == Spec => []PartyTypeOK
  <1>1. LanInv => PartyTypeOK
    BY DEF LanInv, ClientInv
  <1> QED
    BY <1>1, LanInvariant, PTL

\* Whoever is listed in the party has a connection whose goroutine will take it
\* off the list (removeClientFromParty), however handlers interleave.
THEOREM LanMembersAreServed == Spec => []NoGhostLanMember
  <1>1. LanInv => NoGhostLanMember
    BY DEF LanInv
  <1> QED
    BY <1>1, LanInvariant, PTL

\* handleJoin's second look-up of the member it has just added fails, which ends
\* the process, only when two connections share a RemoteID.
THEOREM LanPanicsOnlyIfShared == Spec => []PanicNeedsSharedId
  <1>1. LanInv => PanicNeedsSharedId
    BY DEF LanInv
  <1> QED
    BY <1>1, LanInvariant, PTL

\* A client with a party code is on the server's list of members.
THEOREM LanJoinedIsMember == Spec => []JoinedIsMember
  <1>1. ASSUME LanInv PROVE JoinedIsMember
    <2> SUFFICES ASSUME connected, joined, link[mine] = "open", server, listed PROVE Me \in members
      BY DEF JoinedIsMember
    <2>1. mine \in Links /\ owner[mine] = Me
      BY <1>1 DEF LanInv, ClientInv, PartyTypeOK
    <2>2. WillRemove(mine)
      BY <1>1, <2>1 DEF LanInv, ClientInv
    <2> QED
      BY <1>1, <2>1, <2>2 DEF LanInv, OwnInv
  <1> QED
    BY <1>1, LanInvariant, PTL
=============================================================================
