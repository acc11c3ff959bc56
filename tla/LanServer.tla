------------------------------ MODULE LanServer ------------------------------
(***************************************************************************)
(* The party server inside the desktop application (internal/party/        *)
(* server.go, party.go): one party, created when the server starts, and a  *)
(* goroutine per connection that joins it to a RemoteID and cleans up.     *)
(*                                                                         *)
(* The registry, the party, the table of clients and the rate limiters     *)
(* have a lock each, so a handler is one action per lock section.  Locks   *)
(* taken in turn are one action where the sections in between commute.     *)
(*                                                                         *)
(* Abstractions: a connection keeps to one RemoteID, as the client does.   *)
(* The token bucket may refuse any message of a registered connection, and *)
(* the last activity may be 24 hours ago at any time.  Positions and names *)
(* are not looked at, and broadcasts to other members are left out.        *)
(***************************************************************************)
EXTENDS Naturals, FiniteSets

CONSTANTS
  RemoteIds,   \* RemoteIDs of the players
  Links,       \* connections to the server, each opened once
  MaxMembers,  \* 5 in AddMember
  NoId

ASSUME LanServerAssumption ==
  /\ MaxMembers \in Nat \ {0}
  /\ IsFiniteSet(RemoteIds)
  /\ NoId \notin RemoteIds

VARIABLES
  server,   \* is the server up?
  listed,   \* is the party in the registry?
  members,  \* the keys of its Members map
  table,    \* table[k]: the RemoteID in s.clients of connection k
  owner,    \* owner[k]: the RemoteID of the player at the other end
  link,     \* link[k]: the socket
  pc,       \* pc[k]: where the handleClient goroutine of k is
  ending,   \* ending[k]: has its read loop ended?
  panicked  \* did a handler dereference nil, which ends the process?

serverVars == <<server, listed, members, table, owner, link, pc, ending, panicked>>

Handling == {"read", "add", "register", "announce", "remove", "count", "delete", "forget"}

LanTypeOK ==
  /\ server \in BOOLEAN /\ listed \in BOOLEAN /\ panicked \in BOOLEAN
  /\ members \in SUBSET RemoteIds
  /\ table \in [Links -> RemoteIds \cup {NoId}]
  /\ owner \in [Links -> RemoteIds \cup {NoId}]
  /\ link \in [Links -> {"unopened", "open", "closing", "closed"}]
  /\ pc \in [Links -> Handling \cup {"none", "done"}]
  /\ ending \in [Links -> BOOLEAN]

\* StartPartyServer has created the server and its party; nobody has joined.
ServerInit ==
  /\ server = TRUE /\ listed = TRUE /\ panicked = FALSE
  /\ members = {}
  /\ table = [k \in Links |-> NoId]
  /\ owner = [k \in Links |-> NoId]
  /\ link = [k \in Links |-> "unopened"]
  /\ pc = [k \in Links |-> "none"]
  /\ ending = [k \in Links |-> FALSE]

Step(k, from, to) == pc[k] = from /\ pc' = [pc EXCEPT ![k] = to]

-----------------------------------------------------------------------------
(* Connections *)

\* handleWebSocket upgrades a request of the player with RemoteID i.
Accept(k, i) ==
  /\ server
  /\ link[k] = "unopened"
  /\ link' = [link EXCEPT ![k] = "open"]
  /\ owner' = [owner EXCEPT ![k] = i]
  /\ Step(k, "none", "read")
  /\ UNCHANGED <<server, listed, members, table, ending, panicked>>

\* The player closes the connection, or the network loses it: what was sent
\* before may still be read, until the read fails or its deadline passes.
CloseLink(k) ==
  /\ link[k] = "open"
  /\ link' = [link EXCEPT ![k] = "closing"]
  /\ UNCHANGED <<server, listed, members, table, owner, pc, ending, panicked>>

Receives(k) == pc[k] = "read" /\ link[k] \in {"open", "closing"}

-----------------------------------------------------------------------------
(* handleJoin *)

\* GetParty, which may not find the party.
HandleJoin(k) ==
  /\ Receives(k)
  /\ Step(k, "read", IF listed THEN "add" ELSE "read")
  /\ UNCHANGED <<server, listed, members, table, owner, link, ending, panicked>>

\* Mutant of AddMember: whoever is in the party already is let in again.
AddMemberTwice(k) ==
  LET refused == Cardinality(members) >= MaxMembers
  IN /\ Step(k, "add", IF refused THEN "read" ELSE "register")
     /\ members' = IF refused THEN members ELSE members \cup {owner[k]}
     /\ UNCHANGED <<server, listed, table, owner, link, ending, panicked>>

AddMember(k) ==
  LET refused == Cardinality(members) >= MaxMembers \/ owner[k] \in members
  IN /\ Step(k, "add", IF refused THEN "read" ELSE "register")
     /\ members' = IF refused THEN members ELSE members \cup {owner[k]}
     /\ UNCHANGED <<server, listed, table, owner, link, ending, panicked>>

\* The entry in s.clients, and the welcome.
RegisterClient(k) ==
  /\ Step(k, "register", "announce")
  /\ table' = [table EXCEPT ![k] = owner[k]]
  /\ UNCHANGED <<server, listed, members, owner, link, ending, panicked>>

\* The others are told of the new member, which is looked up again.
Announce(k) ==
  /\ Step(k, "announce", "read")
  /\ panicked' = (owner[k] \notin members)
  /\ UNCHANGED <<server, listed, members, table, owner, link, ending>>

-----------------------------------------------------------------------------
(* handleLeave and the end of a connection *)

HandleLeave(k) ==
  /\ Receives(k)
  /\ table[k] # NoId
  /\ Step(k, "read", "remove")
  /\ UNCHANGED <<server, listed, members, table, owner, link, ending, panicked>>

\* Mutant of LinkFails: the member is not removed.
LinkFailsForgets(k) ==
  /\ link[k] \in {"closing", "closed"}
  /\ Step(k, "read", "forget")
  /\ ending' = [ending EXCEPT ![k] = TRUE]
  /\ UNCHANGED <<server, listed, members, table, owner, link, panicked>>

\* ReadMessage fails: removeClient.
LinkFails(k) ==
  /\ link[k] \in {"closing", "closed"}
  /\ Step(k, "read", IF table[k] = NoId THEN "forget" ELSE "remove")
  /\ ending' = [ending EXCEPT ![k] = TRUE]
  /\ UNCHANGED <<server, listed, members, table, owner, link, panicked>>

\* Where removeClientFromParty returns to.
Return(k) == IF ending[k] THEN "forget" ELSE "read"

\* removeClientFromParty: GetParty and RemoveMember, under whatever RemoteID
\* the table showed when the message came ...
RemoveMember(k) ==
  /\ Step(k, "remove", IF listed THEN "count" ELSE Return(k))
  /\ members' = IF listed THEN members \ {owner[k]} ELSE members
  /\ UNCHANGED <<server, listed, table, owner, link, ending, panicked>>

\* ... then GetMemberCount ...
CountMembers(k) ==
  /\ Step(k, "count", IF members = {} THEN "delete" ELSE Return(k))
  /\ UNCHANGED <<server, listed, members, table, owner, link, ending, panicked>>

\* ... then DeleteParty, also when somebody has joined since.
DeleteLanParty(k) ==
  /\ Step(k, "delete", Return(k))
  /\ listed' = FALSE
  /\ UNCHANGED <<server, members, table, owner, link, ending, panicked>>

\* The entry is deleted and the connection closed.
Forget(k) ==
  /\ Step(k, "forget", "done")
  /\ table' = [table EXCEPT ![k] = NoId]
  /\ link' = [link EXCEPT ![k] = "closed"]
  /\ UNCHANGED <<server, listed, members, owner, ending, panicked>>

\* The rest of a leave, or of the end of a connection.
CleanUp(k) == RemoveMember(k) \/ CountMembers(k) \/ DeleteLanParty(k) \/ Forget(k)

-----------------------------------------------------------------------------
(* The server *)

\* Mutant of CleanupInactive: the members go with the party.
CleanupInactiveEmpties ==
  /\ server /\ listed
  /\ listed' = FALSE /\ members' = {}
  /\ UNCHANGED <<server, table, owner, link, pc, ending, panicked>>

\* CleanupInactive, by the ticker until the server stops.
CleanupInactive ==
  /\ server /\ listed
  /\ listed' = FALSE
  /\ UNCHANGED <<server, members, table, owner, link, pc, ending, panicked>>

\* Stop closes the connections in the table and empties it.
StopServer ==
  /\ server
  /\ server' = FALSE
  /\ link' = [k \in Links |-> IF table[k] # NoId THEN "closed" ELSE link[k]]
  /\ table' = [k \in Links |-> NoId]
  /\ UNCHANGED <<listed, members, owner, pc, ending, panicked>>

\* What the goroutine of k does once it has a message or an error.
Handler(k) ==
  AddMember(k) \/ RegisterClient(k) \/ Announce(k) \/ CleanUp(k)

-----------------------------------------------------------------------------
(* Properties *)

\* The goroutine of k has added its member and will still remove it.
WillRemove(k) ==
  \/ pc[k] \in {"register", "announce"}
  \/ pc[k] \in {"read", "add", "remove"} /\ table[k] # NoId

\* No ghost: while the party is in the registry every member has a connection
\* under its RemoteID whose goroutine will remove it.
NoGhostLanMember ==
  server /\ listed =>
    \A i \in members : \E k \in Links : owner[k] = i /\ WillRemove(k)

\* The second look-up of a new member (server.go:352) finds it, unless two
\* connections use one RemoteID.
PanicNeedsSharedId ==
  panicked => \E k, l \in Links : k # l /\ owner[k] = owner[l] /\ owner[k] # NoId

=============================================================================
