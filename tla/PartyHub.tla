------------------------------- MODULE PartyHub -------------------------------
(***************************************************************************)
(* The party server's hub: connections, registrations and parties          *)
(* (party-server/internal/hub/hub.go, party-server/internal/models).       *)
(*                                                                         *)
(* The hub keeps two maps under one lock: h.clients (client ID -> Client   *)
(* object) and h.parties (party code -> Party, whose Members map is again  *)
(* client ID -> Client object).  A Client OBJECT is created by every       *)
(* successful registration and carries its own PartyCode, so one client ID *)
(* may have several objects at a time: the one of an old connection whose  *)
(* reader has not noticed yet that it was closed, and the newer one.  Each *)
(* connection is served by a goroutine that keeps its object in a local    *)
(* variable (cl).  What the maps, the objects and the goroutines say of    *)
(* one another is what this module is about.                               *)
(*                                                                         *)
(* Handlers that run entirely under h.mu are one action.  The two          *)
(* operations that release the lock half-way, handleDisconnect and         *)
(* RemoveTestClient, are two actions each.                                 *)
(*                                                                         *)
(* Abstractions: a display name is its lower-cased, sanitised value; a     *)
(* party code is a value of Codes; RemoteID, HostID, positions, time       *)
(* stamps and messages change no guard here and are left out (invitations  *)
(* are in PartyInvites, friendships in FriendRequests).                    *)
(***************************************************************************)
EXTENDS Naturals, FiniteSets

CONSTANTS
  Ids,          \* client IDs
  Names,        \* display names, up to letter case
  Codes,        \* party codes generatePartyCode can return
  Conns,        \* WebSocket connections, each opened once
  Objs,         \* Client objects that can be allocated (bound of the model)
  MaxMembers,   \* capacity of a party: 5 in AddMember
  Reregister,   \* may a connection send "register" again after succeeding?
  Admin,        \* are the admin API and the dev console enabled (-dev)?
  NoObj, NoConn, NoCode, NoInfo   \* nil pointers and the empty code

Info == [id : Ids, name : Names, conn : Conns \cup {NoConn}, test : BOOLEAN]

ASSUME PartyHubAssumption ==
  /\ MaxMembers \in Nat \ {0}
  /\ IsFiniteSet(Objs)
  /\ Reregister \in BOOLEAN
  /\ Admin \in BOOLEAN
  /\ NoObj \notin Objs
  /\ NoConn \notin Conns
  /\ NoCode \notin Codes
  /\ NoInfo \notin Info

VARIABLES
  st,        \* st[cn]: where connection cn and its goroutine are
  cl,        \* cl[cn]: the local variable `client` of HandleConnection
  info,      \* info[o]: the immutable fields of object o, NoInfo if unallocated
  code,      \* code[o]: o.PartyCode
  clients,   \* h.clients
  parties,   \* the keys of h.parties
  members,   \* members[p]: the values of h.parties[p].Members
  removal,   \* RemoveTestClient calls between their two critical sections
  halted     \* history: the parties a panic left empty, before their deletion

vars == <<st, cl, info, code, clients, parties, members, removal, halted>>

ConnState == {"unopened", "open", "closed", "leaving", "done", "panicked"}

TypeOK ==
  /\ st \in [Conns -> ConnState]
  /\ cl \in [Conns -> Objs \cup {NoObj}]
  /\ info \in [Objs -> Info \cup {NoInfo}]
  /\ code \in [Objs -> Codes \cup {NoCode}]
  /\ clients \in [Ids -> Objs \cup {NoObj}]
  /\ parties \in SUBSET Codes
  /\ members \in [Codes -> SUBSET Objs]
  /\ removal \in SUBSET (Objs \X (Codes \cup {NoCode}))
  /\ halted \in SUBSET Codes

Init ==
  /\ st = [cn \in Conns |-> "unopened"]
  /\ cl = [cn \in Conns |-> NoObj]
  /\ info = [o \in Objs |-> NoInfo]
  /\ code = [o \in Objs |-> NoCode]
  /\ clients = [i \in Ids |-> NoObj]
  /\ parties = {}
  /\ members = [p \in Codes |-> {}]
  /\ removal = {}
  /\ halted = {}

Allocated == {o \in Objs : info[o] # NoInfo}
Registered == {clients[i] : i \in Ids} \ {NoObj}

\* A goroutine whose reader still yields messages.  A connection the server
\* itself closed may still deliver frames that were buffered before.
Serving(cn) == st[cn] \in {"open", "closed"}

-----------------------------------------------------------------------------
(* Party objects (models.go) *)

\* Mutant of AddMember: appends to a list instead of storing under the ID.
AddMemberAppends(p, o) ==
  /\ members' = [members EXCEPT ![p] = @ \cup {o}]
  /\ code' = [code EXCEPT ![o] = p]
  /\ halted' = halted \ {p}

\* Mutant of RemoveMember: no caller deletes the party that became empty.
RemoveMemberKeepsParty(p, i) ==
  LET removed == {m \in members[p] : info[m].id = i}
  IN /\ members' = [members EXCEPT ![p] = @ \ removed]
     /\ code' = [m \in Objs |-> IF m \in removed THEN NoCode ELSE code[m]]
     /\ parties' = parties

\* Party.AddMember(o): the capacity test comes before the look-up by ID.
HasRoom(p) == Cardinality(members[p]) < MaxMembers

AddMember(p, o) ==
  /\ members' = [members EXCEPT
       ![p] = {m \in @ : info[m].id # info[o].id} \cup {o}]
  /\ code' = [code EXCEPT ![o] = p]
  /\ halted' = halted \ {p}

\* Party.RemoveMember(i) clears the code of the object the party holds for
\* ID i, and the caller deletes the party when that was the last one.
RemoveMember(p, i) ==
  LET removed == {m \in members[p] : info[m].id = i}
      rest == members[p] \ removed
  IN /\ members' = [members EXCEPT ![p] = rest]
     /\ code' = [m \in Objs |-> IF m \in removed THEN NoCode ELSE code[m]]
     /\ parties' = IF rest = {} THEN parties \ {p} ELSE parties

\* handleLeaveParty and LeaveTestParty once the object o has a party code.
LeaveParty(o) ==
  \/ /\ code[o] \in parties
     /\ RemoveMember(code[o], info[o].id)
  \/ /\ code[o] \notin parties
     /\ code' = [code EXCEPT ![o] = NoCode]
     /\ UNCHANGED <<parties, members>>

-----------------------------------------------------------------------------
(* Connections and registration *)

\* The HTTP server upgrades a request and starts HandleConnection.
Open(cn) ==
  /\ st[cn] = "unopened"
  /\ st' = [st EXCEPT ![cn] = "open"]
  /\ UNCHANGED <<cl, info, code, clients, parties, members, removal, halted>>

\* Mutant of NameTaken: only the client's own registration is looked at.
NameTakenBySelf(i, n) == clients[i] # NoObj /\ info[clients[i]].name = n

NameTaken(i, n) ==
  \E j \in Ids \ {i} : clients[j] # NoObj /\ info[clients[j]].name = n

\* Server-side Close of the connection of object o, if it has one.
CloseConn(o) ==
  st' = [cn \in Conns |->
           IF o # NoObj /\ cn = info[o].conn /\ st[cn] = "open" THEN "closed" ELSE st[cn]]

MayRegister(cn) == Serving(cn) /\ (cl[cn] = NoObj \/ Reregister)

\* handleRegister, the name belongs to another connected client: the
\* connection is closed and HandleConnection's `client` becomes nil.
RegisterRejected(cn, i, n) ==
  /\ MayRegister(cn)
  /\ NameTaken(i, n)
  /\ st' = [st EXCEPT ![cn] = "closed"]
  /\ cl' = [cl EXCEPT ![cn] = NoObj]
  /\ UNCHANGED <<info, code, clients, parties, members, removal, halted>>

\* handleRegister, accepted: the connection of the object registered under
\* the same ID is closed and a fresh object takes its place in h.clients.
Register(cn, i, n, o) ==
  /\ MayRegister(cn)
  /\ ~NameTaken(i, n)
  /\ o \notin Allocated
  /\ CloseConn(clients[i])
  /\ info' = [info EXCEPT ![o] = [id |-> i, name |-> n, conn |-> cn, test |-> FALSE]]
  /\ clients' = [clients EXCEPT ![i] = o]
  /\ cl' = [cl EXCEPT ![cn] = o]
  /\ UNCHANGED <<code, parties, members, removal, halted>>

\* A panic of the goroutine, after a handler's last change: a handler slices an
\* ID of fewer than eight characters for the log (lines 704, 742, 806, 1027), or
\* two goroutines write to one connection at once.  net/http recovers it, the
\* deferred Close closes the connection, and handleDisconnect, which is not
\* deferred, does not run, or not to its end.
Panic(cn) ==
  /\ Serving(cn) \/ st[cn] = "leaving"
  /\ st' = [st EXCEPT ![cn] = "panicked"]
  /\ UNCHANGED <<cl, info, code, clients, parties, members, removal, halted>>

\* handleRegister slices the ID once the object is in h.clients; its caller,
\* HandleConnection, never learns of the object.
RegisterPanics(cn, i, n, o) ==
  /\ MayRegister(cn)
  /\ ~NameTaken(i, n)
  /\ o \notin Allocated
  /\ st' = [c \in Conns |->
              IF c = cn THEN "panicked"
              ELSE IF clients[i] # NoObj /\ c = info[clients[i]].conn /\ st[c] = "open"
              THEN "closed" ELSE st[c]]
  /\ info' = [info EXCEPT ![o] = [id |-> i, name |-> n, conn |-> cn, test |-> FALSE]]
  /\ clients' = [clients EXCEPT ![i] = o]
  /\ UNCHANGED <<cl, code, parties, members, removal, halted>>

\* handleLeaveParty, of a request or of handleDisconnect, writes party_left
\* after RemoveMember and before it deletes the party that became empty.
LeavePanics(cn) ==
  LET p == code[cl[cn]]
      removed == {m \in members[p] : info[m].id = info[cl[cn]].id}
  IN /\ Serving(cn) \/ st[cn] = "leaving"
     /\ cl[cn] # NoObj
     /\ p \in parties
     /\ st' = [st EXCEPT ![cn] = "panicked"]
     /\ members' = [members EXCEPT ![p] = @ \ removed]
     /\ code' = [m \in Objs |-> IF m \in removed THEN NoCode ELSE code[m]]
     /\ halted' = IF members[p] \ removed = {} THEN halted \cup {p} ELSE halted
     /\ UNCHANGED <<cl, info, clients, parties, removal>>

\* Mutant of ReadFails: the registration stays.
ReadFailsKeepsClient(cn) ==
  /\ Serving(cn)
  /\ st' = [st EXCEPT ![cn] = IF cl[cn] = NoObj THEN "done" ELSE "leaving"]
  /\ UNCHANGED <<cl, info, code, clients, parties, members, removal, halted>>

\* ReadMessage fails (peer gone, deadline, or closed by the server): the loop
\* ends and handleDisconnect deletes whatever h.clients holds under the ID.
ReadFails(cn) ==
  /\ Serving(cn)
  /\ IF cl[cn] = NoObj
     THEN /\ st' = [st EXCEPT ![cn] = "done"]
          /\ UNCHANGED clients
     ELSE /\ st' = [st EXCEPT ![cn] = "leaving"]
          /\ clients' = [clients EXCEPT ![info[cl[cn]].id] = NoObj]
  /\ UNCHANGED <<cl, info, code, parties, members, removal, halted>>

\* Mutant of FinishDisconnect: leaves only if still registered.
FinishDisconnectIfRegistered(cn) ==
  /\ st[cn] = "leaving"
  /\ cl[cn] # NoObj
  /\ st' = [st EXCEPT ![cn] = "done"]
  /\ \/ code[cl[cn]] # NoCode /\ cl[cn] \in Registered /\ LeaveParty(cl[cn])
     \/ code[cl[cn]] = NoCode /\ UNCHANGED <<code, parties, members>>
     \/ cl[cn] \notin Registered /\ UNCHANGED <<code, parties, members>>
  /\ UNCHANGED <<cl, info, clients, removal, halted>>

\* The second half of handleDisconnect, after h.mu was released.
FinishDisconnect(cn) ==
  /\ st[cn] = "leaving"
  /\ cl[cn] # NoObj
  /\ st' = [st EXCEPT ![cn] = "done"]
  /\ \/ code[cl[cn]] # NoCode /\ LeaveParty(cl[cn])
     \/ code[cl[cn]] = NoCode /\ UNCHANGED <<code, parties, members>>
  /\ UNCHANGED <<cl, info, clients, removal, halted>>

-----------------------------------------------------------------------------
(* Party operations of a registered client *)

InLoop(cn) == Serving(cn) /\ cl[cn] # NoObj

HandleCreateParty(cn, p) ==
  /\ InLoop(cn)
  /\ code[cl[cn]] = NoCode
  /\ p \in Codes \ parties
  /\ parties' = parties \cup {p}
  /\ AddMember(p, cl[cn])
  /\ UNCHANGED <<st, cl, info, clients, removal>>

HandleJoinParty(cn, p) ==
  /\ InLoop(cn)
  /\ code[cl[cn]] = NoCode
  /\ p \in parties
  /\ HasRoom(p)
  /\ AddMember(p, cl[cn])
  /\ UNCHANGED <<st, cl, info, clients, parties, removal>>

HandleLeaveParty(cn) ==
  /\ InLoop(cn)
  /\ code[cl[cn]] # NoCode
  /\ LeaveParty(cl[cn])
  /\ UNCHANGED <<st, cl, info, clients, removal, halted>>

-----------------------------------------------------------------------------
(* Admin API and dev console *)

CreateTestClient(i, n, o) ==
  /\ Admin
  /\ clients[i] = NoObj
  /\ o \notin Allocated
  /\ info' = [info EXCEPT ![o] = [id |-> i, name |-> n, conn |-> NoConn, test |-> TRUE]]
  /\ clients' = [clients EXCEPT ![i] = o]
  /\ UNCHANGED <<st, cl, code, parties, members, removal, halted>>

\* RemoveTestClient deletes the registration and releases the lock ...
RemoveTestClient(i) ==
  /\ Admin
  /\ clients[i] # NoObj
  /\ info[clients[i]].test
  /\ clients' = [clients EXCEPT ![i] = NoObj]
  /\ removal' = removal \cup {<<clients[i], code[clients[i]]>>}
  /\ UNCHANGED <<st, cl, info, code, parties, members, halted>>

\* ... then reads the object's code without it and takes it again to leave.
\* The code of an object that is in no goroutine and not in h.clients can only
\* be cleared, so the value read is the one at the release or the one now.
FinishRemoval(r) ==
  /\ r \in removal
  /\ removal' = removal \ {r}
  /\ \E p \in {r[2], code[r[1]]} :
       \/ p \in parties /\ RemoveMember(p, info[r[1]].id)
       \/ p \notin parties /\ UNCHANGED <<code, parties, members>>
  /\ UNCHANGED <<st, cl, info, clients, halted>>

\* CleanupTestClients holds the lock throughout, so each test client's party
\* entry (the one under its ID in the party its object names) goes at once.
CleanupTestClients ==
  LET gone == {o \in Registered : info[o].test}
      left(p) == {m \in members[p] :
                    \E o \in gone : code[o] = p /\ info[o].id = info[m].id}
  IN /\ Admin
     /\ gone # {}
     /\ clients' = [i \in Ids |-> IF clients[i] \in gone THEN NoObj ELSE clients[i]]
     /\ members' = [p \in Codes |-> members[p] \ left(p)]
     /\ code' = [o \in Objs |-> IF \E p \in Codes : o \in left(p) THEN NoCode ELSE code[o]]
     /\ parties' = {p \in parties :
                      members[p] \ left(p) # {} \/ \A o \in gone : code[o] # p}
     /\ UNCHANGED <<st, cl, info, removal, halted>>

\* CreateTestParty: the host, then as many of the listed free clients as fit.
CreateTestParty(i, p, S) ==
  LET free == {clients[j] : j \in {k \in S : clients[k] # NoObj}}
      eligible == {o \in free : code[o] = NoCode} \ {clients[i]}
  IN /\ Admin
     /\ clients[i] # NoObj
     /\ code[clients[i]] = NoCode
     /\ p \in Codes \ parties
     /\ parties' = parties \cup {p}
     /\ \E A \in SUBSET eligible :
          /\ Cardinality(A) < MaxMembers
          /\ A = eligible \/ Cardinality(A) = MaxMembers - 1
          /\ members' = [members EXCEPT ![p] = A \cup {clients[i]}]
          /\ code' = [o \in Objs |-> IF o \in A \cup {clients[i]} THEN p ELSE code[o]]
     /\ halted' = halted \ {p}
     /\ UNCHANGED <<st, cl, info, clients, removal>>

JoinTestParty(i, p) ==
  /\ Admin
  /\ clients[i] # NoObj
  /\ code[clients[i]] = NoCode
  /\ p \in parties
  /\ HasRoom(p)
  /\ AddMember(p, clients[i])
  /\ UNCHANGED <<st, cl, info, clients, parties, removal>>

LeaveTestParty(i) ==
  /\ Admin
  /\ clients[i] # NoObj
  /\ code[clients[i]] # NoCode
  /\ LeaveParty(clients[i])
  /\ UNCHANGED <<st, cl, info, clients, removal, halted>>

DeleteParty(p) ==
  /\ Admin
  /\ p \in parties
  /\ parties' = parties \ {p}
  /\ code' = [o \in Objs |-> IF o \in members[p] THEN NoCode ELSE code[o]]
  /\ members' = [members EXCEPT ![p] = {}]
  /\ UNCHANGED <<st, cl, info, clients, removal, halted>>

-----------------------------------------------------------------------------
\* The cleanup ticker's pass over h.parties.
CleanupEmptyParties ==
  /\ parties' = {p \in parties : members[p] # {}}
  /\ UNCHANGED <<st, cl, info, code, clients, members, removal, halted>>

ConnNext(cn) ==
  \/ Open(cn)
  \/ \E i \in Ids, n \in Names : RegisterRejected(cn, i, n)
  \/ \E i \in Ids, n \in Names, o \in Objs : Register(cn, i, n, o)
  \/ ReadFails(cn)
  \/ FinishDisconnect(cn)
  \/ Panic(cn)
  \/ \E i \in Ids, n \in Names, o \in Objs : RegisterPanics(cn, i, n, o)
  \/ LeavePanics(cn)
  \/ \E p \in Codes : HandleCreateParty(cn, p)
  \/ \E p \in Codes : HandleJoinParty(cn, p)
  \/ HandleLeaveParty(cn)

AdminNext ==
  \/ \E i \in Ids, n \in Names, o \in Objs : CreateTestClient(i, n, o)
  \/ \E i \in Ids : RemoveTestClient(i)
  \/ \E r \in removal : FinishRemoval(r)
  \/ CleanupTestClients
  \/ \E i \in Ids, p \in Codes, S \in SUBSET Ids : CreateTestParty(i, p, S)
  \/ \E i \in Ids, p \in Codes : JoinTestParty(i, p)
  \/ \E i \in Ids : LeaveTestParty(i)
  \/ \E p \in Codes : DeleteParty(p)

Next == (\E cn \in Conns : ConnNext(cn)) \/ AdminNext \/ CleanupEmptyParties

Spec == Init /\ [][Next]_vars

-----------------------------------------------------------------------------
(* Properties *)

\* What a party lists and what the listed objects say agree: every object in
\* a Members map is allocated and names that party as its own, the party is
\* in h.parties, and no two members share a client ID.  An object therefore
\* never sits in two parties (AddMember, RemoveMember, DeleteParty and every
\* caller, across re-registrations that put a second object under an ID).
MembersAgree ==
  \A p \in Codes : \A o \in members[p] :
    /\ p \in parties
    /\ o \in Allocated
    /\ code[o] = p
    /\ \A m \in members[p] : info[m].id = info[o].id => m = o

NoEmptyParty == \A p \in parties : members[p] # {} \/ p \in halted
Capacity == \A p \in Codes : Cardinality(members[p]) <= MaxMembers

\* "Parties are ephemeral (deleted when empty)" (party-server/README.md): no
\* empty party is left behind by any of the six ways to leave one, unless the
\* last leave panicked and nobody has joined since; nor has one more than
\* MaxMembers members, also when an object of a reconnected client replaces an
\* older one or CreateTestParty adds a list.
RightSized == NoEmptyParty /\ Capacity

\* A Client object is in no party twice: it leaves one before it is in the
\* next (handleCreateParty and handleJoinParty test the code under the lock).
LeavesBeforeJoining ==
  [][\A o \in Objs : code[o] # NoCode => code'[o] \in {code[o], NoCode}]_vars

\* No two real clients in h.clients share a display name: handleRegister
\* tests and inserts in one critical section.
UniqueRealNames ==
  \A i, j \in Ids :
    /\ i # j /\ clients[i] # NoObj /\ clients[j] # NoObj
    /\ ~info[clients[i]].test /\ ~info[clients[j]].test
    => info[clients[i]].name # info[clients[j]].name

\* A registration outlives its connection only by a panic: what h.clients shows
\* as online is served by a goroutine that will still clean up after it, or that
\* panicked, unless the connection registered again and forgot the object.
NoGhostRegistration ==
  \A o \in Registered :
    ~info[o].test /\ cl[info[o].conn] = o =>
      Serving(info[o].conn) \/ st[info[o].conn] = "panicked"

\* So does a party membership, even though the stale goroutine and the new one
\* act on the same Members entry: the goroutine that returned from
\* HandleConnection has taken its client out, however the two interleave, and
\* only one that panicked may leave it there.
NoGhostMember ==
  \A p \in Codes : \A o \in members[p] :
    ~info[o].test /\ cl[info[o].conn] = o => st[info[o].conn] # "done"

\* The references the hub holds lead to allocated objects, and h.clients lists
\* an object under its own ID.
WiringOK ==
  /\ \A i \in Ids : clients[i] # NoObj =>
       clients[i] \in Allocated /\ info[clients[i]].id = i
  /\ \A cn \in Conns : cl[cn] # NoObj => cl[cn] \in Allocated
  /\ \A r \in removal : r[1] \in Allocated

\* The inductive invariant behind the party properties (PartyHubProofs).
PartyInv == TypeOK /\ WiringOK /\ MembersAgree /\ NoEmptyParty /\ Capacity

(* What the code's own comment says and the code does not keep. *)

\* "GetAllClients returns info about all connected clients" (hub.go): the
\* client of a connection the server still serves is the one in h.clients.
\* A stale goroutine's handleDisconnect deletes the newer registration.
LiveRegistered ==
  \A cn \in Conns : st[cn] = "open" /\ cl[cn] # NoObj => cl[cn] \in Registered

=============================================================================
