---------------------------- MODULE FriendRequests ----------------------------
(***************************************************************************)
(* Friend requests and friendships on the party server: the handlers of    *)
(* party-server/internal/hub/hub.go over the two SQLite tables of          *)
(* party-server/internal/storage/storage.go.                               *)
(*                                                                         *)
(* No handler holds a lock across its storage calls, so every call is an   *)
(* action of its own and handlers of different goroutines interleave       *)
(* between them.  A statement or a transaction of the storage is atomic.   *)
(* task[g] is the handler goroutine g is in: what it does, for whom, and   *)
(* the storage call it makes next.                                         *)
(*                                                                         *)
(* Goroutines: one per real client (it serves that client's messages one   *)
(* after the other) and those of the admin API, which act for test         *)
(* clients.  Display names, time stamps and the messages sent to the       *)
(* parties are left out: no guard reads them.                              *)
(***************************************************************************)
EXTENDS Naturals, FiniteSets

CONSTANTS
  Ids,       \* client IDs
  Test,      \* those of test clients
  Admins,    \* goroutines of the admin API
  Failing,   \* may a storage call return an error (SQLITE_BUSY, full disk)?
  Crashes,   \* may the server stop and restart?
  Idle,      \* the goroutine is in no handler
  Panicked   \* it ended by a panic: its registration stays, its handlers do not

ASSUME FriendRequestsAssumption ==
  /\ Test \subseteq Ids
  /\ Admins \cap Ids = {}
  /\ Failing \in BOOLEAN
  /\ Crashes \in BOOLEAN

Ops == {"add", "accept", "decline", "cancel"}
Calls == {"areFriends", "sent", "reverse", "create", "pending", "drop", "delete", "befriend"}
Task == [op : Ops, self : Ids, other : Ids, at : Calls]
Goroutines == (Ids \ Test) \cup Admins

ASSUME MarkersAssumption == Idle \notin Task /\ Panicked \notin Task /\ Idle # Panicked

VARIABLES
  online,    \* the keys of h.clients
  requests,  \* table friend_requests: <<from, to>>
  friends,   \* table friends: <<client, friend>>
  task,      \* task[g]: the handler g is in, or Idle or Panicked
  asked      \* history: pairs <<from, to>> for which a request was ever stored
             \* or an administrator made the friendship

vars == <<online, requests, friends, task, asked>>

TypeOK ==
  /\ online \in SUBSET Ids
  /\ requests \in SUBSET (Ids \X Ids)
  /\ friends \in SUBSET (Ids \X Ids)
  /\ task \in [Goroutines -> Task \cup {Idle, Panicked}]
  /\ asked \in SUBSET (Ids \X Ids)

Init ==
  /\ online = {}
  /\ requests = {}
  /\ friends = {}
  /\ task = [g \in Goroutines |-> Idle]
  /\ asked = {}

Both(a, b) == {<<a, b>>, <<b, a>>}

-----------------------------------------------------------------------------
(* Clients come and go *)

\* A client whose goroutine panicked is served again by a new connection.
Connect(a) ==
  /\ online' = online \cup {a}
  /\ task' = [g \in Goroutines |-> IF g = a /\ task[g] = Panicked THEN Idle ELSE task[g]]
  /\ UNCHANGED <<requests, friends, asked>>

\* A real client's goroutine finishes its handler before it sees the failure;
\* one that panicked never takes its client out of h.clients.
Disconnect(a) ==
  /\ a \in Goroutines => task[a] = Idle
  /\ online' = online \ {a}
  /\ UNCHANGED <<requests, friends, task, asked>>

\* The server process dies in the middle of anything; the database survives.
Restart ==
  /\ Crashes
  /\ online' = {}
  /\ task' = [g \in Goroutines |-> Idle]
  /\ UNCHANGED <<requests, friends, asked>>

-----------------------------------------------------------------------------
(* Handlers: the look-up in h.clients and then one storage call at a time *)

\* handleXxx in a's goroutine, or XxxForClient of the admin API, which serves
\* test clients and has no cancel.
ActsFor(g, a, op) == g = a \/ (g \in Admins /\ a \in Test /\ op # "cancel")

FirstCall(op) ==
  CASE op = "add" -> "areFriends"
    [] op = "cancel" -> "sent"
    [] op \in {"accept", "decline"} -> "pending"

Begin(g, op, a, b) ==
  /\ task[g] = Idle
  /\ ActsFor(g, a, op)
  /\ a \in online
  /\ op = "add" => b \in online
  /\ task' = [task EXCEPT ![g] = [op |-> op, self |-> a, other |-> b, at |-> FirstCall(op)]]
  /\ UNCHANGED <<online, requests, friends, asked>>

Busy(g) == task[g] \in Task
Calling(g, c) == Busy(g) /\ task[g].at = c
Then(g, c) == task' = [task EXCEPT ![g].at = c]
Return(g) == task' = [task EXCEPT ![g] = Idle]

\* handleDecline..., handleCancelFriendRequest and handleRemoveFriend slice the
\* target's ID for the log after their last storage call: a shorter one panics.
ReturnOrPanic(g) ==
  \/ Return(g)
  \/ g \notin Admins /\ task' = [task EXCEPT ![g] = Panicked]

Outgoing(g) == <<task[g].self, task[g].other>>
Incoming(g) == <<task[g].other, task[g].self>>

\* A failing call makes every handler but acceptFriendRequest return.
CallFails(g) ==
  /\ Failing
  /\ Busy(g)
  /\ task[g].at # "delete"
  /\ Return(g)
  /\ UNCHANGED <<online, requests, friends, asked>>

AreFriends(g) ==
  /\ Calling(g, "areFriends")
  /\ IF Outgoing(g) \in friends THEN Return(g) ELSE Then(g, "sent")
  /\ UNCHANGED <<online, requests, friends, asked>>

\* GetFriendRequest(self, other): an "add" must not find one, a "cancel" must.
GetOutgoing(g) ==
  /\ Calling(g, "sent")
  /\ \/ task[g].op = "add" /\ Outgoing(g) \notin requests /\ Then(g, "reverse")
     \/ task[g].op = "add" /\ Outgoing(g) \in requests /\ Return(g)
     \/ task[g].op = "cancel" /\ Outgoing(g) \in requests /\ Then(g, "drop")
     \/ task[g].op = "cancel" /\ Outgoing(g) \notin requests /\ Return(g)
  /\ UNCHANGED <<online, requests, friends, asked>>

\* Mutants of GetReverse: the wrong branch; a jump to a call that is none.
GetReverseInverted(g) ==
  /\ Calling(g, "reverse")
  /\ IF Incoming(g) \in requests THEN Then(g, "create") ELSE Then(g, "delete")
  /\ UNCHANGED <<online, requests, friends, asked>>

GetReverseNowhere(g) ==
  /\ Calling(g, "reverse")
  /\ IF Incoming(g) \in requests THEN Then(g, "accept") ELSE Then(g, "create")
  /\ UNCHANGED <<online, requests, friends, asked>>

\* "Check if they already sent us a request - if so, auto-accept".
GetReverse(g) ==
  /\ Calling(g, "reverse")
  /\ IF Incoming(g) \in requests THEN Then(g, "delete") ELSE Then(g, "create")
  /\ UNCHANGED <<online, requests, friends, asked>>

CreateFriendRequest(g) ==
  /\ Calling(g, "create")
  /\ requests' = requests \cup {Outgoing(g)}
  /\ asked' = asked \cup {Outgoing(g)}
  /\ Return(g)
  /\ UNCHANGED <<online, friends>>

\* Mutant of GetIncoming: the answer of GetFriendRequest is not looked at.
GetIncomingUnchecked(g) ==
  /\ Calling(g, "pending")
  /\ Then(g, IF task[g].op = "accept" THEN "delete" ELSE "drop")
  /\ UNCHANGED <<online, requests, friends, asked>>

\* handleAccept... and handleDeclineFriendRequest test for the request.
GetIncoming(g) ==
  /\ Calling(g, "pending")
  /\ IF Incoming(g) \in requests
     THEN Then(g, IF task[g].op = "accept" THEN "delete" ELSE "drop")
     ELSE Return(g)
  /\ UNCHANGED <<online, requests, friends, asked>>

\* DeleteFriendRequest by which the addressee declines or the sender cancels.
DropFriendRequest(g) ==
  /\ Calling(g, "drop")
  /\ requests' = requests \ {IF task[g].op = "cancel" THEN Outgoing(g) ELSE Incoming(g)}
  /\ ReturnOrPanic(g)
  /\ UNCHANGED <<online, friends, asked>>

\* acceptFriendRequest, first call: an error is logged and does not stop it.
DeleteFriendRequest(g) ==
  /\ Calling(g, "delete")
  /\ \/ requests' = requests \ {Incoming(g)}
     \/ Failing /\ UNCHANGED requests
  /\ Then(g, "befriend")
  /\ UNCHANGED <<online, friends, asked>>

\* acceptFriendRequest, second call: one transaction for both directions.
AddFriend(g) ==
  /\ Calling(g, "befriend")
  /\ friends' = friends \cup {Outgoing(g), Incoming(g)}
  /\ Return(g)
  /\ UNCHANGED <<online, requests, asked>>

-----------------------------------------------------------------------------
(* Operations of one storage call *)

\* Mutant of RemoveFriend: deletes the caller's direction only.
RemoveFriendOneWay(g, a, b) ==
  /\ task[g] = Idle
  /\ g = a \/ g \in Admins
  /\ friends' = friends \ {<<a, b>>}
  /\ ReturnOrPanic(g)
  /\ UNCHANGED <<online, requests, asked>>

\* handleRemoveFriend and RemoveTestFriendship; neither touches requests.
RemoveFriend(g, a, b) ==
  /\ task[g] = Idle
  /\ g = a \/ g \in Admins
  /\ friends' = friends \ Both(a, b)
  /\ ReturnOrPanic(g)
  /\ UNCHANGED <<online, requests, asked>>

CreateTestFriendship(g, a, b) ==
  /\ g \in Admins
  /\ task[g] = Idle
  /\ {a, b} \subseteq online
  /\ friends' = friends \cup Both(a, b)
  /\ asked' = asked \cup Both(a, b)
  /\ UNCHANGED <<online, requests, task>>

-----------------------------------------------------------------------------
Call(g) ==
  \/ AreFriends(g)
  \/ GetOutgoing(g)
  \/ GetReverse(g)
  \/ CreateFriendRequest(g)
  \/ GetIncoming(g)
  \/ DropFriendRequest(g)
  \/ DeleteFriendRequest(g)
  \/ AddFriend(g)

Next ==
  \/ \E a \in Ids : Connect(a) \/ Disconnect(a)
  \/ Restart
  \/ \E g \in Goroutines, a \in Ids, b \in Ids :
       \/ \E op \in Ops : Begin(g, op, a, b)
       \/ RemoveFriend(g, a, b)
       \/ CreateTestFriendship(g, a, b)
  \/ \E g \in Goroutines : Call(g) \/ CallFails(g)

Spec == Init /\ [][Next]_vars

-----------------------------------------------------------------------------
(* Properties *)

\* "Friends are bidirectional (both users become friends)"
\* (party-server/README.md): also when calls fail, the server restarts in the
\* middle of an acceptance, or one side unfriends while the other accepts.
Bidirectional == \A a, b \in Ids : <<a, b>> \in friends => <<b, a>> \in friends

\* "acceptance-based friend requests instead of immediately adding users as
\* friends" (CHANGELOG.md): nobody becomes the friend of somebody unless one of
\* the two asked, however stale the answer an accepting handler acts on.
AskedFirst ==
  \A a, b \in Ids : <<a, b>> \in friends => Both(a, b) \cap asked # {}

\* The strengthening that makes AskedFirst inductive: stored requests were
\* asked for, and so was what a handler past its test is about to accept.
ConsentInv ==
  /\ TypeOK
  /\ AskedFirst
  /\ requests \subseteq asked
  /\ \A g \in Goroutines :
       Calling(g, "delete") \/ Calling(g, "befriend") => Incoming(g) \in asked

\* "mutual-request auto-accept" (CHANGELOG.md): two clients that have each
\* asked the other do not both stay pending.  Two crossing handleAddFriend
\* each test for the other's request before either has stored its own.
MutualAutoAccept ==
  \A a, b \in Ids : a # b => ~(Both(a, b) \subseteq requests)

=============================================================================
