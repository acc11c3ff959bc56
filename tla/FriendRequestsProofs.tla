------------------------- MODULE FriendRequestsProofs -------------------------
(* Theorems about FriendRequests, for any clients and any goroutines. *)
EXTENDS FriendRequests, TLAPS

USE FriendRequestsAssumption, MarkersAssumption

\* What a handler is about keeps its type from call to call.
LEMMA CallingType ==
  ASSUME TypeOK, NEW g \in Goroutines, Busy(g)
  PROVE  /\ task[g] \in Task
         /\ Outgoing(g) \in Ids \X Ids
         /\ Incoming(g) \in Ids \X Ids
  BY DEF TypeOK, Busy, Task, Outgoing, Incoming

\* Going on to a call of the list, or returning, keeps the type of task.
LEMMA ThenType ==
  ASSUME TypeOK, NEW g \in Goroutines, NEW c \in Calls, Busy(g),
         Then(g, c) \/ ReturnOrPanic(g)
  PROVE  task' \in [Goroutines -> Task \cup {Idle, Panicked}]
  <1>1. task[g] \in Task
    BY CallingType
  <1>2. [task[g] EXCEPT !.at = c] \in Task
    BY <1>1 DEF Task
  <1> QED
    BY <1>2 DEF TypeOK, Then, Return, ReturnOrPanic

\* One step per action: the variables the action assigns keep their types.
LEMMA TypeNext == TypeOK /\ [Next]_vars => TypeOK'
  <1> SUFFICES ASSUME TypeOK, [Next]_vars PROVE TypeOK'
    OBVIOUS
  <1> USE DEF Calling, Busy, ReturnOrPanic
  <1>1. ASSUME NEW a \in Ids, Connect(a) \/ Disconnect(a) PROVE TypeOK'
    BY <1>1 DEF TypeOK, Connect, Disconnect
  <1>2. CASE Restart
    BY <1>2 DEF TypeOK, Restart
  <1>3. ASSUME NEW g \in Goroutines, NEW a \in Ids, NEW b \in Ids, NEW op \in Ops,
               Begin(g, op, a, b)
        PROVE  TypeOK'
    <2>1. FirstCall(op) \in Calls
      BY DEF FirstCall, Ops, Calls
    <2>2. [op |-> op, self |-> a, other |-> b, at |-> FirstCall(op)] \in Task
      BY <2>1 DEF Task
    <2> QED
      BY <1>3, <2>2 DEF TypeOK, Begin
  <1>4. ASSUME NEW g \in Goroutines, NEW a \in Ids, NEW b \in Ids,
               RemoveFriend(g, a, b) \/ CreateTestFriendship(g, a, b)
        PROVE  TypeOK'
    BY <1>4 DEF TypeOK, RemoveFriend, ReturnOrPanic, Return, CreateTestFriendship, Both
  <1>5. ASSUME NEW g \in Goroutines, CallFails(g) PROVE TypeOK'
    BY <1>5 DEF TypeOK, CallFails, Return
  <1>6. ASSUME NEW g \in Goroutines, Call(g) PROVE TypeOK'
    <2> USE DEF Calls
    <2>1. CASE AreFriends(g)
      <3>1. task' \in [Goroutines -> Task \cup {Idle, Panicked}]
        BY <2>1, ThenType DEF AreFriends
      <3> QED
        BY <2>1, <3>1 DEF AreFriends, TypeOK
    <2>2. CASE GetOutgoing(g)
      <3>1. task' \in [Goroutines -> Task \cup {Idle, Panicked}]
        BY <2>2, ThenType DEF GetOutgoing
      <3> QED
        BY <2>2, <3>1 DEF GetOutgoing, TypeOK
    <2>3. CASE GetReverse(g)
      <3>1. task' \in [Goroutines -> Task \cup {Idle, Panicked}]
        BY <2>3, ThenType DEF GetReverse
      <3> QED
        BY <2>3, <3>1 DEF GetReverse, TypeOK
    <2>4. CASE CreateFriendRequest(g)
      <3>1. task' \in [Goroutines -> Task \cup {Idle, Panicked}]
        BY <2>4, ThenType DEF CreateFriendRequest
      <3> QED
        BY <2>4, <3>1, CallingType DEF CreateFriendRequest, TypeOK
    <2>5. CASE GetIncoming(g)
      <3>1. task' \in [Goroutines -> Task \cup {Idle, Panicked}]
        <4>1. CASE task[g].op = "accept"
          BY <2>5, <4>1, ThenType DEF GetIncoming
        <4>2. CASE task[g].op # "accept"
          BY <2>5, <4>2, ThenType DEF GetIncoming
        <4> QED
          BY <4>1, <4>2
      <3> QED
        BY <2>5, <3>1 DEF GetIncoming, TypeOK
    <2>6. CASE DropFriendRequest(g)
      <3>1. task' \in [Goroutines -> Task \cup {Idle, Panicked}]
        BY <2>6, ThenType DEF DropFriendRequest
      <3> QED
        BY <2>6, <3>1 DEF DropFriendRequest, TypeOK
    <2>7. CASE DeleteFriendRequest(g)
      <3>1. task' \in [Goroutines -> Task \cup {Idle, Panicked}]
        BY <2>7, ThenType DEF DeleteFriendRequest
      <3> QED
        BY <2>7, <3>1 DEF DeleteFriendRequest, TypeOK
    <2>8. CASE AddFriend(g)
      <3>1. task' \in [Goroutines -> Task \cup {Idle, Panicked}]
        BY <2>8, ThenType DEF AddFriend
      <3> QED
        BY <2>8, <3>1, CallingType DEF AddFriend, TypeOK
    <2> QED
      BY <1>6, <2>1, <2>2, <2>3, <2>4, <2>5, <2>6, <2>7, <2>8 DEF Call
  <1>7. CASE UNCHANGED vars
    BY <1>7 DEF TypeOK, vars
  <1> QED
    BY <1>1, <1>2, <1>3, <1>4, <1>5, <1>6, <1>7 DEF Next

\* The tables, the handlers and the history keep their types.
THEOREM TypeCorrect == Spec => []TypeOK
  <1>1. Init => TypeOK
    BY DEF Init, TypeOK
  <1> QED
    BY <1>1, TypeNext, PTL DEF Spec

\* No interleaving of handlers, failures and restarts leaves a friendship in
\* one direction only: every transaction of the storage writes or deletes both.
THEOREM FriendsAreBidirectional == Spec => []Bidirectional
  <1>1. Init => Bidirectional
    BY DEF Init, Bidirectional
  <1>2. TypeOK /\ Bidirectional /\ [Next]_vars => Bidirectional'
    <2> SUFFICES ASSUME TypeOK, Bidirectional, [Next]_vars PROVE Bidirectional'
      OBVIOUS
    <2>1. ASSUME NEW g \in Goroutines, NEW a \in Ids, NEW b \in Ids,
                 RemoveFriend(g, a, b)
          PROVE  Bidirectional'
      BY <2>1 DEF RemoveFriend, Both, Bidirectional
    <2>2. ASSUME NEW g \in Goroutines, NEW a \in Ids, NEW b \in Ids,
                 CreateTestFriendship(g, a, b)
          PROVE  Bidirectional'
      BY <2>2 DEF CreateTestFriendship, Both, Bidirectional
    <2>3. ASSUME NEW g \in Goroutines, AddFriend(g) PROVE Bidirectional'
      BY <2>3 DEF AddFriend, Outgoing, Incoming, Bidirectional
    <2>4. CASE UNCHANGED friends
      BY <2>4 DEF Bidirectional
    <2> QED
      BY <2>1, <2>2, <2>3, <2>4
         DEF Next, vars, Connect, Disconnect, Restart, Begin, Call, CallFails, AreFriends,
             GetOutgoing, GetReverse, CreateFriendRequest, GetIncoming,
             DropFriendRequest, DeleteFriendRequest
  <1> QED
    BY <1>1, <1>2, TypeCorrect, PTL DEF Spec

-----------------------------------------------------------------------------
\* A handler that moves on to a call that accepts nothing keeps consent, as
\* long as requests and friends only grow by what was asked for.
LEMMA ConsentStep ==
  ASSUME ConsentInv, TypeOK', NEW g \in Goroutines,
         asked \subseteq asked', requests' \subseteq asked',
         friends' \subseteq friends \cup {Outgoing(g), Incoming(g)},
         friends' \subseteq friends \/ Incoming(g) \in asked',
         \A h \in Goroutines \ {g} : task'[h] = task[h],
         \/ task'[g] \notin Task
         \/ task'[g].at \notin {"delete", "befriend"}
         \/ Incoming(g)' \in asked'
  PROVE  ConsentInv'
  <1>1. AskedFirst'
    <2> SUFFICES ASSUME NEW a \in Ids, NEW b \in Ids, <<a, b>> \in friends'
                 PROVE  Both(a, b) \cap asked' # {}
      BY DEF AskedFirst, Both
    <2>1. CASE <<a, b>> \in friends
      BY <2>1 DEF ConsentInv, AskedFirst
    <2>2. CASE <<a, b>> \notin friends
      BY <2>2 DEF Both, Outgoing, Incoming
    <2> QED
      BY <2>1, <2>2
  <1>2. ASSUME NEW h \in Goroutines, Calling(h, "delete")' \/ Calling(h, "befriend")'
        PROVE  Incoming(h)' \in asked'
    <2>1. CASE h = g
      BY <1>2, <2>1 DEF Calling, Busy
    <2>2. CASE h # g
      BY <1>2, <2>2 DEF Calling, Busy, Incoming, ConsentInv
    <2> QED
      BY <2>1, <2>2
  <1> QED
    BY <1>1, <1>2 DEF ConsentInv

\* Consent is kept by every step: only a handler that found the request goes
\* on to accept, and nothing takes a pair out of the history.
LEMMA ConsentNext == ConsentInv /\ [Next]_vars => ConsentInv'
  <1> SUFFICES ASSUME ConsentInv, [Next]_vars PROVE ConsentInv'
    OBVIOUS
  <1>0. TypeOK /\ TypeOK'
    BY TypeNext DEF ConsentInv
  <1>1. CASE UNCHANGED <<requests, friends, task, asked>>
    BY <1>0, <1>1 DEF ConsentInv, AskedFirst, Both, Calling, Busy, Incoming
  <1>7. ASSUME NEW a \in Ids, Connect(a) PROVE ConsentInv'
    <2>1. \A g \in Goroutines : Busy(g)' => task'[g] = task[g]
      BY <1>7 DEF Connect, Busy
    <2> QED
      BY <1>0, <1>7, <2>1 DEF Connect, ConsentInv, AskedFirst, Both, Calling, Busy, Incoming
  <1>2. CASE Restart
    BY <1>0, <1>2 DEF Restart, ConsentInv, AskedFirst, Both, Calling, Busy
  <1>3. ASSUME NEW g \in Goroutines, NEW a \in Ids, NEW b \in Ids, NEW op \in Ops,
               Begin(g, op, a, b)
        PROVE  ConsentInv'
    <2>1. task'[g].at \notin {"delete", "befriend"}
      BY <1>0, <1>3 DEF Begin, FirstCall, Ops, TypeOK
    <2>2. \A h \in Goroutines \ {g} : task'[h] = task[h]
      BY <1>0, <1>3 DEF Begin, TypeOK
    <2> QED
      BY <1>0, <1>3, <2>1, <2>2, ConsentStep DEF Begin, ConsentInv
  <1>4. ASSUME NEW g \in Goroutines, NEW a \in Ids, NEW b \in Ids, RemoveFriend(g, a, b)
        PROVE  ConsentInv'
    <2>1. task'[g] \notin Task /\ (\A h \in Goroutines \ {g} : task'[h] = task[h])
      BY <1>0, <1>4 DEF RemoveFriend, ReturnOrPanic, Return, TypeOK
    <2> QED
      BY <1>0, <1>4, <2>1, ConsentStep DEF RemoveFriend, ConsentInv
  <1>5. ASSUME NEW g \in Goroutines, NEW a \in Ids, NEW b \in Ids,
               CreateTestFriendship(g, a, b)
        PROVE  ConsentInv'
    <2>1. AskedFirst'
      BY <1>5 DEF CreateTestFriendship, ConsentInv, AskedFirst, Both
    <2> QED
      BY <1>0, <1>5, <2>1 DEF CreateTestFriendship, ConsentInv, Calling, Busy, Incoming
  <1>6. ASSUME NEW g \in Goroutines, Call(g) \/ CallFails(g) PROVE ConsentInv'
    <2>0. Busy(g) /\ (\A h \in Goroutines \ {g} : task'[h] = task[h])
      BY <1>0, <1>6 DEF Call, CallFails, AreFriends, GetOutgoing, GetReverse,
           CreateFriendRequest, GetIncoming, DropFriendRequest, DeleteFriendRequest,
           AddFriend, Calling, Then, ReturnOrPanic, Return, TypeOK
    <2>1. CASE CallFails(g)
      <3>1. task'[g] \notin Task
        BY <1>0, <2>1 DEF CallFails, Return, TypeOK
      <3> QED
        BY <1>0, <2>0, <2>1, <3>1, ConsentStep DEF CallFails, ConsentInv
    <2>2. CASE AreFriends(g) \/ GetOutgoing(g)
      <3>1. task'[g] \notin Task \/ task'[g].at \notin {"delete", "befriend"}
        BY <1>0, <2>0, <2>2, CallingType
           DEF AreFriends, GetOutgoing, Then, Return, TypeOK, Task
      <3> QED
        BY <1>0, <2>0, <2>2, <3>1, ConsentStep DEF AreFriends, GetOutgoing, ConsentInv
    <2>3. CASE GetReverse(g) \/ GetIncoming(g)
      <3>1. \/ task'[g] \notin Task
            \/ task'[g].at \notin {"delete", "befriend"}
            \/ Incoming(g)' = Incoming(g) /\ Incoming(g) \in requests
        BY <1>0, <2>0, <2>3, CallingType
           DEF GetReverse, GetIncoming, Then, Return, TypeOK, Incoming, Task
      <3> QED
        BY <1>0, <2>0, <2>3, <3>1, ConsentStep DEF GetReverse, GetIncoming, ConsentInv
    <2>4. CASE CreateFriendRequest(g) \/ DropFriendRequest(g)
      <3>1. task'[g] \notin Task
        BY <1>0, <2>4 DEF CreateFriendRequest, DropFriendRequest, ReturnOrPanic, Return, TypeOK
      <3> QED
        BY <1>0, <2>0, <2>4, <3>1, ConsentStep
           DEF CreateFriendRequest, DropFriendRequest, ConsentInv
    <2>5. CASE DeleteFriendRequest(g)
      <3>1. Incoming(g)' = Incoming(g)
        BY <1>0, <2>0, <2>5, CallingType DEF DeleteFriendRequest, Then, TypeOK, Incoming, Task
      <3>2. Incoming(g) \in asked
        BY <2>5 DEF DeleteFriendRequest, ConsentInv
      <3> QED
        BY <1>0, <2>0, <2>5, <3>1, <3>2, ConsentStep DEF DeleteFriendRequest, ConsentInv
    <2>6. CASE AddFriend(g)
      <3>1. task'[g] \notin Task
        BY <1>0, <2>6 DEF AddFriend, Return, TypeOK
      <3>2. Incoming(g) \in asked
        BY <2>6 DEF AddFriend, ConsentInv
      <3> QED
        BY <1>0, <2>0, <2>6, <3>1, <3>2, ConsentStep DEF AddFriend, ConsentInv
    <2> QED
      BY <1>6, <2>1, <2>2, <2>3, <2>4, <2>5, <2>6 DEF Call
  <1> QED
    BY <1>1, <1>2, <1>3, <1>4, <1>5, <1>6, <1>7 DEF Next, vars, Disconnect

\* Nobody becomes anybody's friend unless one of the two asked for it, whatever
\* stale answers the handlers act on.
THEOREM FriendshipsAreAskedFor == Spec => []AskedFirst
  <1>1. Init => ConsentInv
    BY DEF Init, ConsentInv, TypeOK, AskedFirst, Calling, Busy
  <1>2. ConsentInv => AskedFirst
    BY DEF ConsentInv
  <1> QED
    BY <1>1, <1>2, ConsentNext, PTL DEF Spec

=============================================================================
