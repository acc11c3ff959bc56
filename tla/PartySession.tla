----------------------------- MODULE PartySession -----------------------------
(***************************************************************************)
(* The desktop application's connection to the party server: CentralClient *)
(* (internal/party/central_client.go) and the application's own state      *)
(* (ui-wails/app_party_central.go), composed with the hub they talk to     *)
(* (PartyHub).                                                             *)
(*                                                                         *)
(* ConnectToPartyServer makes a CentralClient per connection: a SESSION is *)
(* that object, its socket and its reader goroutine, and the hub's         *)
(* connection at the other end.  Three actors share the state: the calls   *)
(* the interface makes, the reader, and the OnDisconnected goroutine that  *)
(* Disconnect starts.  The client's fields are under c.mu, but the reader  *)
(* uses c.conn and c.stopChan, and JoinParty uses c.joinResponse, without  *)
(* it; the event handler writes centralPartyState without any lock.  An    *)
(* action is a critical section, or the use of such a field.               *)
(*                                                                         *)
(* The sockets are FIFO queues in each direction; frames to a socket that  *)
(* the server has closed are lost, and a read may fail at any time.  After *)
(* Disconnect the reader may find c.conn nil and panic: that ends a        *)
(* behaviour early and so adds nothing to what the model reaches.          *)
(*                                                                         *)
(* Abstractions: a message is its type and party code; member lists,       *)
(* friends, invitations shown and positions guard no step here.  inParty   *)
(* is "partyCode is not empty", as every handler writes both.  Checking    *)
(* and sending are one step where nothing is kept between them.  Friend    *)
(* and invitation requests matter for the error they may be answered with, *)
(* which AcceptPartyInvite stands for.  What JoinParty returns is left out.*)
(***************************************************************************)
EXTENDS PartyHub, Sequences

CONSTANTS
  Sessions,    \* CentralClient objects; the other Conns are other players
  Me, MyName,  \* ClientID and DisplayName of the configuration
  Joins,       \* JoinParty calls, each with the channel it makes
  NoSession, NoJoin,
  MaxQueue     \* bound of the model: frames in flight per direction

Message ==
  [type : {"none", "register", "create", "join", "leave", "accept",
           "registered", "created", "joined", "left", "error"},
   code : Codes \cup {NoCode}]

ASSUME PartySessionAssumption ==
  /\ Sessions \subseteq Conns
  /\ Me \in Ids
  /\ MyName \in Names
  /\ NoSession \notin Sessions
  /\ NoJoin \notin Joins
  /\ MaxQueue \in Nat \ {0}

VARIABLES
  obj,       \* obj[s]: the fields of the CentralClient under c.mu
  reader,    \* reader[s]: where its handleMessages goroutine is
  hand,      \* hand[s]: the message that goroutine has read
  dial,      \* dial[s]: where its ConnectToPartyServer call is
  out,       \* out[s]: frames on the way to the server
  inbox,     \* inbox[s]: frames on the way to the client
  call,      \* call[j]: the JoinParty call j
  buf,       \* buf[j]: content of the channel call j made
  app,       \* centralPartyState
  notices,   \* sessions whose Disconnect started an OnDisconnected goroutine
  tell,      \* sessions DeleteParty still has to send party_left to
  deleted,   \* history: has an administrator deleted a party?
  refused    \* history: sessions whose reader has seen the rejection

clientVars == <<obj, reader, hand, dial, call, buf, app, notices, refused>>
wireVars == <<out, inbox, tell, deleted>>
allVars == <<vars, clientVars, wireVars>>

Client == [conn : {"nil", "set"}, connected : BOOLEAN, registered : BOOLEAN,
           party : Codes \cup {NoCode}, join : Joins \cup {NoJoin}]
AppState == [client : Sessions \cup {NoSession}, connected : BOOLEAN,
             registered : BOOLEAN, party : Codes \cup {NoCode}]
JoinCall == [pc : {"idle", "locked", "sent", "waiting", "returned"},
             on : Sessions \cup {NoSession}, to : Codes \cup {NoCode},
             chan : Joins \cup {NoJoin}]

Msg(type, p) == [type |-> type, code |-> p]
NoMsg == Msg("none", NoCode)

AtRest(pc) == [pc |-> pc, on |-> NoSession, to |-> NoCode, chan |-> NoJoin]

SessionTypeOK ==
  /\ TypeOK
  /\ obj \in [Sessions -> Client]
  /\ reader \in [Sessions -> {"none", "reading", "event",
                              "leaving", "notify", "done"}]
  /\ hand \in [Sessions -> Message]
  /\ dial \in [Sessions -> {"idle", "dialing", "dialed", "sent", "failed", "done"}]
  /\ out \in [Sessions -> Seq(Message)]
  /\ inbox \in [Sessions -> Seq(Message)]
  /\ \A s \in Sessions : Len(out[s]) <= MaxQueue /\ Len(inbox[s]) <= MaxQueue
  /\ call \in [Joins -> JoinCall]
  /\ buf \in [Joins -> {"empty", "full"}]
  /\ app \in AppState
  /\ notices \in SUBSET Sessions
  /\ tell \in SUBSET Sessions
  /\ deleted \in BOOLEAN
  /\ refused \in SUBSET Sessions

SessionInit ==
  /\ Init
  /\ obj = [s \in Sessions |-> [conn |-> "nil", connected |-> FALSE,
              registered |-> FALSE, party |-> NoCode, join |-> NoJoin]]
  /\ reader = [s \in Sessions |-> "none"]
  /\ hand = [s \in Sessions |-> NoMsg]
  /\ dial = [s \in Sessions |-> "idle"]
  /\ out = [s \in Sessions |-> <<>>]
  /\ inbox = [s \in Sessions |-> <<>>]
  /\ call = [j \in Joins |-> AtRest("idle")]
  /\ buf = [j \in Joins |-> "empty"]
  /\ app = [client |-> NoSession, connected |-> FALSE, registered |-> FALSE, party |-> NoCode]
  /\ notices = {}
  /\ tell = {}
  /\ deleted = FALSE
  /\ refused = {}

\* What OnDisconnected and DisconnectFromPartyServer make of the flags.
Cleared(a) == [a EXCEPT !.connected = FALSE, !.registered = FALSE, !.party = NoCode]

-----------------------------------------------------------------------------
(* Sending *)

CanSend(s) == obj[s].conn = "set" /\ Len(out[s]) < MaxQueue

\* WriteJSON on a socket the server no longer reads succeeds or not: lost.
Send(s, m) ==
  out' = [out EXCEPT ![s] = IF Serving(s) THEN Append(@, m) ELSE @]

\* Frames that no reader will take any more are dropped.
Listening(s) == st[s] = "open" /\ reader[s] \in {"reading", "event"}

Reply(s, m) ==
  /\ Len(inbox[s]) < MaxQueue
  /\ inbox' = [inbox EXCEPT ![s] = IF Listening(s) THEN Append(@, m) ELSE @]

-----------------------------------------------------------------------------
(* Connecting and disconnecting *)

\* ConnectToPartyServer: the test is under stateMutex, which is then released.
BeginConnect(s) ==
  /\ dial[s] = "idle"
  /\ ~app.connected
  /\ dial' = [dial EXCEPT ![s] = "dialing"]
  /\ UNCHANGED <<vars, obj, reader, hand, call, buf, app, notices, refused, wireVars>>

\* Connect: the dial succeeds, the reader goroutine starts ...
Dial(s) ==
  /\ dial[s] = "dialing"
  /\ Open(s)
  /\ obj' = [obj EXCEPT ![s] = [@ EXCEPT !.conn = "set", !.connected = TRUE]]
  /\ reader' = [reader EXCEPT ![s] = "reading"]
  /\ dial' = [dial EXCEPT ![s] = "dialed"]
  /\ UNCHANGED <<hand, call, buf, app, notices, refused, wireVars>>

DialFails(s) ==
  /\ dial[s] = "dialing"
  /\ dial' = [dial EXCEPT ![s] = "failed"]
  /\ UNCHANGED <<vars, obj, reader, hand, call, buf, app, notices, refused, wireVars>>

\* ... and "register" is sent.
SendRegister(s) ==
  /\ dial[s] = "dialed"
  /\ CanSend(s)
  /\ Send(s, Msg("register", NoCode))
  /\ dial' = [dial EXCEPT ![s] = "sent"]
  /\ UNCHANGED <<vars, obj, reader, hand, call, buf, app, notices, refused, inbox, tell, deleted>>

\* CentralClient.Disconnect, under c.mu.  It replaces stopChan as it closes it.
ClientDisconnect(s) ==
  IF obj[s].connected
  THEN /\ obj' = [obj EXCEPT ![s] = [@ EXCEPT !.conn = "nil", !.connected = FALSE,
                                              !.registered = FALSE, !.party = NoCode]]
       /\ notices' = notices \cup {s}
  ELSE UNCHANGED <<obj, notices>>

RegisterSendFails(s) ==
  /\ dial[s] = "dialed"
  /\ st[s] # "open"
  /\ ClientDisconnect(s)
  /\ dial' = [dial EXCEPT ![s] = "failed"]
  /\ UNCHANGED <<vars, reader, hand, call, buf, app, refused, wireVars>>

\* Connect returned: the application takes the client over, without a lock.
Publish(s) ==
  /\ dial[s] = "sent"
  /\ app' = [app EXCEPT !.client = s, !.connected = TRUE]
  /\ dial' = [dial EXCEPT ![s] = "done"]
  /\ UNCHANGED <<vars, obj, reader, hand, call, buf, notices, refused, wireVars>>

DisconnectFromPartyServer ==
  /\ app.client # NoSession
  /\ app.connected
  /\ ClientDisconnect(app.client)
  /\ app' = [Cleared(app) EXCEPT !.client = NoSession]
  /\ UNCHANGED <<vars, reader, hand, dial, call, buf, refused, wireVars>>

\* `go c.eventHandler.OnDisconnected()`.
OnDisconnected(s) ==
  /\ s \in notices
  /\ notices' = notices \ {s}
  /\ app' = Cleared(app)
  /\ UNCHANGED <<vars, obj, reader, hand, dial, call, buf, refused, wireVars>>

-----------------------------------------------------------------------------
(* Party calls of the interface *)

Usable(s) == app.client = s /\ app.registered

Request(s, type, p) ==
  /\ CanSend(s)
  /\ Send(s, Msg(type, p))
  /\ UNCHANGED <<vars, clientVars, inbox, tell, deleted>>

CreateCentralParty(s) ==
  /\ Usable(s) /\ app.party = NoCode
  /\ obj[s].connected /\ obj[s].registered /\ obj[s].party = NoCode
  /\ Request(s, "create", NoCode)

LeaveCentralParty(s) ==
  /\ app.client = s /\ app.party # NoCode
  /\ obj[s].connected /\ obj[s].party # NoCode
  /\ Request(s, "leave", NoCode)

\* AcceptInvite is the one party request the client sends unconditionally.
AcceptPartyInvite(s, p) == Usable(s) /\ Request(s, "accept", p)

\* JoinParty makes the channel and files it in c.joinResponse ...
JoinCentralParty(s, j, p) ==
  /\ call[j].pc = "idle"
  /\ Usable(s) /\ app.party = NoCode
  /\ obj[s].connected /\ obj[s].registered /\ obj[s].party = NoCode
  /\ obj' = [obj EXCEPT ![s].join = j]
  /\ call' = [call EXCEPT ![j] = [pc |-> "locked", on |-> s, to |-> p, chan |-> NoJoin]]
  /\ UNCHANGED <<vars, reader, hand, dial, buf, app, notices, refused, wireVars>>

\* ... sends, or clears whatever channel is filed by now and fails ...
SendJoin(j) ==
  LET s == call[j].on IN
  /\ call[j].pc = "locked"
  /\ CanSend(s)
  /\ Send(s, Msg("join", call[j].to))
  /\ call' = [call EXCEPT ![j] = [@ EXCEPT !.pc = "sent", !.to = NoCode]]
  /\ UNCHANGED <<vars, obj, reader, hand, dial, buf, app, notices, refused, inbox, tell, deleted>>

SendJoinFails(j) ==
  LET s == call[j].on IN
  /\ call[j].pc = "locked"
  /\ obj[s].conn = "nil" \/ st[s] # "open"
  /\ obj' = [obj EXCEPT ![s].join = NoJoin]
  /\ call' = [call EXCEPT ![j] = AtRest("returned")]
  /\ UNCHANGED <<vars, reader, hand, dial, buf, app, notices, refused, wireVars>>

\* ... then `select` reads the field again, without the lock: it waits on the
\* channel of a later call, or on nil when the answer has come already.
EnterSelect(j) ==
  /\ call[j].pc = "sent"
  /\ call' = [call EXCEPT ![j] = [@ EXCEPT !.pc = "waiting", !.chan = obj[call[j].on].join]]
  /\ UNCHANGED <<vars, obj, reader, hand, dial, buf, app, notices, refused, wireVars>>

JoinAnswered(j) ==
  LET ch == call[j].chan IN
  /\ call[j].pc = "waiting"
  /\ ch # NoJoin
  /\ buf[ch] # "empty"
  /\ call' = [call EXCEPT ![j] = AtRest("returned")]
  /\ buf' = [buf EXCEPT ![ch] = "empty"]
  /\ UNCHANGED <<vars, obj, reader, hand, dial, app, notices, refused, wireVars>>

JoinTimesOut(j) ==
  /\ call[j].pc = "waiting"
  /\ call' = [call EXCEPT ![j] = AtRest("returned")]
  /\ obj' = [obj EXCEPT ![call[j].on].join = NoJoin]
  /\ UNCHANGED <<vars, reader, hand, dial, buf, app, notices, refused, wireVars>>

-----------------------------------------------------------------------------
(* The reader goroutine, handleMessages *)

At(s, pc) == reader[s] = pc
Goto(s, pc) == reader' = [reader EXCEPT ![s] = pc]

ReadError(s) ==
  /\ At(s, "reading")
  /\ Goto(s, "leaving")
  /\ UNCHANGED <<vars, obj, hand, dial, call, buf, app, notices, refused, wireVars>>

\* Mutant of Applied: "party_left" does not reset the code.
AppliedKeepsParty(c, m) ==
  CASE m.type = "registered" -> [c EXCEPT !.registered = TRUE]
    [] m.type = "created"    -> [c EXCEPT !.party = m.code]
    [] m.type = "joined"     -> [c EXCEPT !.party = m.code, !.join = NoJoin]
    [] m.type = "error"      -> [c EXCEPT !.join = NoJoin]
    [] OTHER                 -> c

\* Mutant of Applied: an error answers the pending join but leaves it filed.
AppliedKeepsJoin(c, m) ==
  CASE m.type = "registered" -> [c EXCEPT !.registered = TRUE]
    [] m.type = "created"    -> [c EXCEPT !.party = m.code]
    [] m.type = "joined"     -> [c EXCEPT !.party = m.code, !.join = NoJoin]
    [] m.type = "left"       -> [c EXCEPT !.party = NoCode]
    [] OTHER                 -> c

\* The part of handleMessage under c.mu.
Applied(c, m) ==
  CASE m.type = "registered" -> [c EXCEPT !.registered = TRUE]
    [] m.type = "created"    -> [c EXCEPT !.party = m.code]
    [] m.type = "joined"     -> [c EXCEPT !.party = m.code, !.join = NoJoin]
    [] m.type = "left"       -> [c EXCEPT !.party = NoCode]
    [] m.type = "error"      -> [c EXCEPT !.join = NoJoin]
    [] OTHER                 -> c

Answers(m) == m.type \in {"joined", "error"}

\* A frame is read and handled, also one that was buffered when Disconnect
\* closed the socket.  Sending to a full channel would block with c.mu held.
HandleMessage(s) ==
  LET m == Head(inbox[s])
      ch == obj[s].join
  IN /\ At(s, "reading")
     /\ inbox[s] # <<>>
     /\ inbox' = [inbox EXCEPT ![s] = Tail(@)]
     /\ hand' = [hand EXCEPT ![s] = m]
     /\ obj' = [obj EXCEPT ![s] = Applied(@, m)]
     /\ \/ /\ Answers(m) /\ ch # NoJoin
           /\ buf[ch] = "empty"
           /\ buf' = [buf EXCEPT ![ch] = "full"]
        \/ /\ ~(Answers(m) /\ ch # NoJoin)
           /\ UNCHANGED buf
     /\ Goto(s, "event")
     /\ refused' = IF m.type = "error" /\ cl[s] = NoObj THEN refused \cup {s} ELSE refused
     /\ UNCHANGED <<vars, dial, call, app, notices, out, tell, deleted>>

\* The event handler: OnRegistered, OnPartyCreated, OnPartyJoined, OnPartyLeft.
Shown(a, m) ==
  CASE m.type = "registered"           -> [a EXCEPT !.registered = TRUE]
    [] m.type \in {"created", "joined"} -> [a EXCEPT !.party = m.code]
    [] m.type = "left"                 -> [a EXCEPT !.party = NoCode]
    [] OTHER                           -> a

EventHandler(s) ==
  /\ At(s, "event")
  /\ app' = Shown(app, hand[s])
  /\ hand' = [hand EXCEPT ![s] = NoMsg]
  /\ Goto(s, "reading")
  /\ UNCHANGED <<vars, obj, dial, call, buf, notices, refused, wireVars>>

\* The deferred function: flags under c.mu ...
ReaderLeaves(s) ==
  /\ At(s, "leaving")
  /\ obj' = [obj EXCEPT ![s] = [@ EXCEPT !.connected = FALSE, !.registered = FALSE]]
  /\ inbox' = [inbox EXCEPT ![s] = <<>>]
  /\ Goto(s, "notify")
  /\ UNCHANGED <<vars, hand, dial, call, buf, app, notices, refused, out, tell, deleted>>

\* Mutant of ReaderDone: the application is not told.
ReaderDoneSilently(s) ==
  /\ At(s, "notify")
  /\ Goto(s, "done")
  /\ UNCHANGED <<vars, obj, hand, dial, call, buf, app, notices, refused, wireVars>>

\* ... then OnDisconnected.
ReaderDone(s) ==
  /\ At(s, "notify")
  /\ app' = Cleared(app)
  /\ Goto(s, "done")
  /\ UNCHANGED <<vars, obj, hand, dial, call, buf, notices, refused, wireVars>>

-----------------------------------------------------------------------------
(* The hub's side of a session *)

Refuse(s) == Reply(s, Msg("error", NoCode)) /\ UNCHANGED vars

Admit(s, p) ==
  \/ HandleJoinParty(s, p) /\ Reply(s, Msg("joined", p))
  \/ /\ ~(InLoop(s) /\ code[cl[s]] = NoCode /\ p \in parties /\ HasRoom(p))
     /\ Refuse(s)

ServeRegister(s) ==
  \/ RegisterRejected(s, Me, MyName) /\ Reply(s, Msg("error", NoCode))
  \/ \E o \in Objs : Register(s, Me, MyName, o) /\ Reply(s, Msg("registered", NoCode))

ServeCreate(s) ==
  \/ \E p \in Codes : HandleCreateParty(s, p) /\ Reply(s, Msg("created", p))
  \/ (cl[s] = NoObj \/ code[cl[s]] # NoCode) /\ Refuse(s)

ServeLeave(s) ==
  \/ /\ HandleLeaveParty(s)
     /\ IF code[cl[s]] \in parties THEN Reply(s, Msg("left", NoCode)) ELSE UNCHANGED inbox
  \/ (cl[s] = NoObj \/ code[cl[s]] = NoCode) /\ Refuse(s)

\* HandleConnection reads the next frame of s and handles it.
Serve(s) ==
  LET m == Head(out[s]) IN
  /\ Serving(s)
  /\ out[s] # <<>>
  /\ out' = [out EXCEPT ![s] = Tail(@)]
  /\ \/ m.type = "register" /\ ServeRegister(s)
     \/ m.type = "create" /\ ServeCreate(s)
     \/ m.type = "join" /\ Admit(s, m.code)
     \/ m.type = "leave" /\ ServeLeave(s)
     \/ m.type = "accept" /\ (Admit(s, m.code) \/ Refuse(s))
  /\ UNCHANGED <<clientVars, tell, deleted>>

\* The goroutine's read fails, and what was still on the way is lost.
ServerDrops(s) ==
  \/ /\ ReadFails(s)
     /\ out' = [out EXCEPT ![s] = <<>>]
     /\ UNCHANGED <<clientVars, inbox, tell, deleted>>
  \/ FinishDisconnect(s) /\ UNCHANGED <<clientVars, wireVars>>

\* DeleteParty under h.mu; the members are told after it was released.
AdminDeletes(p) ==
  LET told == {s \in Sessions : \E o \in members[p] : info[o].conn = s}
  IN /\ DeleteParty(p)
     /\ ~deleted    \* bound of the model: one deletion
     /\ tell' = told
     /\ deleted' = TRUE
     /\ UNCHANGED <<clientVars, out, inbox>>

TellPartyLeft(s) ==
  /\ s \in tell
  /\ Reply(s, Msg("left", NoCode))
  /\ tell' = tell \ {s}
  /\ UNCHANGED <<vars, clientVars, out, deleted>>

\* Other players, with clients of their own.
OtherPlayer(cn) ==
  /\ \/ Open(cn)
     \/ \E i \in Ids \ {Me}, n \in Names : RegisterRejected(cn, i, n)
     \/ \E i \in Ids \ {Me}, n \in Names, o \in Objs : Register(cn, i, n, o)
     \/ ReadFails(cn)
     \/ FinishDisconnect(cn)
     \/ \E p \in Codes : HandleCreateParty(cn, p) \/ HandleJoinParty(cn, p)
     \/ HandleLeaveParty(cn)
  /\ UNCHANGED <<clientVars, wireVars>>

-----------------------------------------------------------------------------
Connecting(s) ==
  BeginConnect(s) \/ Dial(s) \/ DialFails(s) \/ SendRegister(s)
    \/ RegisterSendFails(s) \/ Publish(s) \/ OnDisconnected(s)

Calling(s) ==
  \/ CreateCentralParty(s) \/ LeaveCentralParty(s)
  \/ \E p \in Codes : AcceptPartyInvite(s, p)
  \/ \E j \in Joins, p \in Codes : JoinCentralParty(s, j, p)

Joining(j) ==
  SendJoin(j) \/ SendJoinFails(j) \/ EnterSelect(j) \/ JoinAnswered(j) \/ JoinTimesOut(j)

Reading(s) ==
  \/ ReadError(s) \/ HandleMessage(s) \/ EventHandler(s) \/ ReaderLeaves(s) \/ ReaderDone(s)

SessionNext ==
  \/ \E s \in Sessions :
       \/ Connecting(s) \/ Calling(s) \/ Reading(s)
       \/ Serve(s) \/ ServerDrops(s) \/ TellPartyLeft(s)
  \/ DisconnectFromPartyServer
  \/ \E j \in Joins : Joining(j)
  \/ \E cn \in Conns \ Sessions : OtherPlayer(cn)
  \/ \E p \in Codes : AdminDeletes(p)

SessionSpec == SessionInit /\ [][SessionNext]_allVars

-----------------------------------------------------------------------------
(* Properties *)

\* The reader never blocks while it holds c.mu: the channel filed in
\* c.joinResponse is empty, whatever calls overlapped, timed out or failed.
\* (A blocked reader would stop every call of the client, Disconnect too.)
ReaderNeverBlocks ==
  \A s \in Sessions : obj[s].join # NoJoin => buf[obj[s].join] = "empty"

\* The inductive invariant behind it (PartySessionProofs): a channel is filed
\* by the call that made it and by no other client, and is empty while filed.
JoinInv ==
  /\ SessionTypeOK
  /\ ReaderNeverBlocks
  /\ \A j \in Joins :
       /\ call[j].pc = "idle" => buf[j] = "empty" /\ \A s \in Sessions : obj[s].join # j
       /\ call[j].pc \in {"locked", "sent", "waiting"} => call[j].on \in Sessions
  /\ \A s, t \in Sessions : obj[s].join = obj[t].join /\ s # t => obj[s].join = NoJoin

\* Nothing of s is under way.
Settled(s) ==
  /\ At(s, "reading") /\ obj[s].conn = "set" /\ st[s] = "open"
  /\ out[s] = <<>> /\ inbox[s] = <<>>
  /\ s \notin tell /\ notices = {}

\* No other connection of this client has been made.
Alone(s) == \A t \in Sessions \ {s} : st[t] = "unopened"

\* Application, client and server agree on the party once nothing is under
\* way: the party shown is the one the server has the client in.  The other
\* direction needs that no administrator deleted a party: the late party_left
\* of DeleteParty may overtake an invitation accepted in between.
Agreement ==
  \A s \in Sessions : Settled(s) /\ Alone(s) =>
    LET there == IF cl[s] = NoObj THEN NoCode ELSE code[cl[s]] IN
    /\ app.party = obj[s].party
    /\ app.registered = obj[s].registered
    /\ obj[s].registered => cl[s] # NoObj
    /\ obj[s].party # NoCode => obj[s].party = there
    /\ ~deleted => obj[s].party = there

\* When no reader is left, the application shows neither a registration nor a
\* party: an event that lands after Disconnect is undone by the reader's own end.
NoGhostParty ==
  (\A s \in Sessions : reader[s] \in {"none", "done"})
    => ~app.registered /\ app.party = NoCode

(* What the code's own comments say and the code does not keep. *)

\* "A rejected registration also closes the connection so the client returns to
\* a clean disconnected state and can retry with a different name" (hub.go):
\* when the client has read the rejection and its reader has ended, a new
\* ConnectToPartyServer is possible.  Violated: the reader may end before
\* ConnectToPartyServer sets the flag.
RejectedCanRetry ==
  \A s \in refused :
    dial[s] = "done" /\ reader[s] = "done" /\ notices = {} => ~app.connected

=============================================================================
