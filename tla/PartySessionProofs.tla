-------------------------- MODULE PartySessionProofs --------------------------
(* Theorems about PartySession, for every value of its constants. *)
EXTENDS PartySession, PartyHubProofs

USE PartySessionAssumption

-----------------------------------------------------------------------------
(* The composition implements the hub. *)

\* What the server does with one frame is a step of the hub or leaves it alone.
LEMMA ServeRefinesHub ==
  ASSUME TypeOK, NEW s \in Sessions, Serve(s)
  PROVE  Next \/ UNCHANGED vars
  <1> s \in Conns
    OBVIOUS
  <1>1. ASSUME NEW p, HandleJoinParty(s, p) PROVE Next
    <2>1. p \in Codes
      BY <1>1 DEF HandleJoinParty, TypeOK
    <2> QED
      BY <1>1, <2>1 DEF Next, ConnNext
  <1>2. ASSUME NEW p, Admit(s, p) PROVE Next \/ UNCHANGED vars
    BY <1>1, <1>2 DEF Admit, Refuse
  <1>3. CASE ServeRegister(s)
    BY <1>3 DEF ServeRegister, Next, ConnNext
  <1>4. CASE ServeCreate(s)
    BY <1>4 DEF ServeCreate, Refuse, Next, ConnNext
  <1>5. CASE ServeLeave(s)
    BY <1>5 DEF ServeLeave, Refuse, Next, ConnNext
  <1> QED
    BY <1>2, <1>3, <1>4, <1>5 DEF Serve, Refuse

\* So is every step of the composition.
LEMMA SessionStepRefinesHub == TypeOK /\ [SessionNext]_allVars => [Next]_vars
  <1> SUFFICES ASSUME TypeOK, [SessionNext]_allVars PROVE Next \/ UNCHANGED vars
    OBVIOUS
  <1>1. ASSUME NEW s \in Sessions, Connecting(s) PROVE Next \/ UNCHANGED vars
    <2> s \in Conns
      OBVIOUS
    <2>1. CASE Dial(s)
      BY <2>1 DEF Dial, Next, ConnNext
    <2> QED
      BY <1>1, <2>1 DEF Connecting, BeginConnect, DialFails, SendRegister,
         RegisterSendFails, Publish, OnDisconnected
  <1>2. ASSUME NEW s \in Sessions, Calling(s) PROVE UNCHANGED vars
    BY <1>2 DEF Calling, CreateCentralParty, LeaveCentralParty, AcceptPartyInvite,
       Request, JoinCentralParty
  <1>3. ASSUME NEW s \in Sessions, Reading(s) PROVE UNCHANGED vars
    BY <1>3 DEF Reading, ReadError, HandleMessage, EventHandler, ReaderLeaves, ReaderDone
  <1>4. ASSUME NEW s \in Sessions, Serve(s) PROVE Next \/ UNCHANGED vars
    BY <1>4, ServeRefinesHub
  <1>5. ASSUME NEW s \in Sessions, ServerDrops(s) PROVE Next
    BY <1>5 DEF ServerDrops, Next, ConnNext
  <1>6. ASSUME NEW s \in Sessions, TellPartyLeft(s) PROVE UNCHANGED vars
    BY <1>6 DEF TellPartyLeft
  <1>7. CASE DisconnectFromPartyServer
    BY <1>7 DEF DisconnectFromPartyServer
  <1>8. ASSUME NEW j \in Joins, Joining(j) PROVE UNCHANGED vars
    BY <1>8 DEF Joining, SendJoin, SendJoinFails, EnterSelect, JoinAnswered, JoinTimesOut
  <1>9. ASSUME NEW cn \in Conns \ Sessions, OtherPlayer(cn) PROVE Next
    BY <1>9 DEF OtherPlayer, Next, ConnNext
  <1>10. ASSUME NEW p \in Codes, AdminDeletes(p) PROVE Next
    BY <1>10 DEF AdminDeletes, Next, AdminNext
  <1> QED
    BY <1>1, <1>2, <1>3, <1>4, <1>5, <1>6, <1>7, <1>8, <1>9, <1>10 DEF SessionNext, allVars

\* Whatever the clients send, in whatever order and however the sockets fail,
\* the server at the other end behaves as the hub of PartyHub.
THEOREM SessionImplementsHub == SessionSpec => Spec
  <1>1. SessionInit => Init
    BY DEF SessionInit
  <1>2. TypeOK /\ [SessionNext]_allVars => TypeOK'
    BY SessionStepRefinesHub, TypeNext
  <1> QED
    BY <1>1, <1>2, SessionStepRefinesHub, TypeInit, PTL DEF SessionSpec, Spec

\* In particular parties and objects agree (MembersAgree), as they do there.
THEOREM SessionMembersAgree == SessionSpec => []MembersAgree
  BY SessionImplementsHub, MembersAlwaysAgree, PTL

-----------------------------------------------------------------------------
(* Type correctness. *)

\* The variables of this module keep their types, PartyHub's apart.
SessionTypes ==
  /\ obj \in [Sessions -> Client]
  /\ reader \in [Sessions -> {"none", "reading", "event",
                              "leaving", "notify", "done"}]
  /\ hand \in [Sessions -> Message]
  /\ dial \in [Sessions -> {"idle", "dialing", "dialed", "sent", "failed", "done"}]
  /\ call \in [Joins -> JoinCall]
  /\ buf \in [Joins -> {"empty", "full"}]
  /\ app \in AppState
  /\ notices \in SUBSET Sessions
  /\ refused \in SUBSET Sessions

WireTypes ==
  /\ out \in [Sessions -> Seq(Message)]
  /\ inbox \in [Sessions -> Seq(Message)]
  /\ \A s \in Sessions : Len(out[s]) <= MaxQueue /\ Len(inbox[s]) <= MaxQueue
  /\ tell \in SUBSET Sessions
  /\ deleted \in BOOLEAN

LEMMA SessionTypeParts == SessionTypeOK <=> TypeOK /\ SessionTypes /\ WireTypes
  BY DEF SessionTypeOK, SessionTypes, WireTypes

LEMMA MessageType ==
  ASSUME NEW type \in {"none", "register", "create", "join", "leave", "accept",
                       "registered", "created", "joined", "left", "error"},
         NEW p \in Codes \cup {NoCode}
  PROVE  Msg(type, p) \in Message
  BY DEF Msg, Message

LEMMA ClearedType == app \in AppState => Cleared(app) \in AppState
  BY DEF AppState, Cleared

\* What the client and the application make of a message.
LEMMA AppliedType ==
  ASSUME NEW c \in Client, NEW m \in Message
  PROVE  /\ Applied(c, m) \in Client
         /\ Applied(c, m).join \in {c.join, NoJoin}
         /\ Answers(m) => Applied(c, m).join = NoJoin
  BY DEF Client, Message, Applied, Answers

LEMMA ShownType ==
  ASSUME NEW a \in AppState, NEW m \in Message, 
         m.type \in {"created", "joined"} => m.code \in Codes \cup {NoCode}
  PROVE  Shown(a, m) \in AppState
  BY DEF AppState, Message, Shown

\* A full queue takes no frame, so the bound holds.
LEMMA ReplyType ==
  ASSUME WireTypes, NEW s \in Sessions, NEW m \in Message, Reply(s, m)
  PROVE  /\ inbox' \in [Sessions -> Seq(Message)]
         /\ \A t \in Sessions : Len(inbox'[t]) <= MaxQueue
  BY DEF WireTypes, Reply

LEMMA SendType ==
  ASSUME WireTypes, NEW s \in Sessions, NEW m \in Message, CanSend(s), Send(s, m)
  PROVE  /\ out' \in [Sessions -> Seq(Message)]
         /\ \A t \in Sessions : Len(out'[t]) <= MaxQueue
  BY DEF WireTypes, CanSend, Send

LEMMA WireFrame == WireTypes /\ UNCHANGED wireVars => WireTypes'
  BY DEF WireTypes, wireVars

\* What the steps do to one client, and to one call.
LEMMA ClientUpdates ==
  ASSUME NEW c \in Client
  PROVE  /\ [c EXCEPT !.conn = "set", !.connected = TRUE] \in Client
         /\ [c EXCEPT !.conn = "nil", !.connected = FALSE,
                      !.registered = FALSE, !.party = NoCode] \in Client
         /\ [c EXCEPT !.connected = FALSE, !.registered = FALSE] \in Client
  BY DEF Client

LEMMA CallUpdates ==
  ASSUME NEW c \in JoinCall, NEW ch \in Joins \cup {NoJoin}
  PROVE  /\ [c EXCEPT !.pc = "sent", !.to = NoCode] \in JoinCall
         /\ [c EXCEPT !.pc = "waiting", !.chan = ch] \in JoinCall
  BY DEF JoinCall

LEMMA ClientDisconnectTypes ==
  ASSUME SessionTypes, NEW s \in Sessions, ClientDisconnect(s)
  PROVE  obj' \in [Sessions -> Client] /\ notices' \in SUBSET Sessions
  <1>1. obj \in [Sessions -> Client] /\ notices \in SUBSET Sessions
    BY DEF SessionTypes
  <1>2. CASE obj[s].connected
    <2> DEFINE new == [obj[s] EXCEPT !.conn = "nil", !.connected = FALSE,
                                     !.registered = FALSE, !.party = NoCode]
    <2>1. obj[s] \in Client
      BY <1>1
    <2>2. new \in Client
      BY <2>1, ClientUpdates
    <2>3. obj' = [obj EXCEPT ![s] = new] /\ notices' = notices \cup {s}
      BY <1>2 DEF ClientDisconnect
    <2> HIDE DEF new
    <2> QED
      BY <1>1, <2>2, <2>3
  <1>3. CASE ~obj[s].connected
    BY <1>1, <1>3 DEF ClientDisconnect
  <1> QED
    BY <1>2, <1>3

\* Connecting and disconnecting.
LEMMA ConnectTypes ==
  ASSUME TypeOK, SessionTypes, WireTypes, NEW s \in Sessions, Connecting(s)
  PROVE  SessionTypes' /\ WireTypes'
  <1>1. CASE BeginConnect(s) \/ DialFails(s)
    BY <1>1, WireFrame DEF BeginConnect, DialFails, SessionTypes
  <1>2. CASE Dial(s)
    <2>1. obj' \in [Sessions -> Client]
      BY <1>2, ClientUpdates DEF Dial, SessionTypes
    <2> QED
      BY <1>2, <2>1, WireFrame DEF Dial, SessionTypes
  <1>3. CASE SendRegister(s)
    BY <1>3, SendType, MessageType DEF SendRegister, SessionTypes, WireTypes
  <1>4. CASE RegisterSendFails(s)
    <2>1. obj' \in [Sessions -> Client] /\ notices' \in SUBSET Sessions
      BY <1>4, ClientDisconnectTypes DEF RegisterSendFails
    <2> QED
      BY <1>4, <2>1, WireFrame DEF RegisterSendFails, SessionTypes
  <1>5. CASE Publish(s)
    <2>1. app' \in AppState
      BY <1>5 DEF Publish, SessionTypes, AppState
    <2> QED
      BY <1>5, <2>1, WireFrame DEF Publish, SessionTypes
  <1>6. CASE OnDisconnected(s)
    BY <1>6, ClearedType, WireFrame DEF OnDisconnected, SessionTypes
  <1> QED
    BY <1>1, <1>2, <1>3, <1>4, <1>5, <1>6 DEF Connecting

LEMMA DisconnectTypes ==
  ASSUME SessionTypes, WireTypes, DisconnectFromPartyServer
  PROVE  SessionTypes' /\ WireTypes'
  <1>1. app.client \in Sessions
    BY DEF DisconnectFromPartyServer, SessionTypes, AppState
  <1>2. obj' \in [Sessions -> Client] /\ notices' \in SUBSET Sessions
    BY <1>1, ClientDisconnectTypes DEF DisconnectFromPartyServer
  <1>3. app' \in AppState
    <2>1. app \in AppState
      BY DEF SessionTypes
    <2> QED
      BY <2>1 DEF DisconnectFromPartyServer, Cleared, AppState
  <1> QED
    BY <1>2, <1>3, WireFrame DEF DisconnectFromPartyServer, SessionTypes

\* Calls of the interface.
LEMMA RequestTypes ==
  ASSUME SessionTypes, WireTypes, NEW s \in Sessions, NEW p \in Codes \cup {NoCode},
         NEW type \in {"create", "leave", "accept"}, Request(s, type, p)
  PROVE  SessionTypes' /\ WireTypes'
  <1>1. Msg(type, p) \in Message
    BY MessageType
  <1> QED
    BY <1>1, SendType DEF Request, clientVars, SessionTypes, WireTypes

LEMMA CallTypes ==
  ASSUME SessionTypes, WireTypes, NEW s \in Sessions, Calling(s)
  PROVE  SessionTypes' /\ WireTypes'
  <1>1. CASE CreateCentralParty(s) \/ LeaveCentralParty(s)
    BY <1>1, RequestTypes DEF CreateCentralParty, LeaveCentralParty
  <1>2. ASSUME NEW p \in Codes, AcceptPartyInvite(s, p) PROVE SessionTypes' /\ WireTypes'
    BY <1>2, RequestTypes DEF AcceptPartyInvite
  <1>3. ASSUME NEW j \in Joins, NEW p \in Codes, JoinCentralParty(s, j, p)
        PROVE  SessionTypes' /\ WireTypes'
    <2>1. obj' \in [Sessions -> Client]
      BY <1>3 DEF JoinCentralParty, SessionTypes, Client
    <2>2. call' \in [Joins -> JoinCall]
      BY <1>3 DEF JoinCentralParty, SessionTypes, JoinCall
    <2> QED
      BY <1>3, <2>1, <2>2, WireFrame DEF JoinCentralParty, SessionTypes
  <1> QED
    BY <1>1, <1>2, <1>3 DEF Calling

\* JoinParty after its lock section; the session it is on is known.
LEMMA JoiningTypes ==
  ASSUME SessionTypes, WireTypes, NEW j \in Joins, Joining(j), call[j].on \in Sessions
  PROVE  SessionTypes' /\ WireTypes'
  <1>1. call[j] \in JoinCall /\ AtRest("returned") \in JoinCall
    BY DEF SessionTypes, JoinCall, AtRest
  <1>2. CASE SendJoin(j)
    <2>1. Msg("join", call[j].to) \in Message
      BY <1>1, MessageType DEF JoinCall
    <2>2. call' \in [Joins -> JoinCall]
      BY <1>1, <1>2, CallUpdates DEF SendJoin, SessionTypes
    <2> QED
      BY <1>2, <2>1, <2>2, SendType DEF SendJoin, SessionTypes, WireTypes
  <1>3. CASE SendJoinFails(j) \/ JoinTimesOut(j)
    <2>3. PICK c \in Client : c = [obj[call[j].on] EXCEPT !.join = NoJoin]
      <3>1. obj[call[j].on] \in Client
        BY DEF SessionTypes
      <3> QED
        BY <3>1 DEF Client
    <2>4. obj' = [obj EXCEPT ![call[j].on] = c]
      BY <1>3, <2>3 DEF SendJoinFails, JoinTimesOut
    <2>1. obj' \in [Sessions -> Client]
      BY <2>4 DEF SessionTypes
    <2>2. call' \in [Joins -> JoinCall]
      BY <1>1, <1>3 DEF SendJoinFails, JoinTimesOut, SessionTypes
    <2> QED
      BY <1>3, <2>1, <2>2, WireFrame DEF SendJoinFails, JoinTimesOut, SessionTypes
  <1>4. CASE EnterSelect(j)
    <2>1. obj[call[j].on].join \in Joins \cup {NoJoin}
      BY DEF SessionTypes, Client
    <2>2. call' \in [Joins -> JoinCall]
      BY <1>1, <1>4, <2>1, CallUpdates DEF EnterSelect, SessionTypes
    <2> QED
      BY <1>4, <2>2, WireFrame DEF EnterSelect, SessionTypes
  <1>5. CASE JoinAnswered(j)
    BY <1>1, <1>5, WireFrame DEF JoinAnswered, SessionTypes
  <1> QED
    BY <1>2, <1>3, <1>4, <1>5 DEF Joining

\* The reader goroutine.
LEMMA ReaderTypes ==
  ASSUME SessionTypes, WireTypes, NEW s \in Sessions, Reading(s)
  PROVE  SessionTypes' /\ WireTypes'
  <1>1. CASE ReadError(s)
    BY <1>1, WireFrame DEF ReadError, Goto, SessionTypes
  <1>2. CASE HandleMessage(s)
    <2> DEFINE m == Head(inbox[s])
    <2>1. m \in Message /\ inbox' \in [Sessions -> Seq(Message)]
      BY <1>2 DEF HandleMessage, WireTypes
    <2>2. \A r \in Sessions : Len(inbox'[r]) <= MaxQueue
      BY <1>2 DEF HandleMessage, WireTypes
    <2>3. obj[s] \in Client /\ Applied(obj[s], m) \in Client
      BY <2>1, AppliedType DEF SessionTypes
    <2>4. obj' \in [Sessions -> Client]
      BY <1>2, <2>3 DEF HandleMessage, SessionTypes
    <2>5. hand' \in [Sessions -> Message]
      BY <1>2, <2>1 DEF HandleMessage, SessionTypes
    <2>6. reader' \in [Sessions -> {"none", "reading", "event", "leaving", "notify", "done"}]
      BY <1>2 DEF HandleMessage, Goto, SessionTypes
    <2>7. buf' \in [Joins -> {"empty", "full"}] /\ refused' \in SUBSET Sessions
      BY <1>2 DEF HandleMessage, SessionTypes
    <2> QED
      BY <1>2, <2>1, <2>2, <2>4, <2>5, <2>6, <2>7 DEF HandleMessage, SessionTypes, WireTypes
  <1>3. CASE EventHandler(s)
    <2>1. hand[s] \in Message /\ app \in AppState
      BY DEF SessionTypes
    <2>2. Shown(app, hand[s]) \in AppState /\ NoMsg \in Message
      BY <2>1, ShownType, MessageType DEF Message, NoMsg
    <2> QED
      BY <1>3, <2>2, WireFrame DEF EventHandler, Goto, SessionTypes
  <1>4. CASE ReaderLeaves(s)
    <2>1. obj' \in [Sessions -> Client]
      BY <1>4, ClientUpdates DEF ReaderLeaves, SessionTypes
    <2>2. inbox' \in [Sessions -> Seq(Message)] /\ \A r \in Sessions : Len(inbox'[r]) <= MaxQueue
      BY <1>4 DEF ReaderLeaves, WireTypes
    <2> QED
      BY <1>4, <2>1, <2>2 DEF ReaderLeaves, Goto, SessionTypes, WireTypes
  <1>5. CASE ReaderDone(s)
    BY <1>5, ClearedType, WireFrame DEF ReaderDone, Goto, SessionTypes
  <1> QED
    BY <1>1, <1>2, <1>3, <1>4, <1>5 DEF Reading

\* The server's side.
LEMMA ServerTypes ==
  ASSUME SessionTypes, WireTypes, NEW s \in Sessions,
         Serve(s) \/ ServerDrops(s) \/ TellPartyLeft(s)
  PROVE  SessionTypes' /\ WireTypes'
  <1>1. CASE Serve(s)
    <2>0. Head(out[s]) \in Message
      BY <1>1 DEF Serve, WireTypes
    <2>1. Head(out[s]).code \in Codes \cup {NoCode}
      BY <2>0 DEF Message
    <2>2. \/ UNCHANGED inbox
          \/ \E m \in Message : Reply(s, m)
      BY <1>1, <2>1, MessageType
         DEF Serve, ServeRegister, ServeCreate, ServeLeave, Admit, Refuse
    <2>3. inbox' \in [Sessions -> Seq(Message)] /\ \A r \in Sessions : Len(inbox'[r]) <= MaxQueue
      BY <2>2, ReplyType DEF WireTypes
    <2>4. out' \in [Sessions -> Seq(Message)] /\ \A r \in Sessions : Len(out'[r]) <= MaxQueue
      BY <1>1 DEF Serve, WireTypes
    <2> QED
      BY <1>1, <2>3, <2>4 DEF Serve, clientVars, SessionTypes, WireTypes
  <1>2. CASE ServerDrops(s)
    <2>1. SessionTypes'
      BY <1>2 DEF ServerDrops, clientVars, SessionTypes
    <2>2. CASE FinishDisconnect(s) /\ UNCHANGED wireVars
      BY <2>1, <2>2, WireFrame
    <2>3. CASE out' = [out EXCEPT ![s] = <<>>] /\ UNCHANGED <<inbox, tell, deleted>>
      <3>1. out' \in [Sessions -> Seq(Message)]
        BY <2>3 DEF WireTypes
      <3>2. \A r \in Sessions : Len(out'[r]) <= MaxQueue
        BY <2>3 DEF WireTypes
      <3> QED
        BY <2>1, <2>3, <3>1, <3>2 DEF WireTypes
    <2> QED
      BY <1>2, <2>2, <2>3 DEF ServerDrops
  <1>3. CASE TellPartyLeft(s)
    BY <1>3, ReplyType, MessageType DEF TellPartyLeft, clientVars, SessionTypes, WireTypes
  <1> QED
    BY <1>1, <1>2, <1>3

LEMMA SessionTypesInit == SessionInit => SessionTypes /\ WireTypes
  <1> SUFFICES ASSUME SessionInit PROVE SessionTypes /\ WireTypes
    OBVIOUS
  <1>1. obj \in [Sessions -> Client] /\ app \in AppState
    BY DEF SessionInit, Client, AppState
  <1>2. call \in [Joins -> JoinCall]
    BY DEF SessionInit, JoinCall, AtRest
  <1>3. hand \in [Sessions -> Message]
    BY MessageType DEF SessionInit, NoMsg
  <1>4. SessionTypes
    BY <1>1, <1>2, <1>3 DEF SessionInit, SessionTypes
  <1>5. Len(<<>>) = 0 /\ <<>> \in Seq(Message) /\ 0 <= MaxQueue
    OBVIOUS
  <1>6. WireTypes
    BY <1>5 DEF SessionInit, WireTypes
  <1> QED
    BY <1>4, <1>6

LEMMA TellTypes == 
  ASSUME WireTypes, NEW p \in Codes, AdminDeletes(p)
  PROVE  WireTypes'
  BY DEF AdminDeletes, WireTypes

LEMMA SessionFrame ==
  ASSUME SessionTypes, WireTypes, UNCHANGED <<clientVars, wireVars>>
  PROVE  SessionTypes' /\ WireTypes'
  BY WireFrame DEF SessionTypes, clientVars

LEMMA SessionTypeNext == JoinInv /\ [SessionNext]_allVars => SessionTypeOK'
  <1> SUFFICES ASSUME JoinInv, [SessionNext]_allVars PROVE SessionTypeOK'
    OBVIOUS
  <1>1. TypeOK /\ SessionTypes /\ WireTypes
    BY SessionTypeParts DEF JoinInv
  <1>2. TypeOK'
    BY <1>1, SessionStepRefinesHub, TypeNext
  <1>3. SessionTypes' /\ WireTypes'
    <2>1. ASSUME NEW s \in Sessions, Connecting(s) \/ Calling(s) \/ Reading(s)
          PROVE  SessionTypes' /\ WireTypes'
      BY <1>1, <2>1, ConnectTypes, CallTypes, ReaderTypes
    <2>2. ASSUME NEW s \in Sessions, Serve(s) \/ ServerDrops(s) \/ TellPartyLeft(s)
          PROVE  SessionTypes' /\ WireTypes'
      BY <1>1, <2>2, ServerTypes
    <2>3. CASE DisconnectFromPartyServer
      BY <1>1, <2>3, DisconnectTypes
    <2>4. ASSUME NEW j \in Joins, Joining(j) PROVE SessionTypes' /\ WireTypes'
      <3>1. call[j].pc \in {"locked", "sent", "waiting"}
        BY <2>4 DEF Joining, SendJoin, SendJoinFails, EnterSelect, JoinAnswered, JoinTimesOut
      <3>2. call[j].on \in Sessions
        BY <3>1 DEF JoinInv
      <3> QED
        BY <1>1, <2>4, <3>2, JoiningTypes
    <2>5. ASSUME NEW cn \in Conns \ Sessions, OtherPlayer(cn)
          PROVE  SessionTypes' /\ WireTypes'
      BY <1>1, <2>5, SessionFrame DEF OtherPlayer
    <2>6. ASSUME NEW p \in Codes, AdminDeletes(p) PROVE SessionTypes' /\ WireTypes'
      <3>1. SessionTypes'
        BY <1>1, <2>6 DEF AdminDeletes, clientVars, SessionTypes
      <3> QED
        BY <1>1, <2>6, <3>1, TellTypes
    <2>7. CASE UNCHANGED allVars
      BY <1>1, <2>7, SessionFrame DEF allVars
    <2> QED
      BY <2>1, <2>2, <2>3, <2>4, <2>5, <2>6, <2>7 DEF SessionNext
  <1> QED
    BY <1>2, <1>3 DEF SessionTypeOK, SessionTypes, WireTypes

-----------------------------------------------------------------------------
(* The pending join. *)

\* Filing nothing new, filling no channel and ending calls keeps JoinInv.
LEMMA JoinFrame ==
  ASSUME JoinInv, SessionTypeOK',
         \A s \in Sessions : obj'[s].join \in {obj[s].join, NoJoin},
         \A j \in Joins : buf'[j] \in {buf[j], "empty"},
         \A j \in Joins : call'[j].pc = "idle" => call[j].pc = "idle",
         \A j \in Joins : call'[j].pc \in {"locked", "sent", "waiting"} => call'[j].on \in Sessions
  PROVE  JoinInv'
  BY DEF JoinInv, ReaderNeverBlocks, SessionTypeOK, Client

LEMMA JoinInvInit == SessionInit => JoinInv
  <1> SUFFICES ASSUME SessionInit PROVE JoinInv
    OBVIOUS
  <1>1. SessionTypeOK
    BY SessionTypesInit, SessionTypeParts, TypeInit DEF SessionInit
  <1>2. \A s \in Sessions : obj[s].join = NoJoin
    BY DEF SessionInit
  <1>3. \A j \in Joins : call[j].pc = "idle" /\ buf[j] = "empty"
    BY DEF SessionInit, AtRest
  <1> QED
    BY <1>1, <1>2, <1>3 DEF JoinInv, ReaderNeverBlocks

\* The two steps JoinFrame leaves: a new call files its own, empty channel ...
LEMMA JoinFiled ==
  ASSUME JoinInv, SessionTypeOK', NEW s \in Sessions, NEW j \in Joins, NEW p \in Codes,
         JoinCentralParty(s, j, p)
  PROVE  JoinInv'
  <1>1. /\ obj'[s].join = j
        /\ \A t \in Sessions \ {s} : obj'[t] = obj[t]
        /\ buf' = buf
    BY DEF JoinCentralParty, JoinInv, SessionTypeOK, Client
  <1>2. /\ call'[j].pc = "locked" /\ call'[j].on = s
        /\ \A k \in Joins \ {j} : call'[k] = call[k]
    BY DEF JoinCentralParty, JoinInv, SessionTypeOK
  <1>3. buf[j] = "empty" /\ \A t \in Sessions : obj[t].join # j
    BY DEF JoinCentralParty, JoinInv
  <1>4. ReaderNeverBlocks'
    BY <1>1, <1>3 DEF JoinInv, ReaderNeverBlocks
  <1>5. \A k \in Joins :
          /\ call'[k].pc = "idle" => buf'[k] = "empty" /\ \A t \in Sessions : obj'[t].join # k
          /\ call'[k].pc \in {"locked", "sent", "waiting"} => call'[k].on \in Sessions
    BY <1>1, <1>2, <1>3 DEF JoinInv
  <1>6. \A t, u \in Sessions :
          obj'[t].join = obj'[u].join /\ t # u => obj'[t].join = NoJoin
    BY <1>1, <1>3 DEF JoinInv
  <1> QED
    BY <1>4, <1>5, <1>6 DEF JoinInv

\* ... and an answer fills the channel as it takes it off the client.
LEMMA JoinTaken ==
  ASSUME JoinInv, SessionTypeOK', NEW s \in Sessions, HandleMessage(s)
  PROVE  JoinInv'
  <1> DEFINE m == Head(inbox[s])
             ch == obj[s].join
  <1>1. m \in Message /\ obj[s] \in Client
    BY DEF HandleMessage, JoinInv, SessionTypeOK
  <1>2. /\ obj'[s] = Applied(obj[s], m)
        /\ \A t \in Sessions \ {s} : obj'[t] = obj[t]
        /\ call' = call
    BY DEF HandleMessage, JoinInv, SessionTypeOK
  <1>3. /\ obj'[s].join \in {ch, NoJoin}
        /\ Answers(m) => obj'[s].join = NoJoin
    BY <1>1, <1>2, AppliedType
  <1>4. CASE UNCHANGED buf
    BY <1>2, <1>3, <1>4, JoinFrame DEF JoinInv
  <1>5. CASE Answers(m) /\ ch # NoJoin /\ buf' = [buf EXCEPT ![ch] = "full"]
    <2>0. \A t \in Sessions : obj'[t].join # ch
      <3>1. obj'[s].join # ch
        BY <1>3, <1>5
      <3>2. ASSUME NEW t \in Sessions \ {s} PROVE obj'[t].join # ch
        <4>1. obj[t].join # ch
          BY <1>5 DEF JoinInv
        <4> QED
          BY <1>2, <4>1
      <3> QED
        BY <3>1, <3>2
    <2>1. /\ \A t \in Sessions : obj'[t].join # ch
          /\ \A k \in Joins \ {ch} : buf'[k] = buf[k]
      BY <1>5, <2>0 DEF JoinInv, SessionTypeOK
    <2>2. \A t \in Sessions : obj'[t].join \in {obj[t].join, NoJoin}
      BY <1>2, <1>3
    <2>3. ch \in Joins /\ call[ch].pc # "idle"
      BY <1>1, <1>5 DEF JoinInv, Client
    <2>4. ReaderNeverBlocks'
      <3> SUFFICES ASSUME NEW t \in Sessions, obj'[t].join # NoJoin
                   PROVE  buf'[obj'[t].join] = "empty"
        BY DEF ReaderNeverBlocks
      <3>1. obj'[t].join = obj[t].join /\ obj[t].join \in Joins \ {ch}
        BY <2>1, <2>2 DEF JoinInv, SessionTypeOK, Client
      <3> QED
        BY <2>1, <3>1 DEF JoinInv, ReaderNeverBlocks
    <2>5. \A k \in Joins :
            /\ call'[k].pc = "idle" => buf'[k] = "empty" /\ \A t \in Sessions : obj'[t].join # k
            /\ call'[k].pc \in {"locked", "sent", "waiting"} => call'[k].on \in Sessions
      <3> SUFFICES ASSUME NEW k \in Joins
                   PROVE  /\ call[k].pc = "idle" =>
                               buf'[k] = "empty" /\ \A t \in Sessions : obj'[t].join # k
                          /\ call[k].pc \in {"locked", "sent", "waiting"} => call[k].on \in Sessions
        BY <1>2
      <3>1. k # NoJoin
        OBVIOUS
      <3> QED
        BY <2>1, <2>2, <2>3, <3>1 DEF JoinInv
    <2>6. \A t, u \in Sessions :
            obj'[t].join = obj'[u].join /\ t # u => obj'[t].join = NoJoin
      BY <2>2 DEF JoinInv
    <2> QED
      BY <2>4, <2>5, <2>6 DEF JoinInv
  <1> QED
    BY <1>4, <1>5 DEF HandleMessage

\* No other step of a session files a channel or fills one.
LEMMA DisconnectKeepsJoin ==
  ASSUME SessionTypeOK, NEW s \in Sessions, ClientDisconnect(s)
  PROVE  \A t \in Sessions : obj'[t].join = obj[t].join
  <1>1. obj \in [Sessions -> Client] /\ obj[s] \in Client
    BY DEF SessionTypeOK
  <1>2. CASE obj[s].connected
    <2> DEFINE new == [obj[s] EXCEPT !.conn = "nil", !.connected = FALSE,
                                     !.registered = FALSE, !.party = NoCode]
    <2>1. new.join = obj[s].join
      BY <1>1 DEF Client
    <2>2. obj' = [obj EXCEPT ![s] = new]
      BY <1>2 DEF ClientDisconnect
    <2> HIDE DEF new
    <2> QED
      BY <1>1, <2>1, <2>2
  <1> QED
    BY <1>2 DEF ClientDisconnect

LEMMA ConnectKeepsJoin ==
  ASSUME JoinInv, SessionTypeOK', NEW s \in Sessions, Connecting(s)
  PROVE  JoinInv'
  <1>0. SessionTypeOK
    BY DEF JoinInv
  <1>1. call' = call /\ buf' = buf
    BY DEF Connecting, BeginConnect, Dial, DialFails, SendRegister, RegisterSendFails,
       Publish, OnDisconnected
  <1>2. \A t \in Sessions : obj'[t].join = obj[t].join
    <2>1. CASE Dial(s)
      BY <1>0, <2>1 DEF Dial, SessionTypeOK, Client
    <2>2. CASE RegisterSendFails(s)
      BY <1>0, <2>2, DisconnectKeepsJoin DEF RegisterSendFails
    <2> QED
      BY <2>1, <2>2 DEF Connecting, BeginConnect, DialFails, SendRegister, Publish, OnDisconnected
  <1> QED
    BY <1>1, <1>2, JoinFrame DEF JoinInv

LEMMA JoiningKeepsJoin ==
  ASSUME JoinInv, SessionTypeOK', NEW j \in Joins, Joining(j)
  PROVE  JoinInv'
  <1>0. SessionTypeOK /\ call[j].on \in Sessions
    BY DEF JoinInv, Joining, SendJoin, SendJoinFails, EnterSelect, JoinAnswered, JoinTimesOut
  <1>1. \A t \in Sessions : obj'[t].join \in {obj[t].join, NoJoin}
    <2>1. ASSUME obj' = [obj EXCEPT ![call[j].on].join = NoJoin]
          PROVE  \A t \in Sessions : obj'[t].join \in {obj[t].join, NoJoin}
      BY <1>0, <2>1 DEF SessionTypeOK, Client
    <2> QED
      BY <2>1 DEF Joining, SendJoin, SendJoinFails, EnterSelect, JoinAnswered, JoinTimesOut
  <1>2. \A k \in Joins : buf'[k] \in {buf[k], "empty"}
    BY <1>0 DEF Joining, SendJoin, SendJoinFails, EnterSelect, JoinAnswered, JoinTimesOut,
       SessionTypeOK
  <1>3. /\ call'[j].pc \in {"sent", "waiting", "returned"}
        /\ call'[j].pc # "returned" => call'[j].on = call[j].on
        /\ \A k \in Joins \ {j} : call'[k] = call[k]
    <2>1. call \in [Joins -> JoinCall] /\ call[j] \in JoinCall
      BY <1>0 DEF SessionTypeOK
    <2>2. CASE SendJoin(j)
      BY <2>1, <2>2 DEF SendJoin, JoinCall
    <2>3. CASE EnterSelect(j)
      BY <2>1, <2>3 DEF EnterSelect, JoinCall
    <2>4. CASE SendJoinFails(j) \/ JoinAnswered(j) \/ JoinTimesOut(j)
      BY <2>1, <2>4 DEF SendJoinFails, JoinAnswered, JoinTimesOut, AtRest
    <2> QED
      BY <2>2, <2>3, <2>4 DEF Joining
  <1> QED
    BY <1>0, <1>1, <1>2, <1>3, JoinFrame DEF JoinInv

LEMMA JoinInvNext == JoinInv /\ [SessionNext]_allVars => JoinInv'
  <1> SUFFICES ASSUME JoinInv, [SessionNext]_allVars PROVE JoinInv'
    OBVIOUS
  <1>1. SessionTypeOK /\ SessionTypeOK'
    BY SessionTypeNext DEF JoinInv
  <1>2. ASSUME UNCHANGED <<obj, buf, call>> PROVE JoinInv'
    BY <1>1, <1>2, JoinFrame DEF JoinInv
  <1>3. ASSUME NEW s \in Sessions, Connecting(s) PROVE JoinInv'
    BY <1>1, <1>3, ConnectKeepsJoin
  <1>4. ASSUME NEW s \in Sessions, Calling(s) PROVE JoinInv'
    <2>1. ASSUME NEW j \in Joins, NEW p \in Codes, JoinCentralParty(s, j, p) PROVE JoinInv'
      BY <1>1, <2>1, JoinFiled
    <2> QED
      BY <1>2, <1>4, <2>1 DEF Calling, CreateCentralParty, LeaveCentralParty,
         AcceptPartyInvite, Request, clientVars
  <1>5. ASSUME NEW s \in Sessions, Reading(s) PROVE JoinInv'
    <2>1. CASE HandleMessage(s)
      BY <1>1, <2>1, JoinTaken
    <2>2. CASE ReaderLeaves(s)
      <3>1. \A t \in Sessions : obj'[t].join = obj[t].join
        BY <1>1, <2>2 DEF ReaderLeaves, SessionTypeOK, Client
      <3> QED
        BY <1>1, <2>2, <3>1, JoinFrame DEF ReaderLeaves, JoinInv
    <2> QED
      BY <1>2, <1>5, <2>1, <2>2 DEF Reading, ReadError, EventHandler, ReaderDone
  <1>6. ASSUME NEW s \in Sessions, Serve(s) \/ ServerDrops(s) \/ TellPartyLeft(s) PROVE JoinInv'
    BY <1>2, <1>6 DEF Serve, ServerDrops, TellPartyLeft, clientVars
  <1>7. CASE DisconnectFromPartyServer
    <2>1. app.client \in Sessions
      BY <1>1, <1>7 DEF DisconnectFromPartyServer, SessionTypeOK, AppState
    <2>2. \A t \in Sessions : obj'[t].join = obj[t].join
      BY <1>1, <1>7, <2>1, DisconnectKeepsJoin DEF DisconnectFromPartyServer
    <2> QED
      BY <1>1, <1>7, <2>2, JoinFrame DEF DisconnectFromPartyServer, JoinInv
  <1>8. ASSUME NEW j \in Joins, Joining(j) PROVE JoinInv'
    BY <1>1, <1>8, JoiningKeepsJoin
  <1>9. CASE \/ \E cn \in Conns \ Sessions : OtherPlayer(cn)
             \/ \E p \in Codes : AdminDeletes(p)
             \/ UNCHANGED allVars
    BY <1>2, <1>9 DEF OtherPlayer, AdminDeletes, allVars, clientVars
  <1> QED
    BY <1>3, <1>4, <1>5, <1>6, <1>7, <1>8, <1>9 DEF SessionNext

\* A pending join's channel belongs to one call of one client and is empty.
THEOREM JoinInvariant == SessionSpec => []JoinInv
  BY JoinInvInit, JoinInvNext, PTL DEF SessionSpec

\* Every variable of the composition keeps its type.
THEOREM SessionTypeCorrect == SessionSpec => []SessionTypeOK
  <1>1. JoinInv => SessionTypeOK
    BY DEF JoinInv
  <1> QED
    BY <1>1, JoinInvariant, PTL

\* The reader never waits for room in a channel while it holds c.mu.
THEOREM ReaderNeverBlocksHolds == SessionSpec => []ReaderNeverBlocks
  <1>1. JoinInv => ReaderNeverBlocks
    BY DEF JoinInv
  <1> QED
    BY <1>1, JoinInvariant, PTL

-----------------------------------------------------------------------------
(* No party is shown when no reader is left. *)

\* What clears the application, and what leaves its registration and party alone.
LEMMA ClearedShowsNothing ==
  ASSUME app \in AppState
  PROVE  /\ ~Cleared(app).registered /\ Cleared(app).party = NoCode
         /\ ~[Cleared(app) EXCEPT !.client = NoSession].registered
         /\ [Cleared(app) EXCEPT !.client = NoSession].party = NoCode
         /\ \A s \in Sessions : [app EXCEPT !.client = s, !.connected = TRUE].registered = app.registered
         /\ \A s \in Sessions : [app EXCEPT !.client = s, !.connected = TRUE].party = app.party
  BY DEF Cleared, AppState

\* A step that ends no reader, and shows nothing more than before.
LEMMA GhostFrame ==
  ASSUME NoGhostParty,
         \A s \in Sessions : reader'[s] \in {"none", "done"} => reader[s] \in {"none", "done"},
         \/ app'.registered = app.registered /\ app'.party = app.party
         \/ ~app'.registered /\ app'.party = NoCode
  PROVE  NoGhostParty'
  BY DEF NoGhostParty

LEMMA GhostConnecting ==
  ASSUME SessionTypeOK, NoGhostParty, NEW s \in Sessions, Connecting(s)
  PROVE  NoGhostParty'
  <1>1. app \in AppState /\ reader \in [Sessions -> {"none", "reading", "event", "leaving", "notify", "done"}]
    BY DEF SessionTypeOK
  <1>2. CASE Dial(s)
    BY <1>1, <1>2, GhostFrame DEF Dial
  <1>3. CASE Publish(s)
    <2>1. app'.registered = app.registered /\ app'.party = app.party /\ reader' = reader
      BY <1>1, <1>3, ClearedShowsNothing DEF Publish
    <2> QED
      BY <2>1, GhostFrame
  <1>4. CASE OnDisconnected(s)
    <2>1. ~app'.registered /\ app'.party = NoCode
      BY <1>1, <1>4, ClearedShowsNothing DEF OnDisconnected
    <2> QED
      BY <2>1 DEF NoGhostParty
  <1>5. CASE BeginConnect(s) \/ DialFails(s) \/ SendRegister(s) \/ RegisterSendFails(s)
    BY <1>5 DEF BeginConnect, DialFails, SendRegister, RegisterSendFails, NoGhostParty
  <1> QED
    BY <1>2, <1>3, <1>4, <1>5 DEF Connecting

\* The one step that shows something, EventHandler, leaves its reader reading.
LEMMA GhostReading ==
  ASSUME SessionTypeOK, NoGhostParty, NEW s \in Sessions, Reading(s)
  PROVE  NoGhostParty'
  <1>1. app \in AppState /\ reader \in [Sessions -> {"none", "reading", "event", "leaving", "notify", "done"}]
    BY DEF SessionTypeOK
  <1>2. CASE ReadError(s) \/ HandleMessage(s) \/ EventHandler(s) \/ ReaderLeaves(s)
    <2>1. reader'[s] \in {"leaving", "event", "reading", "notify"}
      BY <1>1, <1>2 DEF ReadError, HandleMessage, EventHandler, ReaderLeaves, Goto
    <2> QED
      BY <2>1 DEF NoGhostParty
  <1>3. CASE ReaderDone(s)
    <2>1. ~app'.registered /\ app'.party = NoCode
      BY <1>1, <1>3, ClearedShowsNothing DEF ReaderDone
    <2> QED
      BY <2>1 DEF NoGhostParty
  <1> QED
    BY <1>2, <1>3 DEF Reading

LEMMA GhostNext == SessionTypeOK /\ NoGhostParty /\ [SessionNext]_allVars => NoGhostParty'
  <1> SUFFICES ASSUME SessionTypeOK, NoGhostParty, [SessionNext]_allVars PROVE NoGhostParty'
    OBVIOUS
  <1>1. ASSUME UNCHANGED <<reader, app>> PROVE NoGhostParty'
    BY <1>1 DEF NoGhostParty
  <1>2. ASSUME NEW s \in Sessions, Connecting(s) \/ Reading(s) PROVE NoGhostParty'
    BY <1>2, GhostConnecting, GhostReading
  <1>3. CASE DisconnectFromPartyServer
    <2>1. ~app'.registered /\ app'.party = NoCode
      BY <1>3, ClearedShowsNothing DEF DisconnectFromPartyServer, SessionTypeOK
    <2> QED
      BY <2>1 DEF NoGhostParty
  <1>4. ASSUME NEW s \in Sessions, Calling(s) PROVE NoGhostParty'
    BY <1>1, <1>4 DEF Calling, CreateCentralParty, LeaveCentralParty, AcceptPartyInvite,
       Request, JoinCentralParty, clientVars
  <1>5. ASSUME NEW s \in Sessions, Serve(s) \/ ServerDrops(s) \/ TellPartyLeft(s) PROVE NoGhostParty'
    BY <1>1, <1>5 DEF Serve, ServerDrops, TellPartyLeft, clientVars
  <1>6. ASSUME NEW j \in Joins, Joining(j) PROVE NoGhostParty'
    BY <1>1, <1>6 DEF Joining, SendJoin, SendJoinFails, EnterSelect, JoinAnswered, JoinTimesOut
  <1>7. CASE \/ \E cn \in Conns \ Sessions : OtherPlayer(cn)
             \/ \E p \in Codes : AdminDeletes(p)
             \/ UNCHANGED allVars
    BY <1>1, <1>7 DEF OtherPlayer, AdminDeletes, allVars, clientVars
  <1> QED
    BY <1>2, <1>3, <1>4, <1>5, <1>6, <1>7 DEF SessionNext

\* When the last reader has ended, whatever events landed after Disconnect, the
\* application shows neither a registration nor a party.
THEOREM NoGhostPartyHolds == SessionSpec => []NoGhostParty
  <1>1. SessionInit => NoGhostParty
    BY DEF SessionInit, NoGhostParty
  <1> QED
    BY <1>1, GhostNext, SessionTypeCorrect, PTL DEF SessionSpec

-----------------------------------------------------------------------------
(* The agreement of application, client and server.                        *)

\* The frames that tell a client its party, and what a client that has party c
\* takes it to be once it has handled the frames of q.
Says(m) == m.type \in {"created", "joined", "left"}
Ends(q, c, v) ==
  \/ c = v /\ \A i \in 1..Len(q) : ~Says(q[i])
  \/ \E i \in 1..Len(q) : /\ Says(q[i]) /\ q[i].code = v
                          /\ \A k \in 1..Len(q) : k > i => ~Says(q[k])
Grants(q) == \E i \in 1..Len(q) : q[i].type = "registered"
There(s) == IF cl[s] = NoObj THEN NoCode ELSE code[cl[s]]
Registers(q) == {i \in 1..Len(q) : q[i].type = "register"}

\* A session that was never opened has left no trace.
Untouched(t) ==
  st[t] = "unopened" =>
    /\ dial[t] \in {"idle", "dialing", "failed"} /\ reader[t] = "none" /\ obj[t].conn = "nil"
    /\ ~obj[t].connected /\ ~obj[t].registered /\ obj[t].party = NoCode
    /\ t \notin notices /\ app.client # t /\ t \notin tell
    /\ out[t] = <<>> /\ inbox[t] = <<>> /\ cl[t] = NoObj
FreshInv ==
  /\ \A t \in Sessions : Untouched(t)
  /\ (\A t \in Sessions : st[t] = "unopened") => ~app.registered /\ app.party = NoCode

\* An object is that of the connection whose goroutine holds it, under the
\* client's ID if that is a session; alone, it is listed where it says it is.
MineInv ==
  /\ \A o \in Objs : info[o] = NoInfo => code[o] = NoCode
  /\ \A o \in Allocated : info[o].conn \in Conns => st[info[o].conn] # "unopened"
  /\ \A cn \in Conns : cl[cn] # NoObj =>
       info[cl[cn]].conn = cn /\ (info[cl[cn]].id = Me <=> cn \in Sessions)
  /\ \A s \in Sessions : Alone(s) /\ There(s) # NoCode => cl[s] \in members[There(s)]

\* A session registers once, and what is on the way to it names no party it left.
Lefts(q) == \A i \in 1..Len(q) : q[i].type = "left" => q[i].code = NoCode
Once(s) ==
  /\ dial[s] \in {"idle", "dialing", "dialed"} => Registers(out[s]) = {} /\ cl[s] = NoObj
  /\ Registers(out[s]) # {} => cl[s] = NoObj
  /\ \A i, k \in Registers(out[s]) : i = k
  /\ Lefts(inbox[s])
OnceInv == (\A s \in Sessions : Once(s)) /\ (~deleted => tell = {})

\* While the reader of an open connection reads, the application shows what the
\* client has, but for the frame the reader holds ...
Bound(s) == /\ Alone(s) /\ st[s] = "open" /\ reader[s] \in {"reading", "event"}
            /\ obj[s].conn = "set"
View(s) == IF reader[s] = "event" THEN Shown(app, hand[s]) ELSE app
Shows(s) ==
  Bound(s) => /\ notices = {} /\ obj[s].connected
              /\ View(s).party = obj[s].party /\ View(s).registered = obj[s].registered
\* ... and the client what the server has, but for the frames on the way and the
\* party_left that is still to be sent.
Follows(s) ==
  Bound(s) =>
    /\ obj[s].registered \/ Grants(inbox[s]) => cl[s] # NoObj
    /\ s \notin tell => \/ Ends(inbox[s], obj[s].party, There(s))
                        \/ Ends(inbox[s], obj[s].party, NoCode)
    /\ ~deleted => Ends(inbox[s], obj[s].party, There(s))
AgreeInv == FreshInv /\ MineInv /\ OnceInv /\ \A s \in Sessions : Shows(s) /\ Follows(s)

-----------------------------------------------------------------------------
(* Frames. *)
LEMMA EndsAppend ==
  ASSUME NEW q \in Seq(Message), NEW m \in Message, NEW c, NEW v
  PROVE  /\ Says(m) => Ends(Append(q, m), c, m.code)
         /\ ~Says(m) /\ Ends(q, c, v) => Ends(Append(q, m), c, v)
  <1>a. PICK n \in Nat : n = Len(q)
    OBVIOUS
  <1>b. Append(q, m) \in Seq(Message)
    OBVIOUS
  <1>1. PICK r \in Seq(Message) : r = Append(q, m) /\ n = Len(q)
    BY <1>a, <1>b
  <1>2. Len(r) = n + 1 /\ r[n + 1] = m /\ \A i \in 1..n : r[i] = q[i]
    BY <1>1
  <1>3. Says(m) => Ends(r, c, m.code)
    BY <1>2 DEF Ends
  <1>4. ASSUME ~Says(m), Ends(q, c, v) PROVE Ends(r, c, v)
    <2>1. \A i \in 1..(n + 1) : i \in 1..n \/ i = n + 1
      OBVIOUS
    <2>2. CASE c = v /\ \A i \in 1..Len(q) : ~Says(q[i])
      BY <1>1, <1>2, <1>4, <2>1, <2>2 DEF Ends
    <2>3. CASE \E i \in 1..Len(q) : /\ Says(q[i]) /\ q[i].code = v
                                    /\ \A k \in 1..Len(q) : k > i => ~Says(q[k])
      <3>1. PICK i \in 1..n : Says(q[i]) /\ q[i].code = v /\ \A k \in 1..n : k > i => ~Says(q[k])
        BY <1>1, <2>3
      <3>2. i \in 1..Len(r) /\ r[i] = q[i]
        BY <1>2
      <3>3. \A k \in 1..Len(r) : k > i => ~Says(r[k])
        BY <1>2, <1>4, <2>1, <3>1
      <3> QED
        BY <3>1, <3>2, <3>3 DEF Ends
    <2> QED
      BY <1>4, <2>2, <2>3 DEF Ends
  <1> QED
    BY <1>1, <1>3, <1>4

LEMMA EndsTail ==
  ASSUME NEW q \in Seq(Message), q # <<>>, NEW c, NEW v, Ends(q, c, v)
  PROVE  Ends(Tail(q), IF Says(Head(q)) THEN Head(q).code ELSE c, v)
  <1>a. PICK n \in Nat : n + 1 = Len(q)
    OBVIOUS
  <1>b. Tail(q) \in Seq(Message)
    OBVIOUS
  <1>1. PICK r \in Seq(Message) : r = Tail(q) /\ n + 1 = Len(q)
    BY <1>a, <1>b
  <1>2. Len(r) = n /\ Head(q) = q[1] /\ \A i \in 1..n : r[i] = q[i + 1]
    BY <1>1
  <1>3. PICK d : d = IF Says(Head(q)) THEN Head(q).code ELSE c
    OBVIOUS
  <1>4. CASE c = v /\ \A i \in 1..Len(q) : ~Says(q[i])
    <2>1. 1 \in 1..Len(q) /\ \A i \in 1..n : i + 1 \in 1..Len(q)
      BY <1>1
    <2>2. d = v
      BY <1>2, <1>3, <1>4, <2>1
    <2> QED
      BY <1>1, <1>2, <1>3, <1>4, <2>1, <2>2 DEF Ends
  <1>5. CASE \E i \in 1..Len(q) : /\ Says(q[i]) /\ q[i].code = v
                                  /\ \A k \in 1..Len(q) : k > i => ~Says(q[k])
    <2>1. PICK i \in 1..(n + 1) : Says(q[i]) /\ q[i].code = v /\ \A k \in 1..(n + 1) : k > i => ~Says(q[k])
      BY <1>1, <1>5
    <2>2. CASE i = 1
      <3>1. d = v
        BY <1>2, <1>3, <2>1, <2>2
      <3>2. \A k \in 1..n : k + 1 \in 1..(n + 1) /\ k + 1 > 1
        OBVIOUS
      <3>3. \A k \in 1..n : ~Says(r[k])
        BY <1>2, <2>1, <2>2, <3>2
      <3> QED
        BY <1>1, <1>2, <1>3, <3>1, <3>3 DEF Ends
    <2>3. CASE i # 1
      <3>1. PICK h \in 1..n : h + 1 = i
        BY <2>3
      <3>2. Says(r[h]) /\ r[h].code = v
        BY <1>2, <2>1, <3>1
      <3>3. \A k \in 1..n : k > h => k + 1 \in 1..(n + 1) /\ k + 1 > i
        BY <3>1
      <3>4. \A k \in 1..n : k > h => ~Says(r[k])
        BY <1>2, <2>1, <3>3
      <3> QED
        BY <1>1, <1>2, <1>3, <3>2, <3>4 DEF Ends
    <2> QED
      BY <2>2, <2>3
  <1> QED
    BY <1>4, <1>5 DEF Ends

LEMMA RegistersAppend ==
  ASSUME NEW q \in Seq(Message), NEW m \in Message
  PROVE  Registers(Append(q, m)) = IF m.type = "register" THEN Registers(q) \cup {Len(q) + 1} ELSE Registers(q)
  <1>a. PICK n \in Nat : n = Len(q)
    OBVIOUS
  <1>b. Append(q, m) \in Seq(Message)
    OBVIOUS
  <1>1. PICK r \in Seq(Message) : r = Append(q, m) /\ n = Len(q)
    BY <1>a, <1>b
  <1>2. Len(r) = n + 1 /\ r[n + 1] = m /\ \A i \in 1..n : r[i] = q[i]
    BY <1>1
  <1>3. 1..(n + 1) = 1..n \cup {n + 1}
    OBVIOUS
  <1> QED
    BY <1>1, <1>2, <1>3 DEF Registers

LEMMA RegistersTail ==
  ASSUME NEW q \in Seq(Message), q # <<>>
  PROVE  /\ \A i \in Registers(Tail(q)) : i + 1 \in Registers(q) /\ i \in Nat /\ i >= 1
         /\ Head(q).type = "register" => 1 \in Registers(q)
  <1>a. PICK n \in Nat : n + 1 = Len(q)
    OBVIOUS
  <1>b. Tail(q) \in Seq(Message)
    OBVIOUS
  <1>1. PICK r \in Seq(Message) : r = Tail(q) /\ n + 1 = Len(q)
    BY <1>a, <1>b
  <1>2. Len(r) = n /\ Head(q) = q[1] /\ \A i \in 1..n : r[i] = q[i + 1]
    BY <1>1
  <1>3. 1 \in 1..Len(q) /\ \A i \in 1..n : i + 1 \in 1..Len(q) /\ i \in Nat /\ i >= 1
    BY <1>1
  <1> QED
    BY <1>1, <1>2, <1>3 DEF Registers

-----------------------------------------------------------------------------
(* The server's side: who holds which object. *)

\* What one connection's goroutine does to the hub, under the client's ID or
\* another's.
HubStep(cn) ==
  \/ Open(cn) \/ ReadFails(cn) \/ FinishDisconnect(cn) \/ HandleLeaveParty(cn)
  \/ \E i \in Ids, n \in Names : RegisterRejected(cn, i, n)
  \/ \E i \in Ids, n \in Names, o \in Objs : (i = Me <=> cn \in Sessions) /\ Register(cn, i, n, o)
  \/ \E p \in Codes : HandleCreateParty(cn, p) \/ HandleJoinParty(cn, p)

\* It takes no connection back to where it was not opened, and opens and
\* registers no other.
LEMMA StaysOpened ==
  ASSUME TypeOK, NEW cn \in Conns, HubStep(cn), NEW x \in Conns
  PROVE  /\ st[x] # "unopened" => st'[x] # "unopened"
         /\ x # cn => cl'[x] = cl[x] /\ (st[x] = "unopened" => st'[x] = "unopened")
  <1> USE DEF TypeOK
  <1>1. CASE Open(cn) \/ ReadFails(cn) \/ FinishDisconnect(cn)
    BY <1>1 DEF Open, ReadFails, FinishDisconnect
  <1>2. CASE \E i \in Ids, n \in Names : RegisterRejected(cn, i, n)
    BY <1>2 DEF RegisterRejected
  <1>3. CASE \E i \in Ids, n \in Names, o \in Objs : Register(cn, i, n, o)
    BY <1>3 DEF Register, CloseConn
  <1>4. CASE HandleLeaveParty(cn) \/ \E p \in Codes : HandleCreateParty(cn, p) \/ HandleJoinParty(cn, p)
    BY <1>4 DEF HandleLeaveParty, HandleCreateParty, HandleJoinParty
  <1> QED
    BY <1>1, <1>2, <1>3, <1>4 DEF HubStep

\* Whoever joins has no party and an allocated object.
LEMMA JoinStep ==
  ASSUME PartyInv, NEW o \in Allocated, NEW p \in Codes, AddMember(p, o), info' = info
  PROVE  /\ code'[o] = p /\ o \in members'[p]
         /\ \A m \in Objs \ {o} : code'[m] = code[m]
         /\ \A q \in Codes : \A m \in members[q] : info[m].id # info[o].id => m \in members'[q]
  BY DEF PartyInv, TypeOK, AddMember, Allocated

\* Whoever leaves takes only objects of his own ID out.
LEMMA LeaveStep ==
  ASSUME PartyInv, NEW o \in Allocated, LeaveParty(o), info' = info, code[o] # NoCode
  PROVE  /\ \A m \in Objs : code'[m] = code[m] \/ code'[m] = NoCode
         /\ \A m \in Objs : m = o \/ info[m].id = info[o].id \/ code'[m] = code[m]
         /\ \A q \in Codes : \A m \in members[q] : info[m].id # info[o].id => m \in members'[q]
         /\ o \in members[code[o]] \/ code[o] \notin parties => code'[o] = NoCode
  <1>1. o \in Objs /\ code \in [Objs -> Codes \cup {NoCode}] /\ members \in [Codes -> SUBSET Objs]
        /\ code[o] \in Codes
    BY DEF PartyInv, TypeOK, Allocated
  <1>2. CASE code[o] \in parties /\ RemoveMember(code[o], info[o].id)
    BY <1>1, <1>2 DEF RemoveMember
  <1>3. CASE /\ code[o] \notin parties
             /\ code' = [code EXCEPT ![o] = NoCode]
             /\ UNCHANGED <<parties, members>>
    BY <1>1, <1>3
  <1> QED
    BY <1>2, <1>3 DEF LeaveParty

\* The parts of MineInv.
Unused == \A o \in Objs : info[o] = NoInfo => code[o] = NoCode
Opened == \A o \in Allocated : info[o].conn \in Conns => st[info[o].conn] # "unopened"
Holds(cn) == cl[cn] # NoObj => info[cl[cn]].conn = cn /\ (info[cl[cn]].id = Me <=> cn \in Sessions)
Listed(s) == Alone(s) /\ There(s) # NoCode => cl[s] \in members[There(s)]
LEMMA MineParts ==
  MineInv <=> Unused /\ Opened /\ (\A cn \in Conns : Holds(cn)) /\ \A s \in Sessions : Listed(s)
  BY DEF MineInv, Unused, Opened, Holds, Listed

\* A party operation by connection cn.
LEMMA MineParty ==
  ASSUME PartyInv, MineInv, NEW cn \in Conns, cl[cn] # NoObj, info' = info, cl' = cl, TypeOK',
         \/ code[cl[cn]] # NoCode /\ LeaveParty(cl[cn])
         \/ \E p \in Codes : AddMember(p, cl[cn]),
         \A x \in Conns : st[x] # "unopened" => st'[x] # "unopened", st[cn] # "unopened"
  PROVE  /\ MineInv'
         /\ cn \notin Sessions => \A s \in Sessions : There(s)' = There(s)
  <1> DEFINE o == cl[cn]
  <1>1. o \in Allocated /\ o \in Objs
    BY DEF PartyInv, WiringOK, Allocated
  <1>2. code \in [Objs -> Codes \cup {NoCode}]
    BY DEF PartyInv, TypeOK
  <1>3. Unused' /\ Opened' /\ \A x \in Conns : Holds(x)'
    <2>1. \A m \in Objs : info[m] = NoInfo => m # o /\ code[m] = NoCode
      BY <1>1, MineParts DEF Unused, Allocated
    <2>2. \A m \in Objs : info[m] = NoInfo => code'[m] = NoCode
      <3>1. CASE code[o] # NoCode /\ LeaveParty(o)
        BY <1>1, <2>1, <3>1, LeaveStep
      <3>2. ASSUME NEW p \in Codes, AddMember(p, o), NEW m \in Objs, info[m] = NoInfo
            PROVE  code'[m] = NoCode
        BY <1>1, <2>1, <3>2, JoinStep
      <3> QED
        BY <3>1, <3>2
    <2>3. Allocated' = Allocated
      BY DEF Allocated
    <2> QED
      <3>1. Unused'
        BY <2>2 DEF Unused
      <3>2. Opened'
        BY <2>3, MineParts DEF Opened
      <3> QED
        BY <3>1, <3>2, MineParts DEF Holds
  <1>4. ASSUME NEW s \in Sessions, s # cn, cl[s] # NoObj, info[cl[s]].id # info[o].id
        PROVE  /\ code'[cl[s]] = code[cl[s]]
               /\ \A q \in Codes : cl[s] \in members[q] => cl[s] \in members'[q]
    <2>1. cl[s] \in Objs /\ cl[s] # o
      <3>0. s \in Conns /\ Holds(s) /\ Holds(cn)
        BY MineParts
      <3>1. info[cl[s]].conn = s /\ info[o].conn = cn
        BY <1>4, <3>0 DEF Holds
      <3> QED
        BY <1>4, <3>0, <3>1 DEF PartyInv, TypeOK
    <2>2. CASE code[o] # NoCode /\ LeaveParty(o)
      BY <1>1, <1>4, <2>1, <2>2, LeaveStep
    <2>3. ASSUME NEW p \in Codes, AddMember(p, o)
          PROVE  /\ code'[cl[s]] = code[cl[s]]
                 /\ \A q \in Codes : cl[s] \in members[q] => cl[s] \in members'[q]
      BY <1>1, <1>4, <2>1, <2>3, JoinStep
    <2> QED
      BY <2>2, <2>3
  <1>5. ASSUME cn \notin Sessions, NEW s \in Sessions PROVE There(s)' = There(s)
    <2>1. CASE cl[s] = NoObj
      BY <2>1 DEF There
    <2>2. CASE cl[s] # NoObj
      <3>0. s \in Conns /\ Holds(s) /\ Holds(cn)
        BY MineParts
      <3>1. info[cl[s]].id # info[o].id /\ s # cn
        BY <1>5, <2>2, <3>0 DEF Holds
      <3> QED
        BY <1>4, <2>2, <3>1 DEF There
    <2> QED
      BY <2>1, <2>2
  <1>6. ASSUME NEW s \in Sessions, Alone(s)', There(s)' # NoCode PROVE cl'[s] \in members'[There(s)']
    <2>0. cl[s] # NoObj /\ There(s)' = code'[cl[s]]
      BY <1>6 DEF There
    <2>1. Alone(s) /\ cl[s] # NoObj /\ There(s)' = code'[cl[s]]
      <3>1. \A t \in Sessions \ {s} : t \in Conns /\ st'[t] = "unopened"
        BY <1>6 DEF Alone
      <3> QED
        BY <2>0, <3>1 DEF Alone
    <2>2. CASE s = cn
      <3>1. CASE code[o] # NoCode /\ LeaveParty(o)
        <4>1. There(s) = code[o] /\ o \in members[code[o]]
          BY <2>1, <2>2, <3>1, MineParts DEF There, Listed
        <4>2. code'[o] = NoCode
          BY <1>1, <3>1, <4>1, LeaveStep
        <4> QED
          BY <1>6, <2>1, <2>2, <4>2
      <3>2. ASSUME NEW p \in Codes, AddMember(p, o) PROVE cl'[s] \in members'[There(s)']
        BY <1>1, <2>1, <2>2, <3>2, JoinStep
      <3> QED
        BY <3>1, <3>2
    <2>3. CASE s # cn
      <3>1. cn \notin Sessions
        BY <2>1, <2>3 DEF Alone
      <3>2. There(s)' = There(s)
        BY <1>5, <3>1
      <3>5. There(s) \in Codes
        BY <1>2, <1>6, <3>2, <2>1 DEF There, PartyInv, TypeOK
      <3>3. cl[s] \in members[There(s)]
        BY <1>6, <2>1, <3>2, MineParts DEF Listed
      <3>6. s \in Conns /\ Holds(s) /\ Holds(cn)
        BY MineParts
      <3>4. info[cl[s]].id # info[o].id
        BY <2>1, <3>1, <3>6 DEF Holds
      <3>7. cl[s] \in members'[There(s)]
        BY <1>4, <2>1, <2>3, <3>3, <3>4, <3>5
      <3> QED
        BY <3>2, <3>7
    <2> QED
      BY <2>2, <2>3
  <1>7. \A s \in Sessions : Listed(s)'
    BY <1>6 DEF Listed
  <1>8. MineInv'
    BY <1>3, <1>7 DEF MineInv, Unused, Opened, Holds, Listed
  <1> QED
    BY <1>5, <1>8

LEMMA AloneBefore ==
  ASSUME NEW s \in Sessions, \A x \in Conns : st[x] # "unopened" => st'[x] # "unopened", Alone(s)'
  PROVE  Alone(s)
  <1>1. \A t \in Sessions \ {s} : t \in Conns /\ st'[t] = "unopened"
    BY DEF Alone
  <1> QED
    BY <1>1 DEF Alone

\* Every step of a connection keeps MineInv, and no party of a session changes
\* by another player's.
LEMMA MineHub ==
  ASSUME PartyInv, TypeOK', MineInv, NEW cn \in Conns, HubStep(cn)
  PROVE  /\ MineInv'
         /\ cn \notin Sessions => \A s \in Sessions : There(s)' = There(s)
  <1>0. TypeOK
    BY DEF PartyInv
  <1>1. \A x \in Conns : /\ st[x] # "unopened" => st'[x] # "unopened"
                         /\ x # cn => cl'[x] = cl[x]
    BY <1>0, StaysOpened
  <1>2. \A x \in Conns : x \in Sessions /\ Alone(x)' => Alone(x)
    BY <1>1, AloneBefore
  <1>3. CASE Open(cn) \/ ReadFails(cn) \/ UNCHANGED <<cl, info, code, members>>
    <2>1. UNCHANGED <<cl, info, code, members>>
      BY <1>3 DEF Open, ReadFails
    <2>2. Unused' /\ \A x \in Conns : Holds(x)'
      BY <2>1, MineParts DEF Unused, Holds
    <2>3. Opened'
      BY <1>1, <2>1, MineParts DEF Opened, Allocated
    <2>4. \A s \in Sessions : There(s)' = There(s)
      BY <2>1 DEF There
    <2>5. \A s \in Sessions : Listed(s)'
      BY <1>2, <2>1, <2>4, MineParts DEF Listed
    <2>6. MineInv'
      BY <2>2, <2>3, <2>5 DEF MineInv, Unused, Opened, Holds, Listed
    <2> QED
      BY <2>4, <2>6
  <1>4. ASSUME NEW i \in Ids, NEW n \in Names, RegisterRejected(cn, i, n)
        PROVE  /\ MineInv'
               /\ cn \notin Sessions => \A s \in Sessions : There(s)' = There(s)
    <2>1. UNCHANGED <<info, code, members>> /\ cl'[cn] = NoObj
      BY <1>0, <1>4 DEF RegisterRejected, TypeOK
    <2>2. Unused' /\ \A x \in Conns : Holds(x)'
      BY <1>1, <2>1, MineParts DEF Unused, Holds
    <2>3. Opened'
      BY <1>1, <2>1, MineParts DEF Opened, Allocated
    <2>4. \A s \in Sessions : IF s = cn THEN There(s)' = NoCode ELSE There(s)' = There(s)
      BY <1>1, <2>1 DEF There
    <2>5. \A s \in Sessions : Listed(s)'
      BY <1>1, <1>2, <2>1, <2>4, MineParts DEF Listed
    <2>6. MineInv'
      BY <2>2, <2>3, <2>5 DEF MineInv, Unused, Opened, Holds, Listed
    <2> QED
      BY <2>4, <2>6
  <1>5. ASSUME NEW i \in Ids, NEW n \in Names, NEW o \in Objs, i = Me <=> cn \in Sessions,
               Register(cn, i, n, o)
        PROVE  /\ MineInv'
               /\ cn \notin Sessions => \A s \in Sessions : There(s)' = There(s)
    <2>1. /\ UNCHANGED <<code, members>> /\ cl'[cn] = o /\ info[o] = NoInfo /\ info'[o] # NoInfo
          /\ info'[o].conn = cn /\ info'[o].id = i
          /\ \A m \in Objs \ {o} : info'[m] = info[m]
          /\ st[cn] # "unopened"
      <3> DEFINE new == [id |-> i, name |-> n, conn |-> cn, test |-> FALSE]
      <3>1. new \in Info /\ new.conn = cn /\ new.id = i
        BY DEF Info
      <3>2. info' = [info EXCEPT ![o] = new]
        BY <1>5 DEF Register
      <3> HIDE DEF new
      <3> QED
        BY <1>0, <1>5, <3>1, <3>2, PartyHubAssumption DEF Register, MayRegister, Serving, TypeOK, Allocated
    <2>2. Unused'
      BY <2>1, MineParts DEF Unused
    <2>3. \A x \in Conns \ {cn} : cl[x] # NoObj => cl[x] \in Objs \ {o}
      BY <2>1 DEF PartyInv, WiringOK, Allocated
    <2>4. \A x \in Conns : Holds(x)'
      <3>1. Holds(cn)'
        BY <1>5, <2>1 DEF Holds
      <3>2. ASSUME NEW x \in Conns \ {cn} PROVE Holds(x)'
        <4>1. Holds(x)
          BY MineParts
        <4> QED
          BY <1>1, <2>1, <2>3, <4>1 DEF Holds
      <3> QED
        BY <3>1, <3>2
    <2>5. Opened'
      <3>1. \A m \in Objs \ {o} : m \in Allocated' => m \in Allocated
        BY <2>1 DEF Allocated
      <3>2. Opened
        BY MineParts
      <3>3. ASSUME NEW m \in Allocated', info'[m].conn \in Conns PROVE st'[info'[m].conn] # "unopened"
        <4>0. m \in Objs
          BY DEF Allocated
        <4>1. CASE m = o
          BY <1>1, <2>1, <4>1
        <4>2. CASE m # o
          BY <1>1, <2>1, <3>1, <3>2, <3>3, <4>0, <4>2 DEF Opened
        <4> QED
          BY <4>1, <4>2
      <3> QED
        BY <3>3 DEF Opened
    <2>6. \A s \in Sessions : IF s = cn THEN There(s)' = NoCode ELSE There(s)' = There(s)
      <3>1. code[o] = NoCode
        BY <2>1, MineParts DEF Unused
      <3> QED
        BY <1>1, <2>1, <3>1 DEF There
    <2>7. \A s \in Sessions : Listed(s)'
      BY <1>1, <1>2, <2>1, <2>6, MineParts DEF Listed
    <2>8. MineInv'
      BY <2>2, <2>4, <2>5, <2>7 DEF MineInv, Unused, Opened, Holds, Listed
    <2> QED
      BY <2>6, <2>8
  <1>6. ASSUME cl[cn] # NoObj, info' = info, cl' = cl,
               \/ code[cl[cn]] # NoCode /\ LeaveParty(cl[cn])
               \/ \E p \in Codes : AddMember(p, cl[cn]),
               st[cn] # "unopened"
        PROVE  /\ MineInv'
               /\ cn \notin Sessions => \A s \in Sessions : There(s)' = There(s)
    BY <1>0, <1>1, <1>6, MineParty
  <1>7. CASE FinishDisconnect(cn)
    BY <1>3, <1>6, <1>7 DEF FinishDisconnect
  <1>8. CASE HandleLeaveParty(cn) \/ \E p \in Codes : HandleCreateParty(cn, p) \/ HandleJoinParty(cn, p)
    BY <1>6, <1>8 DEF HandleLeaveParty, HandleCreateParty, HandleJoinParty, InLoop, Serving
  <1> QED
    BY <1>3, <1>4, <1>5, <1>7, <1>8 DEF HubStep

\* Nor does DeleteParty, but for the members it is about to tell.
LEMMA MineDelete ==
  ASSUME PartyInv, MineInv, NEW p \in Codes, DeleteParty(p)
  PROVE  /\ MineInv'
         /\ \A s \in Sessions : IF cl[s] \in members[p] THEN There(s)' = NoCode ELSE There(s)' = There(s)
         /\ \A s \in Sessions : cl[s] \in members[p] => info[cl[s]].conn = s
         /\ \A s \in Sessions : \A o \in members[p] : info[o].conn = s => st[s] # "unopened"
  <1>1. /\ UNCHANGED <<st, cl, info>>
        /\ code' = [o \in Objs |-> IF o \in members[p] THEN NoCode ELSE code[o]]
        /\ \A q \in Codes \ {p} : members'[q] = members[q]
        /\ cl \in [Conns -> Objs \cup {NoObj}] /\ code \in [Objs -> Codes \cup {NoCode}]
        /\ members[p] \in SUBSET Objs
    BY DEF DeleteParty, PartyInv, TypeOK
  <1>2. Unused' /\ Opened' /\ \A x \in Conns : Holds(x)'
    BY <1>1, MineParts DEF Unused, Opened, Holds, Allocated
  <1>3. \A s \in Sessions : IF cl[s] \in members[p] THEN There(s)' = NoCode ELSE There(s)' = There(s)
    BY <1>1 DEF There
  <1>4. ASSUME NEW s \in Sessions PROVE Listed(s)'
    <2>0. Listed(s) /\ s \in Conns
      BY MineParts
    <2>1. CASE cl[s] \in members[p] \/ There(s) = NoCode
      BY <1>3, <2>1 DEF Listed
    <2>2. CASE cl[s] \notin members[p] /\ There(s) # NoCode
      <3>1. There(s)' = There(s) /\ There(s) \in Codes
        BY <1>1, <1>3, <2>2, <2>0 DEF There
      <3>2. Alone(s)' => Alone(s)
        BY <1>1 DEF Alone
      <3> QED
        BY <1>1, <2>0, <2>2, <3>1, <3>2 DEF Listed
    <2> QED
      BY <2>1, <2>2
  <1>5. MineInv'
    BY <1>2, <1>4 DEF MineInv, Unused, Opened, Holds, Listed
  <1>6. ASSUME NEW s \in Sessions, cl[s] \in members[p] PROVE info[cl[s]].conn = s
    <2>0. s \in Conns
      OBVIOUS
    <2>1. Holds(s) /\ cl[s] # NoObj
      BY <1>1, <1>6, <2>0, MineParts, PartyHubAssumption
    <2> QED
      BY <2>1 DEF Holds
  <1>7. ASSUME NEW s \in Sessions, NEW o \in members[p], info[o].conn = s PROVE st[s] # "unopened"
    <2>1. o \in Allocated /\ Opened /\ s \in Conns
      BY MineParts DEF PartyInv, MembersAgree
    <2> QED
      BY <1>7, <2>1 DEF Opened
  <1> QED
    BY <1>3, <1>5, <1>6, <1>7

-----------------------------------------------------------------------------
(* A session's own steps. *)
Own(s) == Connecting(s) \/ Calling(s) \/ Reading(s) \/ Serve(s) \/ ServerDrops(s) \/ TellPartyLeft(s)

\* On the server they are steps of its connection.
LEMMA OwnHub ==
  ASSUME TypeOK, NEW s \in Sessions, Own(s)
  PROVE  HubStep(s) \/ UNCHANGED vars
  <1> s \in Conns /\ s \in Sessions
    OBVIOUS
  <1>1. CASE Connecting(s)
    <2>1. Open(s) \/ UNCHANGED vars
      BY <1>1 DEF Connecting, BeginConnect, Dial, DialFails, SendRegister, RegisterSendFails,
         Publish, OnDisconnected
    <2> QED
      BY <2>1 DEF HubStep
  <1>2. CASE Calling(s) \/ Reading(s) \/ TellPartyLeft(s)
    BY <1>2 DEF Calling, CreateCentralParty, LeaveCentralParty, AcceptPartyInvite, Request,
       JoinCentralParty, Reading, ReadError, HandleMessage, EventHandler, ReaderLeaves, ReaderDone,
       TellPartyLeft
  <1>3. CASE ServerDrops(s)
    BY <1>3 DEF ServerDrops, HubStep
  <1>4. CASE Serve(s)
    <2>1. ASSUME NEW p, HandleJoinParty(s, p) PROVE HubStep(s)
      <3>1. p \in Codes
        BY <2>1 DEF HandleJoinParty, TypeOK
      <3> QED
        BY <2>1, <3>1 DEF HubStep
    <2>2. ASSUME NEW p, Admit(s, p) PROVE HubStep(s) \/ UNCHANGED vars
      BY <2>1, <2>2 DEF Admit, Refuse
    <2>3. CASE ServeRegister(s)
      BY <2>3 DEF ServeRegister, HubStep
    <2>4. CASE ServeCreate(s)
      BY <2>4 DEF ServeCreate, Refuse, HubStep
    <2>5. CASE ServeLeave(s)
      BY <2>5 DEF ServeLeave, Refuse, HubStep
    <2> QED
      BY <1>4, <2>2, <2>3, <2>4, <2>5 DEF Serve, Refuse
  <1> QED
    BY <1>1, <1>2, <1>3, <1>4 DEF Own

\* They leave the other sessions alone.
Apart(t) ==
  /\ obj'[t] = obj[t] /\ reader'[t] = reader[t] /\ hand'[t] = hand[t] /\ dial'[t] = dial[t]
  /\ out'[t] = out[t] /\ inbox'[t] = inbox[t] /\ cl'[t] = cl[t]
  /\ st'[t] = "unopened" => st[t] = "unopened"
  /\ t \in tell' <=> t \in tell
  /\ t \in notices' <=> t \in notices
  /\ app'.client = t => app.client = t

LEMMA OwnApart ==
  ASSUME SessionTypeOK, NEW s \in Sessions, Own(s), NEW t \in Sessions \ {s}
  PROVE  Apart(t)
  <1>1. s \in Conns /\ t \in Conns /\ TypeOK
    BY DEF SessionTypeOK
  <1>2. cl'[t] = cl[t] /\ (st'[t] = "unopened" => st[t] = "unopened")
    <2>1. CASE UNCHANGED vars
      BY <2>1 DEF vars
    <2>2. CASE HubStep(s)
      BY <1>1, <2>2, StaysOpened
    <2> QED
      BY <1>1, <2>1, <2>2, OwnHub
  <1>3. obj'[t] = obj[t] /\ reader'[t] = reader[t] /\ hand'[t] = hand[t] /\ dial'[t] = dial[t]
    <2> USE DEF SessionTypeOK
    <2>1. CASE Connecting(s)
      BY <2>1 DEF Connecting, BeginConnect, Dial, DialFails, SendRegister, RegisterSendFails,
         Publish, OnDisconnected, ClientDisconnect
    <2>2. CASE Calling(s)
      BY <2>2 DEF Calling, CreateCentralParty, LeaveCentralParty, AcceptPartyInvite, Request,
         JoinCentralParty, clientVars
    <2>3. CASE Reading(s)
      BY <2>3 DEF Reading, ReadError, HandleMessage, EventHandler, ReaderLeaves, ReaderDone, Goto
    <2>4. CASE Serve(s) \/ ServerDrops(s) \/ TellPartyLeft(s)
      BY <2>4 DEF Serve, ServerDrops, TellPartyLeft, clientVars
    <2> QED
      BY <2>1, <2>2, <2>3, <2>4 DEF Own
  <1>4. out'[t] = out[t] /\ inbox'[t] = inbox[t] /\ (t \in tell' <=> t \in tell)
    <2> USE DEF SessionTypeOK
    <2>1. CASE Connecting(s)
      BY <2>1 DEF Connecting, BeginConnect, Dial, DialFails, SendRegister, RegisterSendFails,
         Publish, OnDisconnected, wireVars, Send
    <2>2. CASE Calling(s)
      BY <2>2 DEF Calling, CreateCentralParty, LeaveCentralParty, AcceptPartyInvite, Request,
         JoinCentralParty, wireVars, Send
    <2>3. CASE Reading(s)
      BY <2>3 DEF Reading, ReadError, HandleMessage, EventHandler, ReaderLeaves, ReaderDone, wireVars
    <2>4. CASE ServerDrops(s) \/ TellPartyLeft(s)
      BY <2>4 DEF ServerDrops, TellPartyLeft, wireVars, Reply
    <2>5. CASE Serve(s)
      <3>1. UNCHANGED inbox \/ \E m : Reply(s, m)
        BY <2>5 DEF Serve, ServeRegister, ServeCreate, ServeLeave, Admit, Refuse
      <3> QED
        BY <2>5, <3>1 DEF Serve, Reply
    <2> QED
      BY <2>1, <2>2, <2>3, <2>4, <2>5 DEF Own
  <1>5. (t \in notices' <=> t \in notices) /\ (app'.client = t => app.client = t)
    <2>1. app \in AppState
      BY DEF SessionTypeOK
    <2>2. CASE Publish(s)
      BY <2>1, <2>2 DEF Publish, AppState
    <2>3. CASE OnDisconnected(s) \/ ReaderDone(s)
      BY <2>1, <2>3 DEF OnDisconnected, ReaderDone, Cleared, AppState
    <2>4. CASE EventHandler(s)
      <3>1. app'.client = app.client
        BY <2>1, <2>4 DEF EventHandler, Shown, AppState
      <3> QED
        BY <2>4, <3>1 DEF EventHandler
    <2>5. CASE RegisterSendFails(s)
      BY <2>5 DEF RegisterSendFails, ClientDisconnect
    <2>6. CASE UNCHANGED <<app, notices>>
      BY <2>6
    <2> QED
      BY <2>2, <2>3, <2>4, <2>5, <2>6 DEF Own, Connecting, BeginConnect, Dial, DialFails,
         SendRegister, Calling, CreateCentralParty, LeaveCentralParty, AcceptPartyInvite, Request,
         JoinCentralParty, Reading, ReadError, HandleMessage, ReaderLeaves, Serve, ServerDrops,
         TellPartyLeft, clientVars
  <1> QED
    BY <1>2, <1>3, <1>4, <1>5 DEF Apart

\* All a session that was never opened can do is begin to connect.
LEMMA FreshStep ==
  ASSUME SessionTypeOK, FreshInv, NEW s \in Sessions, Own(s), st[s] = "unopened"
  PROVE  BeginConnect(s) \/ DialFails(s) \/ Dial(s)
  <1>1. Untouched(s)
    BY DEF FreshInv
  <1>2. ~Calling(s)
    BY <1>1 DEF Calling, CreateCentralParty, LeaveCentralParty, AcceptPartyInvite,
       JoinCentralParty, Usable, Untouched
  <1>3. ~Reading(s)
    BY <1>1 DEF Reading, ReadError, HandleMessage, EventHandler, ReaderLeaves, ReaderDone, At, Untouched
  <1>4. ~Serve(s) /\ ~ServerDrops(s) /\ ~TellPartyLeft(s)
    BY <1>1 DEF Serve, ServerDrops, ReadFails, FinishDisconnect, TellPartyLeft, Serving, Untouched
  <1>5. ~SendRegister(s) /\ ~RegisterSendFails(s) /\ ~Publish(s) /\ ~OnDisconnected(s)
    BY <1>1 DEF SendRegister, RegisterSendFails, Publish, OnDisconnected, Untouched
  <1> QED
    BY <1>2, <1>3, <1>4, <1>5 DEF Own, Connecting

\* Untouched says nothing of c.joinResponse.
LEMMA FreshOwn ==
  ASSUME SessionTypeOK, FreshInv, NEW s \in Sessions, Own(s)
  PROVE  FreshInv'
  <1>1. TypeOK /\ s \in Conns
    BY DEF SessionTypeOK
  <1>2. \A x \in Conns : st[x] # "unopened" => st'[x] # "unopened"
    <2>1. CASE UNCHANGED vars
      BY <2>1 DEF vars
    <2>2. CASE HubStep(s)
      BY <1>1, <2>2, StaysOpened
    <2> QED
      BY <1>1, <2>1, <2>2, OwnHub
  <1>3. \A t \in Sessions : t \in Conns
    OBVIOUS
  <1>4. ASSUME st'[s] = "unopened"
        PROVE  /\ UNCHANGED <<st, cl, obj, reader, out, inbox, app, notices, tell>>
               /\ dial'[s] \in {"idle", "dialing", "failed"}
    <2>1. st[s] = "unopened"
      BY <1>1, <1>2, <1>4
    <2>2. ~Dial(s)
      BY <1>1, <1>4 DEF Dial, Open, TypeOK
    <2>3. BeginConnect(s) \/ DialFails(s)
      BY <2>1, <2>2, FreshStep
    <2> QED
      BY <2>3 DEF BeginConnect, DialFails, vars, wireVars, SessionTypeOK
  <1>5. Untouched(s)'
    <2>1. Untouched(s) /\ (st'[s] = "unopened" => st[s] = "unopened")
      BY <1>2, <1>3 DEF FreshInv
    <2> QED
      BY <1>4, <2>1 DEF Untouched
  <1>6. ASSUME NEW t \in Sessions \ {s} PROVE Untouched(t)'
    <2>1. Untouched(t) /\ Apart(t)
      BY OwnApart DEF FreshInv
    <2> QED
      BY <2>1 DEF Untouched, Apart
  <1>7. ASSUME \A t \in Sessions : st'[t] = "unopened"
        PROVE  ~app'.registered /\ app'.party = NoCode
    <2>1. \A t \in Sessions : st[t] = "unopened"
      BY <1>2, <1>3, <1>7
    <2> QED
      BY <1>4, <1>7, <2>1 DEF FreshInv
  <1> QED
    BY <1>5, <1>6, <1>7 DEF FreshInv

-----------------------------------------------------------------------------
(* A session registers once. *)
LEMMA LeftsAppend ==
  ASSUME NEW q \in Seq(Message), NEW m \in Message, Lefts(q), m.type = "left" => m.code = NoCode
  PROVE  Lefts(Append(q, m))
  <1>a. PICK n \in Nat : n = Len(q)
    OBVIOUS
  <1>b. Append(q, m) \in Seq(Message)
    OBVIOUS
  <1>1. PICK r \in Seq(Message) : r = Append(q, m) /\ n = Len(q)
    BY <1>a, <1>b
  <1>2. Len(r) = n + 1 /\ r[n + 1] = m /\ \A i \in 1..n : r[i] = q[i]
    BY <1>1
  <1>3. \A i \in 1..(n + 1) : i \in 1..n \/ i = n + 1
    OBVIOUS
  <1> QED
    BY <1>1, <1>2, <1>3 DEF Lefts

LEMMA LeftsTail ==
  ASSUME NEW q \in Seq(Message), q # <<>>, Lefts(q)
  PROVE  /\ Lefts(Tail(q))
         /\ Head(q).type = "left" => Head(q).code = NoCode
  <1>a. PICK n \in Nat : n + 1 = Len(q)
    OBVIOUS
  <1>b. Tail(q) \in Seq(Message)
    OBVIOUS
  <1>1. PICK r \in Seq(Message) : r = Tail(q) /\ n + 1 = Len(q)
    BY <1>a, <1>b
  <1>2. Len(r) = n /\ Head(q) = q[1] /\ \A i \in 1..n : r[i] = q[i + 1]
    BY <1>1
  <1>3. 1 \in 1..Len(q) /\ \A i \in 1..n : i + 1 \in 1..Len(q)
    BY <1>1
  <1> QED
    BY <1>1, <1>2, <1>3 DEF Lefts

LEMMA ReplyLefts ==
  ASSUME SessionTypeOK, NEW s \in Sessions, NEW m \in Message, Reply(s, m), Lefts(inbox[s]),
         m.type = "left" => m.code = NoCode
  PROVE  Lefts(inbox'[s])
  <1>1. inbox[s] \in Seq(Message) /\ inbox'[s] \in {inbox[s], Append(inbox[s], m)}
    BY DEF SessionTypeOK, Reply
  <1> QED
    BY <1>1, LeftsAppend

\* The frames of a session but the first: none registers.
LEMMA SendOnce ==
  ASSUME SessionTypeOK, NEW s \in Sessions, NEW m \in Message, Send(s, m), m.type # "register"
  PROVE  Registers(out'[s]) = Registers(out[s])
  <1>1. out[s] \in Seq(Message) /\ out'[s] \in {out[s], Append(out[s], m)}
    BY DEF SessionTypeOK, Send
  <1> QED
    BY <1>1, RegistersAppend

LEMMA NoRegisters == Registers(<<>>) = {} /\ Lefts(<<>>)
  BY DEF Registers, Lefts

\* A queue that registers at most once registers no more when that was read.
LEMMA ReadOnce ==
  ASSUME NEW q \in Seq(Message), q # <<>>, \A i, k \in Registers(q) : i = k
  PROVE  /\ \A i, k \in Registers(Tail(q)) : i = k
         /\ Registers(Tail(q)) # {} => Registers(q) # {}
         /\ Head(q).type = "register" => Registers(q) # {} /\ Registers(Tail(q)) = {}
  <1>1. /\ \A i \in Registers(Tail(q)) : i + 1 \in Registers(q) /\ i \in Nat /\ i >= 1
        /\ Head(q).type = "register" => 1 \in Registers(q)
    BY RegistersTail
  <1>2. ASSUME NEW i \in Registers(Tail(q)), NEW k \in Registers(Tail(q)) PROVE i = k
    <2>1. i \in Nat /\ k \in Nat /\ i + 1 = k + 1
      BY <1>1
    <2> QED
      BY <2>1
  <1>3. ASSUME Head(q).type = "register", NEW i \in Registers(Tail(q)) PROVE FALSE
    <2>1. i \in Nat /\ i >= 1 /\ i + 1 = 1
      BY <1>1, <1>3
    <2> QED
      BY <2>1
  <1> QED
    BY <1>1, <1>2, <1>3

LEMMA OncePrime ==
  ASSUME NEW s \in Sessions,
         dial'[s] \in {"idle", "dialing", "dialed"} => Registers(out'[s]) = {} /\ cl'[s] = NoObj,
         Registers(out'[s]) # {} => cl'[s] = NoObj,
         \A i, k \in Registers(out'[s]) : i = k,
         Lefts(inbox'[s])
  PROVE  Once(s)'
  BY DEF Once, Registers, Lefts

LEMMA OnceSelf ==
  ASSUME SessionTypeOK, OnceInv, NEW s \in Sessions, Own(s)
  PROVE  Once(s)'
  <1>0. /\ Once(s) /\ out[s] \in Seq(Message) /\ inbox[s] \in Seq(Message)
        /\ DOMAIN dial = Sessions /\ out \in [Sessions -> Seq(Message)]
        /\ inbox \in [Sessions -> Seq(Message)]
    BY DEF OnceInv, SessionTypeOK
  <1>3. ASSUME UNCHANGED <<dial, out, cl, inbox>> PROVE Once(s)'
    BY <1>0, <1>3, OncePrime DEF Once
  <1>4. CASE BeginConnect(s)
    BY <1>0, <1>4, OncePrime DEF BeginConnect, Once, vars, wireVars
  <1>5. CASE Dial(s)
    BY <1>0, <1>5, OncePrime DEF Dial, Open, Once, wireVars
  <1>6. CASE DialFails(s) \/ RegisterSendFails(s)
    BY <1>0, <1>6, OncePrime DEF DialFails, RegisterSendFails, Once, vars, wireVars
  <1>7. CASE SendRegister(s)
    <2>1. Msg("register", NoCode) \in Message
      BY MessageType
    <2>2. /\ Registers(out[s]) = {} /\ cl'[s] = NoObj /\ dial'[s] = "sent" /\ inbox' = inbox
          /\ out'[s] \in {out[s], Append(out[s], Msg("register", NoCode))}
      BY <1>0, <1>7, OncePrime DEF SendRegister, Send, Once, vars
    <2>3. PICK c : Registers(out'[s]) \subseteq {c}
      BY <1>0, <2>1, <2>2, RegistersAppend
    <2> QED
      BY <1>0, <2>2, <2>3, OncePrime DEF Once
  <1>8. CASE Publish(s)
    BY <1>0, <1>8, OncePrime DEF Publish, Once, vars, wireVars
  <1>9. CASE OnDisconnected(s)
    BY <1>3, <1>9 DEF OnDisconnected, vars, wireVars
  <1>10. ASSUME NEW type \in {"create", "leave", "accept"}, NEW p \in Codes \cup {NoCode},
                Request(s, type, p)
         PROVE  Once(s)'
    <2>1. Msg(type, p) \in Message /\ Msg(type, p).type # "register"
      BY MessageType DEF Msg
    <2>2. UNCHANGED <<dial, cl, inbox>> /\ Send(s, Msg(type, p))
      BY <1>10 DEF Request, vars, clientVars
    <2> QED
      BY <1>0, <2>1, <2>2, SendOnce, OncePrime DEF Once
  <1>11. CASE Calling(s)
    BY <1>3, <1>10, <1>11 DEF Calling, CreateCentralParty, LeaveCentralParty, AcceptPartyInvite,
       JoinCentralParty, vars, wireVars
  <1>12. CASE HandleMessage(s)
    <2>1. UNCHANGED <<dial, cl, out>> /\ inbox'[s] = Tail(inbox[s]) /\ inbox[s] # <<>>
      BY <1>0, <1>12 DEF HandleMessage, vars
    <2> QED
      BY <1>0, <2>1, LeftsTail, OncePrime DEF Once
  <1>13. CASE ReaderLeaves(s)
    BY <1>0, <1>13, NoRegisters, OncePrime DEF ReaderLeaves, vars, Once
  <1>14. CASE ReadError(s) \/ EventHandler(s) \/ ReaderDone(s)
    BY <1>3, <1>14 DEF ReadError, EventHandler, ReaderDone, vars, wireVars
  <1>15. CASE ServerDrops(s)
    <2>1. UNCHANGED <<dial, cl, inbox>> /\ out'[s] \in {out[s], <<>>}
      BY <1>0, <1>15 DEF ServerDrops, ReadFails, FinishDisconnect, clientVars, wireVars
    <2> QED
      BY <1>0, <2>1, NoRegisters, OncePrime DEF Once
  <1>16. ASSUME NEW m \in Message, Reply(s, m) \/ UNCHANGED inbox, m.type = "left" => m.code = NoCode
         PROVE  Lefts(inbox'[s])
    BY <1>0, <1>16, ReplyLefts, OncePrime DEF Once
  <1>17. CASE TellPartyLeft(s)
    <2>1. Msg("left", NoCode) \in Message /\ Msg("left", NoCode).code = NoCode
      BY MessageType DEF Msg
    <2>2. UNCHANGED <<dial, cl, out>> /\ Reply(s, Msg("left", NoCode))
      BY <1>17 DEF TellPartyLeft, vars, clientVars
    <2> QED
      BY <1>0, <1>16, <2>1, <2>2, OncePrime DEF Once
  <1>18. CASE Serve(s)
    <2> DEFINE m == Head(out[s])
    <2>0. m \in Message /\ out[s] # <<>>
      BY <1>0, <1>18 DEF Serve
    <2>1. dial' = dial /\ out'[s] = Tail(out[s])
      BY <1>0, <1>18 DEF Serve, clientVars
    <2>2. /\ \A i, k \in Registers(out'[s]) : i = k
          /\ Registers(out'[s]) # {} => Registers(out[s]) # {}
          /\ m.type = "register" => Registers(out[s]) # {} /\ Registers(out'[s]) = {}
      BY <1>0, <2>0, <2>1, ReadOnce, OncePrime DEF Once
    <2>3. Lefts(inbox'[s])
      <3>1. PICK n \in Message : /\ Reply(s, n) \/ UNCHANGED inbox
                                 /\ n.type = "left" => n.code = NoCode
        <4>1. m.code \in Codes \cup {NoCode}
          BY <2>0 DEF Message
        <4>2. \A type \in {"error", "registered", "created", "joined", "left"}, p \in Codes \cup {NoCode} :
                Msg(type, p) \in Message /\ Msg(type, p).type = type /\ Msg(type, p).code = p
          BY MessageType DEF Msg
        <4> QED
          BY <1>18, <4>1, <4>2 DEF Serve, ServeRegister, ServeCreate, ServeLeave, Admit, Refuse
      <3> QED
        BY <1>16, <3>1
    <2>4. m.type # "register" => cl' = cl
      BY <1>18 DEF Serve, ServeCreate, ServeLeave, Admit, Refuse, HandleCreateParty,
         HandleJoinParty, HandleLeaveParty, vars
    <2>5. CASE m.type = "register"
      BY <1>0, <2>1, <2>2, <2>3, <2>5, OncePrime DEF Once
    <2>6. CASE m.type # "register"
      BY <1>0, <2>1, <2>2, <2>3, <2>4, <2>6, OncePrime DEF Once
    <2> QED
      BY <2>5, <2>6
  <1> QED
    BY <1>4, <1>5, <1>6, <1>7, <1>8, <1>9, <1>11, <1>12, <1>13, <1>14, <1>15, <1>17, <1>18
       DEF Own, Connecting, Reading

LEMMA OnceOwn ==
  ASSUME SessionTypeOK, OnceInv, NEW s \in Sessions, Own(s)
  PROVE  OnceInv'
  <1>1. ASSUME NEW t \in Sessions \ {s} PROVE Once(t)'
    <2>1. Once(t) /\ Apart(t)
      BY OwnApart DEF OnceInv
    <2> QED
      BY <2>1, OncePrime DEF Once, Apart
  <1>2. ~deleted' => tell' = {}
    <2>1. CASE Connecting(s)
      BY <2>1 DEF OnceInv, Connecting, BeginConnect, Dial, DialFails, SendRegister, RegisterSendFails,
         Publish, OnDisconnected, wireVars
    <2>2. CASE Calling(s) \/ Reading(s)
      BY <2>2 DEF OnceInv, Calling, CreateCentralParty, LeaveCentralParty, AcceptPartyInvite, Request,
         JoinCentralParty, Reading, ReadError, HandleMessage, EventHandler, ReaderLeaves, ReaderDone,
         wireVars
    <2>3. CASE Serve(s) \/ ServerDrops(s) \/ TellPartyLeft(s)
      BY <2>3 DEF OnceInv, Serve, ServerDrops, TellPartyLeft, wireVars
    <2> QED
      BY <2>1, <2>2, <2>3 DEF Own
  <1> QED
    BY <1>1, <1>2, OnceSelf DEF OnceInv

-----------------------------------------------------------------------------
(* The application shows what the client has. *)

\* A connection that is open was, unless this step opened it.
LEMMA OpenBefore ==
  ASSUME TypeOK, NEW cn \in Conns, HubStep(cn), st[cn] # "unopened", NEW x \in Conns, st'[x] = "open"
  PROVE  st[x] = "open"
  <1> USE DEF TypeOK
  <1>0. ~Open(cn)
    BY DEF Open
  <1>1. CASE ReadFails(cn) \/ FinishDisconnect(cn)
    BY <1>1 DEF ReadFails, FinishDisconnect
  <1>2. CASE \E i \in Ids, n \in Names : RegisterRejected(cn, i, n)
    BY <1>2 DEF RegisterRejected
  <1>3. CASE \E i \in Ids, n \in Names, o \in Objs : Register(cn, i, n, o)
    BY <1>3 DEF Register, CloseConn
  <1>4. CASE HandleLeaveParty(cn) \/ \E p \in Codes : HandleCreateParty(cn, p) \/ HandleJoinParty(cn, p)
    BY <1>4 DEF HandleLeaveParty, HandleCreateParty, HandleJoinParty
  <1> QED
    BY <1>0, <1>1, <1>2, <1>3, <1>4 DEF HubStep

LEMMA OwnOpen ==
  ASSUME SessionTypeOK, NEW s \in Sessions, Own(s), ~Dial(s)
  PROVE  /\ st'[s] = "open" => st[s] = "open"
         /\ Alone(s)' => Alone(s)
  <1>1. TypeOK /\ s \in Conns
    BY DEF SessionTypeOK
  <1>2. CASE UNCHANGED st
    BY <1>2 DEF Alone
  <1>3. CASE Serve(s) \/ ServerDrops(s)
    <2>1. st[s] # "unopened"
      BY <1>3 DEF Serve, ServerDrops, Serving, ReadFails, FinishDisconnect
    <2>2. CASE HubStep(s)
      <3>1. \A x \in Conns : st[x] # "unopened" => st'[x] # "unopened"
        BY <1>1, <2>2, StaysOpened
      <3> QED
        BY <1>1, <2>1, <2>2, <3>1, OpenBefore, AloneBefore
    <2> QED
      BY <1>1, <1>2, <2>2, OwnHub DEF vars
  <1>4. UNCHANGED vars \/ Serve(s) \/ ServerDrops(s)
    BY DEF Own, Connecting, BeginConnect, DialFails, SendRegister, RegisterSendFails, Publish,
       OnDisconnected, Calling, CreateCentralParty, LeaveCentralParty, AcceptPartyInvite, Request,
       JoinCentralParty, Reading, ReadError, HandleMessage, EventHandler, ReaderLeaves, ReaderDone,
       TellPartyLeft
  <1> QED
    BY <1>2, <1>3, <1>4 DEF vars

\* Nothing a session does concerns one that is alone.
LEMMA OthersStay ==
  ASSUME SessionTypeOK, FreshInv, NEW s \in Sessions, Own(s), NEW t \in Sessions \ {s}, Alone(t)'
  PROVE  UNCHANGED <<vars, obj, reader, hand, app, notices, wireVars>>
  <1>1. s \in Conns /\ TypeOK /\ st'[s] = "unopened"
    BY DEF Alone, SessionTypeOK
  <1>2. st[s] = "unopened"
    <2>1. CASE UNCHANGED vars
      BY <1>1, <2>1 DEF vars
    <2>2. CASE HubStep(s)
      BY <1>1, <2>2, StaysOpened
    <2> QED
      BY <1>1, <2>1, <2>2, OwnHub
  <1>3. ~Dial(s)
    BY <1>1 DEF Dial, Open, TypeOK
  <1>4. BeginConnect(s) \/ DialFails(s)
    BY <1>2, <1>3, FreshStep
  <1> QED
    BY <1>4 DEF BeginConnect, DialFails

\* What the event handler shows depends on what is shown and on the frame.
LEMMA ShownOnly ==
  ASSUME NEW a \in AppState, NEW b \in AppState, NEW m \in Message,
         a.party = b.party, a.registered = b.registered
  PROVE  Shown(a, m).party = Shown(b, m).party /\ Shown(a, m).registered = Shown(b, m).registered
  BY DEF AppState, Message, Shown

\* It makes of a frame what the client made of it.
LEMMA ShownIsApplied ==
  ASSUME NEW a \in AppState, NEW c \in Client, NEW m \in Message,
         a.party = c.party, a.registered = c.registered
  PROVE  /\ Shown(a, m).party = Applied(c, m).party
         /\ Shown(a, m).registered = Applied(c, m).registered
         /\ Applied(c, m).connected = c.connected
         /\ Applied(c, m).party = IF Says(m) /\ (m.type = "left" => m.code = NoCode) THEN m.code
                                  ELSE IF m.type = "left" THEN NoCode ELSE c.party
         /\ Applied(c, m).registered = (c.registered \/ m.type = "registered")
  BY DEF AppState, Client, Message, Shown, Applied, Says

LEMMA ViewPrime ==
  ASSUME NEW s \in Sessions
  PROVE  View(s)' = IF reader'[s] = "event" THEN Shown(app', hand'[s]) ELSE app'
  BY DEF View, Shown

LEMMA ShowsPrime ==
  ASSUME NEW s \in Sessions,
         Bound(s)' => /\ notices' = {} /\ obj'[s].connected
                      /\ View(s)'.party = obj'[s].party
                      /\ View(s)'.registered = obj'[s].registered
  PROVE  Shows(s)'
  BY DEF Shows, View, Bound

LEMMA ShowsFrame ==
  ASSUME SessionTypeOK, SessionTypeOK', NEW s \in Sessions, Shows(s),
         Bound(s)' =>
           /\ Bound(s) /\ reader'[s] = reader[s] /\ hand'[s] = hand[s] /\ notices' = notices
           /\ obj'[s].connected = obj[s].connected
           /\ obj'[s].party = obj[s].party /\ obj'[s].registered = obj[s].registered
           /\ app'.party = app.party /\ app'.registered = app.registered
  PROVE  Shows(s)'
  <1> SUFFICES ASSUME Bound(s)'
               PROVE  /\ notices' = {} /\ obj'[s].connected
                      /\ View(s)'.party = obj'[s].party
                      /\ View(s)'.registered = obj'[s].registered
    BY ShowsPrime
  <1>1. app \in AppState /\ app' \in AppState /\ hand[s] \in Message
    BY DEF SessionTypeOK
  <1>2. /\ notices = {} /\ obj[s].connected
        /\ View(s).party = obj[s].party /\ View(s).registered = obj[s].registered
    BY DEF Shows
  <1>3. View(s)'.party = View(s).party /\ View(s)'.registered = View(s).registered
    <2>1. /\ Shown(app', hand[s]).party = Shown(app, hand[s]).party
          /\ Shown(app', hand[s]).registered = Shown(app, hand[s]).registered
      BY <1>1, ShownOnly
    <2> QED
      BY <2>1, ViewPrime DEF View
  <1> QED
    BY <1>2, <1>3

\* The application and the client start from nothing.
LEMMA ShowsDial ==
  ASSUME SessionTypeOK, SessionTypeOK', FreshInv, NEW s \in Sessions, Dial(s)
  PROVE  Shows(s)'
  <1> SUFFICES ASSUME Bound(s)'
               PROVE  /\ notices' = {} /\ obj'[s].connected
                      /\ View(s)'.party = obj'[s].party
                      /\ View(s)'.registered = obj'[s].registered
    BY ShowsPrime
  <1>1. s \in Conns /\ st \in [Conns -> ConnState] /\ obj \in [Sessions -> Client] /\ obj[s] \in Client
        /\ notices \subseteq Sessions
    BY DEF SessionTypeOK, TypeOK
  <1>2. /\ st[s] = "unopened" /\ UNCHANGED <<app, hand, notices>>
        /\ reader'[s] = "reading" /\ st' = [st EXCEPT ![s] = "open"]
    BY DEF Dial, Open, SessionTypeOK
  <1>3. obj'[s].connected /\ obj'[s].party = obj[s].party /\ obj'[s].registered = obj[s].registered
    BY <1>1 DEF Dial, Client
  <1>4. \A t \in Sessions : st[t] = "unopened"
    <2>1. \A t \in Sessions \ {s} : st'[t] = "unopened"
      BY DEF Bound, Alone
    <2> QED
      BY <1>1, <1>2, <2>1
  <1>5. /\ ~app.registered /\ app.party = NoCode /\ notices = {}
        /\ ~obj[s].registered /\ obj[s].party = NoCode
    BY <1>1, <1>4 DEF FreshInv, Untouched
  <1>6. View(s)' = app
    BY <1>2, ViewPrime
  <1>7. obj[s].registered \in BOOLEAN /\ app.registered \in BOOLEAN
    BY <1>1 DEF SessionTypeOK, AppState, Client
  <1> QED
    BY <1>2, <1>3, <1>5, <1>6, <1>7

\* The two halves of a frame: the client has it, then the application shows it.
LEMMA ShowsMessage ==
  ASSUME SessionTypeOK, SessionTypeOK', NEW s \in Sessions, Shows(s),
         HandleMessage(s) \/ EventHandler(s)
  PROVE  Shows(s)'
  <1> SUFFICES ASSUME Bound(s)'
               PROVE  /\ notices' = {} /\ obj'[s].connected
                      /\ View(s)'.party = obj'[s].party
                      /\ View(s)'.registered = obj'[s].registered
    BY ShowsPrime
  <1>1. /\ app \in AppState /\ hand[s] \in Message /\ obj[s] \in Client /\ obj \in [Sessions -> Client]
        /\ DOMAIN reader = Sessions /\ DOMAIN hand = Sessions
    BY DEF SessionTypeOK
  <1>2. UNCHANGED <<st, notices>>
    BY DEF HandleMessage, EventHandler, vars
  <1>3. CASE HandleMessage(s)
    <2> DEFINE m == Head(inbox[s])
    <2>1. m \in Message
      BY <1>3 DEF HandleMessage, SessionTypeOK
    <2>2. /\ reader[s] = "reading" /\ reader'[s] = "event" /\ hand'[s] = m
          /\ obj'[s] = Applied(obj[s], m) /\ app' = app
      BY <1>1, <1>3 DEF HandleMessage, At, Goto
    <2>3. obj'[s].conn = obj[s].conn
      BY <1>1, <2>1, <2>2 DEF Applied, Client
    <2>4. Bound(s)
      BY <1>2, <2>2, <2>3 DEF Bound, Alone
    <2>5. notices = {} /\ obj[s].connected /\ app.party = obj[s].party /\ app.registered = obj[s].registered
      BY <2>2, <2>4 DEF Shows, View
    <2>6. View(s)' = Shown(app, m)
      BY <2>2, ViewPrime
    <2> QED
      BY <1>1, <1>2, <2>1, <2>2, <2>5, <2>6, ShownIsApplied
  <1>4. CASE EventHandler(s)
    <2>1. /\ reader[s] = "event" /\ reader'[s] = "reading" /\ UNCHANGED obj
          /\ app' = Shown(app, hand[s])
      BY <1>1, <1>4 DEF EventHandler, At, Goto
    <2>2. Bound(s)
      BY <1>2, <2>1 DEF Bound, Alone
    <2>3. View(s)' = View(s)
      BY <2>1, ViewPrime DEF View
    <2> QED
      BY <1>2, <2>1, <2>2, <2>3 DEF Shows
  <1> QED
    BY <1>3, <1>4

LEMMA ShowsSelf ==
  ASSUME SessionTypeOK, SessionTypeOK', FreshInv, NEW s \in Sessions, Shows(s), Own(s)
  PROVE  Shows(s)'
  <1>0. /\ app \in AppState /\ obj \in [Sessions -> Client] /\ obj[s] \in Client
        /\ DOMAIN reader = Sessions /\ DOMAIN hand = Sessions
    BY DEF SessionTypeOK
  <1>1. ASSUME ~Dial(s), UNCHANGED <<obj, reader, hand, app, notices>> PROVE Shows(s)'
    <2>1. Bound(s)' => Bound(s)
      BY <1>1, OwnOpen DEF Bound
    <2> QED
      BY <1>1, <2>1, ShowsFrame
  <1>2. CASE Dial(s)
    BY <1>2, ShowsDial
  <1>3. CASE ~Dial(s) /\ (BeginConnect(s) \/ DialFails(s) \/ SendRegister(s))
    BY <1>1, <1>3 DEF BeginConnect, DialFails, SendRegister
  <1>4. CASE RegisterSendFails(s)
    <2>1. st'[s] # "open"
      BY <1>4 DEF RegisterSendFails, vars
    <2> QED
      BY <2>1, ShowsPrime DEF Bound
  <1>5. CASE Publish(s)
    <2>1. /\ app'.party = app.party /\ app'.registered = app.registered
          /\ UNCHANGED <<st, obj, reader, hand, notices>>
      BY <1>0, <1>5 DEF Publish, AppState, vars
    <2>2. Bound(s)' => Bound(s)
      BY <2>1 DEF Bound, Alone
    <2> QED
      BY <2>1, <2>2, ShowsFrame
  <1>6. CASE OnDisconnected(s)
    <2>1. notices # {} /\ UNCHANGED <<st, obj, reader>>
      BY <1>6 DEF OnDisconnected, vars
    <2>2. Bound(s)' => Bound(s)
      BY <2>1 DEF Bound, Alone
    <2> QED
      BY <2>1, <2>2, ShowsPrime DEF Shows
  <1>7. CASE ~Dial(s) /\ Calling(s)
    <2>1. ASSUME NEW j \in Joins, NEW p \in Codes, JoinCentralParty(s, j, p) PROVE Shows(s)'
      <3>1. UNCHANGED <<st, reader, hand, app, notices>>
        BY <2>1 DEF JoinCentralParty, vars
      <3>2. /\ obj'[s].connected = obj[s].connected /\ obj'[s].conn = obj[s].conn
            /\ obj'[s].party = obj[s].party /\ obj'[s].registered = obj[s].registered
        BY <1>0, <2>1 DEF JoinCentralParty, Client
      <3>3. Bound(s)' => Bound(s)
        BY <3>1, <3>2 DEF Bound, Alone
      <3> QED
        BY <3>1, <3>2, <3>3, ShowsFrame
    <2> QED
      BY <1>1, <1>7, <2>1 DEF Calling, CreateCentralParty, LeaveCentralParty, AcceptPartyInvite,
         Request, clientVars
  <1>8. CASE HandleMessage(s) \/ EventHandler(s)
    BY <1>8, ShowsMessage
  <1>9. CASE ReadError(s) \/ ReaderLeaves(s) \/ ReaderDone(s)
    <2>1. reader'[s] \notin {"reading", "event"}
      BY <1>0, <1>9 DEF ReadError, ReaderLeaves, ReaderDone, Goto
    <2> QED
      BY <2>1, ShowsPrime DEF Bound
  <1>10. CASE ~Dial(s) /\ (Serve(s) \/ ServerDrops(s) \/ TellPartyLeft(s))
    BY <1>1, <1>10 DEF Serve, ServerDrops, TellPartyLeft, clientVars
  <1> QED
    BY <1>2, <1>3, <1>4, <1>5, <1>6, <1>7, <1>8, <1>9, <1>10 DEF Own, Connecting, Reading

LEMMA ShowsOwn ==
  ASSUME SessionTypeOK, SessionTypeOK', FreshInv, \A t \in Sessions : Shows(t),
         NEW s \in Sessions, Own(s), NEW t \in Sessions
  PROVE  Shows(t)'
  <1>1. CASE t = s
    BY <1>1, ShowsSelf
  <1>2. CASE t # s
    <2>1. Bound(t)' => UNCHANGED <<st, obj, reader, hand, app, notices>>
      BY <1>2, OthersStay DEF Bound, vars
    <2>2. Bound(t)' => Bound(t)
      BY <2>1 DEF Bound, Alone
    <2> QED
      BY <2>1, <2>2, ShowsFrame
  <1> QED
    BY <1>1, <1>2

-----------------------------------------------------------------------------
(* The client has what the server has, but for the frames on the way. *)
LEMMA GrantsAppend ==
  ASSUME NEW q \in Seq(Message), NEW m \in Message
  PROVE  Grants(Append(q, m)) => Grants(q) \/ m.type = "registered"
  <1>a. PICK n \in Nat : n = Len(q)
    OBVIOUS
  <1>b. Append(q, m) \in Seq(Message)
    OBVIOUS
  <1>1. PICK r \in Seq(Message) : r = Append(q, m) /\ n = Len(q)
    BY <1>a, <1>b
  <1>2. Len(r) = n + 1 /\ r[n + 1] = m /\ \A i \in 1..n : r[i] = q[i]
    BY <1>1
  <1>3. \A i \in 1..(n + 1) : i \in 1..n \/ i = n + 1
    OBVIOUS
  <1> QED
    BY <1>1, <1>2, <1>3 DEF Grants

LEMMA GrantsTail ==
  ASSUME NEW q \in Seq(Message), q # <<>>, Grants(Tail(q)) \/ Head(q).type = "registered"
  PROVE  Grants(q)
  <1>a. PICK n \in Nat : n + 1 = Len(q)
    OBVIOUS
  <1>b. Tail(q) \in Seq(Message)
    OBVIOUS
  <1>1. PICK r \in Seq(Message) : r = Tail(q) /\ n + 1 = Len(q)
    BY <1>a, <1>b
  <1>2. Len(r) = n /\ Head(q) = q[1] /\ \A i \in 1..n : r[i] = q[i + 1]
    BY <1>1
  <1>3. 1 \in 1..Len(q) /\ \A i \in 1..n : i + 1 \in 1..Len(q)
    BY <1>1
  <1> QED
    BY <1>1, <1>2, <1>3 DEF Grants

LEMMA FollowsPrime ==
  ASSUME NEW s \in Sessions,
         Bound(s)' =>
           /\ obj'[s].registered \/ Grants(inbox'[s]) => cl'[s] # NoObj
           /\ s \notin tell' => \/ Ends(inbox'[s], obj'[s].party, There(s)')
                                \/ Ends(inbox'[s], obj'[s].party, NoCode)
           /\ ~deleted' => Ends(inbox'[s], obj'[s].party, There(s)')
  PROVE  Follows(s)'
  BY DEF Follows, Grants, Ends, Says, There, Bound

\* What the client and the server keep is as it was, and nothing came between.
LEMMA FollowsFrame ==
  ASSUME NEW s \in Sessions, Follows(s),
         Bound(s)' =>
           /\ Bound(s)
           /\ obj'[s].party = obj[s].party /\ obj'[s].registered = obj[s].registered
           /\ inbox'[s] = inbox[s] /\ There(s)' = There(s) /\ cl'[s] = cl[s]
           /\ s \in tell => s \in tell'
           /\ deleted' = deleted
  PROVE  Follows(s)'
  <1>1. Bound(s)' =>
           /\ obj'[s].registered \/ Grants(inbox'[s]) => cl'[s] # NoObj
           /\ s \notin tell' => \/ Ends(inbox'[s], obj'[s].party, There(s)')
                                \/ Ends(inbox'[s], obj'[s].party, NoCode)
           /\ ~deleted' => Ends(inbox'[s], obj'[s].party, There(s)')
    BY DEF Follows
  <1> QED
    BY <1>1, FollowsPrime

\* The server answers with the party it put the client in.
LEMMA FollowsReply ==
  ASSUME SessionTypeOK, NEW s \in Sessions, NEW m \in Message, Follows(s), Reply(s, m), obj' = obj,
         Bound(s)' => Bound(s), tell' = tell, deleted' = deleted,
         There(s)' = IF Says(m) THEN m.code ELSE There(s),
         cl[s] # NoObj \/ m.type = "registered" => cl'[s] # NoObj
  PROVE  Follows(s)'
  <1> SUFFICES ASSUME Bound(s)'
               PROVE  /\ obj'[s].registered \/ Grants(inbox'[s]) => cl'[s] # NoObj
                      /\ s \notin tell' => \/ Ends(inbox'[s], obj'[s].party, There(s)')
                                           \/ Ends(inbox'[s], obj'[s].party, NoCode)
                      /\ ~deleted' => Ends(inbox'[s], obj'[s].party, There(s)')
    BY FollowsPrime
  <1> DEFINE q == inbox[s]
  <1>1. q \in Seq(Message) /\ inbox'[s] = Append(q, m)
    BY DEF SessionTypeOK, Reply, Bound, Listening
  <1>2. Grants(inbox'[s]) => Grants(q) \/ m.type = "registered"
    BY <1>1, GrantsAppend
  <1>3. /\ Says(m) => Ends(Append(q, m), obj[s].party, m.code)
        /\ \A v : ~Says(m) /\ Ends(q, obj[s].party, v) => Ends(Append(q, m), obj[s].party, v)
    BY <1>1, EndsAppend
  <1> QED
    BY <1>1, <1>2, <1>3 DEF Follows

\* A deletion's party_left is sent late: only what the client had ends there.
LEMMA FollowsTell ==
  ASSUME SessionTypeOK, OnceInv, NEW s \in Sessions, Follows(s), TellPartyLeft(s)
  PROVE  Follows(s)'
  <1> SUFFICES ASSUME Bound(s)'
               PROVE  /\ obj'[s].registered \/ Grants(inbox'[s]) => cl'[s] # NoObj
                      /\ s \notin tell' => \/ Ends(inbox'[s], obj'[s].party, There(s)')
                                           \/ Ends(inbox'[s], obj'[s].party, NoCode)
                      /\ ~deleted' => Ends(inbox'[s], obj'[s].party, There(s)')
    BY FollowsPrime
  <1> DEFINE m == Msg("left", NoCode)
  <1>1. m \in Message /\ m.type = "left" /\ Says(m) /\ m.code = NoCode
    BY MessageType DEF Msg, Says
  <1>2. UNCHANGED <<st, cl, code, obj, reader, deleted>> /\ deleted /\ Reply(s, m)
    BY DEF TellPartyLeft, OnceInv, vars, clientVars
  <1>3. Bound(s)
    BY <1>2 DEF Bound, Alone
  <1>4. inbox[s] \in Seq(Message) /\ inbox'[s] = Append(inbox[s], m)
    BY <1>2, <1>3 DEF SessionTypeOK, Reply, Bound, Listening
  <1>5. Grants(inbox'[s]) => Grants(inbox[s])
    BY <1>1, <1>4, GrantsAppend
  <1>6. Ends(inbox'[s], obj'[s].party, NoCode)
    BY <1>1, <1>4, EndsAppend
  <1> QED
    BY <1>2, <1>3, <1>5, <1>6 DEF Follows

LEMMA FollowsDial ==
  ASSUME SessionTypeOK, FreshInv, NEW s \in Sessions, Dial(s)
  PROVE  Follows(s)'
  <1>1. s \in Conns /\ obj[s] \in Client /\ obj \in [Sessions -> Client]
    BY DEF SessionTypeOK
  <1>2. st[s] = "unopened" /\ Untouched(s)
    BY DEF Dial, Open, FreshInv
  <1>3. inbox'[s] = <<>> /\ cl'[s] = NoObj /\ ~obj'[s].registered /\ obj'[s].party = NoCode
    BY <1>1, <1>2 DEF Dial, Open, Untouched, wireVars, Client
  <1>4. There(s)' = NoCode
    BY <1>3 DEF There
  <1>5. Ends(<<>>, NoCode, NoCode) /\ ~Grants(<<>>)
    BY DEF Ends, Grants
  <1> QED
    BY <1>3, <1>4, <1>5, FollowsPrime

\* A frame moves from what is on the way to what the client has.
LEMMA FollowsHandle ==
  ASSUME SessionTypeOK, OnceInv, NEW s \in Sessions, Follows(s), HandleMessage(s)
  PROVE  Follows(s)'
  <1> DEFINE m == Head(inbox[s])
  <1> SUFFICES ASSUME Bound(s)'
               PROVE  /\ obj'[s].registered \/ Grants(inbox'[s]) => cl'[s] # NoObj
                      /\ s \notin tell' => \/ Ends(inbox'[s], obj'[s].party, There(s)')
                                           \/ Ends(inbox'[s], obj'[s].party, NoCode)
                      /\ ~deleted' => Ends(inbox'[s], obj'[s].party, There(s)')
    BY FollowsPrime
  <1>1. /\ inbox[s] \in Seq(Message) /\ inbox[s] # <<>> /\ inbox'[s] = Tail(inbox[s])
        /\ m \in Message /\ obj[s] \in Client /\ obj'[s] = Applied(obj[s], m)
        /\ UNCHANGED <<st, cl, code, tell, deleted>> /\ reader[s] = "reading"
    BY DEF HandleMessage, SessionTypeOK, vars, At
  <1>2. m.type = "left" => m.code = NoCode
    BY <1>1, LeftsTail DEF OnceInv, Once
  <1>3. /\ obj'[s].conn = obj[s].conn
        /\ obj'[s].party = IF Says(m) THEN m.code ELSE obj[s].party
        /\ obj'[s].registered => obj[s].registered \/ m.type = "registered"
    BY <1>1, <1>2 DEF Applied, Client, Says
  <1>4. Bound(s) /\ There(s)' = There(s)
    BY <1>1, <1>3 DEF Bound, Alone, There
  <1>5. obj'[s].registered \/ Grants(inbox'[s]) => obj[s].registered \/ Grants(inbox[s])
    BY <1>1, <1>3, GrantsTail
  <1>6. \A v : Ends(inbox[s], obj[s].party, v) => Ends(inbox'[s], obj'[s].party, v)
    BY <1>1, <1>3, EndsTail
  <1> QED
    BY <1>1, <1>4, <1>5, <1>6 DEF Follows

\* What joining and leaving do to the party of a session that is alone.
LEMMA ThereJoins ==
  ASSUME PartyInv, NEW s \in Sessions, cl[s] # NoObj, NEW p \in Codes, AddMember(p, cl[s]),
         info' = info, cl' = cl
  PROVE  There(s)' = p
  <1>1. s \in Conns /\ cl[s] \in Allocated
    BY DEF PartyInv, WiringOK
  <1>2. code'[cl[s]] = p
    BY <1>1, JoinStep
  <1> QED
    BY <1>2 DEF There

LEMMA ThereLeaves ==
  ASSUME PartyInv, MineInv, NEW s \in Sessions, Alone(s), cl[s] # NoObj, code[cl[s]] # NoCode,
         LeaveParty(cl[s]), info' = info, cl' = cl
  PROVE  There(s)' = NoCode /\ code[cl[s]] \in parties
  <1>1. s \in Conns /\ cl[s] \in Allocated /\ code[cl[s]] \in Codes
    BY DEF PartyInv, WiringOK, TypeOK, Allocated
  <1>2. Listed(s) /\ There(s) = code[cl[s]]
    BY MineParts DEF There
  <1>3. cl[s] \in members[code[cl[s]]]
    BY <1>2 DEF Listed
  <1>4. code[cl[s]] \in parties
    BY <1>1, <1>3 DEF PartyInv, MembersAgree
  <1>5. code'[cl[s]] = NoCode
    BY <1>1, <1>3, LeaveStep
  <1> QED
    BY <1>4, <1>5 DEF There

LEMMA FollowsServe ==
  ASSUME SessionTypeOK, PartyInv, MineInv, OnceInv, NEW s \in Sessions, Follows(s), Serve(s)
  PROVE  Follows(s)'
  <1> SUFFICES ASSUME Bound(s)' PROVE Follows(s)'
    BY FollowsPrime
  <1> DEFINE m == Head(out[s])
  <1>1. /\ s \in Conns /\ out[s] \in Seq(Message) /\ out[s] # <<>> /\ m \in Message
        /\ UNCHANGED <<obj, reader, tell, deleted>> /\ Serving(s)
        /\ code \in [Objs -> Codes \cup {NoCode}] /\ TypeOK
    BY DEF Serve, SessionTypeOK, TypeOK, clientVars
  <1>2. st[s] = "open" /\ Bound(s)
    <2>1. ~Dial(s)
      BY <1>1 DEF Dial, Open, Serving
    <2>2. Own(s)
      BY DEF Own
    <2> QED
      BY <1>1, <2>1, <2>2, OwnOpen DEF Bound
  <1>3. \A type \in {"error", "registered", "created", "joined", "left"}, p \in Codes \cup {NoCode} :
          /\ Msg(type, p) \in Message /\ Msg(type, p).code = p /\ Msg(type, p).type = type
          /\ Says(Msg(type, p)) <=> type \in {"created", "joined", "left"}
    BY MessageType DEF Msg, Says
  <1>4. ASSUME Refuse(s) PROVE Follows(s)'
    <2>1. Reply(s, Msg("error", NoCode)) /\ UNCHANGED <<cl, code>>
      BY <1>4 DEF Refuse, vars
    <2>2. There(s)' = There(s)
      BY <2>1 DEF There
    <2> QED
      BY <1>1, <1>2, <1>3, <2>1, <2>2, FollowsReply
  <1>5. ASSUME NEW p, Admit(s, p) PROVE Follows(s)'
    <2>1. CASE HandleJoinParty(s, p) /\ Reply(s, Msg("joined", p))
      <3>1. /\ p \in Codes /\ cl[s] # NoObj /\ AddMember(p, cl[s])
            /\ info' = info /\ cl' = cl
        BY <1>1, <2>1 DEF HandleJoinParty, InLoop, TypeOK
      <3>2. There(s)' = p
        BY <3>1, ThereJoins
      <3> QED
        BY <1>1, <1>2, <1>3, <2>1, <3>1, <3>2, FollowsReply
    <2> QED
      BY <1>4, <1>5, <2>1 DEF Admit
  <1>6. ASSUME NEW p \in Codes, HandleCreateParty(s, p), Reply(s, Msg("created", p)) PROVE Follows(s)'
    <2>1. /\ cl[s] # NoObj /\ AddMember(p, cl[s])
          /\ info' = info /\ cl' = cl
      BY <1>6 DEF HandleCreateParty, InLoop
    <2>2. There(s)' = p
      BY <2>1, ThereJoins
    <2> QED
      BY <1>1, <1>2, <1>3, <1>6, <2>1, <2>2, FollowsReply
  <1>7. CASE ServeLeave(s)
    <2>1. ASSUME HandleLeaveParty(s),
                 IF code[cl[s]] \in parties THEN Reply(s, Msg("left", NoCode)) ELSE UNCHANGED inbox
          PROVE  Follows(s)'
      <3>1. /\ cl[s] # NoObj /\ code[cl[s]] # NoCode /\ LeaveParty(cl[s])
            /\ info' = info /\ cl' = cl
        BY <2>1 DEF HandleLeaveParty, InLoop
      <3>2. There(s)' = NoCode /\ code[cl[s]] \in parties
        BY <1>2, <3>1, ThereLeaves DEF Bound
      <3> QED
        BY <1>1, <1>2, <1>3, <2>1, <3>1, <3>2, FollowsReply
    <2> QED
      BY <1>4, <1>7, <2>1 DEF ServeLeave
  <1>8. CASE m.type = "register" /\ ServeRegister(s)
    <2>1. cl[s] = NoObj
      BY <1>1, <1>8, RegistersTail DEF OnceInv, Once
    <2>2. ~RegisterRejected(s, Me, MyName)
      BY <1>1 DEF RegisterRejected, Bound, TypeOK
    <2>3. ASSUME NEW o \in Objs, Register(s, Me, MyName, o), Reply(s, Msg("registered", NoCode))
          PROVE  Follows(s)'
      <3>1. cl'[s] = o /\ o # NoObj /\ code' = code /\ info[o] = NoInfo
        BY <1>1, <2>3, PartyHubAssumption DEF Register, TypeOK, Allocated
      <3>2. code[o] = NoCode
        BY <3>1, MineParts DEF Unused
      <3>3. There(s)' = NoCode /\ There(s) = NoCode
        BY <2>1, <3>1, <3>2 DEF There
      <3> QED
        BY <1>1, <1>2, <1>3, <2>3, <3>1, <3>3, FollowsReply
    <2> QED
      BY <1>8, <2>2, <2>3 DEF ServeRegister
  <1>9. CASE ServeCreate(s)
    BY <1>4, <1>6, <1>9 DEF ServeCreate
  <1> QED
    BY <1>4, <1>5, <1>7, <1>8, <1>9 DEF Serve

LEMMA FollowsSelf ==
  ASSUME SessionTypeOK, PartyInv, FreshInv, MineInv, OnceInv, NEW s \in Sessions, Follows(s), Own(s)
  PROVE  Follows(s)'
  <1>0. /\ obj \in [Sessions -> Client] /\ obj[s] \in Client /\ DOMAIN reader = Sessions
        /\ s \in Conns /\ TypeOK
    BY DEF SessionTypeOK
  <1>1. ASSUME UNCHANGED <<vars, obj, reader, wireVars>> \/ UNCHANGED <<vars, obj, reader, inbox, tell, deleted>>
        PROVE  Follows(s)'
    <2>1. UNCHANGED <<st, cl, code, obj, reader, inbox, tell, deleted>>
      BY <1>1 DEF vars, wireVars
    <2>2. There(s)' = There(s) /\ (Bound(s)' => Bound(s))
      BY <2>1 DEF There, Bound, Alone
    <2> QED
      BY <2>1, <2>2, FollowsFrame
  <1>2. CASE Dial(s)
    BY <1>2, FollowsDial
  <1>3. CASE BeginConnect(s) \/ DialFails(s) \/ SendRegister(s) \/ Publish(s) \/ OnDisconnected(s)
    BY <1>1, <1>3 DEF BeginConnect, DialFails, SendRegister, Publish, OnDisconnected
  <1>4. CASE RegisterSendFails(s)
    <2>1. st'[s] # "open"
      BY <1>4 DEF RegisterSendFails, vars
    <2> QED
      BY <2>1, FollowsPrime DEF Bound
  <1>5. CASE Calling(s)
    <2>1. ASSUME NEW j \in Joins, NEW p \in Codes, JoinCentralParty(s, j, p) PROVE Follows(s)'
      <3>1. UNCHANGED <<st, cl, code, reader, inbox, tell, deleted>>
        BY <2>1 DEF JoinCentralParty, vars, wireVars
      <3>2. /\ obj'[s].conn = obj[s].conn
            /\ obj'[s].party = obj[s].party /\ obj'[s].registered = obj[s].registered
        BY <1>0, <2>1 DEF JoinCentralParty, Client
      <3>3. There(s)' = There(s) /\ (Bound(s)' => Bound(s))
        BY <3>1, <3>2 DEF There, Bound, Alone
      <3> QED
        BY <3>1, <3>2, <3>3, FollowsFrame
    <2> QED
      BY <1>1, <1>5, <2>1 DEF Calling, CreateCentralParty, LeaveCentralParty, AcceptPartyInvite,
         Request, clientVars
  <1>6. CASE HandleMessage(s)
    BY <1>6, FollowsHandle
  <1>7. CASE EventHandler(s)
    <2>1. UNCHANGED <<st, cl, code, obj, inbox, tell, deleted>> /\ reader[s] = "event"
      BY <1>7 DEF EventHandler, At, vars, wireVars
    <2>2. There(s)' = There(s) /\ (Bound(s)' => Bound(s))
      BY <2>1 DEF There, Bound, Alone
    <2> QED
      BY <2>1, <2>2, FollowsFrame
  <1>8. CASE ReadError(s) \/ ReaderLeaves(s) \/ ReaderDone(s)
    <2>1. reader'[s] \notin {"reading", "event"}
      BY <1>0, <1>8 DEF ReadError, ReaderLeaves, ReaderDone, Goto
    <2> QED
      BY <2>1, FollowsPrime DEF Bound
  <1>9. CASE Serve(s)
    BY <1>9, FollowsServe
  <1>10. CASE ServerDrops(s)
    <2>1. st'[s] # "open"
      BY <1>0, <1>10 DEF ServerDrops, ReadFails, FinishDisconnect, TypeOK
    <2> QED
      BY <2>1, FollowsPrime DEF Bound
  <1>11. CASE TellPartyLeft(s)
    BY <1>11, FollowsTell
  <1> QED
    BY <1>2, <1>3, <1>4, <1>5, <1>6, <1>7, <1>8, <1>9, <1>10, <1>11 DEF Own, Connecting, Reading

LEMMA FollowsOwn ==
  ASSUME SessionTypeOK, PartyInv, FreshInv, MineInv, OnceInv, \A t \in Sessions : Follows(t),
         NEW s \in Sessions, Own(s), NEW t \in Sessions
  PROVE  Follows(t)'
  <1>1. CASE t = s
    BY <1>1, FollowsSelf
  <1>2. CASE t # s
    <2>1. Bound(t)' => UNCHANGED <<st, cl, code, obj, reader, inbox, tell, deleted>>
      BY <1>2, OthersStay DEF Bound, vars, wireVars
    <2>2. Bound(t)' => Bound(t) /\ There(t)' = There(t)
      BY <2>1 DEF Bound, Alone, There
    <2> QED
      BY <2>1, <2>2, FollowsFrame
  <1> QED
    BY <1>1, <1>2

-----------------------------------------------------------------------------
(* The other steps, and the theorem. *)

\* The parts of AgreeInv a step keeps that leaves the server and the wires alone
\* and, of every client, the connection and whether it is fresh.
LEMMA FreshFrame ==
  ASSUME FreshInv, UNCHANGED <<dial, reader>>,
         \A x \in Conns : st[x] # "unopened" => st'[x] # "unopened",
         \A t \in Sessions : st'[t] = "unopened" =>
           /\ obj'[t].conn = obj[t].conn /\ obj'[t].connected = obj[t].connected
           /\ obj'[t].registered = obj[t].registered /\ obj'[t].party = obj[t].party
           /\ t \in notices' => t \in notices
           /\ app'.client = t => app.client = t
           /\ t \in tell' => t \in tell
           /\ out'[t] = out[t] /\ inbox'[t] = inbox[t] /\ cl'[t] = cl[t],
         \/ app'.registered = app.registered /\ app'.party = app.party
         \/ ~app'.registered /\ app'.party = NoCode
  PROVE  FreshInv'
  <1>0. \A t \in Sessions : t \in Conns
    OBVIOUS
  <1>1. ASSUME NEW t \in Sessions PROVE Untouched(t)'
    <2>1. Untouched(t)
      BY DEF FreshInv
    <2> QED
      BY <1>0, <2>1 DEF Untouched
  <1>2. (\A t \in Sessions : st'[t] = "unopened") => ~app'.registered /\ app'.party = NoCode
    BY <1>0 DEF FreshInv
  <1> QED
    BY <1>1, <1>2 DEF FreshInv

LEMMA OnceFrame ==
  ASSUME OnceInv, UNCHANGED <<dial, out, inbox, tell, deleted>>, \A s \in Sessions : cl'[s] = cl[s]
  PROVE  OnceInv'
  <1>1. ASSUME NEW s \in Sessions PROVE Once(s)'
    <2>1. Once(s)
      BY DEF OnceInv
    <2> QED
      BY <2>1, OncePrime DEF Once
  <1> QED
    BY <1>1 DEF OnceInv

\* MineInv is about the server only.
LEMMA MineFrame == MineInv /\ UNCHANGED vars => MineInv'
  BY DEF MineInv, vars, Alone, There, Allocated

\* A session of which nothing but c.joinResponse and the frames it sends change.
LEMMA AgreeFrame ==
  ASSUME SessionTypeOK, SessionTypeOK', NEW s \in Sessions, Shows(s), Follows(s),
         UNCHANGED <<vars, reader, hand, app, notices, inbox, tell, deleted>>,
         obj'[s].conn = obj[s].conn, obj'[s].connected = obj[s].connected,
         obj'[s].registered = obj[s].registered, obj'[s].party = obj[s].party
  PROVE  Shows(s)' /\ Follows(s)'
  <1>1. There(s)' = There(s) /\ (Bound(s)' => Bound(s))
    BY DEF There, Bound, Alone, vars
  <1>2. Shows(s)'
    BY <1>1, ShowsFrame
  <1>3. Follows(s)'
    BY <1>1, FollowsFrame DEF vars
  <1> QED
    BY <1>2, <1>3

LEMMA AgreeDisconnect ==
  ASSUME SessionTypeOK, SessionTypeOK', AgreeInv, DisconnectFromPartyServer
  PROVE  AgreeInv'
  <1> DEFINE s == app.client
  <1>1. /\ s \in Sessions /\ app \in AppState /\ obj \in [Sessions -> Client] /\ obj[s] \in Client
        /\ UNCHANGED <<vars, reader, hand, dial, wireVars>>
    BY DEF DisconnectFromPartyServer, SessionTypeOK, AppState
  <1>2. /\ app'.client = NoSession /\ ~app'.registered /\ app'.party = NoCode
    BY <1>1 DEF DisconnectFromPartyServer, Cleared, AppState
  <1>3. \A t \in Sessions \ {s} : obj'[t] = obj[t] /\ (t \in notices' <=> t \in notices)
    BY <1>1 DEF DisconnectFromPartyServer, ClientDisconnect
  <1>4. IF obj[s].connected THEN obj'[s].conn = "nil" ELSE obj'[s] = obj[s] /\ notices' = notices
    <2>1. ClientDisconnect(s)
      BY DEF DisconnectFromPartyServer
    <2>2. CASE obj[s].connected
      <3> DEFINE new == [obj[s] EXCEPT !.conn = "nil", !.connected = FALSE,
                                       !.registered = FALSE, !.party = NoCode]
      <3>1. new.conn = "nil"
        BY <1>1 DEF Client
      <3>2. obj' = [obj EXCEPT ![s] = new]
        BY <2>1, <2>2 DEF ClientDisconnect
      <3> HIDE DEF new
      <3> QED
        BY <1>1, <2>2, <3>1, <3>2
    <2>3. CASE ~obj[s].connected
      BY <2>1, <2>3 DEF ClientDisconnect
    <2> QED
      BY <2>2, <2>3
  <1>5. st[s] # "unopened"
    BY <1>1 DEF AgreeInv, FreshInv, Untouched
  <1>6. FreshInv'
    <2>1. NoSession \notin Sessions
      OBVIOUS
    <2> QED
      BY <1>1, <1>2, <1>3, <1>5, <2>1, FreshFrame DEF AgreeInv, vars, wireVars
  <1>7. MineInv' /\ OnceInv'
    BY <1>1, MineFrame, OnceFrame DEF AgreeInv, vars, wireVars
  <1>8. ASSUME NEW t \in Sessions PROVE Shows(t)' /\ Follows(t)'
    <2>1. Bound(t)' => t = s
      BY <1>1, <1>5 DEF Bound, Alone, vars
    <2>2. ~Bound(t)'
      <3>1. CASE obj[s].connected
        BY <1>4, <2>1, <3>1 DEF Bound
      <3>2. CASE ~obj[s].connected
        <4>1. Bound(t)' => Bound(s)
          BY <1>1, <1>4, <2>1, <3>2 DEF Bound, Alone, vars
        <4> QED
          BY <1>1, <3>2, <4>1 DEF AgreeInv, Shows
      <3> QED
        BY <3>1, <3>2
    <2> QED
      BY <2>2, ShowsPrime, FollowsPrime
  <1> QED
    BY <1>6, <1>7, <1>8 DEF AgreeInv

LEMMA AgreeJoining ==
  ASSUME JoinInv, SessionTypeOK, SessionTypeOK', AgreeInv, NEW j \in Joins, Joining(j)
  PROVE  AgreeInv'
  <1> DEFINE s == call[j].on
  <1>1. /\ s \in Sessions /\ obj \in [Sessions -> Client]
        /\ out \in [Sessions -> Seq(Message)] /\ call[j] \in JoinCall
    BY DEF JoinInv, SessionTypeOK, Joining, SendJoin, SendJoinFails, EnterSelect, JoinAnswered, JoinTimesOut
  <1>2. UNCHANGED <<vars, reader, hand, dial, app, notices, inbox, tell, deleted>>
    BY DEF Joining, SendJoin, SendJoinFails, EnterSelect, JoinAnswered, JoinTimesOut, wireVars
  <1>3. \A t \in Sessions :
          /\ obj'[t].conn = obj[t].conn /\ obj'[t].connected = obj[t].connected
          /\ obj'[t].registered = obj[t].registered /\ obj'[t].party = obj[t].party
    <2>1. obj' = obj \/ obj' = [obj EXCEPT ![s].join = NoJoin]
      BY DEF Joining, SendJoin, SendJoinFails, EnterSelect, JoinAnswered, JoinTimesOut
    <2> QED
      BY <1>1, <2>1 DEF Client
  <1>4. \/ out' = out
        \/ CanSend(s) /\ Send(s, Msg("join", call[j].to))
    BY DEF Joining, SendJoin, SendJoinFails, EnterSelect, JoinAnswered, JoinTimesOut, wireVars
  <1>5. \A t \in Sessions : st[t] = "unopened" => out'[t] = out[t]
    <2>1. \A t \in Sessions : st[t] = "unopened" => obj[t].conn = "nil"
      BY DEF AgreeInv, FreshInv, Untouched
    <2> QED
      BY <1>1, <1>4, <2>1 DEF CanSend, Send
  <1>6. FreshInv'
    BY <1>2, <1>3, <1>5, FreshFrame DEF AgreeInv, vars
  <1>7. OnceInv'
    <2>1. CASE out' = out
      BY <1>2, <2>1, OnceFrame DEF AgreeInv, vars
    <2>2. CASE Send(s, Msg("join", call[j].to))
      <3>1. Msg("join", call[j].to) \in Message /\ Msg("join", call[j].to).type # "register"
        BY <1>1, MessageType DEF JoinCall, Msg
      <3>2. Registers(out'[s]) = Registers(out[s])
        BY <1>1, <2>2, <3>1, SendOnce
      <3>3. \A t \in Sessions \ {s} : out'[t] = out[t]
        BY <1>1, <2>2 DEF Send
      <3>4. ASSUME NEW t \in Sessions PROVE Once(t)'
        <4>1. Once(t) /\ Registers(out'[t]) = Registers(out[t])
          BY <3>2, <3>3 DEF AgreeInv, OnceInv
        <4> QED
          BY <1>2, <4>1, OncePrime DEF Once, vars
      <3> QED
        BY <1>2, <3>4 DEF AgreeInv, OnceInv
    <2> QED
      BY <1>4, <2>1, <2>2
  <1>8. \A t \in Sessions : Shows(t)' /\ Follows(t)'
    BY <1>2, <1>3, AgreeFrame DEF AgreeInv
  <1> QED
    BY <1>2, <1>6, <1>7, <1>8, MineFrame DEF AgreeInv

\* Other players, and a party the administrator deletes.
LEMMA AgreeOther ==
  ASSUME SessionTypeOK, SessionTypeOK', PartyInv, AgreeInv, NEW cn \in Conns \ Sessions, OtherPlayer(cn)
  PROVE  AgreeInv'
  <1>1. cn \in Conns /\ TypeOK /\ TypeOK'
    BY DEF SessionTypeOK
  <1>2. HubStep(cn) /\ UNCHANGED <<clientVars, wireVars>>
    BY DEF OtherPlayer, HubStep
  <1>3. MineInv' /\ \A s \in Sessions : There(s)' = There(s)
    BY <1>1, <1>2, MineHub DEF AgreeInv
  <1>4. \A x \in Conns : /\ st[x] # "unopened" => st'[x] # "unopened"
                         /\ x \in Sessions => cl'[x] = cl[x] /\ (st[x] = "unopened" => st'[x] = "unopened")
    BY <1>1, <1>2, StaysOpened
  <1>5. \A s \in Sessions : s \in Conns /\ cl'[s] = cl[s]
    BY <1>4
  <1>6. ASSUME NEW s \in Sessions, Bound(s)' PROVE Bound(s)
    <2>1. st[s] = "open"
      <3>1. CASE st[cn] # "unopened"
        BY <1>1, <1>2, <1>5, <1>6, <3>1, OpenBefore DEF Bound
      <3>2. CASE Open(cn)
        BY <1>1, <1>5, <1>6, <3>2 DEF Bound, Open, TypeOK
      <3>3. Open(cn) \/ st[cn] # "unopened"
        BY <1>2 DEF HubStep, ReadFails, FinishDisconnect, HandleLeaveParty, RegisterRejected,
           Register, MayRegister, HandleCreateParty, HandleJoinParty, InLoop, Serving
      <3> QED
        BY <3>1, <3>2, <3>3
    <2>2. Alone(s)
      BY <1>4, <1>6, AloneBefore DEF Bound
    <2> QED
      BY <1>2, <1>6, <2>1, <2>2 DEF Bound, clientVars
  <1>7. ASSUME NEW s \in Sessions PROVE Shows(s)' /\ Follows(s)'
    <2>1. Shows(s)'
      BY <1>2, <1>6, ShowsFrame DEF AgreeInv, clientVars
    <2>2. Follows(s)'
      BY <1>2, <1>3, <1>5, <1>6, FollowsFrame DEF AgreeInv, clientVars, wireVars
    <2> QED
      BY <2>1, <2>2
  <1>8. FreshInv' /\ OnceInv'
    BY <1>2, <1>4, <1>5, FreshFrame, OnceFrame DEF AgreeInv, clientVars, wireVars
  <1> QED
    BY <1>3, <1>7, <1>8 DEF AgreeInv

LEMMA AgreeDelete ==
  ASSUME SessionTypeOK, SessionTypeOK', PartyInv, AgreeInv, NEW p \in Codes, AdminDeletes(p)
  PROVE  AgreeInv'
  <1>1. /\ DeleteParty(p) /\ ~deleted /\ deleted'
        /\ tell' = {s \in Sessions : \E o \in members[p] : info[o].conn = s}
        /\ UNCHANGED <<clientVars, out, inbox, st, cl>>
    BY DEF AdminDeletes, DeleteParty
  <1>2. /\ MineInv'
        /\ \A s \in Sessions : IF cl[s] \in members[p] THEN There(s)' = NoCode ELSE There(s)' = There(s)
        /\ \A s \in Sessions : cl[s] \in members[p] => info[cl[s]].conn = s
        /\ \A s \in Sessions : \A o \in members[p] : info[o].conn = s => st[s] # "unopened"
    BY <1>1, MineDelete DEF AgreeInv
  <1>3. FreshInv'
    BY <1>1, <1>2, FreshFrame DEF AgreeInv, clientVars
  <1>4. OnceInv'
    <2>1. ASSUME NEW s \in Sessions PROVE Once(s)'
      <3>1. Once(s)
        BY DEF AgreeInv, OnceInv
      <3> QED
        BY <1>1, <3>1, OncePrime DEF Once, clientVars
    <2> QED
      BY <1>1, <2>1 DEF OnceInv
  <1>5. ASSUME NEW s \in Sessions PROVE Shows(s)' /\ Follows(s)'
    <2>1. Bound(s)' => Bound(s)
      BY <1>1 DEF Bound, Alone, clientVars
    <2>2. Shows(s)'
      BY <1>1, <2>1, ShowsFrame DEF AgreeInv, clientVars
    <2>3. s \notin tell' => There(s)' = There(s)
      BY <1>1, <1>2
    <2>4. Follows(s)'
      BY <1>1, <2>1, <2>3, FollowsPrime DEF AgreeInv, Follows, clientVars
    <2> QED
      BY <2>2, <2>4
  <1> QED
    BY <1>2, <1>3, <1>4, <1>5 DEF AgreeInv

LEMMA AgreeInit == SessionInit => AgreeInv
  <1> SUFFICES ASSUME SessionInit PROVE AgreeInv
    OBVIOUS
  <1>1. /\ \A cn \in Conns : st[cn] = "unopened" /\ cl[cn] = NoObj
        /\ \A o \in Objs : info[o] = NoInfo /\ code[o] = NoCode
    BY DEF SessionInit, Init
  <1>2. \A s \in Sessions : /\ out[s] = <<>> /\ inbox[s] = <<>> /\ dial[s] = "idle" /\ reader[s] = "none"
                            /\ obj[s].conn = "nil" /\ ~obj[s].connected /\ ~obj[s].registered
                            /\ obj[s].party = NoCode /\ s \in Conns
    BY DEF SessionInit
  <1>3. notices = {} /\ tell = {} /\ app.client = NoSession /\ ~app.registered /\ app.party = NoCode
    BY DEF SessionInit
  <1>4. FreshInv
    BY <1>1, <1>2, <1>3 DEF FreshInv, Untouched
  <1>5. MineInv
    BY <1>1, <1>2 DEF MineInv, Allocated, There
  <1>6. OnceInv
    BY <1>1, <1>2, <1>3, NoRegisters DEF OnceInv, Once
  <1>7. \A s \in Sessions : Shows(s) /\ Follows(s)
    BY <1>1, <1>2 DEF Shows, Follows, Bound
  <1> QED
    BY <1>4, <1>5, <1>6, <1>7 DEF AgreeInv

LEMMA AgreeNext == JoinInv /\ SessionTypeOK' /\ PartyInv /\ AgreeInv /\ [SessionNext]_allVars => AgreeInv'
  <1> SUFFICES ASSUME JoinInv, SessionTypeOK', PartyInv, AgreeInv, [SessionNext]_allVars PROVE AgreeInv'
    OBVIOUS
  <1>0. SessionTypeOK /\ TypeOK /\ TypeOK'
    BY DEF JoinInv, SessionTypeOK
  <1>1. ASSUME NEW s \in Sessions, Own(s) PROVE AgreeInv'
    <2>1. s \in Conns
      OBVIOUS
    <2>2. MineInv'
      BY <1>0, <1>1, <2>1, OwnHub, MineHub, MineFrame DEF AgreeInv
    <2>3. FreshInv' /\ OnceInv'
      BY <1>0, <1>1, FreshOwn, OnceOwn DEF AgreeInv
    <2>4. \A t \in Sessions : Shows(t)' /\ Follows(t)'
      BY <1>0, <1>1, ShowsOwn, FollowsOwn DEF AgreeInv
    <2> QED
      BY <2>2, <2>3, <2>4 DEF AgreeInv
  <1>2. CASE DisconnectFromPartyServer
    BY <1>0, <1>2, AgreeDisconnect
  <1>3. ASSUME NEW j \in Joins, Joining(j) PROVE AgreeInv'
    BY <1>0, <1>3, AgreeJoining
  <1>4. ASSUME NEW cn \in Conns \ Sessions, OtherPlayer(cn) PROVE AgreeInv'
    BY <1>0, <1>4, AgreeOther
  <1>5. ASSUME NEW p \in Codes, AdminDeletes(p) PROVE AgreeInv'
    BY <1>0, <1>5, AgreeDelete
  <1>6. CASE UNCHANGED allVars
    <2>1. UNCHANGED <<vars, clientVars, wireVars>>
      BY <1>6 DEF allVars
    <2>2. \A t \in Sessions : Shows(t)' /\ Follows(t)'
      BY <1>0, <2>1, AgreeFrame DEF AgreeInv, clientVars, wireVars
    <2>3. FreshInv' /\ OnceInv' /\ MineInv'
      BY <2>1, FreshFrame, OnceFrame, MineFrame DEF AgreeInv, clientVars, wireVars, vars
    <2> QED
      BY <2>2, <2>3 DEF AgreeInv
  <1> QED
    BY <1>1, <1>2, <1>3, <1>4, <1>5, <1>6 DEF SessionNext, Own

\* With no frame in the queues, what they say is what the client has.
LEMMA Agreed == AgreeInv => Agreement
  <1> SUFFICES ASSUME AgreeInv, NEW s \in Sessions, Settled(s), Alone(s)
               PROVE  /\ app.party = obj[s].party
                      /\ app.registered = obj[s].registered
                      /\ obj[s].registered => cl[s] # NoObj
                      /\ obj[s].party # NoCode => obj[s].party = There(s)
                      /\ ~deleted => obj[s].party = There(s)
    BY DEF Agreement, There
  <1>1. Bound(s) /\ reader[s] = "reading" /\ inbox[s] = <<>> /\ s \notin tell
    BY DEF Settled, Bound, At
  <1>2. Shows(s) /\ Follows(s)
    BY DEF AgreeInv
  <1>3. \A v : Ends(<<>>, obj[s].party, v) => obj[s].party = v
    BY DEF Ends
  <1> QED
    BY <1>1, <1>2, <1>3 DEF Shows, Follows, View

\* Once nothing of a client is under way, the party its application shows is the
\* one the server has it in, whatever calls, answers, events and deletions came
\* in between.
THEOREM AgreementHolds == SessionSpec => []Agreement
  <1>1. SessionSpec => []PartyInv
    BY SessionImplementsHub, PartyInvariant, PTL
  <1>2. JoinInv => SessionTypeOK
    BY DEF JoinInv
  <1> QED
    BY <1>1, <1>2, JoinInvariant, AgreeInit, AgreeNext, Agreed, PTL DEF SessionSpec

=============================================================================
