------------------------------- MODULE LanCalls -------------------------------
(***************************************************************************)
(* The calls of the desktop application that join and leave a party on the *)
(* local network, and may overlap (ui-wails/app.go, ConnectToParty and     *)
(* what follows it in internal/integration/integration.go).  Two fields    *)
(* are shared, a.integration and the i.partyClient of an integration;      *)
(* JoinParty and LeaveParty use both after they have given back            *)
(* a.stateMutex, and every line reads the field afresh.                    *)
(*                                                                         *)
(* A client is an object with a mutex; what it says to the server is the   *)
(* matter of LanParty.  A call that dereferences nil panics: it ends there *)
(* and gives back its locks.                                               *)
(***************************************************************************)
EXTENDS Naturals, FiniteSets

CONSTANTS
  Callers,              \* goroutines that serve the calls of the window
  MaxClients, MaxRuns   \* bounds: clients made, integrations started

VARIABLES
  integration, \* a.integration: its number, 0 for nil; also a.isRunning
  runs,        \* integrations so far
  field,       \* field[i]: i.partyClient of integration i, 0 for nil
  made,        \* clients so far
  client,      \* client[c]: [connected, inParty, socket, stuck]
  sockets,     \* the sockets that are open
  readers,     \* the readers at work: <<client, socket>>
  dials,       \* sockets so far
  mutex,       \* the caller that holds a.stateMutex, NoCaller
  call,        \* call[g]: [at, on, client, opened], the line the call of g is at, the
               \* integration it works on, the client whose JoinParty it waits in, and
               \* (history) the socket it has opened, each 0 for none
  overlapped,  \* history: the callers whose call overlapped another
  alone        \* history: the sockets opened by calls that overlapped no other

history == <<overlapped, alone>>
vars == <<integration, runs, field, made, client, sockets, readers, dials, mutex, call, history>>

NoCaller == "nobody"
Clients == 1..MaxClients
Fresh == [connected |-> FALSE, inParty |-> FALSE, socket |-> 0, stuck |-> FALSE]
NoCall == [at |-> "idle", on |-> 0, client |-> 0, opened |-> 0]

CallsInit ==
  /\ integration = 1 /\ runs = 1 /\ field = [i \in 1..MaxRuns |-> 0]
  /\ made = 0 /\ client = [c \in Clients |-> Fresh] /\ sockets = {}
  /\ readers = {} /\ dials = 0
  /\ mutex = NoCaller /\ call = [g \in Callers |-> NoCall]
  /\ overlapped = {} /\ alone = {}

------------------------------------------------------------------------------
(* The parts of a call. *)

Working == {g \in Callers : call[g].at # "idle"}
Go(g, line) == call' = [call EXCEPT ![g].at = line]
\* The call of g returns or panics; its deferred Unlock runs.
Return(g) == call' = [call EXCEPT ![g] = NoCall] /\ mutex' = IF mutex = g THEN NoCaller ELSE mutex
Mine(g) == field[call[g].on]
\* i.partyClient = c
Store(g, c) == field' = [field EXCEPT ![call[g].on] = c]
\* A line that uses i.partyClient panics if that is nil.
Panics(g, line) == call[g].at = line /\ Mine(g) = 0 /\ Return(g)

(* Disconnect: nothing to do, or the socket is closed; in a party it never *)
(* returns, waiting for the lock it holds.                                 *)
Disconnect(c) ==
  /\ ~client[c].stuck
  /\ IF ~client[c].connected THEN UNCHANGED <<client, sockets>>
     ELSE IF client[c].inParty
     THEN client' = [client EXCEPT ![c].stuck = TRUE] /\ UNCHANGED sockets
     ELSE client' = [client EXCEPT ![c] = Fresh] /\ sockets' = sockets \ {client[c].socket}
\* ... after which g goes on to the next line, unless it hangs.
DisconnectThen(g, c, line) ==
  /\ Disconnect(c)
  /\ Go(g, IF client'[c].stuck THEN call[g].at ELSE line)

------------------------------------------------------------------------------
(* The beginning of a call: JoinParty and LeaveParty test under a read     *)
(* lock that there is an integration, the others hold the lock throughout. *)

Begins(g) ==
  /\ call[g].at = "idle" /\ mutex = NoCaller
  /\ overlapped' = IF Working = {} THEN {} ELSE overlapped \cup Working \cup {g}
  /\ alone' = (alone \cap sockets) \ {call[h].opened : h \in Working}
Free(g) ==
  /\ Begins(g) /\ integration # 0
  /\ \E line \in {"enter join", "enter leave"} : Go(g, line)
  /\ UNCHANGED <<integration, runs, field, made, client, sockets, readers, dials, mutex>>
Locked(g) ==
  /\ Begins(g) /\ integration # 0
  /\ mutex' = g
  /\ \E line \in {"check", "leave check", "stop check"} :
       call' = [call EXCEPT ![g].at = line, ![g].on = integration]
  /\ UNCHANGED <<integration, runs, field, made, client, sockets, readers, dials>>
StartIntegration(g) ==
  /\ Begins(g) /\ integration = 0 /\ runs < MaxRuns
  /\ runs' = runs + 1 /\ integration' = runs'
  /\ UNCHANGED <<field, made, client, sockets, readers, dials, mutex, call>>
\* a.integration is read again, and may be nil by now.
Enter(g) ==
  /\ call[g].at \in {"enter join", "enter leave"} /\ integration # 0
  /\ call' = [call EXCEPT ![g].at = IF @ = "enter join" THEN "check" ELSE "leave check",
                         ![g].on = integration]
  /\ UNCHANGED <<integration, runs, field, made, client, sockets, readers, dials, mutex, history>>
EnterNil(g) ==
  /\ call[g].at \in {"enter join", "enter leave"} /\ integration = 0
  /\ Return(g)
  /\ UNCHANGED <<integration, runs, field, made, client, sockets, readers, dials, history>>

------------------------------------------------------------------------------
(* ConnectToParty *)

Check(g) ==
  /\ call[g].at = "check" /\ Go(g, IF Mine(g) # 0 THEN "drop" ELSE "new")
  /\ UNCHANGED <<integration, runs, field, made, client, sockets, readers, dials, mutex, history>>
\* Mutant of Drop: the client is dropped with its connection open.
DropOpen(g) ==
  /\ call[g].at = "drop" /\ Mine(g) # 0
  /\ Go(g, "clear")
  /\ UNCHANGED <<integration, runs, field, made, client, sockets, readers, dials, mutex, history>>
Drop(g) ==
  /\ call[g].at = "drop" /\ Mine(g) # 0
  /\ DisconnectThen(g, Mine(g), "clear")
  /\ UNCHANGED <<integration, runs, field, made, readers, dials, mutex, history>>
Clear(g) ==
  /\ call[g].at = "clear" /\ Store(g, 0) /\ Go(g, "new")
  /\ UNCHANGED <<integration, runs, made, client, sockets, readers, dials, mutex, history>>
NewClient(g) ==
  /\ call[g].at = "new" /\ made < MaxClients
  /\ made' = made + 1 /\ Store(g, made') /\ Go(g, "connect")
  /\ UNCHANGED <<integration, runs, client, sockets, readers, dials, mutex, history>>
\* Connect: refused to a client that is connected, or fails, or opens a socket.
Connect(g) ==
  LET c == Mine(g)
  IN /\ call[g].at = "connect" /\ c # 0 /\ ~client[c].stuck
     /\ \/ Go(g, "give up") /\ UNCHANGED <<client, sockets, readers, dials, alone>>
        \/ /\ ~client[c].connected
           /\ dials' = dials + 1 /\ sockets' = sockets \cup {dials'}
           /\ client' = [client EXCEPT ![c].connected = TRUE, ![c].socket = dials']
           /\ readers' = readers \cup {<<c, dials'>>}
           /\ alone' = IF g \in overlapped THEN alone ELSE alone \cup {dials'}
           /\ call' = [call EXCEPT ![g].at = "join", ![g].opened = dials']
     /\ UNCHANGED <<integration, runs, field, made, mutex, overlapped>>
GiveUp(g) ==
  /\ call[g].at = "give up" /\ Store(g, 0) /\ Return(g)
  /\ UNCHANGED <<integration, runs, made, client, sockets, readers, dials, history>>
\* JoinParty of the client, to the select and from its answer on: welcomed, or
\* refused, late or never connected.
Join(g) ==
  LET c == Mine(g)
  IN /\ call[g].at = "join" /\ c # 0 /\ ~client[c].stuck
     /\ call' = [call EXCEPT ![g].at = IF client[c].connected THEN "await" ELSE "abandon",
                            ![g].client = c]
     /\ UNCHANGED <<integration, runs, field, made, client, sockets, readers, dials, mutex, history>>
Await(g) ==
  LET c == call[g].client
  IN /\ call[g].at = "await" /\ ~client[c].stuck
     /\ \/ Go(g, "abandon") /\ UNCHANGED <<client, mutex>>
        \/ client' = [client EXCEPT ![c].inParty = TRUE] /\ Return(g)
     /\ UNCHANGED <<integration, runs, field, made, sockets, readers, dials, history>>
Abandon(g) ==
  /\ call[g].at = "abandon" /\ Mine(g) # 0
  /\ DisconnectThen(g, Mine(g), "give up")
  /\ UNCHANGED <<integration, runs, field, made, readers, dials, mutex, history>>

------------------------------------------------------------------------------
(* DisconnectFromParty, of LeaveParty and StopPartyServer, and Shutdown.   *)

LeaveCheck(g) ==
  /\ call[g].at = "leave check"
  /\ IF Mine(g) = 0 THEN Return(g) ELSE Go(g, "leave") /\ UNCHANGED mutex
  /\ UNCHANGED <<integration, runs, field, made, client, sockets, readers, dials, history>>
Leave(g) ==
  /\ call[g].at = "leave" /\ Mine(g) # 0
  /\ Disconnect(Mine(g))
  /\ IF client'[Mine(g)].stuck THEN UNCHANGED <<call, mutex>> ELSE Return(g)
  /\ UNCHANGED <<integration, runs, field, made, readers, dials, history>>
StopCheck(g) ==
  /\ call[g].at = "stop check" /\ Go(g, IF Mine(g) = 0 THEN "stopped" ELSE "stop")
  /\ UNCHANGED <<integration, runs, field, made, client, sockets, readers, dials, mutex, history>>
Stop(g) ==
  /\ call[g].at = "stop" /\ Mine(g) # 0
  /\ DisconnectThen(g, Mine(g), "stopped")
  /\ UNCHANGED <<integration, runs, field, made, readers, dials, mutex, history>>
Stopped(g) ==
  /\ call[g].at = "stopped" /\ integration' = 0 /\ Return(g)
  /\ UNCHANGED <<runs, field, made, client, sockets, readers, dials, history>>
NilPanics(g) ==
  /\ \E line \in {"drop", "connect", "join", "abandon", "leave", "stop"} : Panics(g, line)
  /\ UNCHANGED <<integration, runs, field, made, client, sockets, readers, dials, history>>

(* The reader sees the end of its socket, whoever closed it, and calls the *)
(* client disconnected, which may have dialled again.                      *)
SocketFails(s) ==
  /\ s \in sockets /\ sockets' = sockets \ {s}
  /\ UNCHANGED <<integration, runs, field, made, client, readers, dials, mutex, call, history>>
ReaderEnds(c, s) ==
  /\ s \notin sockets /\ ~client[c].stuck
  /\ readers' = readers \ {<<c, s>>}
  /\ client' = [client EXCEPT ![c].connected = FALSE]
  /\ UNCHANGED <<integration, runs, field, made, sockets, dials, mutex, call, history>>

CallsNext ==
  \/ \E g \in Callers :
       \/ Free(g) \/ Locked(g) \/ StartIntegration(g) \/ Enter(g) \/ EnterNil(g) \/ NilPanics(g)
       \/ Check(g) \/ Drop(g) \/ Clear(g) \/ NewClient(g) \/ Connect(g) \/ GiveUp(g)
       \/ Join(g) \/ Await(g) \/ Abandon(g)
       \/ LeaveCheck(g) \/ Leave(g) \/ StopCheck(g) \/ Stop(g) \/ Stopped(g)
  \/ \E s \in sockets : SocketFails(s)
  \/ \E r \in readers : ReaderEnds(r[1], r[2])
CallsSpec == CallsInit /\ [][CallsNext]_vars

------------------------------------------------------------------------------
(* Nothing is under way but calls that hang in Disconnect for good. *)
Hangs(g) ==
  /\ call[g].at \in {"drop", "abandon", "leave", "stop"}
  /\ Mine(g) # 0 /\ client[Mine(g)].stuck
AtRest == \A g \in Working : Hangs(g)
(* The open sockets the next call would not close: their client is not the *)
(* one of the integration, or believes to be disconnected.                 *)
Lost == {s \in sockets :
           ~\E c \in Clients : /\ integration # 0 /\ field[integration] = c
                               /\ client[c].connected /\ client[c].socket = s}

(* A call that no other overlaps never loses track of the connection it    *)
(* opens, and no later calls, overlapping or not, lose it either.          *)
LostByOverlap == AtRest => Lost \cap alone = {}
==============================================================================
