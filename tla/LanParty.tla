------------------------------- MODULE LanParty -------------------------------
(***************************************************************************)
(* A party on the local network: the server of LanServer, the guests, and  *)
(* one desktop application with its party client (internal/party/client.go,*)
(* internal/integration/integration.go, ui-wails/app.go).  The application *)
(* runs the server itself or is a guest of it.                             *)
(*                                                                         *)
(* The application makes a new client, on a new connection, whenever it    *)
(* joins; the client is a reader goroutine and the calls made on it, which *)
(* share c.mu.  Disconnect holds c.mu and sends the leave message through  *)
(* sendMessage, which locks it again: Go's locks are not reentrant.        *)
(*                                                                         *)
(* Bounds: the server starts once, the application makes one call at a     *)
(* time (LanCalls is about calls that overlap), and nobody else uses its   *)
(* RemoteID.                                                               *)
(***************************************************************************)
EXTENDS LanServer

CONSTANTS
  Me,      \* the RemoteID of the application
  NoLink

ASSUME LanPartyAssumption == Me \in RemoteIds /\ NoLink \notin Links

VARIABLES
  running,    \* a.isRunning: is there an integration?
  call,       \* the application's call and where it is, "none" if there is none
  mine,       \* the connection of i.partyClient, NoLink if that is nil
  connected,  \* c.connected
  joined,     \* c.partyCode is not empty
  answer,     \* c.joinResponse: nil, an empty channel, or what is in it
  outbox,     \* connections with a join message of the application under way
  inbox,      \* the server's answer under way to the client
  deadlocked  \* does a call hold c.mu and wait for it?

clientVars == <<running, call, mine, connected, joined, answer, outbox, inbox, deadlocked>>
vars == <<serverVars, clientVars>>

Calls == {"none", "drop", "dial", "send", "sent", "await", "blind", "abandon",
          "leave", "unhost", "stopServer", "stop"}

PartyTypeOK ==
  /\ LanTypeOK
  /\ running \in BOOLEAN /\ connected \in BOOLEAN
  /\ joined \in BOOLEAN /\ deadlocked \in BOOLEAN
  /\ call \in Calls
  /\ mine \in Links \cup {NoLink}
  /\ mine = NoLink => ~connected /\ ~joined
  /\ answer \in {"nil", "empty", "welcome", "error"}
  /\ outbox \in SUBSET Links
  /\ inbox \in {"nothing", "welcome", "error"}

\* The server is up, and if it is its own the application is about to join it.
Init ==
  /\ ServerInit
  /\ running = TRUE
  /\ call \in {"none", "drop"}
  /\ mine = NoLink /\ connected = FALSE /\ joined = FALSE
  /\ answer = "nil" /\ outbox = {} /\ inbox = "nothing" /\ deadlocked = FALSE

-----------------------------------------------------------------------------
(* The application's calls *)

\* JoinParty, LeaveParty, StopPartyServer or StopIntegration is called.
Call ==
  /\ call = "none"
  /\ \/ running /\ call' \in {"drop", "leave", "stop"}
     \/ server /\ call' = "unhost"
  /\ UNCHANGED <<serverVars, running, mine, connected, joined, answer, outbox, inbox, deadlocked>>

StartIntegration ==
  /\ call = "none" /\ ~running
  /\ running' = TRUE
  /\ UNCHANGED <<serverVars, call, mine, connected, joined, answer, outbox, inbox, deadlocked>>

\* Disconnect returns at once, closes the connection, or never returns.
Disconnect ==
  /\ ~deadlocked
  /\ connected' = (connected /\ joined)
  /\ deadlocked' = (connected /\ joined)
  /\ inbox' = IF connected /\ ~joined THEN "nothing" ELSE inbox
  /\ link' = IF connected /\ ~joined /\ link[mine] = "open"
             THEN [link EXCEPT ![mine] = "closing"] ELSE link
  /\ UNCHANGED <<server, listed, members, table, owner, pc, ending, panicked>>

\* i.partyClient is set to nil after it.
DropClient ==
  /\ mine' = IF deadlocked' THEN mine ELSE NoLink
  /\ joined' = (deadlocked' /\ joined)

\* ConnectToParty disconnects the client it has ...
DropPrevious ==
  /\ call = "drop"
  /\ Disconnect
  /\ call' = IF deadlocked' THEN call ELSE "dial"
  /\ DropClient
  /\ UNCHANGED <<running, answer, outbox>>

\* ... and connects a new one, or fails to, ...
Dial ==
  /\ call = "dial"
  /\ \/ \E k \in Links :
          /\ Accept(k, Me)
          /\ mine' = k /\ connected' = TRUE /\ joined' = FALSE
          /\ answer' = "nil" /\ inbox' = "nothing"
          /\ call' = "send"
     \/ /\ mine' = NoLink /\ call' = "none"
        /\ UNCHANGED <<serverVars, connected, joined, answer, inbox>>
  /\ UNCHANGED <<running, outbox, deadlocked>>

\* ... whose JoinParty makes the channel for the answer and sends the message.
SendJoin ==
  LET fails == ~connected \/ link[mine] # "open"
  IN /\ call = "send"
     /\ call' = IF fails THEN "abandon" ELSE "sent"
     /\ answer' = IF fails THEN "nil" ELSE "empty"
     /\ outbox' = IF fails THEN outbox ELSE outbox \cup {mine}
     /\ UNCHANGED <<serverVars, running, mine, connected, joined, inbox, deadlocked>>

\* The select reads c.joinResponse, which is nil if the answer came first.
Select ==
  /\ call = "sent"
  /\ call' = IF answer = "nil" THEN "blind" ELSE "await"
  /\ UNCHANGED <<serverVars, running, mine, connected, joined, answer, outbox, inbox, deadlocked>>

GetAnswer ==
  /\ call = "await" /\ answer \in {"welcome", "error"}
  /\ joined' = (answer = "welcome")
  /\ call' = IF answer = "welcome" THEN "none" ELSE "abandon"
  /\ answer' = "nil"
  /\ UNCHANGED <<serverVars, running, mine, connected, outbox, inbox, deadlocked>>

TimeOut ==
  /\ call \in {"await", "blind"}
  /\ call' = "abandon" /\ answer' = "nil"
  /\ UNCHANGED <<serverVars, running, mine, connected, joined, outbox, inbox, deadlocked>>

\* A join that failed: ConnectToParty disconnects the client and drops it.
Abandon ==
  /\ call = "abandon"
  /\ Disconnect
  /\ call' = IF deadlocked' THEN call ELSE "none"
  /\ DropClient
  /\ UNCHANGED <<running, answer, outbox>>

\* DisconnectFromParty, for LeaveParty or StopPartyServer; the client is kept.
DisconnectFromParty ==
  /\ call \in {"leave", "unhost"}
  /\ IF running THEN Disconnect ELSE UNCHANGED <<serverVars, connected, deadlocked, inbox>>
  /\ call' = CASE deadlocked' -> call
               [] ~deadlocked' /\ call = "leave" -> "none"
               [] OTHER -> "stopServer"
  /\ UNCHANGED <<running, mine, joined, answer, outbox>>

StopPartyServer ==
  /\ call = "stopServer"
  /\ StopServer
  /\ call' = "none"
  /\ UNCHANGED <<running, mine, connected, joined, answer, outbox, inbox, deadlocked>>

\* StopIntegration: Shutdown disconnects the client, the integration is dropped.
StopIntegration ==
  /\ call = "stop"
  /\ Disconnect
  /\ call' = IF deadlocked' THEN call ELSE "none"
  /\ running' = deadlocked'
  /\ DropClient
  /\ UNCHANGED <<answer, outbox>>

-----------------------------------------------------------------------------
(* The client's reader, handleMessages *)

\* The answer goes into the channel, unless nobody waits for it (any more);
\* a select that comes after it may or may not still see the channel.
ReadAnswer ==
  /\ connected /\ ~deadlocked
  /\ inbox # "nothing" /\ inbox' = "nothing"
  /\ \/ answer = "empty" /\ answer' = inbox
     \/ answer = "empty" /\ call = "sent" /\ answer' = "nil"
     \/ answer # "empty" /\ UNCHANGED answer
  /\ UNCHANGED <<serverVars, running, call, mine, connected, joined, outbox, deadlocked>>

\* The read fails; what is under way is lost.
ReaderEnds ==
  /\ connected /\ ~deadlocked
  /\ link[mine] # "open"
  /\ connected' = FALSE /\ inbox' = "nothing"
  /\ UNCHANGED <<serverVars, running, call, mine, joined, answer, outbox, deadlocked>>

-----------------------------------------------------------------------------
(* The server, and what it answers to the application *)

\* The join message of the application arrives.
JoinArrives(k) ==
  /\ k \in outbox
  /\ HandleJoin(k)
  /\ outbox' = outbox \ {k}
  /\ inbox' = IF k = mine /\ ~listed THEN "error" ELSE inbox
  /\ UNCHANGED <<running, call, mine, connected, joined, answer, deadlocked>>

\* A step of the goroutine of k, which may send the welcome or an error.
Serve(k) ==
  /\ Handler(k)
  /\ inbox' = CASE k = mine /\ pc[k] = "register" -> "welcome"
                [] k = mine /\ pc[k] = "add" /\ pc'[k] = "read" -> "error"
                [] OTHER -> inbox
  /\ UNCHANGED <<running, call, mine, connected, joined, answer, outbox, deadlocked>>

\* A message of a guest: it may join again, move, and leave.
GuestMessage(k) ==
  /\ owner[k] # Me
  /\ HandleJoin(k) \/ HandleLeave(k)
  /\ UNCHANGED clientVars

Guest(k) ==
  /\ \E i \in RemoteIds \ {Me} : Accept(k, i)
  /\ UNCHANGED clientVars

\* Connections go, the server forgets the party, its own host stops it.
Others ==
  /\ \/ \E k \in Links : CloseLink(k)
     \/ CleanupInactive
     \/ call \notin {"unhost", "stopServer"} /\ StopServer
  /\ UNCHANGED clientVars

LinkEnds(k) == LinkFails(k) /\ UNCHANGED clientVars

Client ==
  \/ DropPrevious \/ Dial \/ SendJoin \/ Select \/ GetAnswer \/ TimeOut \/ Abandon
  \/ DisconnectFromParty \/ StopPartyServer \/ StopIntegration
  \/ ReadAnswer \/ ReaderEnds

\* A panic in a handler ends the server's process.
Next ==
  /\ ~panicked
  /\ \/ Call \/ StartIntegration \/ Client \/ Others
     \/ \E k \in Links :
          Guest(k) \/ GuestMessage(k) \/ JoinArrives(k) \/ Serve(k) \/ LinkEnds(k)

Spec == Init /\ [][Next]_vars

\* Calls, the reader and handlers that can go on do.
FairSpec ==
  /\ Spec
  /\ WF_vars(~panicked /\ Client)
  /\ \A k \in Links : WF_vars(~panicked /\ (JoinArrives(k) \/ Serve(k) \/ LinkEnds(k)))

-----------------------------------------------------------------------------
(* Properties *)

\* A client that believes to be in the party is a member of it, as long as its
\* connection is up and the server has the party.
JoinedIsMember ==
  connected /\ joined /\ link[mine] = "open" /\ server /\ listed => Me \in members

\* integration.go:804: "Shutdown gracefully shuts down all components".
ShutdownCompletes == call = "stop" ~> panicked \/ ~running

=============================================================================
