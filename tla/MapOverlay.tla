------------------------------ MODULE MapOverlay ------------------------------
(***************************************************************************)
(* The local overlay server (internal/overlay/server.go) and the map page  *)
(* it serves (the script in mappage.go).  The server keeps the last        *)
(* position of every party member; a broadcast changes that state, lists   *)
(* the sockets and writes to one after the other, with a lock for each of  *)
(* the three, so that a page which connects meanwhile gets its fullState   *)
(* before, between or after them.  The page fetches the state once, opens  *)
(* a socket, and opens another when it loses one.                          *)
(*                                                                         *)
(* A position is [map, n]: n numbers the broadcasts and stands for the     *)
(* coordinates.  The party's messages come from one goroutine, map changes *)
(* from another; both may be in the middle of a broadcast.                 *)
(***************************************************************************)
EXTENDS Naturals, FiniteSets

CONSTANTS
  Members,      \* remote IDs of the party
  GameMaps,         \* the normalized map names the game may report
  PageMaps,     \* those the page's MAPS table knows
  DefaultMap,   \* of those, the one the page starts with: 'customs'
  MaxSockets, MaxCasts, MaxPicks   \* bounds: connections, broadcasts, maps the user picks

VARIABLES
  board,     \* s.partyPositions: what the server knows of each member
  boardMap,  \* s.currentMap
  clients,   \* s.clients
  sock,      \* each socket: "none", "known", "read", "open"
  up,        \* the sockets neither side has closed
  held,      \* the snapshot handleWebSocket has read and not yet written
  casts,     \* each broadcaster: [step, msg, left]
  got,       \* history: the broadcasts each socket was sent, alone or in a snapshot
  count,     \* history: broadcasts begun
  page       \* the page: [on, map, marks, fetch, astray, picks]; astray is
             \* history: the members about whom it may have been misled since
             \* it was last sent a message about them

ovVars == <<board, boardMap, clients, sock, up, held, casts, got, count, page>>

Sockets == 1..MaxSockets    \* a number is used again once its connection is gone
Broadcasters == {"party", "game"}
MapUnset == "none"
Unseen == [map |-> MapUnset, n |-> 0]
ASSUME OverlayAssumption == MapUnset \notin PageMaps /\ DefaultMap \in PageMaps
NoPage == [on |-> {}, map |-> MapUnset, marks |-> [i \in Members |-> Unseen],
           fetch |-> <<"asked">>, astray |-> {}, picks |-> 0]
NoMsg == [type |-> "nothing", n |-> 0]
NoCast == [step |-> "idle", msg |-> NoMsg, left |-> {}]
Snapshot == [type |-> "fullState", n |-> count, map |-> boardMap, at |-> board]

OverlayTypeOK ==
  /\ clients \subseteq Sockets /\ up \subseteq Sockets /\ page.on \subseteq Sockets
  /\ sock \in [Sockets -> {"none", "known", "read", "open"}]
  /\ boardMap \in GameMaps \cup {MapUnset} /\ page.map \in PageMaps \cup {MapUnset}
  /\ \A i \in Members : board[i].n <= count /\ page.marks[i].n <= count
  /\ \A b \in Broadcasters : casts[b].left # {} => casts[b].step = "send"
  /\ \A c \in Sockets : got[c] \subseteq 1..count

OverlayInit ==
  /\ board = [i \in Members |-> Unseen] /\ boardMap = MapUnset
  /\ clients = {} /\ up = {} /\ count = 0
  /\ sock = [c \in Sockets |-> "none"]
  /\ held = [c \in Sockets |-> NoMsg]
  /\ casts = [b \in Broadcasters |-> NoCast]
  /\ got = [c \in Sockets |-> {}]
  /\ page = NoPage

------------------------------------------------------------------------------
(* The page. *)

(* updateMember: a member on another map loses its marker. *)
Marked(p, i, at) ==
  IF at.map # p.map /\ p.map # MapUnset THEN [p EXCEPT !.marks[i] = Unseen]
  ELSE [p EXCEPT !.marks[i] = at]

(* loadMap: an unknown map is ignored; the markers of other maps go, and   *)
(* those of this map that were dropped before do not come back.            *)
LoadMap(p, m) ==
  IF m \notin PageMaps THEN p
  ELSE [p EXCEPT !.map = m,
        !.astray = @ \cup {i \in Members : p.marks[i].map # m},
        !.marks = [i \in Members |-> IF p.marks[i].map = m THEN p.marks[i] ELSE Unseen]]

AllMarked(p, at) ==
  [p EXCEPT !.marks = [i \in Members |->
     IF at[i] = Unseen THEN p.marks[i] ELSE Marked(p, i, at[i]).marks[i]]]

(* A state read earlier: it misleads about the members of whom the server  *)
(* knows more by now, and about those it no longer names: their markers    *)
(* stay.                                                                   *)
Restated(p, m, at) ==
  LET q == LoadMap(p, m)
  IN [AllMarked(q, at) EXCEPT !.astray =
        {i \in Members : at[i] # board[i] \/ (at[i] = Unseen /\ q.marks[i] # Unseen)}]

(* handleMessage. *)
Handled(p, msg) ==
  CASE msg.type = "partyPosition" ->
         [Marked(p, msg.id, [map |-> msg.map, n |-> msg.n]) EXCEPT !.astray = @ \ {msg.id}]
    [] msg.type = "partyMemberLeft" ->
         [p EXCEPT !.marks[msg.id] = Unseen, !.astray = @ \ {msg.id}]
    [] msg.type = "mapChange" -> IF msg.map = p.map THEN p ELSE LoadMap(p, msg.map)
    [] msg.type = "fullState" -> Restated(p, msg.map, msg.at)

(* connectWS: at load, and again five seconds after a socket is lost; what *)
(* was broadcast meanwhile the page has missed.                            *)
ConnectWS(c) ==
  /\ page.on = {} /\ sock[c] = "none" /\ \A d \in Sockets : sock[d] = "none" => c <= d
  /\ up' = up \cup {c}
  /\ page' = [page EXCEPT !.on = {c}, !.astray = Members]
  /\ UNCHANGED <<board, boardMap, clients, sock, held, casts, got, count>>

(* loadInitialState: GET /nexus/state, answered from one snapshot. *)
FetchState ==
  /\ page.fetch = <<"asked">>
  /\ page' = [page EXCEPT !.fetch = <<"answered", boardMap, board>>]
  /\ UNCHANGED <<board, boardMap, clients, sock, up, held, casts, got, count>>
FetchAnswered ==
  /\ page.fetch[1] = "answered"
  /\ LET m == IF page.fetch[2] = MapUnset THEN DefaultMap ELSE page.fetch[2]
     IN page' = [Restated(page, m, page.fetch[3]) EXCEPT !.fetch = <<"done">>]
  /\ UNCHANGED <<board, boardMap, clients, sock, up, held, casts, got, count>>
FetchFails ==
  /\ page.fetch # <<"done">>
  /\ page' = [LoadMap(page, DefaultMap) EXCEPT !.fetch = <<"done">>]
  /\ UNCHANGED <<board, boardMap, clients, sock, up, held, casts, got, count>>

SelectMap(m) ==
  /\ page.map # m /\ page.picks < MaxPicks
  /\ page' = [LoadMap(page, m) EXCEPT !.picks = @ + 1]
  /\ UNCHANGED <<board, boardMap, clients, sock, up, held, casts, got, count>>

------------------------------------------------------------------------------
(* The server. *)

(* handleWebSocket: the socket is a client before its snapshot is read. *)
Accept(c) ==
  /\ c \in up /\ sock[c] = "none"
  /\ clients' = clients \cup {c}
  /\ sock' = [sock EXCEPT ![c] = "known"]
  /\ UNCHANGED <<board, boardMap, up, held, casts, got, count, page>>
ReadState(c) ==
  /\ sock[c] = "known"
  /\ held' = [held EXCEPT ![c] = Snapshot]
  /\ sock' = [sock EXCEPT ![c] = "read"]
  /\ UNCHANGED <<board, boardMap, clients, up, casts, got, count, page>>

(* writeMessage, and removeClient when it fails.  The page handles what it *)
(* is sent in order, so its delay is the delay of the write.               *)
Write(c, msg, contained) ==
  IF c \in up
  THEN /\ page' = Handled(page, msg)
       /\ got' = [got EXCEPT ![c] = @ \cup contained]
       /\ UNCHANGED clients
  ELSE clients' = clients \ {c} /\ UNCHANGED <<page, got>>

SendFullState(c) ==
  /\ sock[c] = "read"
  /\ Write(c, held[c], 1..held[c].n)
  /\ sock' = [sock EXCEPT ![c] = "open"]
  /\ held' = [held EXCEPT ![c] = NoMsg]
  /\ UNCHANGED <<board, boardMap, up, casts, count>>

(* The page or the network closes; the reader goroutine then removes it. *)
LoseSocket(c) ==
  /\ c \in up
  /\ up' = up \ {c}
  /\ got' = [got EXCEPT ![c] = {}]
  /\ page' = [page EXCEPT !.on = @ \ {c}]
  /\ UNCHANGED <<board, boardMap, clients, sock, held, casts, count>>
ReaderEnds(c) ==
  /\ sock[c] = "open" /\ c \notin up /\ \A b \in Broadcasters : c \notin casts[b].left
  /\ clients' = clients \ {c}
  /\ sock' = [sock EXCEPT ![c] = "none"]
  /\ UNCHANGED <<board, boardMap, up, held, casts, got, count, page>>

(* Broadcast (SetCurrentMap for a map): the state first.                   *)
\* Mutant of Applied: the position of a member who left is kept.
AppliedKeeps(msg) ==
  /\ board' = IF msg.type = "partyPosition"
              THEN [board EXCEPT ![msg.id] = [map |-> msg.map, n |-> msg.n]] ELSE board
  /\ boardMap' = IF msg.type = "mapChange" THEN msg.map ELSE boardMap

Applied(msg) ==
  /\ board' = IF msg.type = "partyPosition"
              THEN [board EXCEPT ![msg.id] = [map |-> msg.map, n |-> msg.n]]
              ELSE IF msg.type = "partyMemberLeft" THEN [board EXCEPT ![msg.id] = Unseen]
              ELSE board
  /\ boardMap' = IF msg.type = "mapChange" THEN msg.map ELSE boardMap
Broadcast(b, msg) ==
  /\ casts[b] = NoCast /\ count < MaxCasts
  /\ count' = count + 1
  /\ Applied(msg)
  /\ casts' = [casts EXCEPT ![b] = [step |-> "list", msg |-> msg, left |-> {}]]
  /\ UNCHANGED <<clients, sock, up, held, got, page>>
PartyMessages ==
  {[type |-> "partyPosition", n |-> count + 1, id |-> i, map |-> m] : i \in Members, m \in GameMaps}
    \cup {[type |-> "partyMemberLeft", n |-> count + 1, id |-> i] : i \in Members}
MapMessages == {[type |-> "mapChange", n |-> count + 1, map |-> m] : m \in GameMaps}

\* Mutant of ListClients: a client that waits for its fullState is left out.
ListOpenClients(b) ==
  /\ casts[b].step = "list"
  /\ LET open == {c \in clients : sock[c] = "open"}
     IN casts' = [casts EXCEPT ![b] = IF open = {} THEN NoCast
                                      ELSE [@ EXCEPT !.step = "send", !.left = open]]
  /\ UNCHANGED <<board, boardMap, clients, sock, up, held, got, count, page>>

(* broadcastRaw: the clients are listed under the lock and written to      *)
(* after it.                                                               *)
ListClients(b) ==
  /\ casts[b].step = "list"
  /\ casts' = [casts EXCEPT ![b] = IF clients = {} THEN NoCast
                                   ELSE [@ EXCEPT !.step = "send", !.left = clients]]
  /\ UNCHANGED <<board, boardMap, clients, sock, up, held, got, count, page>>
SendTo(b, c) ==
  /\ casts[b].step = "send" /\ c \in casts[b].left
  /\ Write(c, casts[b].msg, {casts[b].msg.n})
  /\ LET left == casts[b].left \ {c}
     IN casts' = [casts EXCEPT ![b] = IF left = {} THEN NoCast ELSE [@ EXCEPT !.left = left]]
  /\ UNCHANGED <<board, boardMap, sock, up, held, count>>

(* Stop closes the clients there are; it is called once, at shutdown. *)
StopOverlay ==
  /\ clients # {} /\ count = MaxCasts
  /\ up' = up \ clients /\ clients' = {}
  /\ page' = [page EXCEPT !.on = @ \ clients]
  /\ UNCHANGED <<board, boardMap, sock, held, casts, got, count>>

OverlayNext ==
  \/ \E c \in Sockets : \/ ConnectWS(c) \/ Accept(c) \/ ReadState(c)
                        \/ SendFullState(c) \/ LoseSocket(c) \/ ReaderEnds(c)
  \/ FetchState \/ FetchAnswered \/ FetchFails
  \/ \E m \in PageMaps : SelectMap(m)
  \/ \E msg \in PartyMessages : Broadcast("party", msg)
  \/ \E msg \in MapMessages : Broadcast("game", msg)
  \/ \E b \in Broadcasters, c \in Sockets : ListClients(b) \/ SendTo(b, c)
  \/ StopOverlay
OverlaySpec == OverlayInit /\ [][OverlayNext]_ovVars

------------------------------------------------------------------------------
(* No page misses a broadcast: once it has its fullState, every broadcast  *)
(* that is over was written to its socket or is part of that state, however*)
(* the connection fell between the steps of the broadcast.                 *)
Over == (1..count) \ {casts[b].msg.n : b \in Broadcasters}
NoBroadcastMissed ==
  \A c \in clients \cap up : sock[c] = "open" => Over \subseteq got[c]

(* A page at rest that has its fullState shows a member exactly where the  *)
(* server has it, and does not show one who left or is on another map (it  *)
(* shows everybody as long as it displays no map), unless it was misled    *)
(* since the last message about that member: a snapshot was overtaken by a *)
(* broadcast or by the page's other snapshot, the member left while the    *)
(* page was away, or the page changed its map while it did not show the    *)
(* member there (mappage.go drops markers and has nothing to restore them  *)
(* from).  The next message about the member puts it right.                *)
AtRest == casts["party"] = NoCast /\ \E c \in page.on : sock[c] = "open"
ShowsLatest ==
  \A i \in Members \ page.astray :
    AtRest
      => page.marks[i] = IF page.map \in {MapUnset, board[i].map} THEN board[i] ELSE Unseen
==============================================================================
