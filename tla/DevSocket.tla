------------------------------ MODULE DevSocket ------------------------------
(***************************************************************************)
(* The desktop application's socket to tarkov.dev                          *)
(* (internal/websocket/client.go), as internal/integration uses it.        *)
(*                                                                         *)
(* Callers of Connect, the goroutines that send, and one reader goroutine  *)
(* per connection share c.conn under connMutex.  Connect holds the mutex   *)
(* for the whole dial and a sender holds it for reading for the whole      *)
(* write; every other section is one step.  The reader that finds its      *)
(* connection gone goes on as the goroutine that reconnects, so several    *)
(* may do so at a time.  shouldReconnect and reconnectAttempts are read    *)
(* and written without the mutex, a step per read and per write.           *)
(*                                                                         *)
(* Abstractions: isConnecting is never seen TRUE, as it is set and reset   *)
(* under the mutex.  Messages other than a ping change nothing here.  The  *)
(* delay before an attempt may end at any time.  What two writers at a     *)
(* time do to the socket is left out.                                      *)
(***************************************************************************)
EXTENDS Naturals, FiniteSets

CONSTANTS
  Conns,        \* dialled connections, and the reader goroutine of each
  Callers,      \* calls of Connect: Initialize's and those of the user
  Senders,      \* goroutines that send a map change or a position
  MaxAttempts,  \* maxReconnectAttempts
  NoConn, NoOne

ASSUME DevSocketAssumption ==
  /\ MaxAttempts \in Nat
  /\ Conns \cap Callers = {}
  /\ NoConn \notin Conns
  /\ NoOne \notin Conns \cup Callers

VARIABLES
  conn,      \* c.conn
  sock,      \* sock[k]: the socket of connection k
  dialer,    \* who is in Dial and holds connMutex
  attempts,  \* c.reconnectAttempts
  redials,   \* history: dials of attemptReconnect since a dial last succeeded
  seen,      \* seen[k]: what k's goroutine has read of it and will write back plus one
  reader,    \* reader[k]: where the handleMessages goroutine of k is
  local,     \* local[k]: the connection it has taken from c.conn
  call,      \* call[c]: a call of Connect
  sender,    \* sender[s]: where a sending goroutine is
  stop,      \* how far Disconnect is
  crashed    \* has the process ended in a panic?

vars == <<conn, sock, dialer, attempts, redials, seen, reader, local, call, sender, stop, crashed>>

Watching == {"top", "fetch", "reading", "ping", "pong", "writing", "leaving"}
Retrying == {"notify", "retry", "count", "store", "backoff", "connect", "dialing"}

TypeOK ==
  /\ conn \in Conns \cup {NoConn}
  /\ sock \in [Conns -> {"unused", "open", "lost", "closed"}]
  /\ dialer \in Conns \cup Callers \cup {NoOne}
  /\ attempts \in Nat
  /\ redials \in Nat
  /\ seen \in [Conns -> Nat]
  /\ reader \in [Conns -> Watching \cup Retrying \cup {"none", "done"}]
  /\ local \in [Conns -> Conns \cup {NoConn}]
  /\ \A k \in Conns : reader[k] = "reading" => local[k] \in Conns
  /\ call \in [Callers -> {"idle", "dialing", "done"}]
  /\ sender \in [Senders -> {"idle", "checked", "writing"}]
  /\ stop \in {"no", "flagged", "done"}
  /\ crashed \in BOOLEAN

Init ==
  /\ conn = NoConn
  /\ sock = [k \in Conns |-> "unused"]
  /\ dialer = NoOne
  /\ attempts = 0
  /\ redials = 0
  /\ seen = [k \in Conns |-> 0]
  /\ reader = [k \in Conns |-> "none"]
  /\ local = [k \in Conns |-> NoConn]
  /\ call = [c \in Callers |-> "idle"]
  /\ sender = [s \in Senders |-> "idle"]
  /\ stop = "no"
  /\ crashed = FALSE

ShouldReconnect == stop = "no"
Cancelled == stop = "done"

\* connMutex: available for reading, and for writing.
Readable == dialer = NoOne
Free == /\ Readable
        /\ \A s \in Senders : sender[s] # "writing"
        /\ \A k \in Conns : reader[k] # "writing"

At(k, pc) == reader[k] = pc
Goto(k, pc) == reader' = [reader EXCEPT ![k] = pc]

\* c.conn.Close() and c.conn = nil, under connMutex.
CloseConn ==
  /\ sock' = [k \in Conns |-> IF k = conn THEN "closed" ELSE sock[k]]
  /\ conn' = NoConn

-----------------------------------------------------------------------------
(* Connect *)

\* A call of Connect, by Initialize or by Integration.Connect.
Connect(c) ==
  /\ call[c] = "idle"
  /\ Free
  /\ IF conn = NoConn
     THEN dialer' = c /\ call' = [call EXCEPT ![c] = "dialing"]
     ELSE call' = [call EXCEPT ![c] = "done"] /\ UNCHANGED dialer
  /\ UNCHANGED <<conn, sock, attempts, redials, seen, reader, local, sender, stop, crashed>>

\* Connect returns to whoever called it.
Returns(d) == call' = [c \in Callers |-> IF c = d THEN "done" ELSE call[c]]

\* The dial succeeds; the caller, or the goroutine that reconnects, is done,
\* and the new connection's reader starts.
DialSucceeds(d) ==
  /\ dialer = d
  /\ \E k \in Conns :
       /\ sock[k] = "unused"
       /\ conn' = k
       /\ sock' = [sock EXCEPT ![k] = "open"]
       /\ reader' = [r \in Conns |-> IF r = k THEN "top" ELSE IF r = d THEN "done" ELSE reader[r]]
  /\ attempts' = 0
  /\ redials' = 0
  /\ dialer' = NoOne
  /\ Returns(d)
  /\ UNCHANGED <<seen, local, sender, stop, crashed>>

\* Mutant of DialFails: the goroutine that reconnects gives up at once.
DialFailsEnds(d) ==
  /\ dialer = d
  /\ dialer' = NoOne
  /\ reader' = [r \in Conns |-> IF r = d THEN "done" ELSE reader[r]]
  /\ Returns(d)
  /\ UNCHANGED <<conn, sock, attempts, redials, seen, local, sender, stop, crashed>>

\* The dial fails: only the goroutine that reconnects tries again.
DialFails(d) ==
  /\ dialer = d
  /\ dialer' = NoOne
  /\ reader' = [r \in Conns |-> IF r = d THEN "retry" ELSE reader[r]]
  /\ Returns(d)
  /\ UNCHANGED <<conn, sock, attempts, redials, seen, local, sender, stop, crashed>>

-----------------------------------------------------------------------------
(* Disconnect, and what happens to a connection *)

\* shouldReconnect = false, before the mutex is taken ...
BeginDisconnect ==
  /\ stop = "no"
  /\ stop' = "flagged"
  /\ UNCHANGED <<conn, sock, dialer, attempts, redials, seen, reader, local, call, sender, crashed>>

\* ... and the rest of it under the mutex, with cancel().
Disconnect ==
  /\ stop = "flagged"
  /\ Free
  /\ CloseConn
  /\ stop' = "done"
  /\ UNCHANGED <<dialer, attempts, redials, seen, reader, local, call, sender, crashed>>

\* The peer or the network ends the connection.
Lose(k) ==
  /\ sock[k] = "open"
  /\ sock' = [sock EXCEPT ![k] = "lost"]
  /\ UNCHANGED <<conn, dialer, attempts, redials, seen, reader, local, call, sender, stop, crashed>>

-----------------------------------------------------------------------------
(* The reader, handleMessages *)

OnlyReader == UNCHANGED <<conn, sock, dialer, attempts, redials, seen, local, call, sender, stop, crashed>>

\* Mutant of CheckContext: the context is not looked at.
CheckContextNever(k) == At(k, "top") /\ Goto(k, "fetch") /\ OnlyReader

\* The select on ctx.Done ...
CheckContext(k) ==
  /\ At(k, "top")
  /\ Goto(k, IF Cancelled THEN "leaving" ELSE "fetch")
  /\ OnlyReader

\* ... then c.conn is read, which need not be the reader's own connection.
Fetch(k) ==
  /\ At(k, "fetch")
  /\ Readable
  /\ local' = [local EXCEPT ![k] = conn]
  /\ Goto(k, IF conn = NoConn THEN "leaving" ELSE "reading")
  /\ UNCHANGED <<conn, sock, dialer, attempts, redials, seen, call, sender, stop, crashed>>

\* A message arrives: a ping, which is answered, or another.
Receive(k) ==
  /\ At(k, "reading")
  /\ sock[local[k]] = "open"
  /\ Goto(k, "ping") \/ Goto(k, "top")
  /\ OnlyReader

ReadFails(k) ==
  /\ At(k, "reading")
  /\ sock[local[k]] # "open"
  /\ Goto(k, "leaving")
  /\ OnlyReader

\* SendPong: the test ...
SendPong(k) ==
  /\ At(k, "ping")
  /\ Readable
  /\ Goto(k, IF conn = NoConn THEN "top" ELSE "pong")
  /\ OnlyReader

\* ... and the use of c.conn, which Disconnect may have set to nil by then.
\* Nobody recovers a panic of the reader: the process ends.
Crash ==
  /\ crashed' = TRUE
  /\ conn' = NoConn
  /\ sock' = [k \in Conns |-> IF sock[k] = "unused" THEN "unused" ELSE "closed"]
  /\ reader' = [k \in Conns |-> IF reader[k] = "none" THEN "none" ELSE "done"]
  /\ UNCHANGED <<dialer, attempts, redials, seen, local, call, sender, stop>>

WritePong(k) ==
  /\ At(k, "pong")
  /\ Readable
  /\ \/ conn # NoConn /\ Goto(k, "writing") /\ OnlyReader
     \/ conn = NoConn /\ Crash

PongWritten(k) ==
  /\ At(k, "writing")
  /\ Goto(k, "top")
  /\ OnlyReader

\* The deferred function: whatever connection is there is closed.
Leave(k) ==
  /\ At(k, "leaving")
  /\ Free
  /\ CloseConn
  /\ Goto(k, "notify")
  /\ UNCHANGED <<dialer, attempts, redials, seen, local, call, sender, stop, crashed>>

\* Mutant of Notify: the goroutine ends.
NotifyEnds(k) ==
  /\ At(k, "notify")
  /\ Goto(k, "done")
  /\ OnlyReader

\* "disconnected" is emitted and shouldReconnect is tested.
Notify(k) ==
  /\ At(k, "notify")
  /\ Goto(k, IF ShouldReconnect THEN "retry" ELSE "done")
  /\ OnlyReader

-----------------------------------------------------------------------------
(* attemptReconnect, by the same goroutine *)

\* Mutant of TestAttempts: one attempt too many.
TestAttemptsOffByOne(k) ==
  /\ At(k, "retry")
  /\ Goto(k, IF Cancelled \/ attempts > MaxAttempts \/ ~ShouldReconnect THEN "done" ELSE "count")
  /\ OnlyReader

TestAttempts(k) ==
  /\ At(k, "retry")
  /\ Goto(k, IF Cancelled \/ attempts >= MaxAttempts \/ ~ShouldReconnect THEN "done" ELSE "count")
  /\ OnlyReader

\* reconnectAttempts++ without a lock: another goroutine may count, or
\* Connect may reset it, between the read and the write.
CountAttempt(k) ==
  /\ At(k, "count")
  /\ seen' = [seen EXCEPT ![k] = attempts]
  /\ Goto(k, "store")
  /\ UNCHANGED <<conn, sock, dialer, attempts, redials, local, call, sender, stop, crashed>>

StoreAttempt(k) ==
  /\ At(k, "store")
  /\ attempts' = seen[k] + 1
  /\ seen' = [seen EXCEPT ![k] = 0]
  /\ Goto(k, "backoff")
  /\ UNCHANGED <<conn, sock, dialer, redials, local, call, sender, stop, crashed>>

\* The timer fires, or the context is cancelled; both may be so at once.
EndBackoff(k) ==
  /\ At(k, "backoff")
  /\ \/ Cancelled /\ Goto(k, "done")
     \/ Goto(k, IF ShouldReconnect THEN "connect" ELSE "done")
  /\ OnlyReader

Reconnect(k) ==
  /\ At(k, "connect")
  /\ Free
  /\ IF conn = NoConn
     THEN dialer' = k /\ redials' = redials + 1 /\ Goto(k, "dialing")
     ELSE Goto(k, "done") /\ UNCHANGED <<dialer, redials>>
  /\ UNCHANGED <<conn, sock, attempts, seen, local, call, sender, stop, crashed>>

-----------------------------------------------------------------------------
(* SendMapChange and SendPositionUpdate *)

OnlySender == UNCHANGED <<conn, sock, dialer, attempts, redials, seen, reader, local, call, stop, crashed>>

\* The test ...
CheckConnected(s) ==
  /\ sender[s] = "idle"
  /\ Readable
  /\ conn # NoConn
  /\ sender' = [sender EXCEPT ![s] = "checked"]
  /\ OnlySender

\* ... and the use of c.conn.  A nil connection is a panic, which whoever
\* runs the handler recovers.
Write(s) ==
  /\ sender[s] = "checked"
  /\ Readable
  /\ sender' = [sender EXCEPT ![s] = IF conn = NoConn THEN "idle" ELSE "writing"]
  /\ OnlySender

Written(s) ==
  /\ sender[s] = "writing"
  /\ sender' = [sender EXCEPT ![s] = "idle"]
  /\ OnlySender

-----------------------------------------------------------------------------
Dialing(d) == DialSucceeds(d) \/ DialFails(d)

Sending(s) == CheckConnected(s) \/ Write(s) \/ Written(s)

\* Steps of k's goroutine that do not wait for the mutex to be free.
Reading(k) ==
  \/ CheckContext(k) \/ Fetch(k) \/ ReadFails(k)
  \/ SendPong(k) \/ WritePong(k) \/ PongWritten(k) \/ Notify(k)
  \/ TestAttempts(k) \/ CountAttempt(k) \/ StoreAttempt(k) \/ EndBackoff(k)

Next ==
  /\ ~crashed
  /\ \/ \E c \in Callers : Connect(c)
     \/ \E d \in Conns \cup Callers : Dialing(d)
     \/ BeginDisconnect \/ Disconnect
     \/ \E k \in Conns :
          Lose(k) \/ Receive(k) \/ Reading(k) \/ Leave(k) \/ Reconnect(k)
     \/ \E s \in Senders : Sending(s)

Spec == Init /\ [][Next]_vars

\* Dials, writes and timers end and goroutines run; sync.RWMutex lets no
\* stream of readers keep a waiting Lock out.  Nobody has to connect,
\* disconnect, send or receive.
Fairness ==
  /\ \A d \in Conns \cup Callers : WF_vars(~crashed /\ Dialing(d))
  /\ \A k \in Conns : WF_vars(~crashed /\ Reading(k))
  /\ \A k \in Conns : SF_vars(~crashed /\ Leave(k)) /\ SF_vars(~crashed /\ Reconnect(k))
  /\ \A s \in Senders : WF_vars(~crashed /\ (Write(s) \/ Written(s)))
  /\ SF_vars(~crashed /\ Disconnect)

FairSpec == Spec /\ Fairness

-----------------------------------------------------------------------------
(* Properties *)

\* No connection is left behind: a socket that is not closed is c.conn.
NoLeak == \A k \in Conns : sock[k] \in {"open", "lost"} => conn = k

\* c.conn's own reader is there to notice its loss.
Watched == conn # NoConn => reader[conn] \in Watching

\* No two goroutines read from one connection, though each takes c.conn
\* afresh for every message (concurrent readers break a websocket).
OneReader ==
  \A k, l \in Conns :
    At(k, "reading") /\ At(l, "reading") /\ local[k] = local[l] => k = l

\* A connection that was lost is being re-established, unless the attempts
\* are used up or Disconnect was called.
SomeoneRetries ==
  (\E k \in Conns : sock[k] # "unused") /\ conn = NoConn /\ ShouldReconnect
    => attempts >= MaxAttempts \/ \E k \in Conns : reader[k] \in Retrying

\* The reader uses a connection that is nil only after Disconnect: a lost
\* connection alone never ends the process.
CrashesLate == crashed => Cancelled

\* The inductive invariant (DevSocketProofs).  Before Disconnect the reader of
\* c.conn is the only one that watches, so OneReader holds up to there; after
\* it no reader gets past CheckContext.
Busy == {"fetch", "reading", "ping", "pong", "writing"}

SocketInv ==
  /\ TypeOK /\ NoLeak /\ Watched /\ SomeoneRetries /\ CrashesLate
  /\ \A k \in Conns :
       /\ sock[k] = "unused" => reader[k] = "none"
       /\ reader[k] = "dialing" <=> dialer = k
       /\ reader[k] \in Watching /\ ~Cancelled => conn = k
  /\ dialer # NoOne => conn = NoConn
  /\ \A k, l \in Conns : reader[k] \in Busy /\ reader[l] \in Busy => k = l

\* As long as Connect was called only once, a server that refuses is dialled
\* again no more often than is counted, and the count is never beyond what is
\* configured, whatever connections are lost, readers end and Disconnect does.
\* (After a second call two goroutines may count: one count is lost, or is
\* written after the reset of a dial that succeeded.)
AttemptsBounded ==
  Cardinality({c \in Callers : call[c] # "idle"}) <= 1
    => redials <= attempts /\ attempts <= MaxAttempts

\* Nothing of the client is left.
Quiet == conn = NoConn /\ \A k \in Conns : reader[k] \in {"none", "done"}

\* Disconnect is final: a dial or a call of Connect that comes after it may
\* still open a connection, but not for good.
DisconnectIsFinal == Cancelled ~> []Quiet

\* A lost connection is replaced, or given up after the last attempt, or
\* disconnected.
LossIsRepaired ==
  \A k \in Conns :
    sock[k] = "lost" ~> \/ conn # NoConn /\ sock[conn] = "open"
                        \/ attempts >= MaxAttempts
                        \/ ~ShouldReconnect

=============================================================================
