--------------------------- MODULE DevSocketProofs ---------------------------
(* Theorems about DevSocket, for every value of its constants. *)
EXTENDS DevSocket, FiniteSetTheorems, TLAPS

USE DevSocketAssumption

\* The parts of SocketInv beside the type, one by one.
Alone(k) ==
  /\ sock[k] = "unused" => reader[k] = "none"
  /\ reader[k] = "dialing" <=> dialer = k
  /\ reader[k] \in Watching /\ ~Cancelled => conn = k

OneBusy == \A k, l \in Conns : reader[k] \in Busy /\ reader[l] \in Busy => k = l

LEMMA InvParts ==
  SocketInv <=> /\ TypeOK /\ NoLeak /\ Watched /\ SomeoneRetries /\ CrashesLate
                /\ \A k \in Conns : Alone(k)
                /\ dialer # NoOne => conn = NoConn
                /\ OneBusy
  BY DEF SocketInv, Alone, OneBusy

LEMMA TypeInit == Init => TypeOK
  <1> SUFFICES ASSUME Init PROVE TypeOK
    OBVIOUS
  <1>1. reader \in [Conns -> Watching \cup Retrying \cup {"none", "done"}]
    BY DEF Init
  <1>2. \A k \in Conns : reader[k] # "reading"
    BY DEF Init
  <1> QED
    BY <1>1, <1>2 DEF Init, TypeOK

LEMMA InvInit == Init => SocketInv
  <1> SUFFICES ASSUME Init PROVE SocketInv
    OBVIOUS
  <1>1. \A k \in Conns : reader[k] = "none" /\ sock[k] = "unused" /\ dialer # k
    BY DEF Init
  <1>2. NoLeak /\ Watched /\ SomeoneRetries /\ CrashesLate
    BY <1>1 DEF Init, NoLeak, Watched, SomeoneRetries, CrashesLate
  <1>3. \A k \in Conns : reader[k] \notin Watching /\ reader[k] \notin Busy
    BY <1>1 DEF Watching, Busy
  <1> QED
    BY <1>1, <1>2, <1>3, TypeInit DEF Init, SocketInv

\* A step of one reader alone, that starts no connection and ends none: the
\* reader goes on among the states that watch, or from one that does not.
Moves(k, pc) ==
  /\ reader' = [reader EXCEPT ![k] = pc]
  /\ UNCHANGED <<conn, sock, dialer, stop, crashed>>
  /\ attempts' >= attempts \/ pc \in Retrying

LEMMA ReaderStep ==
  ASSUME SocketInv, NEW k \in Conns, NEW pc \in Watching \cup Retrying \cup {"done"},
         Moves(k, pc), TypeOK',
         reader[k] \notin {"none", "dialing"}, pc # "dialing",
         reader[k] \in Watching <=> pc \in Watching,
         pc \in Busy => reader[k] \in Busy \/ ~Cancelled,
         pc = "done" => conn # NoConn \/ ~ShouldReconnect \/ attempts >= MaxAttempts
  PROVE  SocketInv'
  <1> USE DEF Moves
  <1>1. reader'[k] = pc /\ \A l \in Conns \ {k} : reader'[l] = reader[l]
    BY DEF SocketInv, TypeOK
  <1>2. NoLeak' /\ CrashesLate'
    BY DEF SocketInv, NoLeak, CrashesLate, Cancelled
  <1>3. Watched'
    BY <1>1 DEF SocketInv, Watched, TypeOK
  <1>4. SomeoneRetries'
    <2> SUFFICES ASSUME \E l \in Conns : sock[l] # "unused", conn = NoConn, ShouldReconnect,
                        ~(attempts' >= MaxAttempts), pc \notin Retrying
                 PROVE  \E l \in Conns : reader'[l] \in Retrying
      BY <1>1 DEF SomeoneRetries, ShouldReconnect
    <2>1. ~(attempts >= MaxAttempts)
      BY DEF SocketInv, TypeOK
    <2>2. PICK l \in Conns : reader[l] \in Retrying
      BY <2>1 DEF SocketInv, SomeoneRetries
    <2>3. CASE l = k
      <3>1. reader[k] \notin Watching
        BY <2>2, <2>3 DEF Watching, Retrying
      <3>2. pc \in Retrying
        BY <2>1, <3>1
      <3> QED
        BY <1>1, <3>2
    <2>4. CASE l # k
      BY <1>1, <2>2, <2>4
    <2> QED
      BY <2>3, <2>4
  <1>5. \A l \in Conns : Alone(l)'
    BY <1>1 DEF SocketInv, Alone, Cancelled
  <1>6. OneBusy'
    <2> SUFFICES ASSUME NEW a \in Conns, NEW b \in Conns,
                        reader'[a] \in Busy, reader'[b] \in Busy
                 PROVE  a = b
      BY DEF OneBusy
    <2>1. CASE ~Cancelled
      <3>1. \A l \in Conns : reader'[l] \in Watching => conn = l
        BY <1>5, <2>1 DEF Alone, Cancelled
      <3> QED
        BY <3>1 DEF Busy, Watching
    <2>2. CASE Cancelled
      <3>1. \A l \in Conns : reader'[l] \in Busy => reader[l] \in Busy
        BY <1>1, <2>2
      <3> QED
        BY <3>1 DEF SocketInv
    <2> QED
      BY <2>1, <2>2
  <1>7. (dialer # NoOne => conn = NoConn)'
    BY DEF SocketInv
  <1> QED
    BY <1>2, <1>3, <1>4, <1>5, <1>6, <1>7 DEF SocketInv, Alone, OneBusy

-----------------------------------------------------------------------------
(* Type correctness. *)

LEMMA ReaderType ==
  ASSUME TypeOK, NEW k \in Conns, Reading(k) \/ Receive(k) \/ Leave(k) \/ Reconnect(k)
  PROVE  TypeOK'
  <1> USE DEF Goto, At
  <1>1. CASE CheckContext(k)
    BY <1>1 DEF CheckContext, OnlyReader, TypeOK, Watching
  <1>2. CASE Fetch(k)
    BY <1>2 DEF Fetch, TypeOK, Watching
  <1>3. CASE Receive(k) \/ ReadFails(k) \/ SendPong(k) \/ PongWritten(k)
    BY <1>3 DEF Receive, ReadFails, SendPong, PongWritten, OnlyReader, TypeOK, Watching
  <1>4. CASE WritePong(k)
    <2>1. CASE Goto(k, "writing") /\ OnlyReader
      BY <2>1 DEF OnlyReader, TypeOK, Watching
    <2>2. CASE Crash
      BY <2>2 DEF Crash, TypeOK
    <2> QED
      BY <1>4, <2>1, <2>2 DEF WritePong
  <1>5. CASE Notify(k) \/ TestAttempts(k) \/ EndBackoff(k)
    BY <1>5 DEF Notify, TestAttempts, EndBackoff, OnlyReader, TypeOK, Retrying
  <1>6. CASE CountAttempt(k) \/ StoreAttempt(k)
    BY <1>6 DEF CountAttempt, StoreAttempt, TypeOK, Retrying
  <1>7. CASE Leave(k)
    BY <1>7 DEF Leave, CloseConn, TypeOK, Retrying
  <1>8. CASE Reconnect(k)
    BY <1>8 DEF Reconnect, TypeOK, Retrying
  <1> QED
    BY <1>1, <1>2, <1>3, <1>4, <1>5, <1>6, <1>7, <1>8 DEF Reading

LEMMA TypeNext == TypeOK /\ [Next]_vars => TypeOK'
  <1> SUFFICES ASSUME TypeOK, [Next]_vars PROVE TypeOK'
    OBVIOUS
  <1>1. ASSUME NEW c \in Callers, Connect(c) PROVE TypeOK'
    BY <1>1 DEF Connect, TypeOK
  <1>2. ASSUME NEW d \in Conns \cup Callers, Dialing(d) PROVE TypeOK'
    BY <1>2 DEF Dialing, DialSucceeds, DialFails, Returns, TypeOK, Watching, Retrying
  <1>3. CASE BeginDisconnect \/ Disconnect
    BY <1>3 DEF BeginDisconnect, Disconnect, CloseConn, TypeOK
  <1>4. ASSUME NEW k \in Conns, Lose(k) PROVE TypeOK'
    BY <1>4 DEF Lose, TypeOK
  <1>5. ASSUME NEW s \in Senders, Sending(s) PROVE TypeOK'
    BY <1>5 DEF Sending, CheckConnected, Write, Written, OnlySender, TypeOK
  <1>6. CASE UNCHANGED vars
    BY <1>6 DEF vars, TypeOK
  <1> QED
    BY <1>1, <1>2, <1>3, <1>4, <1>5, <1>6, ReaderType DEF Next

-----------------------------------------------------------------------------
(* The invariant, action by action. *)

LEMMA CrashInv ==
  ASSUME SocketInv, NEW k \in Conns, At(k, "pong"), Readable, conn = NoConn, Crash, TypeOK'
  PROVE  SocketInv'
  <1>1. stop = "done" /\ stop' = "done"
    BY DEF At, Crash, SocketInv, Cancelled, Watching
  <1>2. \A l \in Conns : reader'[l] = "none" \/ reader'[l] = "done"
    BY DEF Crash
  <1>3. \A l \in Conns : sock'[l] = "unused" \/ sock'[l] = "closed"
    BY DEF Crash
  <1>4. \A l \in Conns : sock'[l] = "unused" => reader'[l] = "none"
    BY DEF Crash, SocketInv
  <1>5. dialer' = NoOne /\ conn' = NoConn
    BY DEF Readable, Crash
  <1>6. NoLeak'
    <2>1. \A l \in Conns : sock'[l] # "open" /\ sock'[l] # "lost"
      BY <1>3
    <2> QED
      BY <2>1 DEF NoLeak
  <1>7. Watched'
    BY <1>5 DEF Watched
  <1>8. SomeoneRetries' /\ CrashesLate'
    BY <1>1 DEF SomeoneRetries, CrashesLate, ShouldReconnect, Cancelled
  <1>9. \A l \in Conns : reader'[l] \notin Watching /\ reader'[l] \notin Busy
                         /\ reader'[l] # "dialing"
    <2> SUFFICES ASSUME NEW l \in Conns
                 PROVE  reader'[l] \notin Watching /\ reader'[l] \notin Busy
                        /\ reader'[l] # "dialing"
      OBVIOUS
    <2>1. CASE reader'[l] = "none"
      BY <2>1 DEF Watching, Busy
    <2>2. CASE reader'[l] = "done"
      BY <2>2 DEF Watching, Busy
    <2> QED
      BY <1>2, <2>1, <2>2
  <1>10. \A l \in Conns : Alone(l)'
    <2> SUFFICES ASSUME NEW l \in Conns PROVE Alone(l)'
      OBVIOUS
    <2>1. dialer' # l
      BY <1>5
    <2> QED
      BY <1>4, <1>9, <2>1 DEF Alone
  <1>11. OneBusy'
    BY <1>9 DEF OneBusy
  <1> QED
    BY <1>5, <1>6, <1>7, <1>8, <1>10, <1>11 DEF SocketInv, Alone, OneBusy

LEMMA ReadingInv ==
  ASSUME SocketInv, TypeOK', NEW k \in Conns, Reading(k) \/ Receive(k)
  PROVE  SocketInv'
  <1>0. attempts \in Nat /\ (Cancelled => ~ShouldReconnect)
    BY DEF SocketInv, TypeOK, Cancelled, ShouldReconnect
  <1>1. ASSUME Moves(k, "leaving"), reader[k] \in Busy \cup {"top"} PROVE SocketInv'
    BY <1>1, ReaderStep DEF Watching, Busy, Retrying
  <1>2. ASSUME NEW pc \in {"top", "reading", "ping", "pong", "writing"},
               Moves(k, pc), reader[k] \in Busy
        PROVE  SocketInv'
    BY <1>2, ReaderStep DEF Watching, Busy, Retrying
  <1>3. ASSUME Moves(k, "fetch"), reader[k] = "top", ~Cancelled PROVE SocketInv'
    BY <1>3, ReaderStep DEF Watching, Busy, Retrying
  <1>4. ASSUME NEW pc \in {"retry", "count", "store", "backoff", "connect"},
               Moves(k, pc), reader[k] \in {"notify", "retry", "count", "store", "backoff"}
        PROVE  SocketInv'
    BY <1>4, ReaderStep DEF Watching, Busy, Retrying
  <1>5. ASSUME Moves(k, "done"), reader[k] \in {"notify", "retry", "backoff"},
               ~ShouldReconnect \/ attempts >= MaxAttempts
        PROVE  SocketInv'
    BY <1>5, ReaderStep DEF Watching, Busy, Retrying
  <1>6. ASSUME NEW pc, Goto(k, pc), OnlyReader PROVE Moves(k, pc)
    BY <1>0, <1>6 DEF Goto, OnlyReader, Moves
  <1>7. CASE CheckContext(k)
    BY <1>1, <1>3, <1>6, <1>7 DEF CheckContext, At
  <1>8. CASE Fetch(k)
    <2>0. UNCHANGED <<conn, sock, dialer, stop, crashed>> /\ attempts' >= attempts
      BY <1>0, <1>8 DEF Fetch
    <2>1. ASSUME NEW pc, Goto(k, pc) PROVE Moves(k, pc)
      BY <2>0, <2>1 DEF Goto, Moves
    <2> QED
      BY <1>1, <1>2, <1>8, <2>1 DEF Fetch, At, Busy
  <1>9. CASE Receive(k)
    BY <1>2, <1>6, <1>9 DEF Receive, At, Busy
  <1>10. CASE ReadFails(k) \/ PongWritten(k)
    BY <1>1, <1>2, <1>6, <1>10 DEF ReadFails, PongWritten, At, Busy
  <1>11. CASE SendPong(k)
    BY <1>2, <1>6, <1>11 DEF SendPong, At, Busy
  <1>12. CASE WritePong(k)
    BY <1>2, <1>6, <1>12, CrashInv DEF WritePong, At, Busy
  <1>13. CASE Notify(k)
    BY <1>4, <1>5, <1>6, <1>13 DEF Notify, At
  <1>14. CASE TestAttempts(k)
    BY <1>0, <1>4, <1>5, <1>6, <1>14 DEF TestAttempts, At
  <1>15. CASE CountAttempt(k)
    <2>1. Moves(k, "store")
      BY <1>0, <1>15 DEF CountAttempt, Goto, Moves
    <2> QED
      BY <1>4, <1>15, <2>1 DEF CountAttempt, At
  <1>16. CASE StoreAttempt(k)
    <2>1. Moves(k, "backoff")
      BY <1>16 DEF StoreAttempt, Goto, Moves, Retrying
    <2> QED
      BY <1>4, <1>16, <2>1 DEF StoreAttempt, At
  <1>17. CASE EndBackoff(k)
    BY <1>0, <1>4, <1>5, <1>6, <1>17 DEF EndBackoff, At
  <1> QED
    BY <1>7, <1>8, <1>9, <1>10, <1>11, <1>12, <1>13, <1>14, <1>15, <1>16, <1>17 DEF Reading

LEMMA LeaveInv ==
  ASSUME SocketInv, TypeOK', NEW k \in Conns, Leave(k)
  PROVE  SocketInv'
  <1>1. /\ conn' = NoConn
        /\ dialer = NoOne /\ dialer' = NoOne
        /\ UNCHANGED <<stop, crashed>>
    BY DEF Leave, CloseConn, Free, Readable
  <1>2. reader'[k] = "notify" /\ \A l \in Conns \ {k} : reader'[l] = reader[l]
    BY DEF Leave, Goto, SocketInv, TypeOK
  <1>3. /\ \A l \in Conns : sock'[l] # "open" /\ sock'[l] # "lost"
        /\ \A l \in Conns : sock'[l] = "unused" => sock[l] = "unused"
    BY DEF Leave, CloseConn, SocketInv, NoLeak, TypeOK
  <1>4. NoLeak' /\ Watched' /\ CrashesLate'
    <2>1. NoLeak'
      BY <1>3 DEF NoLeak
    <2>2. Watched'
      BY <1>1 DEF Watched
    <2>3. CrashesLate'
      BY <1>1 DEF SocketInv, CrashesLate, Cancelled
    <2> QED
      BY <2>1, <2>2, <2>3
  <1>5. SomeoneRetries'
    BY <1>2 DEF SomeoneRetries, Retrying
  <1>6. \A l \in Conns : Alone(l)'
    <2>1. reader[k] = "leaving" /\ sock[k] # "unused"
      BY DEF Leave, At, SocketInv
    <2>2. Alone(k)'
      BY <1>1, <1>2, <1>3, <2>1 DEF Alone, Watching
    <2>3. ASSUME NEW l \in Conns \ {k} PROVE Alone(l)'
      <3>1. Alone(l) /\ Alone(k)
        BY DEF SocketInv, Alone
      <3>2. reader[l] \in Watching => Cancelled
        BY <2>1, <3>1 DEF Alone, Watching
      <3> QED
        BY <1>1, <1>2, <1>3, <3>1, <3>2 DEF Alone, Cancelled
    <2> QED
      BY <2>2, <2>3
  <1>7. OneBusy'
    BY <1>2 DEF SocketInv, OneBusy, Busy
  <1> QED
    BY <1>1, <1>4, <1>5, <1>6, <1>7 DEF SocketInv, Alone, OneBusy

LEMMA ReconnectInv ==
  ASSUME SocketInv, TypeOK', NEW k \in Conns, Reconnect(k)
  PROVE  SocketInv'
  <1>1. CASE conn # NoConn
    <2>1. Moves(k, "done")
      BY <1>1 DEF Reconnect, Goto, Moves, SocketInv, TypeOK
    <2> QED
      BY <1>1, <2>1, ReaderStep DEF Reconnect, At, Watching, Busy
  <1>2. CASE conn = NoConn
    <2>1. /\ dialer = NoOne /\ dialer' = k
          /\ UNCHANGED <<conn, sock, attempts, stop, crashed>>
      BY <1>2 DEF Reconnect, Free, Readable
    <2>2. /\ reader[k] = "connect" /\ reader'[k] = "dialing"
          /\ \A l \in Conns \ {k} : reader'[l] = reader[l]
      BY <1>2 DEF Reconnect, At, Goto, SocketInv, TypeOK
    <2>3. NoLeak' /\ Watched' /\ CrashesLate'
      BY <1>2, <2>1 DEF SocketInv, NoLeak, Watched, CrashesLate, Cancelled
    <2>4. SomeoneRetries'
      BY <2>2 DEF SomeoneRetries, Retrying
    <2>5. \A l \in Conns : Alone(l)'
      BY <2>1, <2>2 DEF SocketInv, Alone, Cancelled, Watching
    <2>6. OneBusy'
      BY <2>2 DEF SocketInv, OneBusy, Busy
    <2> QED
      BY <1>2, <2>1, <2>3, <2>4, <2>5, <2>6 DEF SocketInv, Alone, OneBusy
  <1> QED
    BY <1>1, <1>2

LEMMA DialingInv ==
  ASSUME SocketInv, TypeOK', NEW d \in Conns \cup Callers, Dialing(d)
  PROVE  SocketInv'
  <1>0. /\ dialer = d /\ dialer' = NoOne /\ conn = NoConn
        /\ UNCHANGED <<stop, crashed>>
    BY DEF Dialing, DialSucceeds, DialFails, SocketInv
  <1>1. \A l \in Conns : reader[l] = "dialing" => l = d
    BY <1>0 DEF SocketInv
  <1>2. CASE DialSucceeds(d)
    <2>1. PICK k \in Conns :
            /\ sock[k] = "unused" /\ conn' = k
            /\ sock' = [sock EXCEPT ![k] = "open"]
            /\ reader' = [r \in Conns |-> IF r = k THEN "top" ELSE
                                          IF r = d THEN "done" ELSE reader[r]]
      BY <1>2 DEF DialSucceeds
    <2>2. /\ sock'[k] = "open" /\ reader'[k] = "top" /\ reader[k] = "none"
          /\ \A l \in Conns \ {k} : sock'[l] = sock[l] /\ reader'[l] \in {"done", reader[l]}
          /\ \A l \in Conns \ {k} : l = d => reader'[l] = "done" /\ reader[l] = "dialing"
      BY <1>0, <2>1 DEF SocketInv, TypeOK
    <2>3. NoLeak' /\ Watched' /\ CrashesLate'
      BY <1>0, <2>1, <2>2 DEF SocketInv, NoLeak, Watched, CrashesLate, Cancelled, Watching
    <2>4. SomeoneRetries'
      BY <2>1 DEF SomeoneRetries
    <2>5. \A l \in Conns : Alone(l)'
      <3>1. Alone(k)'
        BY <1>0, <2>1, <2>2 DEF Alone
      <3>2. ASSUME NEW l \in Conns \ {k} PROVE Alone(l)'
        <4>1. sock'[l] = "unused" => reader'[l] = "none"
          BY <2>1, <2>2 DEF SocketInv
        <4>2. reader'[l] # "dialing" /\ dialer' # l
          BY <1>0, <1>1, <2>1
        <4>3. reader'[l] \in Watching /\ ~Cancelled' => FALSE
          BY <1>0, <2>2 DEF SocketInv, Cancelled, Watching
        <4> QED
          BY <4>1, <4>2, <4>3 DEF Alone
      <3> QED
        BY <3>1, <3>2
    <2>6. OneBusy'
      BY <2>2 DEF SocketInv, OneBusy, Busy
    <2> QED
      BY <1>0, <2>3, <2>4, <2>5, <2>6 DEF SocketInv, Alone, OneBusy
  <1>3. CASE DialFails(d)
    <2>1. /\ UNCHANGED <<conn, sock, attempts>>
          /\ \A l \in Conns : reader'[l] = IF l = d THEN "retry" ELSE reader[l]
      BY <1>3 DEF DialFails
    <2>2. NoLeak' /\ Watched' /\ CrashesLate'
      BY <1>0, <2>1 DEF SocketInv, NoLeak, Watched, CrashesLate, Cancelled
    <2>3. SomeoneRetries'
      BY <1>0, <2>1 DEF SocketInv, SomeoneRetries, ShouldReconnect, Retrying
    <2>4. \A l \in Conns : Alone(l)'
      BY <1>0, <1>1, <2>1 DEF SocketInv, Alone, Cancelled, Watching
    <2>5. OneBusy'
      BY <2>1 DEF SocketInv, OneBusy, Busy
    <2> QED
      BY <1>0, <2>2, <2>3, <2>4, <2>5 DEF SocketInv, Alone, OneBusy
  <1> QED
    BY <1>2, <1>3 DEF Dialing

\* Steps that leave every reader where it is.
LEMMA ReadersRest ==
  ASSUME SocketInv, TypeOK', reader' = reader,
         \/ \E c \in Callers : Connect(c)
         \/ BeginDisconnect \/ Disconnect
         \/ \E k \in Conns : Lose(k)
         \/ \E s \in Senders : Sending(s)
         \/ UNCHANGED vars
  PROVE  SocketInv'
  <1>1. CASE \E c \in Callers : Connect(c)
    BY <1>1 DEF Connect, Free, Readable, SocketInv, NoLeak, Watched, SomeoneRetries,
       CrashesLate, Cancelled, ShouldReconnect
  <1>2. CASE BeginDisconnect
    BY <1>2 DEF BeginDisconnect, SocketInv, NoLeak, Watched, SomeoneRetries,
       CrashesLate, Cancelled, ShouldReconnect
  <1>3. CASE Disconnect
    <2>1. /\ conn' = NoConn /\ dialer = NoOne /\ dialer' = NoOne
          /\ crashed' = crashed /\ stop = "flagged" /\ stop' = "done"
      BY <1>3 DEF Disconnect, CloseConn, Free, Readable
    <2>2. /\ \A l \in Conns : sock'[l] # "open" /\ sock'[l] # "lost"
          /\ \A l \in Conns : sock'[l] = "unused" => sock[l] = "unused"
      BY <1>3 DEF Disconnect, CloseConn, SocketInv, NoLeak, TypeOK
    <2>3. NoLeak'
      BY <2>2 DEF NoLeak
    <2>4. Watched'
      BY <2>1 DEF Watched
    <2>5. SomeoneRetries' /\ CrashesLate'
      BY <2>1 DEF SomeoneRetries, CrashesLate, ShouldReconnect, Cancelled
    <2>6. \A l \in Conns : Alone(l)'
      BY <2>1, <2>2 DEF SocketInv, Alone, Cancelled
    <2>7. OneBusy'
      BY DEF SocketInv, OneBusy
    <2> QED
      BY <2>1, <2>3, <2>4, <2>5, <2>6, <2>7 DEF SocketInv, Alone, OneBusy
  <1>4. CASE \E k \in Conns : Lose(k)
    BY <1>4 DEF Lose, SocketInv, NoLeak, Watched, SomeoneRetries,
       CrashesLate, Cancelled, ShouldReconnect, TypeOK
  <1>5. CASE (\E s \in Senders : Sending(s)) \/ UNCHANGED vars
    BY <1>5 DEF Sending, CheckConnected, Write, Written, OnlySender, vars, SocketInv,
       NoLeak, Watched, SomeoneRetries, CrashesLate, Cancelled, ShouldReconnect
  <1> QED
    BY <1>1, <1>2, <1>3, <1>4, <1>5

LEMMA InvNext == SocketInv /\ [Next]_vars => SocketInv'
  <1> SUFFICES ASSUME SocketInv, [Next]_vars PROVE SocketInv'
    OBVIOUS
  <1>1. TypeOK'
    BY TypeNext DEF SocketInv
  <1>2. CASE (\E c \in Callers : Connect(c)) \/ BeginDisconnect \/ Disconnect
    <2>1. reader' = reader
      BY <1>2 DEF Connect, BeginDisconnect, Disconnect
    <2> QED
      BY <1>1, <1>2, <2>1, ReadersRest
  <1>3. ASSUME NEW k \in Conns, Receive(k) \/ Reading(k) \/ Leave(k) \/ Reconnect(k)
        PROVE  SocketInv'
    BY <1>1, <1>3, ReadingInv, LeaveInv, ReconnectInv
  <1>4. ASSUME NEW d \in Conns \cup Callers, Dialing(d) PROVE SocketInv'
    BY <1>1, <1>4, DialingInv
  <1>5. CASE \E k \in Conns : Lose(k)
    <2>1. reader' = reader
      BY <1>5 DEF Lose
    <2> QED
      BY <1>1, <1>5, <2>1, ReadersRest
  <1>6. CASE \E s \in Senders : Sending(s)
    <2>1. reader' = reader
      BY <1>6 DEF Sending, CheckConnected, Write, Written, OnlySender
    <2> QED
      BY <1>1, <1>6, <2>1, ReadersRest
  <1>7. CASE UNCHANGED vars
    <2>1. reader' = reader
      BY <1>7 DEF vars
    <2> QED
      BY <1>1, <1>7, <2>1, ReadersRest
  <1> QED
    BY <1>2, <1>3, <1>4, <1>5, <1>6, <1>7 DEF Next

-----------------------------------------------------------------------------
(* The attempts: one call of Connect starts one chain of goroutines, each of *)
(* which is gone when the next starts, so that one at a time counts.         *)
Called == {c \in Callers : call[c] # "idle"}
Live(k) == reader[k] \notin {"none", "done"}
\* What k's goroutine has counted and not yet dialled.
Counting(k) ==
  /\ reader[k] = "count" => attempts < MaxAttempts
  /\ reader[k] = "store" => seen[k] = attempts /\ attempts < MaxAttempts
  /\ reader[k] \in {"backoff", "connect"} => redials < attempts
Chain ==
  /\ redials <= attempts /\ attempts <= MaxAttempts
  /\ \A k, l \in Conns : Live(k) /\ Live(l) => k = l
  /\ \A k \in Conns : Live(k) => Called # {} /\ \A c \in Callers : call[c] # "dialing"
  /\ \A k \in Conns : Counting(k)
CalledOnce == \A c, d \in Called : c = d
ChainInv ==
  /\ IsFiniteSet(Called)
  /\ \A c \in Callers : call[c] = "dialing" <=> dialer = c
  /\ CalledOnce => Chain

\* Before the first call no goroutine is there.
LEMMA ChainInit == Init => ChainInv
  <1> SUFFICES ASSUME Init PROVE ChainInv
    OBVIOUS
  <1>1. Called = {} /\ IsFiniteSet(Called)
    <2>1. Called = {}
      BY DEF Init, Called
    <2> QED
      BY <2>1, FS_EmptySet
  <1>2. \A k \in Conns : reader[k] = "none" /\ ~Live(k)
    BY DEF Init, Live
  <1>3. 0 <= MaxAttempts
    OBVIOUS
  <1> QED
    BY <1>1, <1>2, <1>3 DEF Init, ChainInv, Chain, Counting

\* A step that only goes on in the goroutine of one connection.
LEMMA ChainStep ==
  ASSUME TypeOK, ChainInv, NEW k \in Conns, Live(k), UNCHANGED call,
         \A l \in Conns \ {k} : Live(l)' => Live(l),
         \A c \in Callers : dialer' = c <=> dialer = c,
         Chain => /\ redials' <= attempts' /\ attempts' <= MaxAttempts
                  /\ Counting(k)'
  PROVE  ChainInv'
  <1>1. Called' = Called
    BY DEF Called
  <1>2. ASSUME CalledOnce PROVE Chain'
    <2>1. Chain
      BY <1>2 DEF ChainInv
    <2>2. \A l \in Conns : Live(l)' => l = k
      BY <2>1 DEF Chain
    <2>3. \A l \in Conns : ~Live(l)' => Counting(l)'
      BY DEF Live, Counting
    <2>4. Called # {} /\ \A c \in Callers : call'[c] # "dialing"
      BY <2>1 DEF Chain
    <2> QED
      BY <1>1, <2>1, <2>2, <2>3, <2>4 DEF Chain
  <1> QED
    BY <1>1, <1>2 DEF ChainInv, CalledOnce

\* A reader, or what it goes on as, counts from what it has read itself.
LEMMA ChainReader ==
  ASSUME SocketInv, ChainInv, NEW k \in Conns,
         Receive(k) \/ Reading(k) \/ Leave(k) \/ Reconnect(k)
  PROVE  ChainInv'
  <1> USE DEF Goto, At
  <1>0. TypeOK /\ attempts \in Nat /\ redials \in Nat /\ seen \in [Conns -> Nat] /\ Conns \cap Callers = {} /\ MaxAttempts \in Nat
        /\ reader \in [Conns -> Watching \cup Retrying \cup {"none", "done"}]
    BY DEF SocketInv, TypeOK
  <1>1. Live(k)
    BY DEF Receive, Reading, CheckContext, Fetch, ReadFails, SendPong, WritePong, PongWritten, Notify,
           TestAttempts, CountAttempt, StoreAttempt, EndBackoff, Leave, Reconnect, Live
  <1>2. ASSUME NEW pc, Goto(k, pc) PROVE reader'[k] = pc /\ \A l \in Conns \ {k} : Live(l)' => Live(l)
    BY <1>0, <1>2 DEF Live
  <1>3. CASE \/ Receive(k) \/ CheckContext(k) \/ Fetch(k) \/ ReadFails(k) \/ SendPong(k)
             \/ PongWritten(k) \/ Notify(k) \/ EndBackoff(k) \/ Leave(k)
             \/ (At(k, "pong") /\ Goto(k, "writing") /\ OnlyReader)
    <2>1. PICK pc \in Watching \cup {"notify", "retry", "done", "connect"} :
            Goto(k, pc) /\ (pc = "connect" => reader[k] = "backoff")
      BY <1>3 DEF Receive, CheckContext, Fetch, ReadFails, SendPong, PongWritten, Notify, EndBackoff, Leave,
                  Watching
    <2>2. /\ reader'[k] \notin {"count", "store", "backoff"}
          /\ reader'[k] = "connect" => reader[k] = "backoff"
      BY <1>2, <2>1 DEF Watching
    <2>3. UNCHANGED <<call, dialer, attempts, redials>>
      BY <1>3 DEF Receive, CheckContext, Fetch, ReadFails, SendPong, PongWritten, Notify, EndBackoff, Leave,
                  OnlyReader
    <2>4. Chain => redials' <= attempts' /\ attempts' <= MaxAttempts /\ Counting(k)'
      BY <2>2, <2>3 DEF Chain, Counting
    <2>5. \A l \in Conns \ {k} : Live(l)' => Live(l)
      BY <1>2, <2>1
    <2> QED
      BY <1>0, <1>1, <2>3, <2>4, <2>5, ChainStep
  <1>4. CASE At(k, "pong") /\ Crash
    <2>1. \A l \in Conns : ~Live(l)'
      BY <1>4 DEF Crash, Live
    <2>2. UNCHANGED <<call, dialer, attempts, redials>> /\ reader'[k] \notin {"count", "store", "backoff", "connect"}
      BY <1>4 DEF Crash
    <2>3. Chain => redials' <= attempts' /\ attempts' <= MaxAttempts /\ Counting(k)'
      BY <2>2 DEF Chain, Counting
    <2> QED
      BY <1>0, <1>1, <2>1, <2>2, <2>3, ChainStep
  <1>5. CASE TestAttempts(k)
    <2>1. PICK pc \in {"count", "done"} : Goto(k, pc) /\ (pc = "count" => ~(attempts >= MaxAttempts))
      BY <1>5 DEF TestAttempts
    <2>2. reader'[k] = pc /\ \A l \in Conns \ {k} : Live(l)' => Live(l)
      BY <1>2, <2>1
    <2>3. UNCHANGED <<call, dialer, attempts, redials>>
      BY <1>5 DEF TestAttempts, OnlyReader
    <2>4. Chain => redials' <= attempts' /\ attempts' <= MaxAttempts /\ Counting(k)'
      BY <1>0, <2>1, <2>2, <2>3 DEF Chain, Counting
    <2> QED
      BY <1>0, <1>1, <2>2, <2>3, <2>4, ChainStep
  <1>6. CASE CountAttempt(k)
    <2>1. Goto(k, "store") /\ reader[k] = "count" /\ seen'[k] = attempts
          /\ UNCHANGED <<call, dialer, attempts, redials>>
      BY <1>0, <1>6 DEF CountAttempt
    <2>2. reader'[k] = "store" /\ \A l \in Conns \ {k} : Live(l)' => Live(l)
      BY <1>2, <2>1
    <2>3. Chain => redials' <= attempts' /\ attempts' <= MaxAttempts /\ Counting(k)'
      BY <2>1, <2>2 DEF Chain, Counting
    <2> QED
      BY <1>0, <1>1, <2>1, <2>2, <2>3, ChainStep
  <1>7. CASE StoreAttempt(k)
    <2>1. Goto(k, "backoff") /\ reader[k] = "store" /\ attempts' = seen[k] + 1
          /\ UNCHANGED <<call, dialer, redials>>
      BY <1>7 DEF StoreAttempt
    <2>2. reader'[k] = "backoff" /\ \A l \in Conns \ {k} : Live(l)' => Live(l)
      BY <1>2, <2>1
    <2>3. seen[k] \in Nat
      BY <1>0
    <2>4. Chain => redials' <= attempts' /\ attempts' <= MaxAttempts /\ Counting(k)'
      BY <1>0, <2>1, <2>2, <2>3 DEF Chain, Counting
    <2> QED
      BY <1>0, <1>1, <2>1, <2>2, <2>4, ChainStep
  <1>8. CASE Reconnect(k)
    <2>1. PICK pc \in {"dialing", "done"} : Goto(k, pc)
      BY <1>8 DEF Reconnect
    <2>2. reader'[k] = pc /\ \A l \in Conns \ {k} : Live(l)' => Live(l)
      BY <1>2, <2>1
    <2>3. /\ UNCHANGED <<call, attempts>> /\ dialer = NoOne /\ dialer' \in {NoOne, k}
          /\ reader[k] = "connect" /\ redials' \in {redials, redials + 1}
      BY <1>8 DEF Reconnect, Free, Readable
    <2>4. \A c \in Callers : dialer' = c <=> dialer = c
      BY <1>0, <2>3
    <2>5. Chain => redials' <= attempts' /\ attempts' <= MaxAttempts /\ Counting(k)'
      BY <1>0, <2>2, <2>3 DEF Chain, Counting
    <2> QED
      BY <1>0, <1>1, <2>2, <2>3, <2>4, <2>5, ChainStep
  <1> QED
    BY <1>3, <1>4, <1>5, <1>6, <1>7, <1>8 DEF Reading, WritePong

\* A dial is of the one live goroutine, or of the one call with none yet.
LEMMA ChainDial ==
  ASSUME SocketInv, ChainInv, NEW d \in Conns \cup Callers, Dialing(d)
  PROVE  ChainInv'
  <1>0. /\ reader \in [Conns -> Watching \cup Retrying \cup {"none", "done"}]
        /\ call \in [Callers -> {"idle", "dialing", "done"}]
        /\ Conns \cap Callers = {} /\ NoOne \notin Conns \cup Callers /\ MaxAttempts \in Nat
    BY DEF SocketInv, TypeOK
  <1>1. dialer = d /\ dialer' = NoOne /\ call' = [c \in Callers |-> IF c = d THEN "done" ELSE call[c]]
    BY DEF Dialing, DialSucceeds, DialFails, Returns
  <1>2. \A c \in Callers : call'[c] # "dialing" /\ dialer' # c
    BY <1>0, <1>1 DEF ChainInv
  <1>3. d \in Callers => call[d] = "dialing"
    BY <1>1 DEF ChainInv
  <1>4. d \in Conns => reader[d] = "dialing" /\ Live(d)
    BY <1>1 DEF SocketInv, Live
  <1>5. Called' = Called
    BY <1>0, <1>1, <1>3 DEF Called
  <1>6. ASSUME CalledOnce PROVE Chain'
    <2>1. Chain
      BY <1>6 DEF ChainInv
    <2>2. Called # {}
      BY <1>3, <1>4, <2>1 DEF Chain, Called
    <2>3. \A k \in Conns : Live(k) => k = d
      BY <1>3, <1>4, <2>1 DEF Chain
    <2>4. CASE DialSucceeds(d)
      <3>1. PICK k \in Conns :
              reader' = [r \in Conns |-> IF r = k THEN "top" ELSE IF r = d THEN "done" ELSE reader[r]]
        BY <2>4 DEF DialSucceeds
      <3>2. \A r \in Conns : Live(r)' => r = k
        BY <2>3, <3>1 DEF Live
      <3>3. \A r \in Conns : Counting(r)'
        <4> SUFFICES ASSUME NEW r \in Conns PROVE Counting(r)'
          OBVIOUS
        <4>1. Live(r)' => r = k
          BY <3>2
        <4> QED
          BY <3>1, <4>1 DEF Live, Counting
      <3>4. attempts' = 0 /\ redials' = 0
        BY <2>4 DEF DialSucceeds
      <3> QED
        BY <1>0, <1>2, <1>5, <2>2, <3>2, <3>3, <3>4 DEF Chain
    <2>5. CASE DialFails(d)
      <3>1. /\ reader' = [r \in Conns |-> IF r = d THEN "retry" ELSE reader[r]]
            /\ UNCHANGED <<attempts, redials, seen>>
        BY <2>5 DEF DialFails
      <3>2. \A r \in Conns : Live(r)' => r = d
        BY <2>3, <3>1 DEF Live
      <3>3. \A r \in Conns : Counting(r)'
        <4> SUFFICES ASSUME NEW r \in Conns PROVE Counting(r)'
          OBVIOUS
        <4>1. Live(r)' => r = d
          BY <3>2
        <4> QED
          BY <3>1, <4>1 DEF Live, Counting
      <3> QED
        BY <1>2, <1>5, <2>1, <2>2, <3>1, <3>2, <3>3 DEF Chain
    <2> QED
      BY <2>4, <2>5 DEF Dialing
  <1> QED
    BY <1>2, <1>5, <1>6 DEF ChainInv, CalledOnce

\* The chain stays one, by the steps of calls, dials and readers.
LEMMA ChainNext == SocketInv /\ ChainInv /\ [Next]_vars => ChainInv'
  <1> SUFFICES ASSUME SocketInv, ChainInv, [Next]_vars PROVE ChainInv'
    OBVIOUS
  <1>1. ASSUME NEW c \in Callers, Connect(c) PROVE ChainInv'
    <2>0. /\ call \in [Callers -> {"idle", "dialing", "done"}] /\ NoOne \notin Callers
      BY DEF SocketInv, TypeOK
    <2>1. /\ call[c] = "idle" /\ dialer = NoOne /\ UNCHANGED <<attempts, redials, seen, reader>>
          /\ \/ dialer' = c /\ call' = [call EXCEPT ![c] = "dialing"]
             \/ dialer' = dialer /\ call' = [call EXCEPT ![c] = "done"]
      BY <1>1 DEF Connect, Free, Readable
    <2>2. Called' = Called \cup {c} /\ c \notin Called
      BY <2>0, <2>1 DEF Called
    <2>3. IsFiniteSet(Called')
      BY <2>2, FS_AddElement DEF ChainInv
    <2>4. \A e \in Callers : call'[e] = "dialing" <=> dialer' = e
      BY <2>0, <2>1 DEF ChainInv
    <2>5. ASSUME CalledOnce' PROVE Chain'
      <3>1. Called = {}
        BY <2>2, <2>5 DEF CalledOnce
      <3>2. Chain /\ \A k \in Conns : ~Live(k)
        BY <3>1 DEF ChainInv, CalledOnce, Chain
      <3>3. \A k \in Conns : ~Live(k)'
        BY <2>1, <3>2 DEF Live
      <3> QED
        BY <2>1, <3>2, <3>3 DEF Chain, Counting
    <2> QED
      BY <2>3, <2>4, <2>5 DEF ChainInv
  <1>2. ASSUME NEW d \in Conns \cup Callers, Dialing(d) PROVE ChainInv'
    BY <1>2, ChainDial
  <1>3. ASSUME NEW k \in Conns, Receive(k) \/ Reading(k) \/ Leave(k) \/ Reconnect(k) PROVE ChainInv'
    BY <1>3, ChainReader
  <1>4. CASE \/ BeginDisconnect \/ Disconnect \/ UNCHANGED vars
             \/ \E k \in Conns : Lose(k)
             \/ \E s \in Senders : Sending(s)
    <2>1. UNCHANGED <<call, dialer, attempts, redials, seen, reader>>
      BY <1>4 DEF BeginDisconnect, Disconnect, Lose, Sending, CheckConnected, Write, Written, OnlySender, vars
    <2>2. Called' = Called /\ Chain' = Chain
      BY <2>1 DEF Called, Chain, Counting, Live
    <2> QED
      BY <2>1, <2>2 DEF ChainInv, CalledOnce
  <1> QED
    BY <1>1, <1>2, <1>3, <1>4 DEF Next

-----------------------------------------------------------------------------
(* Theorems *)

\* SocketInv holds of every reachable state.
THEOREM SocketInvariant == Spec => []SocketInv
  BY InvInit, InvNext, PTL DEF Spec

THEOREM TypeCorrect == Spec => []TypeOK
  BY TypeInit, TypeNext, PTL DEF Spec

\* No socket is left open beside c.conn.
THEOREM NothingLeaks == Spec => []NoLeak
  <1>1. SocketInv => NoLeak
    BY DEF SocketInv
  <1> QED
    BY <1>1, SocketInvariant, PTL

\* No two goroutines read from one connection.
THEOREM ReadersAreAlone == Spec => []OneReader
  <1>1. SocketInv => OneReader
    BY DEF SocketInv, OneReader, At, Busy
  <1> QED
    BY <1>1, SocketInvariant, PTL

\* A lost connection is being re-established, or given up for a reason.
THEOREM LossIsNoticed == Spec => []SomeoneRetries
  <1>1. SocketInv => SomeoneRetries
    BY DEF SocketInv
  <1> QED
    BY <1>1, SocketInvariant, PTL

\* The reader's nil connection ends the process only after Disconnect.
THEOREM CrashesComeLate == Spec => []CrashesLate
  <1>1. SocketInv => CrashesLate
    BY DEF SocketInv
  <1> QED
    BY <1>1, SocketInvariant, PTL

\* While Connect was called at most once: attemptReconnect dials no more often
\* than it counts between two dials that succeed, and counts no further than
\* maxReconnectAttempts.
THEOREM AttemptsAreBounded == Spec => []AttemptsBounded
  <1>1. Spec => []ChainInv
    BY ChainInit, ChainNext, SocketInvariant, PTL DEF Spec
  <1>2. ChainInv => AttemptsBounded
    <2> SUFFICES ASSUME ChainInv, Cardinality(Called) <= 1 PROVE redials <= attempts /\ attempts <= MaxAttempts
      BY DEF AttemptsBounded, Called
    <2>1. Cardinality(Called) \in Nat
      BY FS_CardinalityType DEF ChainInv
    <2>2. Cardinality(Called) = 0 \/ Cardinality(Called) = 1
      BY <2>1
    <2>3. Called = {} \/ \E c : Called = {c}
      BY <2>2, FS_EmptySet, FS_Singleton DEF ChainInv
    <2> QED
      BY <2>3 DEF ChainInv, CalledOnce, Chain
  <1> QED
    BY <1>1, <1>2, PTL

=============================================================================
