---------------------------- MODULE DesktopProofs ----------------------------
(* Theorems about Desktop and the services it composes, for every value of   *)
(* the constants.  Those about the map window, the overlay and the           *)
(* screenshots are in ViewProofs.                                            *)
EXTENDS Desktop, ViewProofs

-----------------------------------------------------------------------------
(* The game log                                                            *)
Places == {"off", "initial", "idle", "sized", "read", "lines", "ended"}
LogShape ==
  /\ lines \in Nat /\ half \in BOOLEAN /\ (half => lines > 0)
  /\ pos \in Nat /\ live \in BOOLEAN /\ last \in Nat /\ since \in Nat
  /\ poll \in [at : Places, from : Nat, to : Nat, found : SUBSET Nat]

\* Nothing the poller holds lies beyond the end of the file.
LogBounds ==
  /\ pos <= Pieces /\ poll.from <= Pieces /\ poll.to <= Pieces /\ since <= Pieces
  /\ poll.found \cup heard \cup split \subseteq 1..lines /\ last <= lines
  /\ poll.at \notin {"initial", "lines"} => poll.found = {}

\* While the watcher runs, all that was applied, by the initial read or since by
\* polling, lies before the position, and what a read has found between the two.
LogOrder ==
  /\ poll.at = "off" => last = 0
  /\ poll.at = "initial" => \A n \in poll.found : last < n
  /\ live =>
       /\ 2 * last <= pos + 1
       /\ poll.at = "read" => poll.from = pos /\ pos < poll.to
       /\ \A n \in poll.found : last < n /\ 2 * n <= pos + 1

LogInv == LogShape /\ LogBounds /\ LogOrder

\* A line is torn by a read that ends in its middle.
LEMMA TornInside ==
  ASSUME LogShape, NEW t \in Nat, t <= Pieces
  PROVE  Torn(t) \subseteq 1..lines /\ \A n \in Torn(t) : 2 * n = t + 1
  BY DEF Torn, Pieces, LogShape

\* The lines that begin between two places of the file are in the file.
LEMMA BegunInside ==
  ASSUME LogShape, NEW f \in Nat, NEW t \in Nat, t <= Pieces, NEW n \in Begun(f, t)
  PROVE  n \in 1..lines /\ f + 1 < 2 * n /\ 2 * n <= t + 1
  BY LinesAssumption DEF Begun, Pieces, LogShape

\* Every line has two pieces, but the last may still lack its second.
LEMMA PiecesType == LogShape => Pieces \in Nat /\ 2 * lines <= Pieces + 1
  BY DEF LogShape, Pieces

\* A watcher that has not started has applied nothing.
LEMMA LogStart == WatcherInit => LogInv
  <1> SUFFICES ASSUME WatcherInit PROVE LogInv
    OBVIOUS
  <1>1. poll = [at |-> "off", from |-> 0, to |-> 0, found |-> {}]
    BY DEF WatcherInit, Resting
  <1>2. lines = 0 /\ half = FALSE /\ pos = 0 /\ live = TRUE /\ heard = {} /\ last = 0 /\ split = {}
        /\ since = 0
    BY DEF WatcherInit
  <1>3. LogShape
    BY <1>1, <1>2 DEF LogShape, Places
  <1>4. LogBounds
    BY <1>1, <1>2, <1>3, PiecesType DEF LogBounds
  <1>5. LogOrder
    BY <1>1, <1>2 DEF LogOrder
  <1> QED
    BY <1>3, <1>4, <1>5 DEF LogInv

\* The game, the poller and Stop keep the invariant.
LEMMA LogNext == LogInv /\ [WatcherNext]_lwVars => LogInv'
  <1> SUFFICES ASSUME LogInv, [WatcherNext]_lwVars PROVE LogInv'
    OBVIOUS
  <1>a. LogShape /\ LogBounds /\ LogOrder
    BY DEF LogInv
  <1>b. ASSUME LogShape', LogBounds', LogOrder' PROVE LogInv'
    BY <1>b DEF LogInv
  <1>c. Pieces \in Nat /\ (LogShape' => Pieces' \in Nat)
    BY <1>a, PiecesType DEF LogShape, Pieces
  <1>1. ASSUME NEW application \in BOOLEAN, StartLogFileWatcher(application) PROVE LogInv'
    <2>0. poll.at = "off" /\ live /\ UNCHANGED <<lines, half, live, heard, last, split>>
      BY <1>1 DEF StartLogFileWatcher
    <2>a. 0 \in 0..Pieces
      BY <1>c
    <2>1. PICK to \in 0..Pieces :
            /\ pos' = IF to = 0 THEN pos ELSE Pieces
            /\ \E found \in {Begun(0, to), Begun(0, to) \ Torn(to)} :
                 poll' = [Resting EXCEPT !.at = "initial", !.found = found]
      <3> DEFINE P(to) == /\ pos' = IF to = 0 THEN pos ELSE Pieces
                          /\ \E found \in {Begun(0, to), Begun(0, to) \ Torn(to)} :
                               poll' = [Resting EXCEPT !.at = "initial", !.found = found]
      <3>1. \E to \in IF application THEN 0..Pieces ELSE {0} : P(to)
        BY <1>1 DEF StartLogFileWatcher
      <3>2. (IF application THEN 0..Pieces ELSE {0}) \subseteq 0..Pieces
        BY <2>a
      <3> HIDE DEF P
      <3>3. \E to \in 0..Pieces : P(to)
        BY <3>1, <3>2
      <3> QED
        BY <3>3 DEF P
    <2>2. PICK found \in {Begun(0, to), Begun(0, to) \ Torn(to)} :
            poll' = [at |-> "initial", from |-> 0, to |-> 0, found |-> found]
      BY <2>1 DEF Resting
    <2>3. since' \in {0, Pieces}
      BY <1>1 DEF StartLogFileWatcher
    <2>4. \A n \in found : n \in 1..lines /\ 1 < 2 * n /\ 2 * n <= to + 1
      BY <1>a, <1>c, BegunInside
    <2>5. Pieces' = Pieces /\ lines \in Nat /\ pos \in Nat /\ last = 0
      BY <1>a, <2>0 DEF Pieces, LogShape, LogOrder
    <2>6. LogShape'
      <3>1. found \subseteq Nat
        BY <2>4, <2>5
      <3> QED
        BY <1>a, <1>c, <2>0, <2>1, <2>2, <2>3, <3>1 DEF LogShape, Places
    <2>7. LogBounds'
      <3>1. found \subseteq 1..lines
        BY <2>4
      <3>2. pos' <= Pieces' /\ since' <= Pieces'
        BY <1>a, <1>c, <2>1, <2>3, <2>5 DEF LogBounds
      <3>3. heard \cup split \subseteq 1..lines /\ 0 <= lines /\ 0 <= Pieces
        BY <1>a, <1>c, <2>5 DEF LogBounds
      <3>4. poll'.from = 0 /\ poll'.to = 0 /\ poll'.found = found /\ poll'.at = "initial"
        BY <2>2
      <3>5. lines' = lines /\ heard' = heard /\ split' = split /\ last' = 0
        BY <2>0, <2>5
      <3> QED
        BY <2>5, <3>1, <3>2, <3>3, <3>4, <3>5 DEF LogBounds
    <2>8. LogOrder'
      <3>a. to \in Nat /\ to <= Pieces /\ pos' = IF to = 0 THEN pos ELSE Pieces
        BY <1>c, <2>1
      <3>1. ASSUME NEW n \in found PROVE n \in Nat /\ 0 < n /\ 2 * n <= pos' + 1
        <4>1. n \in Nat /\ 1 < 2 * n /\ 2 * n <= to + 1
          BY <2>4, <2>5
        <4>2. to # 0
          BY <4>1
        <4> QED
          BY <1>c, <3>a, <4>1, <4>2
      <3>2. 2 * last' <= pos' + 1
        BY <1>c, <2>0, <2>1, <2>5
      <3>3. last' = 0 /\ poll'.at = "initial" /\ poll'.found = found
        BY <2>0, <2>2, <2>5
      <3> QED
        BY <3>1, <3>2, <3>3 DEF LogOrder
    <2> QED
      BY <1>b, <2>6, <2>7, <2>8
  <1>9. CASE ReadExisting
    <2>1. PICK n \in poll.found :
            /\ \A k \in poll.found : n <= k
            /\ last' = n
            /\ poll' = [poll EXCEPT !.found = @ \ {n}]
      BY <1>9 DEF ReadExisting
    <2>2. poll.at = "initial" /\ UNCHANGED <<lines, half, pos, live, since, heard, split>>
      BY <1>9 DEF ReadExisting
    <2>3. Pieces' = Pieces
      BY <2>2 DEF Pieces
    <2>4. n \in 1..lines /\ n \in Nat /\ lines \in Nat /\ \A k \in poll.found : k \in Nat
      BY <1>a DEF LogShape, LogBounds
    <2>5. poll' = [at |-> "initial", from |-> poll.from, to |-> poll.to, found |-> poll.found \ {n}]
      BY <1>a, <2>1, <2>2 DEF LogShape
    <2>6. LogShape'
      BY <1>a, <2>1, <2>2, <2>4, <2>5 DEF LogShape, Places
    <2>7. LogBounds'
      BY <1>a, <1>c, <2>1, <2>2, <2>3, <2>4, <2>5 DEF LogBounds
    <2>8. LogOrder'
      <3>1. \A k \in poll.found \ {n} : n < k
        BY <2>1, <2>4
      <3> QED
        BY <1>a, <2>1, <2>2, <2>4, <2>5, <3>1 DEF LogOrder
    <2> QED
      BY <1>b, <2>6, <2>7, <2>8
  <1>10. CASE StartPolling
    <2>1. poll' = [at |-> "idle", from |-> 0, to |-> 0, found |-> {}] /\ pos' = since /\ last' = 0
          /\ UNCHANGED <<lines, half, live, since, heard, split>>
      BY <1>10 DEF StartPolling, Resting
    <2>2. Pieces' = Pieces
      BY <2>1 DEF Pieces
    <2>3. LogShape'
      BY <1>a, <2>1 DEF LogShape, Places
    <2>4. LogBounds'
      BY <1>a, <1>c, <2>1, <2>2 DEF LogBounds, LogShape
    <2>5. LogOrder'
      <3>1. since \in Nat
        BY <1>a DEF LogShape
      <3>2. 2 * 0 <= since + 1
        BY <3>1
      <3> QED
        BY <2>1, <3>2 DEF LogOrder
    <2> QED
      BY <1>b, <2>3, <2>4, <2>5
  <1>2. CASE BeginLine \/ EndLine
    <2>0. UNCHANGED <<pos, poll, live, since, heard, last, split>>
      BY <1>2 DEF BeginLine, EndLine
    <2>1. lines' \in {lines, lines + 1} /\ half' \in BOOLEAN /\ (half' => lines' > 0)
      <3>1. lines \in Nat /\ half \in BOOLEAN /\ (half => lines > 0)
        BY <1>a DEF LogShape
      <3>2. CASE BeginLine
        BY <3>1, <3>2 DEF BeginLine
      <3>3. CASE EndLine
        BY <3>1, <3>3 DEF EndLine
      <3> QED
        BY <1>2, <3>2, <3>3
    <2>2. Pieces' >= Pieces
      BY <1>2, <1>a DEF BeginLine, EndLine, LogShape, Pieces
    <2>3. LogShape'
      BY <1>a, <2>0, <2>1 DEF LogShape
    <2>4. LogBounds'
      <3>1. lines \in Nat /\ lines' \in Nat /\ 1..lines \subseteq 1..lines'
        BY <1>a, <2>1 DEF LogShape
      <3>2. pos \in Nat /\ poll.from \in Nat /\ poll.to \in Nat /\ last \in Nat /\ since \in Nat
            /\ lines <= lines'
        BY <1>a, <2>1 DEF LogShape
      <3> QED
        BY <1>a, <1>c, <2>0, <2>1, <2>2, <2>3, <3>1, <3>2 DEF LogBounds
    <2>5. LogOrder'
      BY <1>a, <2>0 DEF LogOrder
    <2> QED
      BY <1>b, <2>3, <2>4, <2>5
  <1>3. ASSUME UNCHANGED <<lines, half, pos, live, since, heard, last, split>>,
               NEW at \in {"idle", "sized", "read", "ended"},
               NEW from \in {0, poll.from, pos}, NEW to \in {0, poll.to, Pieces},
               poll' = [at |-> at, from |-> from, to |-> to, found |-> {}],
               at = "read" => from = pos /\ pos < to, poll.at # "off"
        PROVE  LogInv'
    <2>1. Pieces' = Pieces
      BY <1>3 DEF Pieces
    <2>2. LogShape'
      BY <1>3, <1>a, <1>c DEF LogShape, Places
    <2>3. LogBounds'
      BY <1>3, <1>a, <1>c, <2>1 DEF LogBounds
    <2>4. LogOrder'
      BY <1>3, <1>a DEF LogOrder
    <2> QED
      BY <1>b, <2>2, <2>3, <2>4
  <1>4. CASE PollSize \/ PollFails \/ PollEnds \/ PollPosition
    <2>1. poll.found = {} /\ poll.at # "off"
      BY <1>a, <1>4 DEF LogShape, LogBounds, PollSize, PollFails, PollEnds, PollPosition
    <2>a. poll \in [at : Places, from : Nat, to : Nat, found : SUBSET Nat]
      BY <1>a DEF LogShape
    <2>2. CASE PollSize
      <3>1. poll' = [at |-> "sized", from |-> poll.from, to |-> Pieces, found |-> {}]
        BY <2>1, <2>a, <2>2 DEF PollSize
      <3> QED
        BY <1>3, <2>1, <2>2, <3>1 DEF PollSize
    <2>3. CASE PollEnds
      <3>1. poll' = [at |-> "ended", from |-> poll.from, to |-> poll.to, found |-> {}]
        BY <2>1, <2>a, <2>3 DEF PollEnds
      <3> QED
        BY <1>3, <2>1, <2>3, <3>1 DEF PollEnds
    <2>4. CASE PollFails \/ (PollPosition /\ poll.to <= pos)
      <3>1. poll' = [at |-> "idle", from |-> 0, to |-> 0, found |-> {}]
        BY <2>4 DEF PollFails, PollPosition, Resting
      <3> QED
        BY <1>3, <2>1, <2>4, <3>1 DEF PollFails, PollPosition
    <2>5. CASE PollPosition /\ ~(poll.to <= pos)
      <3>1. poll' = [at |-> "read", from |-> pos, to |-> poll.to, found |-> {}]
        BY <2>1, <2>a, <2>5 DEF PollPosition
      <3>2. pos < poll.to
        BY <1>a, <2>5 DEF LogShape
      <3> QED
        BY <1>3, <2>1, <2>5, <3>1, <3>2 DEF PollPosition
    <2> QED
      BY <1>4, <2>2, <2>3, <2>4, <2>5
  <1>5. CASE PollRead
    <2>1. PICK found \in {Begun(poll.from, poll.to), Begun(poll.from, poll.to) \ Torn(poll.to)} :
            poll' = IF found = {} THEN Resting ELSE [Resting EXCEPT !.at = "lines", !.found = found]
      BY <1>5 DEF PollRead
    <2>2. \A n \in found : n \in 1..lines /\ poll.from + 1 < 2 * n /\ 2 * n <= poll.to + 1
      BY <1>a, <2>1, BegunInside DEF LogShape, LogBounds
    <2>3. poll' = [at |-> IF found = {} THEN "idle" ELSE "lines", from |-> 0, to |-> 0, found |-> found]
      BY <2>1 DEF Resting
    <2>4. poll.at = "read" /\ pos' = poll.to /\ split' = split \cup Torn(poll.to)
          /\ UNCHANGED <<lines, half, live, since, heard, last>>
      BY <1>5 DEF PollRead
    <2>5. Torn(poll.to) \subseteq 1..lines
      <3>1. poll.to \in Nat /\ poll.to <= Pieces /\ poll.to % 2 \in {0, 1}
        BY <1>a DEF LogShape, LogBounds
      <3> QED
        BY <1>a, <3>1, TornInside
    <2>6. Pieces' = Pieces
      BY <2>4 DEF Pieces
    <2>7. LogShape'
      <3>1. found \subseteq Nat
        BY <1>a, <2>2 DEF LogShape
      <3>2. poll' \in [at : Places, from : Nat, to : Nat, found : SUBSET Nat]
        BY <2>3, <3>1 DEF Places
      <3> QED
        BY <1>a, <2>4, <3>2 DEF LogShape
    <2>8. LogBounds'
      BY <1>a, <1>c, <2>2, <2>3, <2>4, <2>5, <2>6 DEF LogBounds
    <2>9. LogOrder'
      <3>1. ASSUME live PROVE 2 * last <= poll.from + 1 /\ poll.from < poll.to
        BY <1>a, <2>4, <3>1 DEF LogOrder
      <3>2. last \in Nat /\ poll.from \in Nat /\ poll.to \in Nat
        BY <1>a DEF LogShape
      <3>3. \A n \in found : n \in Nat
        BY <1>a, <2>2 DEF LogShape
      <3> QED
        BY <2>2, <2>3, <2>4, <3>1, <3>2, <3>3 DEF LogOrder
    <2> QED
      BY <1>b, <2>7, <2>8, <2>9
  <1>6. CASE ProcessLine
    <2>1. PICK n \in poll.found :
            /\ \A k \in poll.found : n <= k
            /\ heard' = heard \cup {n} /\ last' = n
            /\ poll' = IF poll.found = {n} THEN Resting ELSE [poll EXCEPT !.found = @ \ {n}]
      BY <1>6 DEF ProcessLine
    <2>2. poll.at = "lines" /\ UNCHANGED <<lines, half, pos, live, since, split>>
      BY <1>6 DEF ProcessLine
    <2>3. Pieces' = Pieces
      BY <2>2 DEF Pieces
    <2>4. n \in 1..lines /\ n \in Nat /\ lines \in Nat /\ \A k \in poll.found : k \in Nat
      BY <1>a DEF LogShape, LogBounds
    <2>5. CASE poll.found = {n}
      <3>1. poll' = [at |-> "idle", from |-> 0, to |-> 0, found |-> {}]
        BY <2>1, <2>5 DEF Resting
      <3>2. LogShape'
        BY <1>a, <2>1, <2>2, <2>4, <3>1 DEF LogShape, Places
      <3>3. LogBounds'
        BY <1>a, <1>c, <2>1, <2>2, <2>3, <2>4, <3>1 DEF LogBounds
      <3>4. LogOrder'
        BY <1>a, <2>1, <2>2, <2>4, <3>1 DEF LogOrder
      <3> QED
        BY <1>b, <3>2, <3>3, <3>4
    <2>6. CASE poll.found # {n}
      <3>1. poll' = [at |-> "lines", from |-> poll.from, to |-> poll.to, found |-> poll.found \ {n}]
        BY <1>a, <2>1, <2>2, <2>6 DEF LogShape
      <3>2. LogShape'
        BY <1>a, <2>1, <2>2, <2>4, <3>1 DEF LogShape, Places
      <3>3. LogBounds'
        BY <1>a, <1>c, <2>1, <2>2, <2>3, <2>4, <3>1 DEF LogBounds
      <3>4. LogOrder'
        BY <1>a, <2>1, <2>2, <2>4, <3>1 DEF LogOrder
      <3> QED
        BY <1>b, <3>2, <3>3, <3>4
    <2> QED
      BY <2>5, <2>6
  <1>7. CASE StopWatcher
    <2>1. live' = FALSE /\ pos' = 0 /\ live /\ UNCHANGED <<lines, half, poll, since, heard, last, split>>
      BY <1>7 DEF StopWatcher
    <2>2. Pieces' = Pieces
      BY <2>1 DEF Pieces
    <2>3. LogShape'
      BY <1>a, <2>1 DEF LogShape
    <2>4. LogBounds'
      BY <1>a, <1>c, <2>1, <2>2 DEF LogBounds
    <2>5. LogOrder'
      BY <1>a, <2>1 DEF LogOrder
    <2> QED
      BY <1>b, <2>3, <2>4, <2>5
  <1>8. CASE UNCHANGED lwVars
    BY <1>a, <1>b, <1>8 DEF lwVars, LogShape, LogBounds, LogOrder, Pieces
  <1> QED
    BY <1>1, <1>2, <1>4, <1>5, <1>6, <1>7, <1>8, <1>9, <1>10 DEF WatcherNext, Poller

\* The invariant that the theorems about the log follow from.
THEOREM LogInvariant == WatcherSpec => []LogInv
  BY LogStart, LogNext, PTL DEF WatcherSpec

\* The state of the watcher is one its code can have.
THEOREM LogTypeCorrect == WatcherSpec => []WatcherTypeOK
  <1>1. LogInv => WatcherTypeOK
    BY DEF LogInv, LogShape, LogBounds, Pieces, Places, WatcherTypeOK
  <1> QED
    BY <1>1, LogInvariant, PTL

\* The initial read and readIncrementalData refine the line feed: either applies the
\* lines it found in their order, beyond the last one applied; polling starts over
\* once, after the initial read, and again only once Stop has cleared the positions.
THEOREM WatcherIsLineFeed == WatcherSpec => FeedsInOrder
  <1>1. WatcherInit => Feed!Init
    BY DEF WatcherInit, Resting, Feed!Init
  <1> DEFINE FeedNext == Feed!Append \/ Feed!Hear \/ Feed!Start \/ Feed!Close \/ Feed!Replay
  <1>2. LogInv /\ [WatcherNext]_lwVars => [FeedNext]_<<lines, last, poll.at \notin {"off", "initial"}, live>>
    <2> SUFFICES ASSUME LogInv, [WatcherNext]_lwVars
                 PROVE  FeedNext \/ UNCHANGED <<lines, last, poll.at \notin {"off", "initial"}, live>>
      OBVIOUS
    <2>0. poll \in [at : Places, from : Nat, to : Nat, found : SUBSET Nat]
      BY DEF LogInv, LogShape
    <2>1. CASE BeginLine
      BY <2>1 DEF BeginLine, Feed!Append
    <2>6. CASE ReadExisting
      <3>1. PICK n \in poll.found : last' = n
        BY <2>6 DEF ReadExisting
      <3>2. n \in 1..lines /\ last \in Nat /\ lines \in Nat /\ last < n
        BY <2>6 DEF LogInv, LogShape, LogBounds, LogOrder, ReadExisting
      <3>3. UNCHANGED <<lines, live, poll.at \notin {"off", "initial"}>>
        BY <2>0, <2>6 DEF ReadExisting
      <3> QED
        BY <3>1, <3>2, <3>3 DEF Feed!Hear
    <2>7. CASE StartPolling
      <3>1. ~(poll.at \notin {"off", "initial"}) /\ (poll.at \notin {"off", "initial"})' /\ last' = 0 /\ UNCHANGED <<lines, live>>
        BY <2>7 DEF StartPolling, Resting
      <3> QED
        BY <3>1 DEF Feed!Start
    <2>2. CASE ProcessLine
      <3>1. PICK n \in poll.found : last' = n
        BY <2>2 DEF ProcessLine
      <3>2. n \in 1..lines /\ last \in Nat /\ lines \in Nat /\ (live => last < n) /\ live \in BOOLEAN
        BY DEF LogInv, LogShape, LogBounds, LogOrder
      <3>3. UNCHANGED <<lines, live, poll.at \notin {"off", "initial"}>>
        BY <2>0, <2>2 DEF ProcessLine, Resting
      <3> QED
        BY <3>1, <3>2, <3>3 DEF Feed!Hear, Feed!Replay
    <2>3. CASE StopWatcher
      BY <2>3 DEF StopWatcher, Feed!Close
    <2>4. CASE EndLine \/ PollSize \/ PollPosition \/ PollRead \/ PollFails \/ PollEnds
               \/ UNCHANGED lwVars
      <3>1. UNCHANGED <<lines, last, live>>
        BY <2>4 DEF EndLine, PollSize, PollPosition, PollRead, PollFails, PollEnds, lwVars
      <3>2. CASE EndLine \/ UNCHANGED lwVars
        BY <3>1, <3>2 DEF EndLine, lwVars
      <3>3. CASE PollSize \/ PollEnds
        BY <2>0, <3>1, <3>3 DEF PollSize, PollEnds
      <3>4. CASE PollPosition
        BY <2>0, <3>1, <3>4 DEF PollPosition, Resting
      <3>5. CASE PollRead
        <4>1. poll.at = "read" /\ poll'.at \in {"idle", "lines"}
          BY <3>5 DEF PollRead, Resting
        <4> QED
          BY <3>1, <4>1
      <3>6. CASE PollFails
        BY <3>1, <3>6 DEF PollFails, Resting
      <3> QED
        BY <2>4, <3>2, <3>3, <3>4, <3>5, <3>6
    <2>5. ASSUME NEW application \in BOOLEAN, StartLogFileWatcher(application)
          PROVE  UNCHANGED <<lines, last, poll.at \notin {"off", "initial"}, live>>
      BY <2>5 DEF StartLogFileWatcher, Resting
    <2> QED
      BY <2>1, <2>2, <2>3, <2>4, <2>5, <2>6, <2>7 DEF WatcherNext, Poller
  <1> QED
    BY <1>1, <1>2, LogInvariant, PTL DEF WatcherSpec, FeedsInOrder, Feed!Spec

-----------------------------------------------------------------------------
(* The player's map and positions                                          *)
KnownMaps == Maps \cup {NoMap}
Raids == [map : KnownMaps, started : BOOLEAN, ended : BOOLEAN]
EventsTo(n, k) == [n : 1..n, k : 0..k, step : {"new", "navigate"}, map : KnownMaps]
ShotsTo(n, w) == [n : 1..n, step : {"map", "sent"}, at : 0..w]
Counts == [all : Nat, asked : Nat, slipped : Nat]
LogSide ==
  /\ raid \in Raids /\ (raid.ended => raid.started) /\ lineCount \in Nat
  /\ wanted \in [k : Nat, map : KnownMaps]
  /\ events \subseteq EventsTo(lineCount, wanted.k)
  /\ ran \in [last : 0..lineCount, top : 0..lineCount] /\ ran.last <= ran.top
  /\ current \in KnownMaps /\ override \in KnownMaps /\ choices \in Nat
  /\ site \in [k : 0..wanted.k, map : KnownMaps]
  /\ orders \in [top : 0..wanted.k, lost : SUBSET Nat]
ShotSide ==
  /\ window \in 0..MaxWindow /\ lastSent \in Unsent..window /\ latest \in Unsent..window
  /\ shotCount \in Nat /\ shots \subseteq ShotsTo(shotCount, window) /\ IsFiniteSet(shots)
  /\ sent \in [0..MaxWindow -> Counts]

\* Each line has one handler.  The newest of those that have yet to run, and the one
\* that ran last if none newer ran before it, are of the watcher's raid.
Waiting == {e \in events : e.step = "new"}
FollowInv ==
  /\ \A e, f \in events : e.n = f.n => e = f
  /\ \A e \in Waiting : e.n # ran.top
  /\ \A e \in Waiting : (ran.top < e.n /\ \A f \in Waiting : f.n <= e.n) => e.map \in {NoMap, raid.map}
  /\ (ran.last = ran.top /\ \A e \in Waiting : e.n <= ran.top) => current \in {NoMap, raid.map}

\* The last order is lost, followed or in the hands of a handler.
OrderInHand(k) == \E e \in events : e.step = "navigate" /\ e.k = k
OrderInv ==
  /\ site.k = wanted.k => site.map = wanted.map
  /\ \A e \in events : (e.step = "navigate" /\ e.k = wanted.k) => e.map = wanted.map
  /\ wanted.k \in orders.lost \/ wanted.k = orders.top \/ OrderInHand(wanted.k)

\* The positions sent in a window and those on the way, against those that may be:
\* the one that may be beyond them has left a handler or a record.
ShotsAt(w) == {s \in shots : s.at = w}
MapsAt(w) == {s \in shots : s.at = w /\ s.step = "map"}
ThrottleInv(w) ==
  IF latest < w /\ ShotsAt(w) = {} THEN sent[w].all <= sent[w].asked + sent[w].slipped
  ELSE sent[w].all + Cardinality(MapsAt(w)) <= 1 + sent[w].asked + sent[w].slipped
TrackInv == LogSide /\ ShotSide /\ FollowInv /\ OrderInv /\ \A w \in 0..MaxWindow : ThrottleInv(w)

\* Before the first raid there is no handler, no order and no position.
LEMMA TrackStart == TrackingInit => TrackInv
  <1> SUFFICES ASSUME TrackingInit PROVE TrackInv
    OBVIOUS
  <1>1. LogSide
    <2>1. NoRaid \in Raids /\ ~NoRaid.ended /\ NoMap \in KnownMaps
      BY DEF NoRaid, Raids, KnownMaps
    <2>2. wanted = [k |-> 0, map |-> NoMap] /\ site = wanted /\ events = {} /\ lineCount = 0
          /\ ran = [last |-> 0, top |-> 0] /\ orders = [top |-> 0, lost |-> {}]
      BY DEF TrackingInit
    <2> QED
      BY <2>1, <2>2 DEF TrackingInit, LogSide
  <1>2. shots = {} /\ IsFiniteSet(shots) /\ latest = -1 /\ lastSent = -1 /\ window = 0 /\ shotCount = 0
    BY FS_EmptySet DEF TrackingInit, Unsent
  <1>3. sent = [w \in 0..MaxWindow |-> [all |-> 0, asked |-> 0, slipped |-> 0]]
    BY DEF TrackingInit
  <1>4. ShotSide
    BY <1>2, <1>3, TrackingAssumption DEF ShotSide, Counts, Unsent
  <1>5. FollowInv /\ OrderInv
    BY DEF TrackingInit, FollowInv, OrderInv, Waiting
  <1>6. ASSUME NEW w \in 0..MaxWindow PROVE ThrottleInv(w)
    <2>1. sent[w].all = 0 /\ sent[w].asked = 0 /\ sent[w].slipped = 0
      BY <1>3
    <2>2. latest < w /\ ShotsAt(w) = {}
      BY <1>2 DEF ShotsAt
    <2> QED
      BY <2>1, <2>2 DEF ThrottleInv
  <1> QED
    BY <1>1, <1>4, <1>5, <1>6 DEF TrackInv

\* What a line does to the raid: a line that says nothing of the map keeps it.
LEMMA LineEffect ==
  ASSUME LogSide, NEW line \in Lines
  PROVE  /\ RaidAfter(line) \in Raids /\ (RaidAfter(line).ended => RaidAfter(line).started)
         /\ Emitted(line) \subseteq KnownMaps
         /\ Emitted(line) = {} => RaidAfter(line).map = raid.map
         /\ \A m, k \in Emitted(line) : m = k
         /\ \A m \in Emitted(line) : m \in {NoMap, RaidAfter(line).map}
  <1>1. PICK r : r = RaidAfter(line)
    OBVIOUS
  <1>2. CASE line[1] = "map"
    <2>1. line[2] \in Maps
      BY <1>2 DEF Lines
    <2>2. r = [raid EXCEPT !.map = line[2]] /\ Emitted(line) = {line[2]}
      BY <1>1, <1>2 DEF RaidAfter, Emitted
    <2>3. r \in Raids /\ r.map = line[2] /\ r.ended = raid.ended /\ r.started = raid.started
      BY <2>1, <2>2 DEF LogSide, Raids, KnownMaps
    <2> QED
      BY <1>1, <2>1, <2>2, <2>3 DEF LogSide, KnownMaps
  <1>3. CASE line = <<"loaded">>
    <2>1. r = [NoRaid EXCEPT !.map = raid.map] /\ Emitted(line) = {}
      BY <1>1, <1>3 DEF RaidAfter, Emitted
    <2> QED
      BY <1>1, <2>1 DEF LogSide, Raids, KnownMaps, NoRaid
  <1>4. CASE line = <<"started">>
    <2>1. r = [raid EXCEPT !.started = TRUE] /\ Emitted(line) = {}
      BY <1>1, <1>4 DEF RaidAfter, Emitted
    <2> QED
      BY <1>1, <2>1 DEF LogSide, Raids
  <1>5. CASE line = <<"profile">>
    <2>1. r = [raid EXCEPT !.ended = raid.ended \/ raid.started] /\ Emitted(line) \subseteq {NoMap}
      BY <1>1, <1>5 DEF RaidAfter, Emitted
    <2> QED
      BY <1>1, <2>1 DEF LogSide, Raids, KnownMaps
  <1>6. CASE line = <<"over">>
    <2>1. r = NoRaid /\ Emitted(line) = {NoMap}
      BY <1>1, <1>6 DEF RaidAfter, Emitted
    <2> QED
      BY <1>1, <2>1 DEF LogSide, Raids, KnownMaps, NoRaid
  <1> QED
    BY <1>2, <1>3, <1>4, <1>5, <1>6 DEF Lines

\* What the positions' part of the invariant speaks of.
LEMMA ShotsUntouched ==
  ASSUME TrackInv, UNCHANGED shotVars
  PROVE  ShotSide' /\ \A w \in 0..MaxWindow : ThrottleInv(w)'
  <1>1. UNCHANGED <<window, lastSent, shotCount, shots, latest, sent>>
    BY DEF shotVars
  <1>2. ShotSide'
    BY <1>1 DEF TrackInv, ShotSide
  <1>3. ASSUME NEW w \in 0..MaxWindow PROVE ThrottleInv(w)'
    BY <1>1 DEF TrackInv, ThrottleInv, ShotsAt, MapsAt
  <1> QED
    BY <1>2, <1>3

\* What the maps' part of the invariant speaks of.
LEMMA MapsUntouched ==
  ASSUME TrackInv, UNCHANGED <<raidVars, eventVars, siteVars, override>>, choices' \in Nat
  PROVE  LogSide' /\ FollowInv' /\ OrderInv'
  BY DEF TrackInv, LogSide, FollowInv, OrderInv, Waiting, OrderInHand, raidVars, eventVars, siteVars

\* A line gives its handler the map of the raid it leaves, and a place above all others.
LEMMA TrackLine == ASSUME TrackInv, NEW line \in Lines, ProcessLogEvent(line) PROVE TrackInv'
  <1> DEFINE E(m) == [n |-> lineCount + 1, k |-> 0, step |-> "new", map |-> m]
  <1>1. /\ lineCount' = lineCount + 1 /\ raid' = RaidAfter(line) /\ lineCount \in Nat
        /\ events' = events \cup {E(m) : m \in Emitted(line)}
        /\ UNCHANGED <<ran, current, wanted, site, orders, override, choices>> /\ UNCHANGED shotVars
    BY DEF ProcessLogEvent, TrackInv, LogSide, userVars, siteVars
  <1>2. /\ raid' \in Raids /\ (raid'.ended => raid'.started) /\ Emitted(line) \subseteq KnownMaps
        /\ Emitted(line) = {} => raid'.map = raid.map
        /\ \A m, k \in Emitted(line) : m = k
        /\ \A m \in Emitted(line) : m \in {NoMap, raid'.map}
    BY <1>1, LineEffect DEF TrackInv
  <1>3. /\ events \subseteq EventsTo(lineCount, wanted.k) /\ wanted.k \in Nat
        /\ ran.last \in 0..lineCount /\ ran.top \in 0..lineCount
        /\ \A e \in events : e.n \in 1..lineCount
    BY DEF TrackInv, LogSide, EventsTo
  <1>4. ASSUME NEW m \in Emitted(line)
        PROVE  /\ E(m) \in EventsTo(lineCount + 1, wanted.k) /\ E(m).n = lineCount + 1
               /\ E(m).step = "new" /\ E(m).map \in {NoMap, raid'.map}
    BY <1>1, <1>2, <1>3, <1>4 DEF EventsTo
  <1>5. LogSide'
    <2>1. EventsTo(lineCount, wanted.k) \subseteq EventsTo(lineCount + 1, wanted.k)
      BY <1>1 DEF EventsTo
    <2>2. events' \subseteq EventsTo(lineCount', wanted'.k)
      BY <1>1, <1>3, <1>4, <2>1
    <2>3. ran \in [last : 0..lineCount', top : 0..lineCount'] /\ lineCount' \in Nat
      BY <1>1 DEF TrackInv, LogSide
    <2> QED
      BY <1>1, <1>2, <2>2, <2>3 DEF TrackInv, LogSide
  <1>6. FollowInv'
    <2>1. CASE Emitted(line) = {}
      BY <1>1, <1>2, <2>1 DEF TrackInv, FollowInv, Waiting
    <2>2. CASE Emitted(line) # {}
      <3>1. PICK m \in Emitted(line) : Emitted(line) = {m}
        BY <1>2, <2>2
      <3>2. PICK z : z = E(m)
        OBVIOUS
      <3>3. z.n = lineCount + 1 /\ z.step = "new" /\ z.map \in {NoMap, raid'.map}
        BY <1>4, <3>2
      <3>4. events' = events \cup {z}
        BY <1>1, <3>1, <3>2
      <3>5. Waiting' = Waiting \cup {z}
        BY <3>3, <3>4 DEF Waiting
      <3>6. z \notin events /\ \A e \in Waiting : e.n < z.n
        BY <1>1, <1>3, <3>3 DEF Waiting
      <3>7. \A e, f \in events' : e.n = f.n => e = f
        BY <1>1, <1>3, <3>3, <3>4 DEF TrackInv, FollowInv
      <3>8. \A e \in Waiting' : e.n # ran.top
        BY <1>1, <1>3, <3>3, <3>5 DEF TrackInv, FollowInv
      <3>9. ASSUME NEW e \in Waiting', \A f \in Waiting' : f.n <= e.n PROVE e = z
        <4>1. z.n <= e.n /\ z.n \in Nat
          BY <1>1, <3>3, <3>5, <3>9
        <4> QED
          BY <1>1, <1>3, <3>5, <3>6, <4>1 DEF Waiting
      <3>10. ~(\A e \in Waiting' : e.n <= ran.top)
        BY <1>1, <1>3, <3>3, <3>5
      <3> QED
        BY <1>1, <3>3, <3>7, <3>8, <3>9, <3>10 DEF FollowInv
    <2> QED
      BY <2>1, <2>2
  <1>7. OrderInv'
    <2>1. \A e \in events' : e.step = "navigate" => e \in events
      BY <1>1, <1>4
    <2>2. events \subseteq events'
      BY <1>1
    <2> QED
      BY <1>1, <2>1, <2>2 DEF TrackInv, OrderInv, OrderInHand
  <1> QED
    BY <1>1, <1>5, <1>6, <1>7, ShotsUntouched DEF TrackInv

\* A handler of a map event sets the map and orders the site to follow.
LEMMA TrackHandle == ASSUME TrackInv, NEW e \in events, HandleEvent(e) PROVE TrackInv'
  <1>1. /\ e.step = "new" /\ e \in EventsTo(lineCount, wanted.k) /\ e.map \in KnownMaps /\ e.n \in 1..lineCount
        /\ current' = e.map
        /\ ran' = [last |-> e.n, top |-> IF e.n > ran.top THEN e.n ELSE ran.top]
        /\ UNCHANGED <<raid, lineCount, site, orders, choices>> /\ UNCHANGED shotVars
    BY DEF HandleEvent, raidVars, TrackInv, LogSide, EventsTo
  <1>2. /\ lineCount \in Nat /\ wanted.k \in Nat /\ ran.last \in 0..lineCount /\ ran.top \in 0..lineCount
        /\ \A f \in events : f.n \in 1..lineCount /\ f.k \in 0..wanted.k
        /\ site.k \in 0..wanted.k /\ orders.top \in 0..wanted.k
    BY DEF TrackInv, LogSide, EventsTo
  <1>3. ran'.last = e.n /\ ran'.top \in 0..lineCount /\ e.n <= ran'.top /\ ran.top <= ran'.top
        /\ ran'.top \in {e.n, ran.top} /\ ran' \in [last : 0..lineCount, top : 0..lineCount]
    BY <1>1, <1>2
  <1>4. ASSUME NEW z, z.n = e.n, z.step # "new", events' \in {events \ {e}, (events \ {e}) \cup {z}}
        PROVE  FollowInv'
    <2>1. Waiting' = Waiting \ {e}
      BY <1>1, <1>4 DEF Waiting
    <2>2. \A f \in events : f.n = e.n => f = e
      BY DEF TrackInv, FollowInv
    <2>3. \A f, g \in events' : f.n = g.n => f = g
      BY <1>4, <2>2 DEF TrackInv, FollowInv
    <2>4. \A f \in Waiting' : f.n # ran'.top
      BY <1>3, <2>1, <2>2 DEF TrackInv, FollowInv, Waiting
    <2>5. ASSUME NEW f \in Waiting', ran'.top < f.n, \A g \in Waiting' : g.n <= f.n
          PROVE  f.map \in {NoMap, raid'.map}
      <3>1. ran.top < f.n /\ e.n <= f.n
        BY <1>2, <1>3, <2>1, <2>5 DEF Waiting
      <3> QED
        BY <1>1, <2>1, <2>5, <3>1 DEF TrackInv, FollowInv
    <2>6. ASSUME ran'.last = ran'.top, \A f \in Waiting' : f.n <= ran'.top
          PROVE  current' \in {NoMap, raid'.map}
      <3>1. e \in Waiting /\ e.n # ran.top
        BY <1>1 DEF TrackInv, FollowInv, Waiting
      <3>2. ran.top < e.n /\ ran'.top = e.n
        BY <1>1, <1>2, <1>3, <2>6, <3>1
      <3>3. \A f \in Waiting : f.n <= e.n
        BY <1>1, <1>2, <2>1, <2>6, <3>2
      <3> QED
        BY <1>1, <3>1, <3>2, <3>3 DEF TrackInv, FollowInv
    <2> QED
      BY <2>3, <2>4, <2>5, <2>6 DEF FollowInv
  <1>5. CASE e.map = NoMap
    <2>1. events' = events \ {e} /\ UNCHANGED <<override, wanted>>
      BY <1>5 DEF HandleEvent
    <2>2. LogSide'
      BY <1>1, <1>3, <2>1 DEF TrackInv, LogSide
    <2>3. FollowInv'
      <3>1. PICK z : z = [e EXCEPT !.step = "navigate"]
        OBVIOUS
      <3>2. z.n = e.n /\ z.step # "new"
        BY <1>1, <3>1 DEF EventsTo
      <3> QED
        BY <1>4, <2>1, <3>2
    <2>4. OrderInv'
      BY <1>1, <2>1 DEF TrackInv, OrderInv, OrderInHand
    <2> QED
      BY <1>1, <2>2, <2>3, <2>4, ShotsUntouched DEF TrackInv
  <1>6. CASE e.map # NoMap
    <2>1. wanted' = [k |-> wanted.k + 1, map |-> e.map] /\ override' = NoMap
      BY <1>6 DEF HandleEvent, Order
    <2>2. PICK z : z = [e EXCEPT !.step = "navigate", !.k = wanted'.k]
      OBVIOUS
    <2>3. events' = (events \ {e}) \cup {z}
      BY <1>6, <2>2 DEF HandleEvent
    <2>4. /\ z.n = e.n /\ z.step = "navigate" /\ z.k = wanted.k + 1 /\ z.map = e.map
          /\ z \in EventsTo(lineCount, wanted.k + 1)
      <3>1. e = [n |-> e.n, k |-> e.k, step |-> e.step, map |-> e.map]
        BY <1>1 DEF EventsTo
      <3>2. z = [n |-> e.n, k |-> wanted.k + 1, step |-> "navigate", map |-> e.map]
        BY <2>1, <2>2, <3>1
      <3>3. wanted.k + 1 \in 0..(wanted.k + 1)
        BY <1>2
      <3> QED
        BY <1>1, <3>2, <3>3 DEF EventsTo
    <2>5. EventsTo(lineCount, wanted.k) \subseteq EventsTo(lineCount, wanted.k + 1)
      BY <1>2 DEF EventsTo
    <2>6. LogSide'
      <3>1. wanted' \in [k : Nat, map : KnownMaps] /\ wanted'.k = wanted.k + 1 /\ override' \in KnownMaps
        BY <1>1, <1>2, <2>1 DEF KnownMaps
      <3>2. events' \subseteq EventsTo(lineCount', wanted'.k)
        BY <1>1, <2>3, <2>4, <2>5, <3>1 DEF TrackInv, LogSide
      <3>3. site \in [k : 0..(wanted.k + 1), map : KnownMaps]
            /\ orders \in [top : 0..(wanted.k + 1), lost : SUBSET Nat]
        BY <1>2 DEF TrackInv, LogSide
      <3> QED
        BY <1>1, <1>3, <3>1, <3>2, <3>3 DEF TrackInv, LogSide
    <2>7. FollowInv'
      BY <1>4, <2>3, <2>4
    <2>8. OrderInv'
      <3>1. wanted'.k = wanted.k + 1 /\ wanted'.map = e.map
        BY <2>1
      <3>2. site'.k # wanted'.k
        BY <1>1, <1>2, <3>1
      <3>3. \A f \in events' : f.k = wanted'.k => f = z
        BY <1>2, <2>3, <3>1
      <3>4. OrderInHand(wanted.k)'
        <4>1. z \in events' /\ z.step = "navigate" /\ z.k = wanted'.k
          BY <2>3, <2>4, <3>1
        <4> QED
          BY <4>1 DEF OrderInHand
      <3> QED
        BY <2>4, <3>1, <3>2, <3>3, <3>4 DEF OrderInv
    <2> QED
      BY <1>1, <2>6, <2>7, <2>8, ShotsUntouched DEF TrackInv
  <1> QED
    BY <1>5, <1>6

\* A message to the site is followed or lost.
LEMMA OrderEffect ==
  ASSUME NEW k, NEW m, SendMapChange(k, m)
  PROVE  \/ site' = [k |-> k, map |-> m] /\ orders' = [orders EXCEPT !.top = IF k > @ THEN k ELSE @]
         \/ site' = site /\ orders' = [orders EXCEPT !.lost = @ \cup {k}]
  BY DEF SendMapChange

\* What a handler tells the site is the last order, or an older one.
LEMMA TrackNavigate == ASSUME TrackInv, NEW e \in events, Navigate(e) PROVE TrackInv'
  <1>1. /\ e.step = "navigate" /\ events' = events \ {e} /\ SendMapChange(e.k, e.map)
        /\ UNCHANGED <<raid, lineCount, ran, current, wanted, override, choices>> /\ UNCHANGED shotVars
    BY DEF Navigate, raidVars, userVars
  <1>2. /\ e.k \in 0..wanted.k /\ e.k \in Nat /\ e.map \in KnownMaps /\ wanted.k \in Nat
        /\ orders \in [top : 0..wanted.k, lost : SUBSET Nat] /\ orders.top \in 0..wanted.k
        /\ site \in [k : 0..wanted.k, map : KnownMaps]
    BY DEF TrackInv, LogSide, EventsTo
  <1>3. FollowInv'
    <2>1. Waiting' = Waiting /\ events' \subseteq events
      BY <1>1 DEF Waiting
    <2> QED
      BY <1>1, <2>1 DEF TrackInv, FollowInv
  <1>4. CASE site' = [k |-> e.k, map |-> e.map] /\ orders' = [orders EXCEPT !.top = IF e.k > @ THEN e.k ELSE @]
    <2>1. /\ orders' \in [top : 0..wanted.k, lost : SUBSET Nat] /\ orders'.lost = orders.lost
          /\ orders'.top = IF e.k > orders.top THEN e.k ELSE orders.top
      BY <1>2, <1>4
    <2>2. site'.k = e.k /\ site'.map = e.map /\ site' \in [k : 0..wanted.k, map : KnownMaps]
      BY <1>2, <1>4
    <2>3. LogSide'
      BY <1>1, <2>1, <2>2 DEF TrackInv, LogSide
    <2>4. OrderInv'
      <3>1. site'.k = wanted'.k => site'.map = wanted'.map
        BY <1>1, <2>2 DEF TrackInv, OrderInv
      <3>2. orders.top = wanted.k => orders'.top = wanted.k
        BY <1>2, <2>1
      <3>3. e.k = wanted.k => orders'.top = wanted.k
        BY <1>2, <2>1
      <3>4. OrderInHand(wanted.k) /\ e.k # wanted.k => OrderInHand(wanted.k)'
        BY <1>1 DEF OrderInHand
      <3> QED
        BY <1>1, <2>1, <3>1, <3>2, <3>3, <3>4 DEF TrackInv, OrderInv
    <2> QED
      BY <1>1, <1>3, <2>3, <2>4, ShotsUntouched DEF TrackInv
  <1>5. CASE site' = site /\ orders' = [orders EXCEPT !.lost = @ \cup {e.k}]
    <2>1. /\ orders' \in [top : 0..wanted.k, lost : SUBSET Nat] /\ orders'.top = orders.top
          /\ orders'.lost = orders.lost \cup {e.k}
      BY <1>2, <1>5
    <2>2. LogSide'
      BY <1>1, <1>5, <2>1 DEF TrackInv, LogSide
    <2>3. OrderInv'
      <3>1. OrderInHand(wanted.k) /\ e.k # wanted.k => OrderInHand(wanted.k)'
        BY <1>1 DEF OrderInHand
      <3> QED
        BY <1>1, <1>5, <2>1, <3>1 DEF TrackInv, OrderInv
    <2> QED
      BY <1>1, <1>3, <2>2, <2>3, ShotsUntouched DEF TrackInv
  <1> QED
    BY <1>1, <1>4, <1>5, OrderEffect

\* The user's choice is an order of its own, told at once or lost.
LEMMA TrackOverride ==
  ASSUME TrackInv, NEW m \in KnownMaps, SetManualMapOverride(m) PROVE TrackInv'
  <1>1. /\ choices' = choices + 1 /\ override' = m
        /\ UNCHANGED <<raid, lineCount, events, ran, current>> /\ UNCHANGED shotVars
    BY DEF SetManualMapOverride, raidVars, eventVars
  <1>2. /\ wanted.k \in Nat /\ choices' \in Nat /\ orders \in [top : 0..wanted.k, lost : SUBSET Nat]
        /\ site \in [k : 0..wanted.k, map : KnownMaps] /\ orders.top \in 0..wanted.k
        /\ site.k \in 0..wanted.k
        /\ \A e \in events : e.k \in 0..wanted.k
    BY <1>1 DEF TrackInv, LogSide, EventsTo
  <1>3. FollowInv'
    BY <1>1 DEF TrackInv, FollowInv, Waiting
  <1>4. CASE m = NoMap
    <2>1. UNCHANGED <<wanted, site, orders>>
      BY <1>4 DEF SetManualMapOverride, siteVars
    <2> QED
      BY <1>1, <1>2, <1>3, <2>1, ShotsUntouched DEF TrackInv, LogSide, OrderInv, OrderInHand
  <1>5. CASE m # NoMap
    <2>1. wanted' = [k |-> wanted.k + 1, map |-> m] /\ SendMapChange(wanted'.k, m)
      BY <1>5 DEF SetManualMapOverride, Order
    <2>2. /\ wanted'.k = wanted.k + 1 /\ wanted'.map = m /\ wanted' \in [k : Nat, map : KnownMaps]
          /\ SendMapChange(wanted.k + 1, m)
      BY <1>2, <2>1
    <2>3. events \subseteq EventsTo(lineCount, wanted.k + 1)
      <3>1. EventsTo(lineCount, wanted.k) \subseteq EventsTo(lineCount, wanted.k + 1)
        BY <1>2 DEF EventsTo
      <3> QED
        BY <3>1 DEF TrackInv, LogSide
    <2>4. \A e \in events' : e.k # wanted'.k
      BY <1>1, <1>2, <2>2
    <2>5. CASE site' = [k |-> wanted.k + 1, map |-> m]
               /\ orders' = [orders EXCEPT !.top = IF wanted.k + 1 > @ THEN wanted.k + 1 ELSE @]
      <3>1. /\ orders'.top = wanted.k + 1 /\ orders' \in [top : 0..(wanted.k + 1), lost : SUBSET Nat]
            /\ site'.map = m /\ site' \in [k : 0..(wanted.k + 1), map : KnownMaps]
        <4>1. IF wanted.k + 1 > orders.top THEN TRUE ELSE FALSE
          BY <1>2
        <4> QED
          BY <1>2, <2>5, <4>1
      <3>2. LogSide'
        BY <1>1, <1>2, <2>2, <2>3, <3>1 DEF TrackInv, LogSide
      <3>3. OrderInv'
        BY <2>2, <2>4, <3>1 DEF OrderInv
      <3> QED
        BY <1>1, <1>3, <3>2, <3>3, ShotsUntouched DEF TrackInv
    <2>6. CASE site' = site /\ orders' = [orders EXCEPT !.lost = @ \cup {wanted.k + 1}]
      <3>1. /\ wanted'.k \in orders'.lost /\ orders' \in [top : 0..(wanted.k + 1), lost : SUBSET Nat]
            /\ site'.k # wanted'.k /\ site' \in [k : 0..(wanted.k + 1), map : KnownMaps]
        BY <1>2, <2>2, <2>6
      <3>2. LogSide'
        BY <1>1, <1>2, <2>2, <2>3, <3>1 DEF TrackInv, LogSide
      <3>3. OrderInv'
        BY <2>4, <3>1 DEF OrderInv
      <3> QED
        BY <1>1, <1>3, <3>2, <3>3, ShotsUntouched DEF TrackInv
    <2> QED
      BY <2>2, <2>5, <2>6, OrderEffect
  <1> QED
    BY <1>4, <1>5

\* The counts of one window, as numbers; maps on the way are finitely many.
LEMMA WindowNumbers ==
  ASSUME ShotSide, NEW w \in 0..MaxWindow
  PROVE  /\ sent[w] \in Counts /\ sent[w].all \in Nat /\ sent[w].asked \in Nat /\ sent[w].slipped \in Nat
         /\ w \in Nat /\ latest \in Int /\ IsFiniteSet(MapsAt(w)) /\ Cardinality(MapsAt(w)) \in Nat
         /\ ShotsAt(w) = {} => Cardinality(MapsAt(w)) = 0
  <1>1. sent[w] \in Counts /\ w \in Nat /\ latest \in Int
    BY TrackingAssumption DEF ShotSide, Unsent
  <1>2. MapsAt(w) \in SUBSET shots /\ MapsAt(w) \subseteq ShotsAt(w)
    BY DEF MapsAt, ShotsAt
  <1>3. IsFiniteSet(MapsAt(w)) /\ Cardinality(MapsAt(w)) \in Nat
    BY <1>2, FS_Subset, FS_CardinalityType DEF ShotSide
  <1>4. ShotsAt(w) = {} => Cardinality(MapsAt(w)) = 0
    BY <1>2, FS_EmptySet
  <1> QED
    BY <1>1, <1>3, <1>4 DEF Counts

\* One count of one window goes up.
LEMMA CountMore ==
  ASSUME sent \in [0..MaxWindow -> Counts], NEW w \in 0..MaxWindow
  PROVE  LET asked == [sent EXCEPT ![w] = [all |-> sent[w].all + 1, asked |-> sent[w].asked + 1,
                                         slipped |-> sent[w].slipped]]
             all == [sent EXCEPT ![w].all = @ + 1]
             slipped == [sent EXCEPT ![w].slipped = @ + 1]
         IN  /\ {asked, all, slipped} \subseteq [0..MaxWindow -> Counts]
             /\ asked[w].all = sent[w].all + 1 /\ asked[w].asked = sent[w].asked + 1
             /\ asked[w].slipped = sent[w].slipped
             /\ all[w].all = sent[w].all + 1 /\ all[w].asked = sent[w].asked
             /\ all[w].slipped = sent[w].slipped
             /\ slipped[w].all = sent[w].all /\ slipped[w].asked = sent[w].asked
             /\ slipped[w].slipped = sent[w].slipped + 1
             /\ \A v \in (0..MaxWindow) \ {w} : asked[v] = sent[v] /\ all[v] = sent[v] /\ slipped[v] = sent[v]
  <1>1. PICK c \in Counts : c = sent[w]
    OBVIOUS
  <1>2. c.all + 1 \in Nat /\ c.asked + 1 \in Nat /\ c.slipped + 1 \in Nat
        /\ c = [all |-> c.all, asked |-> c.asked, slipped |-> c.slipped]
        /\ c.all \in Nat /\ c.asked \in Nat /\ c.slipped \in Nat
    BY DEF Counts
  <1>3. /\ [c EXCEPT !.all = @ + 1] = [all |-> c.all + 1, asked |-> c.asked, slipped |-> c.slipped]
        /\ [c EXCEPT !.slipped = @ + 1] = [all |-> c.all, asked |-> c.asked, slipped |-> c.slipped + 1]
    BY <1>2
  <1>4. /\ [all |-> c.all + 1, asked |-> c.asked + 1, slipped |-> c.slipped] \in Counts
        /\ [all |-> c.all + 1, asked |-> c.asked, slipped |-> c.slipped] \in Counts
        /\ [all |-> c.all, asked |-> c.asked, slipped |-> c.slipped + 1] \in Counts
    BY <1>2 DEF Counts
  <1>5. ASSUME NEW d \in Counts PROVE [sent EXCEPT ![w] = d] \in [0..MaxWindow -> Counts]
    OBVIOUS
  <1>6. ASSUME NEW d
        PROVE  [sent EXCEPT ![w] = d][w] = d
               /\ \A v \in (0..MaxWindow) \ {w} : [sent EXCEPT ![w] = d][v] = sent[v]
    OBVIOUS
  <1>7. /\ [sent EXCEPT ![w].all = @ + 1] = [sent EXCEPT ![w] = [c EXCEPT !.all = @ + 1]]
        /\ [sent EXCEPT ![w].slipped = @ + 1] = [sent EXCEPT ![w] = [c EXCEPT !.slipped = @ + 1]]
    BY <1>1
  <1> QED
    BY <1>1, <1>3, <1>4, <1>5, <1>6, <1>7

\* A position somebody asked for is counted as such.
LEMMA TrackAsked == ASSUME TrackInv, InjectPosition \/ PositionRequest PROVE TrackInv'
  <1>1. /\ UNCHANGED <<raidVars, eventVars, siteVars, override>> /\ choices' = choices + 1
        /\ UNCHANGED <<window, shotCount, shots>> /\ Asked
        /\ \/ UNCHANGED <<lastSent, latest>>
           \/ Recorded(window)
    BY DEF InjectPosition, PositionRequest
  <1>2. LogSide' /\ FollowInv' /\ OrderInv'
    <2>1. choices' \in Nat
      BY <1>1 DEF TrackInv, LogSide
    <2> QED
      BY <1>1, <2>1, MapsUntouched
  <1>3. window \in 0..MaxWindow /\ latest \in Unsent..window /\ lastSent \in Unsent..window /\ window \in Nat
    BY TrackingAssumption DEF TrackInv, ShotSide
  <1>4. lastSent' \in Unsent..window /\ latest' \in Unsent..window /\ latest' \in {latest, window}
    BY <1>1, <1>3 DEF Recorded, Unsent
  <1>5. latest <= latest'
    BY <1>3, <1>4 DEF Unsent
  <1>6. sent' = [sent EXCEPT ![window] = [all |-> sent[window].all + 1, asked |-> sent[window].asked + 1,
                                         slipped |-> sent[window].slipped]]
    BY <1>1 DEF Asked
  <1>7. sent[window] \in Counts /\ sent \in [0..MaxWindow -> Counts] /\ IsFiniteSet(shots)
    BY <1>3 DEF TrackInv, ShotSide
  <1>8. /\ sent'[window] \in Counts /\ sent'[window].all = sent[window].all + 1
        /\ sent'[window].asked = sent[window].asked + 1 /\ sent'[window].slipped = sent[window].slipped
        /\ \A w \in (0..MaxWindow) \ {window} : sent'[w] = sent[w]
        /\ sent' \in [0..MaxWindow -> Counts]
    BY <1>3, <1>6, <1>7, CountMore
  <1>9. ShotSide'
    BY <1>1, <1>3, <1>4, <1>8 DEF TrackInv, ShotSide
  <1>10. ASSUME NEW w \in 0..MaxWindow PROVE ThrottleInv(w)'
    <2>1. MapsAt(w)' = MapsAt(w) /\ ShotsAt(w)' = ShotsAt(w)
      BY <1>1 DEF MapsAt, ShotsAt
    <2>2. /\ sent[w].all \in Nat /\ sent[w].asked \in Nat /\ sent[w].slipped \in Nat /\ w \in Nat
          /\ Cardinality(MapsAt(w)) \in Nat /\ (ShotsAt(w) = {} => Cardinality(MapsAt(w)) = 0)
          /\ latest \in Int /\ latest' \in Int
      BY WindowNumbers, <1>3, <1>4 DEF TrackInv, Unsent
    <2>3. \/ sent'[w].all = sent[w].all /\ sent'[w].asked = sent[w].asked
          \/ sent'[w].all = sent[w].all + 1 /\ sent'[w].asked = sent[w].asked + 1
      BY <1>8
    <2>4. sent'[w].slipped = sent[w].slipped
      BY <1>8
    <2>5. ThrottleInv(w)
      BY DEF TrackInv
    <2> QED
      BY <1>5, <2>1, <2>2, <2>3, <2>4, <2>5 DEF ThrottleInv
  <1> QED
    BY <1>2, <1>9, <1>10 DEF TrackInv

\* A screenshot that passes the throttle when the time kept is the latest, and no
\* other is on its way, is the first of its window.
LEMMA TrackShoot == ASSUME TrackInv, Shoot PROVE TrackInv'
  <1> DEFINE z == [n |-> shotCount + 1, step |-> "map", at |-> window]
  <1> DEFINE crossing == lastSent # window /\ (shots # {} \/ latest # lastSent)
  <1>1. /\ UNCHANGED <<raidVars, eventVars, siteVars, userVars, window, lastSent, latest>>
        /\ shotCount' = shotCount + 1
        /\ shots' = shots \cup (IF lastSent = window THEN {} ELSE {z})
        /\ sent' = IF crossing THEN [sent EXCEPT ![window].slipped = @ + 1] ELSE sent
    BY DEF Shoot
  <1>2. LogSide' /\ FollowInv' /\ OrderInv'
    <2>1. choices' \in Nat /\ UNCHANGED override
      BY <1>1 DEF TrackInv, LogSide, userVars
    <2> QED
      BY <1>1, <2>1, MapsUntouched
  <1>3. /\ window \in 0..MaxWindow /\ window \in Nat /\ latest \in Unsent..window /\ lastSent \in Unsent..window
        /\ shotCount \in Nat /\ sent \in [0..MaxWindow -> Counts] /\ IsFiniteSet(shots)
        /\ shots \subseteq ShotsTo(shotCount, window)
    BY TrackingAssumption DEF TrackInv, ShotSide
  <1>4. z \in ShotsTo(shotCount + 1, window) /\ z.at = window /\ z.step = "map" /\ z \notin shots
        /\ ShotsTo(shotCount, window) \subseteq ShotsTo(shotCount + 1, window)
    BY <1>3 DEF ShotsTo
  <1>5. sent' \in [0..MaxWindow -> Counts] /\ \A w \in (0..MaxWindow) \ {window} : sent'[w] = sent[w]
    BY <1>1, <1>3, CountMore
  <1>6. ShotSide'
    <2>1. IsFiniteSet(shots \cup {z})
      BY <1>3, FS_AddElement
    <2>2. IsFiniteSet(shots') /\ shots' \subseteq ShotsTo(shotCount', window')
      BY <1>1, <1>3, <1>4, <2>1
    <2> QED
      BY <1>1, <1>3, <1>5, <2>2 DEF ShotSide
  <1>7. ASSUME NEW w \in 0..MaxWindow PROVE ThrottleInv(w)'
    <2>1. /\ sent[w].all \in Nat /\ sent[w].asked \in Nat /\ sent[w].slipped \in Nat /\ w \in Nat
          /\ Cardinality(MapsAt(w)) \in Nat /\ (ShotsAt(w) = {} => Cardinality(MapsAt(w)) = 0)
          /\ latest \in Int /\ IsFiniteSet(MapsAt(w))
      BY WindowNumbers DEF TrackInv
    <2>2. ThrottleInv(w)
      BY DEF TrackInv
    <2>3. CASE w # window \/ lastSent = window
      <3>1. MapsAt(w)' = MapsAt(w) /\ ShotsAt(w)' = ShotsAt(w) /\ sent'[w] = sent[w] /\ latest' = latest
        BY <1>1, <1>4, <1>5, <2>3 DEF MapsAt, ShotsAt
      <3> QED
        BY <2>2, <3>1 DEF ThrottleInv
    <2>4. CASE w = window /\ lastSent # window
      <3>1. MapsAt(w)' = MapsAt(w) \cup {z} /\ z \notin MapsAt(w) /\ ShotsAt(w)' # {}
        BY <1>1, <1>4, <2>4 DEF MapsAt, ShotsAt
      <3>2. Cardinality(MapsAt(w)') = Cardinality(MapsAt(w)) + 1
        BY <2>1, <3>1, FS_AddElement
      <3>3. CASE crossing
        <4>1. sent'[w].all = sent[w].all /\ sent'[w].asked = sent[w].asked
              /\ sent'[w].slipped = sent[w].slipped + 1
          BY <1>1, <1>3, <2>4, <3>3, CountMore
        <4> QED
          BY <2>1, <2>2, <3>1, <3>2, <4>1 DEF ThrottleInv
      <3>4. CASE ~crossing
        <4>1. shots = {} /\ latest = lastSent /\ latest < w /\ sent'[w] = sent[w]
          BY <1>1, <1>3, <2>4, <3>4 DEF Unsent
        <4>2. ShotsAt(w) = {}
          BY <4>1 DEF ShotsAt
        <4> QED
          BY <2>1, <2>2, <3>1, <3>2, <4>1, <4>2 DEF ThrottleInv
      <3> QED
        BY <3>3, <3>4
    <2> QED
      BY <2>3, <2>4
  <1> QED
    BY <1>2, <1>6, <1>7 DEF TrackInv

\* A handler sends its position, or drops it for want of a map.
LEMMA TrackUpdate ==
  ASSUME TrackInv, NEW s \in shots, NEW m, UpdatePosition(s, m) PROVE TrackInv'
  <1>1. /\ UNCHANGED <<raidVars, eventVars, siteVars, userVars, window, lastSent, shotCount, latest>>
        /\ s.step = "map"
    BY DEF UpdatePosition
  <1>2. LogSide' /\ FollowInv' /\ OrderInv'
    <2>1. choices' \in Nat /\ UNCHANGED override
      BY <1>1 DEF TrackInv, LogSide, userVars
    <2> QED
      BY <1>1, <2>1, MapsUntouched
  <1>3. /\ window \in 0..MaxWindow /\ sent \in [0..MaxWindow -> Counts] /\ IsFiniteSet(shots)
        /\ shots \subseteq ShotsTo(shotCount, window) /\ s.at \in 0..MaxWindow
    BY TrackingAssumption DEF TrackInv, ShotSide, ShotsTo
  <1>4. PICK z : z = [s EXCEPT !.step = "sent"]
    OBVIOUS
  <1>5. z \in ShotsTo(shotCount, window) /\ z.at = s.at /\ z.step = "sent"
    BY <1>3, <1>4 DEF ShotsTo
  <1>6. \/ shots' = (shots \ {s}) \cup {z} /\ sent' = [sent EXCEPT ![s.at].all = @ + 1]
        \/ shots' = shots \ {s} /\ sent' = sent
    BY <1>4 DEF UpdatePosition
  <1>a. PICK at \in 0..MaxWindow : at = s.at
    BY <1>3
  <1>7. sent' \in [0..MaxWindow -> Counts] /\ \A w \in (0..MaxWindow) \ {s.at} : sent'[w] = sent[w]
    <2>1. CASE sent' = [sent EXCEPT ![at].all = @ + 1]
      BY <1>3, <1>a, <2>1, CountMore
    <2>2. CASE sent' = sent
      BY <1>3, <2>2
    <2> QED
      BY <1>6, <1>a, <2>1, <2>2
  <1>8. ShotSide'
    <2>1. IsFiniteSet(shots \ {s}) /\ IsFiniteSet((shots \ {s}) \cup {z})
      BY <1>3, FS_RemoveElement, FS_AddElement
    <2>2. IsFiniteSet(shots') /\ shots' \subseteq ShotsTo(shotCount, window)
      BY <1>3, <1>5, <1>6, <2>1
    <2> QED
      BY <1>1, <1>7, <2>2 DEF TrackInv, ShotSide
  <1>9. ASSUME NEW w \in 0..MaxWindow PROVE ThrottleInv(w)'
    <2>1. /\ sent[w].all \in Nat /\ sent[w].asked \in Nat /\ sent[w].slipped \in Nat /\ w \in Nat
          /\ Cardinality(MapsAt(w)) \in Nat /\ IsFiniteSet(MapsAt(w)) /\ latest \in Int
      BY WindowNumbers DEF TrackInv
    <2>2. ThrottleInv(w) /\ latest' = latest
      BY <1>1 DEF TrackInv
    <2>3. CASE w # s.at
      <3>1. MapsAt(w)' = MapsAt(w) /\ ShotsAt(w)' = ShotsAt(w) /\ sent'[w] = sent[w]
        BY <1>5, <1>6, <1>7, <2>3 DEF MapsAt, ShotsAt
      <3> QED
        BY <2>2, <3>1 DEF ThrottleInv
    <2>4. CASE w = s.at
      <3>1. MapsAt(w)' = MapsAt(w) \ {s} /\ s \in MapsAt(w) /\ s \in ShotsAt(w)
        BY <1>1, <1>5, <1>6, <2>4 DEF MapsAt, ShotsAt
      <3>2. Cardinality(MapsAt(w)') = Cardinality(MapsAt(w)) - 1 /\ Cardinality(MapsAt(w)) >= 1
        <4>1. Cardinality(MapsAt(w) \ {s}) = Cardinality(MapsAt(w)) - 1 /\ MapsAt(w) # {}
          BY <2>1, <3>1, FS_RemoveElement
        <4>2. Cardinality(MapsAt(w)) # 0
          BY <2>1, <4>1, FS_EmptySet
        <4> QED
          BY <2>1, <3>1, <4>1, <4>2
      <3>3. sent[w].all + Cardinality(MapsAt(w)) <= 1 + sent[w].asked + sent[w].slipped
        BY <2>2, <3>1 DEF ThrottleInv
      <3>4. CASE shots' = (shots \ {s}) \cup {z} /\ sent' = [sent EXCEPT ![s.at].all = @ + 1]
        <4>1. sent'[w].all = sent[w].all + 1 /\ sent'[w].asked = sent[w].asked
              /\ sent'[w].slipped = sent[w].slipped
          BY <1>3, <2>4, <3>4, CountMore
        <4>2. ShotsAt(w)' # {}
          BY <1>5, <2>4, <3>4 DEF ShotsAt
        <4> QED
          BY <2>1, <3>2, <3>3, <4>1, <4>2 DEF ThrottleInv
      <3>5. CASE shots' = shots \ {s} /\ sent' = sent
        BY <2>1, <3>2, <3>3, <3>5 DEF ThrottleInv
      <3> QED
        BY <1>6, <3>4, <3>5
    <2> QED
      BY <2>3, <2>4
  <1> QED
    BY <1>2, <1>8, <1>9 DEF TrackInv

\* A position sent is recorded as the last one of its window.
LEMMA TrackRecord ==
  ASSUME TrackInv, NEW s \in shots, RecordUpdate(s) PROVE TrackInv'
  <1>1. /\ UNCHANGED <<raidVars, eventVars, siteVars, userVars, window, shotCount, sent>>
        /\ s.step = "sent" /\ shots' = shots \ {s}
        /\ lastSent' = s.at /\ latest' = IF s.at > latest THEN s.at ELSE latest
    BY DEF RecordUpdate, Recorded
  <1>2. LogSide' /\ FollowInv' /\ OrderInv'
    <2>1. choices' \in Nat /\ UNCHANGED override
      BY <1>1 DEF TrackInv, LogSide, userVars
    <2> QED
      BY <1>1, <2>1, MapsUntouched
  <1>3. /\ window \in 0..MaxWindow /\ window \in Nat /\ IsFiniteSet(shots) /\ s.at \in 0..window
        /\ latest \in Unsent..window
    BY TrackingAssumption DEF TrackInv, ShotSide, ShotsTo
  <1>4. lastSent' \in Unsent..window /\ latest' \in Unsent..window /\ latest <= latest' /\ s.at <= latest'
    BY <1>1, <1>3 DEF Unsent
  <1>5. ShotSide'
    <2>1. IsFiniteSet(shots')
      BY <1>1, <1>3, FS_RemoveElement
    <2> QED
      BY <1>1, <1>4, <2>1 DEF TrackInv, ShotSide
  <1>6. ASSUME NEW w \in 0..MaxWindow PROVE ThrottleInv(w)'
    <2>1. /\ sent[w].all \in Nat /\ sent[w].asked \in Nat /\ sent[w].slipped \in Nat /\ w \in Nat
          /\ Cardinality(MapsAt(w)) \in Nat /\ (ShotsAt(w) = {} => Cardinality(MapsAt(w)) = 0)
          /\ latest \in Int /\ latest' \in Int
      BY WindowNumbers, <1>3, <1>4 DEF TrackInv, Unsent
    <2>2. ThrottleInv(w) /\ MapsAt(w)' = MapsAt(w)
      BY <1>1 DEF TrackInv, MapsAt
    <2>3. CASE w # s.at
      <3>1. ShotsAt(w)' = ShotsAt(w)
        BY <1>1, <2>3 DEF ShotsAt
      <3> QED
        BY <1>1, <1>4, <2>1, <2>2, <3>1 DEF ThrottleInv
    <2>4. CASE w = s.at
      <3>1. ~(latest' < w) /\ s \in ShotsAt(w)
        BY <1>3, <1>4, <2>1, <2>4 DEF ShotsAt
      <3> QED
        BY <1>1, <2>2, <3>1 DEF ThrottleInv
    <2> QED
      BY <2>3, <2>4
  <1> QED
    BY <1>2, <1>5, <1>6 DEF TrackInv

\* Time goes on.
LEMMA TrackTime == ASSUME TrackInv, NextWindow PROVE TrackInv'
  <1>1. /\ UNCHANGED <<raidVars, eventVars, siteVars, userVars, lastSent, shotCount, shots, latest, sent>>
        /\ window' = window + 1 /\ window < MaxWindow
    BY DEF NextWindow
  <1>2. LogSide' /\ FollowInv' /\ OrderInv'
    <2>1. choices' \in Nat /\ UNCHANGED override
      BY <1>1 DEF TrackInv, LogSide, userVars
    <2> QED
      BY <1>1, <2>1, MapsUntouched
  <1>3. ShotSide'
    <2>1. window' \in 0..MaxWindow /\ window \in 0..MaxWindow
      BY <1>1, TrackingAssumption DEF TrackInv, ShotSide
    <2>2. ShotsTo(shotCount, window) \subseteq ShotsTo(shotCount, window')
      BY <1>1, <2>1 DEF ShotsTo
    <2>3. Unsent..window \subseteq Unsent..window'
      BY <1>1, <2>1 DEF Unsent
    <2> QED
      BY <1>1, <2>1, <2>2, <2>3 DEF TrackInv, ShotSide
  <1>4. ASSUME NEW w \in 0..MaxWindow PROVE ThrottleInv(w)'
    BY <1>1 DEF TrackInv, ThrottleInv, ShotsAt, MapsAt
  <1> QED
    BY <1>2, <1>3, <1>4 DEF TrackInv

\* Every step of log, handlers, user and screenshots keeps the invariant.
LEMMA TrackNextInv == TrackInv /\ [TrackingNext]_trVars => TrackInv'
  <1> SUFFICES ASSUME TrackInv, [TrackingNext]_trVars PROVE TrackInv'
    OBVIOUS
  <1>1. CASE UNCHANGED trVars
    <2>1. UNCHANGED <<raidVars, eventVars, siteVars, override>> /\ UNCHANGED choices /\ UNCHANGED shotVars
      BY <1>1 DEF trVars, raidVars, eventVars, siteVars, shotVars
    <2>2. choices' \in Nat
      BY <2>1 DEF TrackInv, LogSide
    <2> QED
      BY <2>1, <2>2, MapsUntouched, ShotsUntouched DEF TrackInv
  <1> QED
    BY <1>1, TrackLine, TrackHandle, TrackNavigate, TrackOverride, TrackAsked, TrackShoot, TrackUpdate,
       TrackRecord, TrackTime DEF TrackingNext, KnownMaps

\* The invariant that the theorems about maps and positions follow from.
THEOREM TrackInvariant == TrackingSpec => []TrackInv
  BY TrackStart, TrackNextInv, PTL DEF TrackingSpec

\* The invariant gives the types.
LEMMA TrackTypes == TrackInv => TrackingTypeOK
  <1> SUFFICES ASSUME TrackInv PROVE TrackingTypeOK
    OBVIOUS
  <1>1. site.map \in KnownMaps /\ wanted.map \in KnownMaps
    BY DEF TrackInv, LogSide
  <1> QED
    BY <1>1 DEF TrackInv, LogSide, ShotSide, TrackingTypeOK, Raids, EventsTo, KnownMaps

\* The invariant gives the map that is in use and the one the site shows.
LEMMA TrackFollows == TrackInv => MapFollowsLog /\ SiteFollowsOrders
  <1> SUFFICES ASSUME TrackInv PROVE MapFollowsLog /\ SiteFollowsOrders
    OBVIOUS
  <1>1. MapFollowsLog
    BY DEF TrackInv, FollowInv, Waiting, MapFollowsLog
  <1>2. SiteFollowsOrders
    <2>1. site = [k |-> site.k, map |-> site.map] /\ wanted = [k |-> wanted.k, map |-> wanted.map]
      BY DEF TrackInv, LogSide
    <2> QED
      BY <2>1 DEF TrackInv, OrderInv, OrderInHand, SiteFollowsOrders
  <1> QED
    BY <1>1, <1>2

\* The invariant gives the throttle.
LEMMA TrackThrottled == TrackInv => ThrottleHolds
  <1> SUFFICES ASSUME TrackInv PROVE ThrottleHolds
    OBVIOUS
  <1>1. DOMAIN sent = 0..MaxWindow
    BY DEF TrackInv, ShotSide
  <1>2. ASSUME NEW w \in 0..MaxWindow
        PROVE  sent[w].all <= 1 + sent[w].asked + sent[w].slipped
    <2>1. /\ sent[w].all \in Nat /\ sent[w].asked \in Nat /\ sent[w].slipped \in Nat
          /\ Cardinality(MapsAt(w)) \in Nat
      BY WindowNumbers DEF TrackInv
    <2> QED
      BY <2>1 DEF TrackInv, ThrottleInv
  <1> QED
    BY <1>1, <1>2 DEF ThrottleHolds

-----------------------------------------------------------------------------
(* The quests                                                              *)
QuestSteps == {"new", "wait", "post", "mark"}
Jobs(n, m) == [n : 1..n, era : 1..m, quest : Quests, step : QuestSteps]
QuestShape ==
  /\ made \in Trackers /\ era \in 0..made /\ closed \subseteq 1..made
  /\ tokens \in [Trackers -> 0..MaxTokens]
  /\ completions \in Nat /\ handlers \subseteq Jobs(completions, made) /\ IsFiniteSet(handlers)
  /\ era = 0 => handlers = {}
  /\ quests \in [Trackers -> SUBSET Quests] /\ stored \subseteq Quests
  /\ posts \in [Quests -> Nat] /\ lapses \in [Quests -> Nat]

\* What may still post a quest: the handlers past the look-up, the trackers that do not
\* know it and have no handler of it past the look-up but take events or hold one that
\* is to look it up, and a file that lacks what the tracker in use knows.
Early(q) == {h \in handlers : h.quest = q /\ h.step \in {"wait", "post"}}
Asking(q, e) == \E h \in handlers : h.quest = q /\ h.era = e /\ h.step = "new"
Blind(q) ==
  {e \in Trackers : (e = era \/ Asking(q, e)) /\ q \notin quests[e] /\ UnderWay(q, e) = {}}
Gap(q) == IF q \notin stored /\ (era = 0 \/ q \in quests[era]) THEN 1 ELSE 0
Budget(q) == posts[q] + Cardinality(Early(q)) + Cardinality(Blind(q)) + Gap(q) <= 1 + lapses[q]
QuestInv == QuestShape /\ \A q \in Quests : Budget(q)

\* Counting subsets: without an element, with one more, with one for another.
LEMMA Counted ==
  ASSUME NEW S, IsFiniteSet(S), NEW T, T \subseteq S
  PROVE  IsFiniteSet(T) /\ Cardinality(T) \in Nat /\ Cardinality(S) \in Nat /\ Cardinality(T) <= Cardinality(S)
  BY FS_Subset, FS_CardinalityType
LEMMA CountedLess ==
  ASSUME NEW S, IsFiniteSet(S), NEW x \in S, NEW T, T \subseteq S \ {x}
  PROVE  IsFiniteSet(T) /\ Cardinality(T) \in Nat /\ Cardinality(S) \in Nat /\ Cardinality(T) + 1 <= Cardinality(S)
  <1>1. IsFiniteSet(S \ {x}) /\ Cardinality(S \ {x}) = Cardinality(S) - 1
    BY FS_RemoveElement
  <1>2. IsFiniteSet(T) /\ Cardinality(T) \in Nat /\ Cardinality(T) <= Cardinality(S \ {x})
    BY <1>1, Counted
  <1> QED
    BY <1>1, <1>2, FS_CardinalityType
LEMMA CountedMore ==
  ASSUME NEW S, IsFiniteSet(S), NEW x, NEW T, T \subseteq S \cup {x}
  PROVE  IsFiniteSet(T) /\ Cardinality(T) \in Nat /\ Cardinality(S) \in Nat /\ Cardinality(T) <= Cardinality(S) + 1
  <1>1. IsFiniteSet(S \cup {x}) /\ Cardinality(S \cup {x}) <= Cardinality(S) + 1 /\ Cardinality(S) \in Nat
    BY FS_AddElement, FS_CardinalityType
  <1>2. IsFiniteSet(T) /\ Cardinality(T) \in Nat /\ Cardinality(T) <= Cardinality(S \cup {x})
        /\ Cardinality(S \cup {x}) \in Nat
    BY <1>1, Counted
  <1> QED
    BY <1>1, <1>2
LEMMA CountedOther ==
  ASSUME NEW S, IsFiniteSet(S), NEW x \in S, NEW y, NEW T, T \subseteq (S \ {x}) \cup {y}
  PROVE  IsFiniteSet(T) /\ Cardinality(T) \in Nat /\ Cardinality(S) \in Nat /\ Cardinality(T) <= Cardinality(S)
  <1>1. IsFiniteSet(S \ {x}) /\ Cardinality(S \ {x}) + 1 <= Cardinality(S) /\ Cardinality(S \ {x}) \in Nat
    BY CountedLess
  <1>2. IsFiniteSet(T) /\ Cardinality(T) \in Nat /\ Cardinality(T) <= Cardinality(S \ {x}) + 1
    BY <1>1, CountedMore
  <1> QED
    BY <1>1, <1>2, FS_CardinalityType

\* What an invariant's numbers are.
LEMMA QuestNumbers ==
  ASSUME QuestShape, NEW q \in Quests
  PROVE  /\ posts[q] \in Nat /\ lapses[q] \in Nat /\ Gap(q) \in {0, 1}
         /\ IsFiniteSet(Early(q)) /\ Cardinality(Early(q)) \in Nat
         /\ IsFiniteSet(Blind(q)) /\ Cardinality(Blind(q)) \in Nat
  <1>1. Early(q) \subseteq handlers /\ Blind(q) \subseteq Trackers
    BY DEF Early, Blind
  <1>2. IsFiniteSet(Trackers)
    BY FS_Interval, QuestAssumption DEF Trackers
  <1> QED
    BY <1>1, <1>2, Counted DEF QuestShape, Gap

\* A lapse of some quests is counted for each of them.
LEMMA LapsedCounts ==
  ASSUME lapses \in [Quests -> Nat], NEW qs
  PROVE  /\ Lapsed(qs) \in [Quests -> Nat]
         /\ \A q \in Quests : Lapsed(qs)[q] = IF q \in qs THEN lapses[q] + 1 ELSE lapses[q]
  BY DEF Lapsed

\* The first tracker knows nothing, and that is all that may post.
LEMMA QuestStart == QuestInit => QuestInv
  <1> SUFFICES ASSUME QuestInit PROVE QuestInv
    OBVIOUS
  <1>1. QuestShape
    BY QuestAssumption, FS_EmptySet DEF QuestInit, QuestShape, Trackers, Jobs
  <1>2. ASSUME NEW q \in Quests PROVE Budget(q)
    <2>0. era = 1 /\ handlers = {} /\ quests[1] = {} /\ posts[q] = 0 /\ lapses[q] = 0
      BY <1>2, QuestAssumption DEF QuestInit, Trackers
    <2>1. Early(q) = {} /\ Blind(q) \subseteq {1} /\ Gap(q) = 0 /\ posts[q] = 0 /\ lapses[q] = 0
      BY <2>0 DEF Early, Blind, Gap, Asking
    <2>2. Cardinality(Blind(q)) \in Nat /\ Cardinality(Blind(q)) <= 1 /\ Cardinality(Early(q)) = 0
      <3>1. IsFiniteSet({1}) /\ Cardinality({1}) = 1
        BY FS_Singleton
      <3> QED
        BY <2>1, <3>1, Counted, FS_EmptySet
    <2> QED
      BY <2>1, <2>2 DEF Budget
  <1> QED
    BY <1>1, <1>2 DEF QuestInv

\* A handler that goes a step further keeps its quest, tracker and number.
LEMMA Advanced ==
  ASSUME NEW n, NEW m, NEW h \in Jobs(n, m), NEW s \in QuestSteps, NEW z, z = [h EXCEPT !.step = s]
  PROVE  z \in Jobs(n, m) /\ z.quest = h.quest /\ z.era = h.era /\ z.step = s /\ z.n = h.n
  BY DEF Jobs

\* Trackers, tokens and handlers keep their shape.
LEMMA QuestShapeNext == QuestShape /\ [QuestNext]_qtVars => QuestShape'
  <1> SUFFICES ASSUME QuestShape, [QuestNext]_qtVars PROVE QuestShape'
    OBVIOUS
  <1>0. /\ MaxTokens \in Nat /\ made \in Nat /\ era \in Nat /\ era <= made
        /\ \A h \in handlers : h.quest \in Quests /\ h.era \in Trackers
    BY QuestAssumption DEF QuestShape, Trackers, Jobs
  <1>f. \A h \in handlers : \A z : IsFiniteSet(handlers \ {h}) /\ IsFiniteSet((handlers \ {h}) \cup {z})
    BY FS_RemoveElement, FS_AddElement DEF QuestShape
  <1>l. lapses \in [Quests -> Nat] /\ \A qs : Lapsed(qs) \in [Quests -> Nat]
    BY LapsedCounts DEF QuestShape
  <1>1. ASSUME NEW h \in handlers, NEW s \in QuestSteps, handlers' = Advance(h, s),
               UNCHANGED <<era, made, closed, completions, stored>>,
               posts' \in [Quests -> Nat], tokens' \in [Trackers -> 0..MaxTokens],
               lapses' \in [Quests -> Nat],
               quests' \in [Trackers -> SUBSET Quests]
        PROVE  QuestShape'
    <2>1. [h EXCEPT !.step = s] \in Jobs(completions, made)
      BY <1>1, Advanced DEF QuestShape
    <2>2. IsFiniteSet(handlers') /\ era # 0
      BY <1>1, <1>f DEF Advance, QuestShape
    <2> QED
      BY <1>1, <2>1, <2>2 DEF QuestShape, Advance
  <1>2. ASSUME NEW q \in Quests, QuestEvent(q) PROVE QuestShape'
    <2>1. [n |-> completions + 1, era |-> era, quest |-> q, step |-> "new"] \in Jobs(completions + 1, made)
      BY <1>2 DEF QuestEvent, Jobs, QuestShape, QuestSteps, Trackers
    <2>2. Jobs(completions, made) \subseteq Jobs(completions + 1, made)
      BY DEF Jobs, QuestShape
    <2>3. IsFiniteSet(handlers') /\ era # 0
      BY <1>2, FS_AddElement DEF QuestEvent, QuestShape
    <2> QED
      BY <1>2, <2>1, <2>2, <2>3 DEF QuestEvent, QuestShape
  <1>3. ASSUME NEW h \in handlers, LookUp(h) PROVE QuestShape'
    <2>0. lapses' \in [Quests -> Nat]
      BY <1>3, <1>l DEF LookUp
    <2>1. CASE handlers' = handlers \ {h}
      BY <1>3, <1>f, <2>0, <2>1 DEF LookUp, QuestShape
    <2>2. CASE handlers' = Advance(h, "wait")
      BY <1>1, <1>3, <2>0, <2>2 DEF LookUp, QuestShape, QuestSteps
    <2> QED
      BY <1>3, <2>1, <2>2 DEF LookUp
  <1>4. ASSUME NEW h \in handlers, TakeToken(h) PROVE QuestShape'
    <2>1. h.era \in Trackers /\ tokens[h.era] \in 0..MaxTokens /\ tokens[h.era] > 0
      BY <1>0, <1>4 DEF TakeToken, QuestShape
    <2>2. tokens[h.era] - 1 \in 0..MaxTokens
      BY <1>0, <2>1
    <2>3. tokens' \in [Trackers -> 0..MaxTokens]
      BY <1>4, <2>2 DEF TakeToken, QuestShape
    <2> QED
      BY <1>1, <1>4, <1>l, <2>3 DEF TakeToken, QuestShape, QuestSteps
  <1>5. ASSUME NEW h \in handlers, PostTaken(h) PROVE QuestShape'
    <2>1. posts' \in [Quests -> Nat]
      BY <1>5 DEF PostTaken, QuestShape, Jobs
    <2> QED
      BY <1>1, <1>5, <1>l, <2>1 DEF PostTaken, QuestShape, QuestSteps
  <1>6. ASSUME NEW h \in handlers, PostFails(h) PROVE QuestShape'
    <2>1. posts' \in [Quests -> Nat] /\ lapses' \in [Quests -> Nat]
      BY <1>6, <1>l DEF PostFails, QuestShape, Jobs
    <2> QED
      BY <1>6, <1>f, <2>1 DEF PostFails, QuestShape
  <1>7. ASSUME NEW h \in handlers, NEW written, Mark(h, written) PROVE QuestShape'
    <2>1. h.quest \in Quests /\ h.era \in Trackers
      BY <1>0
    <2>2. quests' \in [Trackers -> SUBSET Quests] /\ stored' \subseteq Quests /\ lapses' \in [Quests -> Nat]
      BY <1>7, <1>l, <2>1 DEF Mark, QuestShape
    <2> QED
      BY <1>7, <1>f, <2>2 DEF Mark, QuestShape
  <1>8. CASE Refill
    <2>1. era \in Trackers
      BY <1>0, <1>8, QuestAssumption DEF Refill, QuestShape, Trackers
    <2>2. tokens[era] + 1 \in 0..MaxTokens
      BY <1>0, <1>8, <2>1 DEF Refill, QuestShape
    <2>3. tokens' \in [Trackers -> 0..MaxTokens]
      BY <1>8, <2>2 DEF Refill, QuestShape
    <2> QED
      BY <1>8, <2>3 DEF Refill, QuestShape
  <1>9. CASE Close
    BY <1>9 DEF Close, QuestShape, Trackers
  <1>10. CASE NewTracker
    <2>1. made' = made + 1 /\ made' \in Trackers /\ era' = made' /\ made' \in Nat /\ era' # 0
      BY <1>0, <1>10, QuestAssumption DEF NewTracker, QuestShape, Trackers
    <2>2. Jobs(completions, made) \subseteq Jobs(completions, made')
      BY <1>0, <2>1 DEF Jobs
    <2>3. quests' \in [Trackers -> SUBSET Quests] /\ lapses' \in [Quests -> Nat]
      <3>1. PICK loaded \in {stored, {}} :
              /\ quests' = [quests EXCEPT ![made'] = loaded]
              /\ lapses' = Lapsed((stored \cup {h.quest : h \in handlers}) \ loaded)
        BY <1>10 DEF NewTracker
      <3> QED
        BY <1>l, <3>1 DEF QuestShape
    <2> QED
      BY <1>0, <1>10, <2>1, <2>2, <2>3 DEF NewTracker, QuestShape
  <1>11. CASE Exit
    BY <1>0, <1>11, <1>l, FS_EmptySet DEF Exit, QuestShape
  <1>12. CASE UNCHANGED qtVars
    BY <1>12 DEF qtVars, QuestShape
  <1> QED
    BY <1>2, <1>3, <1>4, <1>5, <1>6, <1>7, <1>8, <1>9, <1>10, <1>11, <1>12 DEF QuestNext, Handle

\* An event and a look-up. A second handler that finds the quest new is a lapse.
LEMMA BudgetEvent == ASSUME QuestInv, QuestShape', NEW r \in Quests, QuestEvent(r), NEW q \in Quests PROVE Budget(q)'
  <1> DEFINE z == [n |-> completions + 1, era |-> era, quest |-> r, step |-> "new"]
  <1>1. handlers' = handlers \cup {z} /\ UNCHANGED <<era, quests, stored, posts, lapses>>
    BY DEF QuestEvent
  <1>2. z.era = era /\ z.quest = r /\ z.step = "new"
    OBVIOUS
  <1>3. Early(q)' = Early(q) /\ Gap(q)' = Gap(q)
    BY <1>1, <1>2 DEF Early, Gap
  <1>4. Blind(q)' = Blind(q)
    <2>1. \A e : UnderWay(q, e)' = UnderWay(q, e)
      BY <1>1, <1>2 DEF UnderWay
    <2>2. \A e : (e = era \/ Asking(q, e))' <=> (e = era \/ Asking(q, e))
      BY <1>1, <1>2 DEF Asking
    <2> QED
      BY <1>1, <2>1, <2>2 DEF Blind
  <1> QED
    BY <1>1, <1>3, <1>4 DEF QuestInv, Budget

LEMMA BudgetLookUp ==
  ASSUME QuestInv, QuestShape', NEW h \in handlers, LookUp(h), NEW q \in Quests PROVE Budget(q)'
  <1>1. h.step = "new" /\ h.quest \in Quests /\ h.era \in Trackers /\ h \in Jobs(completions, made)
        /\ UNCHANGED <<era, quests, stored, posts>>
    BY QuestAssumption DEF LookUp, AtStep, QuestInv, QuestShape, Jobs, Trackers
  <1>n. QuestShape /\ Budget(q) /\ IsFiniteSet(Early(q)) /\ IsFiniteSet(Blind(q)) /\ Gap(q)' = Gap(q)
        /\ posts[q] \in Nat /\ lapses[q] \in Nat
        /\ Cardinality(Early(q)) \in Nat /\ Cardinality(Blind(q)) \in Nat /\ Gap(q) \in {0, 1}
    BY <1>1, QuestNumbers DEF QuestInv, Gap
  <1>2. CASE h.quest \in quests[h.era]
    <2>1. handlers' = handlers \ {h} /\ UNCHANGED lapses
      BY <1>2 DEF LookUp
    <2>2. Early(q)' = Early(q) /\ \A e : UnderWay(q, e)' = UnderWay(q, e)
      BY <1>1, <2>1 DEF Early, UnderWay
    <2>3. Blind(q)' \subseteq Blind(q)
      BY <1>1, <2>1, <2>2 DEF Blind, Asking
    <2>4. Cardinality(Blind(q)') \in Nat /\ Cardinality(Blind(q)') <= Cardinality(Blind(q))
      BY <1>n, <2>3, Counted
    <2> QED
      BY <1>1, <1>n, <2>1, <2>2, <2>4 DEF Budget
  <1>3. CASE h.quest \notin quests[h.era]
    <2>1. PICK z : z = [h EXCEPT !.step = "wait"]
      OBVIOUS
    <2>2. z.quest = h.quest /\ z.era = h.era /\ z.step = "wait"
      BY <1>1, <2>1, Advanced DEF QuestSteps
    <2>3. handlers' = (handlers \ {h}) \cup {z}
          /\ lapses' = IF UnderWay(h.quest, h.era) = {} THEN lapses ELSE Lapsed({h.quest})
      BY <1>3, <2>1 DEF LookUp, Advance
    <2>4. CASE q # h.quest
      <3>1. Early(q)' = Early(q) /\ Blind(q)' = Blind(q)
        BY <1>1, <2>2, <2>3, <2>4 DEF Early, Blind, Asking, UnderWay
      <3>2. lapses'[q] = lapses[q]
        BY <1>n, <2>3, <2>4, LapsedCounts DEF QuestShape
      <3> QED
        BY <1>1, <1>n, <3>1, <3>2 DEF Budget
    <2>5. CASE q = h.quest
      <3>1. Early(q)' \subseteq Early(q) \cup {z}
        BY <2>3 DEF Early
      <3>2. Cardinality(Early(q)') \in Nat /\ Cardinality(Early(q)') <= Cardinality(Early(q)) + 1
        BY <1>n, <3>1, CountedMore
      <3>3. Blind(q)' \subseteq Blind(q) \ {h.era}
        <4>1. \A e : UnderWay(q, e) \subseteq UnderWay(q, e)'
          BY <1>1, <2>3 DEF UnderWay
        <4>2. z \in UnderWay(q, h.era)'
          BY <2>2, <2>3, <2>5 DEF UnderWay
        <4>3. \A e : Asking(q, e)' => Asking(q, e)
          BY <2>2, <2>3 DEF Asking
        <4> QED
          BY <1>1, <4>1, <4>2, <4>3 DEF Blind
      <3>4. CASE UnderWay(h.quest, h.era) = {}
        <4>1. h.era \in Blind(q)
          BY <1>1, <1>3, <2>5, <3>4 DEF Blind, Asking
        <4>2. Cardinality(Blind(q)') \in Nat /\ Cardinality(Blind(q)') + 1 <= Cardinality(Blind(q))
          BY <1>n, <3>3, <4>1, CountedLess
        <4> QED
          BY <1>1, <1>n, <2>3, <3>2, <3>4, <4>2 DEF Budget
      <3>5. CASE UnderWay(h.quest, h.era) # {}
        <4>1. Cardinality(Blind(q)') \in Nat /\ Cardinality(Blind(q)') <= Cardinality(Blind(q))
          BY <1>n, <3>3, Counted
        <4>2. lapses'[q] = lapses[q] + 1
          BY <1>n, <2>3, <2>5, <3>5, LapsedCounts DEF QuestShape
        <4> QED
          BY <1>1, <1>n, <3>2, <4>1, <4>2 DEF Budget
      <3> QED
        BY <3>4, <3>5
    <2> QED
      BY <2>4, <2>5
  <1> QED
    BY <1>2, <1>3

\* A token and a post: what goes on stays one handler, and one that has posted is counted
\* as a post.
LEMMA BudgetToken ==
  ASSUME QuestInv, QuestShape', NEW h \in handlers, TakeToken(h) \/ PostTaken(h), NEW q \in Quests PROVE Budget(q)'
  <1>1. h.step \in {"wait", "post"} /\ h.quest \in Quests /\ h \in Jobs(completions, made)
        /\ UNCHANGED <<era, quests, stored, lapses>>
    BY DEF TakeToken, PostTaken, AtStep, QuestInv, QuestShape, Jobs
  <1>n. QuestShape /\ Budget(q) /\ IsFiniteSet(Early(q)) /\ IsFiniteSet(Blind(q)) /\ Gap(q)' = Gap(q)
        /\ posts \in [Quests -> Nat] /\ posts[q] \in Nat /\ lapses[q] \in Nat
        /\ Cardinality(Early(q)) \in Nat /\ Cardinality(Blind(q)) \in Nat /\ Gap(q) \in {0, 1}
    BY <1>1, QuestNumbers DEF QuestInv, QuestShape, Gap
  <1>2. ASSUME NEW s \in {"post", "mark"}, NEW z, z = [h EXCEPT !.step = s], handlers' = (handlers \ {h}) \cup {z}
        PROVE  /\ z.quest = h.quest /\ z.step = s
               /\ Cardinality(Blind(q)') \in Nat /\ Cardinality(Blind(q)') <= Cardinality(Blind(q))
               /\ q # h.quest => Early(q)' = Early(q)
    <2>1. z.quest = h.quest /\ z.era = h.era /\ z.step = s
      BY <1>1, <1>2, Advanced DEF QuestSteps
    <2>2. \A e : UnderWay(q, e)' = {} => UnderWay(q, e) = {}
      BY <1>1, <1>2, <2>1 DEF UnderWay
    <2>3. \A e : Asking(q, e)' => Asking(q, e)
      BY <1>2, <2>1 DEF Asking
    <2>4. Blind(q)' \subseteq Blind(q)
      BY <1>1, <2>2, <2>3 DEF Blind
    <2>5. q # h.quest => Early(q)' = Early(q)
      BY <1>1, <1>2, <2>1 DEF Early
    <2> QED
      BY <1>n, <2>1, <2>4, <2>5, Counted
  <1>3. CASE TakeToken(h)
    <2>1. PICK z : z = [h EXCEPT !.step = "post"]
      OBVIOUS
    <2>2. handlers' = (handlers \ {h}) \cup {z} /\ posts' = posts
      BY <1>3, <2>1 DEF TakeToken, Advance
    <2>3. CASE q # h.quest
      BY <1>1, <1>2, <1>n, <2>1, <2>2, <2>3 DEF Budget
    <2>4. CASE q = h.quest
      <3>1. h \in Early(q) /\ Early(q)' \subseteq (Early(q) \ {h}) \cup {z}
        BY <1>1, <2>2, <2>4 DEF Early
      <3>a. posts'[q] = posts[q] /\ lapses'[q] = lapses[q]
        BY <1>1, <2>2
      <3>b. Cardinality(Blind(q)') \in Nat /\ Cardinality(Blind(q)') <= Cardinality(Blind(q))
        BY <1>2, <2>1, <2>2
      <3>2. Cardinality(Early(q)') \in Nat /\ Cardinality(Early(q)') <= Cardinality(Early(q))
        <4>1. IsFiniteSet(Early(q))
          BY <1>n
        <4>2. PICK T : T = Early(q)'
          OBVIOUS
        <4>3. T \subseteq (Early(q) \ {h}) \cup {z} /\ h \in Early(q)
          BY <3>1, <4>2
        <4>4. Cardinality(T) \in Nat /\ Cardinality(T) <= Cardinality(Early(q))
          BY ONLY <4>1, <4>3, CountedOther
        <4> QED
          BY <4>2, <4>4
      <3> QED
        BY <1>n, <3>2, <3>a, <3>b DEF Budget
    <2> QED
      BY <2>3, <2>4
  <1>4. CASE PostTaken(h)
    <2>1. PICK z : z = [h EXCEPT !.step = "mark"]
      OBVIOUS
    <2>2. handlers' = (handlers \ {h}) \cup {z} /\ posts' = [posts EXCEPT ![h.quest] = @ + 1]
      BY <1>4, <2>1 DEF PostTaken, Advance
    <2>3. CASE q # h.quest
      <3>1. posts'[q] = posts[q]
        BY <1>n, <2>2, <2>3
      <3> QED
        BY <1>1, <1>2, <1>n, <2>1, <2>2, <2>3, <3>1 DEF Budget
    <2>4. CASE q = h.quest
      <3>1. z.step = "mark"
        BY <1>2, <2>1, <2>2
      <3>2. h \in Early(q) /\ Early(q)' \subseteq Early(q) \ {h}
        BY <1>1, <2>2, <2>4, <3>1 DEF Early
      <3>3. Cardinality(Early(q)') \in Nat /\ Cardinality(Early(q)') + 1 <= Cardinality(Early(q))
        BY <1>n, <3>2, CountedLess
      <3>4. posts'[q] = posts[q] + 1
        BY <1>n, <2>2, <2>4
      <3> QED
        BY <1>1, <1>2, <1>n, <2>1, <2>2, <3>3, <3>4 DEF Budget
    <2> QED
      BY <2>3, <2>4
  <1> QED
    BY <1>3, <1>4

\* A post that fails may be tried by another look-up; one whose answer was lost is a lapse.
LEMMA BudgetFails ==
  ASSUME QuestInv, QuestShape', NEW h \in handlers, PostFails(h), NEW q \in Quests PROVE Budget(q)'
  <1>1. /\ h.step = "post" /\ h.quest \in Quests /\ handlers' = handlers \ {h}
        /\ UNCHANGED <<era, quests, stored>>
        /\ \/ UNCHANGED <<posts, lapses>>
           \/ posts' = [posts EXCEPT ![h.quest] = @ + 1] /\ lapses' = Lapsed({h.quest})
    BY DEF PostFails, AtStep, QuestInv, QuestShape, Jobs
  <1>n. QuestShape /\ Budget(q) /\ IsFiniteSet(Early(q)) /\ IsFiniteSet(Blind(q)) /\ Gap(q)' = Gap(q)
        /\ posts \in [Quests -> Nat] /\ posts[q] \in Nat /\ lapses[q] \in Nat
        /\ Cardinality(Early(q)) \in Nat /\ Cardinality(Blind(q)) \in Nat /\ Gap(q) \in {0, 1}
    BY <1>1, QuestNumbers DEF QuestInv, QuestShape, Gap
  <1>2. \A e : Asking(q, e)' => Asking(q, e)
    BY <1>1 DEF Asking
  <1>3. CASE q # h.quest
    <2>1. Early(q)' = Early(q) /\ \A e : UnderWay(q, e)' = UnderWay(q, e)
      BY <1>1, <1>3 DEF Early, UnderWay
    <2>2. Blind(q)' \subseteq Blind(q)
      BY <1>1, <1>2, <2>1 DEF Blind
    <2>3. Cardinality(Blind(q)') \in Nat /\ Cardinality(Blind(q)') <= Cardinality(Blind(q))
      BY <1>n, <2>2, Counted
    <2>4. posts'[q] = posts[q] /\ lapses'[q] = lapses[q]
      BY <1>1, <1>3, <1>n, LapsedCounts DEF QuestShape
    <2> QED
      BY <1>n, <2>1, <2>3, <2>4 DEF Budget
  <1>4. CASE q = h.quest
    <2>1. h \in Early(q) /\ Early(q)' \subseteq Early(q) \ {h}
      BY <1>1, <1>4 DEF Early
    <2>2. Cardinality(Early(q)') \in Nat /\ Cardinality(Early(q)') + 1 <= Cardinality(Early(q))
      BY <1>n, <2>1, CountedLess
    <2>3. \A e : e # h.era => UnderWay(q, e)' = UnderWay(q, e)
      BY <1>1 DEF UnderWay
    <2>4. Blind(q)' \subseteq Blind(q) \cup {h.era}
      BY <1>1, <1>2, <2>3 DEF Blind
    <2>5. Cardinality(Blind(q)') \in Nat /\ Cardinality(Blind(q)') <= Cardinality(Blind(q)) + 1
      BY <1>n, <2>4, CountedMore
    <2>6. \/ posts'[q] = posts[q] /\ lapses'[q] = lapses[q]
          \/ posts'[q] = posts[q] + 1 /\ lapses'[q] = lapses[q] + 1
      BY <1>1, <1>4, <1>n, LapsedCounts DEF QuestShape
    <2> QED
      BY <1>n, <2>2, <2>5, <2>6 DEF Budget
  <1> QED
    BY <1>3, <1>4

\* A mark closes the account of its quest, unless its save, or what it drops, is a lapse.
LEMMA BudgetMark ==
  ASSUME QuestInv, QuestShape', NEW h \in handlers, NEW written, Mark(h, written), NEW q \in Quests
  PROVE  Budget(q)'
  <1> DEFINE known == quests[h.era] \cup {h.quest}
  <1>1. /\ h.step = "mark" /\ h.quest \in Quests /\ h.era \in Trackers /\ handlers' = handlers \ {h}
        /\ quests' = [quests EXCEPT ![h.era] = known] /\ stored' \in {known, stored, {}}
        /\ lapses' = Lapsed((stored \cup known) \ stored') /\ UNCHANGED <<era, posts>>
        /\ era # 0
    BY QuestAssumption DEF Mark, AtStep, QuestInv, QuestShape, Jobs, Trackers
  <1>n. QuestShape /\ Budget(q) /\ IsFiniteSet(Early(q)) /\ IsFiniteSet(Blind(q))
        /\ quests \in [Trackers -> SUBSET Quests] /\ posts[q] \in Nat /\ lapses[q] \in Nat
        /\ Cardinality(Early(q)) \in Nat /\ Cardinality(Blind(q)) \in Nat /\ Gap(q) \in {0, 1}
    BY <1>1, QuestNumbers DEF QuestInv, QuestShape
  <1>e. era \in Trackers
    <2>1. era \in 0..made /\ made \in 1..MaxTrackers /\ MaxTrackers \in Nat /\ era # 0
      BY <1>1, QuestAssumption DEF QuestInv, QuestShape, Trackers
    <2> QED
      BY <2>1 DEF Trackers
  <1>2. Early(q)' = Early(q)
    BY <1>1 DEF Early
  <1>3. Blind(q)' \subseteq Blind(q)
    <2>1. \A e : Asking(q, e)' => Asking(q, e)
      BY <1>1 DEF Asking
    <2>2. ASSUME NEW e \in Trackers, q \notin quests'[e], UnderWay(q, e)' = {}
          PROVE  q \notin quests[e] /\ UnderWay(q, e) = {}
      <3>1. q \notin quests[e] /\ ~(e = h.era /\ q = h.quest)
        BY <1>1, <1>n, <2>2
      <3>2. UnderWay(q, e) = {}
        BY <1>1, <2>2, <3>1 DEF UnderWay
      <3> QED
        BY <3>1, <3>2
    <2> QED
      BY <1>1, <2>1, <2>2 DEF Blind
  <1>4. Cardinality(Blind(q)') \in Nat /\ Cardinality(Blind(q)') <= Cardinality(Blind(q))
    BY <1>3, <1>n, Counted
  <1>5. lapses'[q] = IF q \in (stored \cup known) \ stored' THEN lapses[q] + 1 ELSE lapses[q]
    BY <1>1, <1>n, LapsedCounts DEF QuestShape
  <1>6. Gap(q)' \in {0, 1} /\ (Gap(q)' > Gap(q) => q \in (stored \cup known) \ stored')
    <2>1. Gap(q)' = IF q \notin stored' /\ q \in quests'[era] THEN 1 ELSE 0
      BY <1>1 DEF Gap
    <2>2. q \in quests'[era] => q \in quests[era] \/ q \in known
      BY <1>1, <1>e, <1>n
    <2> QED
      BY <1>1, <2>1, <2>2 DEF Gap
  <1> QED
    BY <1>1, <1>2, <1>4, <1>5, <1>6, <1>n DEF Budget

\* Another tracker stands for the one before it, but for what could not be loaded, or was
\* still in the hands of a handler.
LEMMA BudgetNew == ASSUME QuestInv, QuestShape', NewTracker, NEW q \in Quests PROVE Budget(q)'
  <1>1. PICK loaded \in {stored, {}} :
          /\ quests' = [quests EXCEPT ![made + 1] = loaded]
          /\ lapses' = Lapsed((stored \cup {h.quest : h \in handlers}) \ loaded)
    BY DEF NewTracker
  <1>2. /\ era' = made + 1 /\ made + 1 \in Trackers /\ UNCHANGED <<stored, handlers, posts>>
        /\ made \in Nat /\ era \in 0..made /\ era # made + 1
        /\ \A h \in handlers : h.era \in 1..made /\ h.era # made + 1
    BY QuestAssumption DEF NewTracker, QuestInv, QuestShape, Trackers, Jobs
  <1>n. QuestShape /\ Budget(q) /\ IsFiniteSet(Early(q)) /\ IsFiniteSet(Blind(q))
        /\ quests \in [Trackers -> SUBSET Quests] /\ posts[q] \in Nat /\ lapses[q] \in Nat
        /\ Cardinality(Early(q)) \in Nat /\ Cardinality(Blind(q)) \in Nat /\ Gap(q) \in {0, 1}
    BY QuestNumbers DEF QuestInv, QuestShape
  <1>3. /\ Early(q)' = Early(q) /\ \A e : UnderWay(q, e)' = UnderWay(q, e) /\ (Asking(q, e)' <=> Asking(q, e))
        /\ ~Asking(q, made + 1)
    BY <1>2 DEF Early, UnderWay, Asking
  <1>4. quests'[made + 1] = loaded /\ \A e \in Trackers : e # made + 1 => quests'[e] = quests[e]
    BY <1>1, <1>2, <1>n
  <1>5. /\ Blind(q)' \subseteq Blind(q) \cup {made + 1}
        /\ q \in loaded => Blind(q)' \subseteq Blind(q)
        /\ era \in Blind(q)' => Asking(q, era)
    BY <1>2, <1>3, <1>4 DEF Blind
  <1>6. Gap(q)' = 0
    BY <1>1, <1>2, <1>4 DEF Gap
  <1>7. lapses'[q] = IF q \in (stored \cup {h.quest : h \in handlers}) \ loaded THEN lapses[q] + 1 ELSE lapses[q]
    BY <1>1, <1>n, LapsedCounts DEF QuestShape
  <1>8. CASE q \in loaded
    <2>1. Cardinality(Blind(q)') \in Nat /\ Cardinality(Blind(q)') <= Cardinality(Blind(q))
      BY <1>5, <1>8, <1>n, Counted
    <2> QED
      BY <1>2, <1>3, <1>6, <1>7, <1>8, <1>n, <2>1 DEF Budget
  <1>9. CASE q \notin loaded /\ q \in stored \cup {h.quest : h \in handlers}
    <2>1. Cardinality(Blind(q)') \in Nat /\ Cardinality(Blind(q)') <= Cardinality(Blind(q)) + 1
      BY <1>5, <1>n, CountedMore
    <2>2. lapses'[q] = lapses[q] + 1
      BY <1>7, <1>9
    <2> QED
      BY <1>2, <1>3, <1>6, <1>n, <2>1, <2>2 DEF Budget
  <1>10. CASE q \notin loaded /\ q \notin stored \cup {h.quest : h \in handlers}
    <2>1. lapses'[q] = lapses[q] /\ \A h \in handlers : h.quest # q
      BY <1>7, <1>10
    <2>2. ~Asking(q, era) /\ UnderWay(q, era) = {}
      BY <2>1 DEF Asking, UnderWay
    <2>3. CASE Gap(q) = 1
      <3>1. Cardinality(Blind(q)') \in Nat /\ Cardinality(Blind(q)') <= Cardinality(Blind(q)) + 1
        BY <1>5, <1>n, CountedMore
      <3> QED
        BY <1>2, <1>3, <1>6, <1>n, <2>1, <2>3, <3>1 DEF Budget
    <2>4. CASE Gap(q) = 0
      <3>1. era # 0 /\ q \notin quests[era]
        BY <1>10, <2>4 DEF Gap
      <3>2. era \in Blind(q)
        <4>1. era \in Trackers
          BY <1>2, <3>1, QuestAssumption DEF QuestInv, QuestShape, Trackers
        <4> QED
          BY <2>2, <3>1, <4>1 DEF Blind
      <3>3. Blind(q)' \subseteq (Blind(q) \ {era}) \cup {made + 1}
        BY <1>5, <2>2
      <3>4. Cardinality(Blind(q)') \in Nat /\ Cardinality(Blind(q)') <= Cardinality(Blind(q))
        BY <1>n, <3>2, <3>3, CountedOther
      <3> QED
        BY <1>2, <1>3, <1>6, <1>n, <2>1, <2>4, <3>4 DEF Budget
    <2> QED
      BY <1>n, <2>3, <2>4
  <1> QED
    BY <1>8, <1>9, <1>10

\* After a kill the file alone tells what was posted.
LEMMA BudgetExit == ASSUME QuestInv, QuestShape', Exit, NEW q \in Quests PROVE Budget(q)'
  <1> DEFINE marking == {h.quest : h \in {k \in handlers : k.step = "mark"}}
  <1>1. /\ era # 0 /\ era' = 0 /\ handlers' = {} /\ lapses' = Lapsed(marking \ stored)
        /\ UNCHANGED <<quests, stored, posts>>
    BY DEF Exit
  <1>n. QuestShape /\ Budget(q) /\ IsFiniteSet(Early(q)) /\ IsFiniteSet(Blind(q))
        /\ posts[q] \in Nat /\ lapses[q] \in Nat
        /\ Cardinality(Early(q)) \in Nat /\ Cardinality(Blind(q)) \in Nat /\ Gap(q) \in {0, 1}
    BY QuestNumbers DEF QuestInv
  <1>2. Early(q)' = {} /\ Blind(q)' = {} /\ Cardinality(Early(q)') = 0 /\ Cardinality(Blind(q)') = 0
    <2>1. 0 \notin Trackers
      BY DEF Trackers
    <2>2. Early(q)' = {} /\ Blind(q)' = {}
      BY <1>1, <2>1 DEF Early, Blind, Asking
    <2> QED
      BY <2>2, FS_EmptySet
  <1>3. Gap(q)' = IF q \notin stored THEN 1 ELSE 0
    BY <1>1 DEF Gap
  <1>4. lapses'[q] = IF q \in marking \ stored THEN lapses[q] + 1 ELSE lapses[q]
    BY <1>1, <1>n, LapsedCounts DEF QuestShape
  <1>5. CASE q \in stored \/ q \in marking
    BY <1>1, <1>2, <1>3, <1>4, <1>5, <1>n DEF Budget
  <1>6. CASE q \notin stored /\ q \notin marking
    <2>1. Cardinality(Early(q)) + Cardinality(Blind(q)) + Gap(q) >= 1
      <3>1. CASE q \in quests[era]
        BY <1>6, <1>n, <3>1 DEF Gap
      <3>2. CASE q \notin quests[era] /\ UnderWay(q, era) = {}
        <4>1. era \in Trackers
          BY <1>1, <1>n, QuestAssumption DEF QuestShape, Trackers
        <4>2. era \in Blind(q)
          BY <3>2, <4>1 DEF Blind
        <4>3. Cardinality(Blind(q)) # 0
          BY <1>n, <4>2, FS_EmptySet
        <4> QED
          BY <1>n, <4>3
      <3>3. CASE UnderWay(q, era) # {}
        <4>1. PICK h \in handlers : h.quest = q /\ h.step # "new"
          BY <3>3 DEF UnderWay
        <4>2. h.step \in QuestSteps /\ h.step # "mark"
          BY <1>6, <1>n, <4>1 DEF QuestShape, Jobs
        <4>3. h \in Early(q)
          BY <4>1, <4>2 DEF Early, QuestSteps
        <4>4. Cardinality(Early(q)) # 0
          BY <1>n, <4>3, FS_EmptySet
        <4> QED
          BY <1>n, <4>4
      <3> QED
        BY <3>1, <3>2, <3>3
    <2>2. lapses'[q] = lapses[q] /\ Gap(q)' = 1
      BY <1>3, <1>4, <1>6
    <2> QED
      BY <1>1, <1>2, <1>n, <2>1, <2>2 DEF Budget
  <1> QED
    BY <1>5, <1>6

\* Every step of the tracker keeps the invariant.
LEMMA QuestNextInv == QuestInv /\ [QuestNext]_qtVars => QuestInv'
  <1> SUFFICES ASSUME QuestInv, [QuestNext]_qtVars, QuestShape' PROVE \A q \in Quests : Budget(q)'
    BY QuestShapeNext DEF QuestInv
  <1>1. ASSUME NEW q \in Quests, UNCHANGED <<era, quests, stored, handlers, posts, lapses>> PROVE Budget(q)'
    BY <1>1 DEF QuestInv, Budget, Early, Blind, Gap, Asking, UnderWay
  <1>2. CASE Refill \/ Close \/ UNCHANGED qtVars
    BY <1>1, <1>2 DEF Refill, Close, qtVars
  <1> QED
    BY <1>2, BudgetEvent, BudgetLookUp, BudgetToken, BudgetFails, BudgetMark, BudgetNew, BudgetExit
       DEF QuestNext, Handle

\* The invariant that the theorem about the quests follows from.
THEOREM QuestInvariant == QuestSpec => []QuestInv
  BY QuestStart, QuestNextInv, PTL DEF QuestSpec

\* The invariant gives the types.
LEMMA QuestTypes == QuestInv => QuestTypeOK
  BY DEF QuestInv, QuestShape, QuestTypeOK, Jobs, QuestSteps

\* The invariant bounds what was posted.
LEMMA QuestPosted == QuestInv => PostedOnce
  <1> SUFFICES ASSUME QuestInv, NEW q \in Quests PROVE posts[q] <= 1 + lapses[q]
    BY DEF PostedOnce
  <1> QED
    BY QuestNumbers DEF QuestInv, Budget

-----------------------------------------------------------------------------
(* The release notes                                                       *)
Lookups == {"none", "published", "missing", "failed", "limited"}
NotesTo(n) == {x \in [note : 0..n, gen : Nat, saved : BOOLEAN] : x.saved => x.note # NoNote}
SavesTo(n) == [tag : Tags, note : 1..n, gen : Nat, before : 0..n, listed : BOOLEAN,
               removed : SUBSET (Tags \X (1..n)), staged : Nat]
Saving == save # NoSave
RemovedTags == IF Saving THEN {r[1] : r \in save.removed} ELSE {}
Staged == IF Saving THEN save.staged ELSE 0
Kept == Records \cup RemovedTags

NotesShape ==
  /\ arrivals \in Nat /\ disk \in [Tags -> 0..arrivals] /\ junk \in Nat
  /\ session \in [Tags -> NotesTo(arrivals)] /\ gens \in [Tags -> Nat]
  /\ results \in [Tags -> Lookups] /\ offered \in Tags \cup {NoTag}
  /\ fetches \subseteq [tag : Tags, gen : Nat]
  /\ save \in SavesTo(arrivals) \cup {NoSave}
  /\ slips \in [lost : {slips.lost}, extra : Nat]
  /\ junk + Staged <= Junk
\* The note shown is never of a later request than the last one.
GensInv ==
  /\ \A t \in Tags : session[t].gen <= gens[t]
  /\ \A f \in fetches : f.gen \in 1..gens[f.tag]
  /\ Saving => save.gen <= gens[save.tag] /\ session[save.tag].gen <= save.gen
\* The save under way: its note is in place, and what it removed is gone.
SaveInv ==
  Saving =>
    /\ disk[save.tag] = save.note
    /\ \A r \in save.removed : r[1] # save.tag /\ disk[r[1]] = NoNote
    /\ \A r, s \in save.removed : r[1] = s[1] => r = s
\* What the session calls saved is in its file, or among what the save has
\* removed and may put back.
FileInv ==
  \A t \in Tags \ (pruned \cup slips.lost) :
    session[t].saved => \/ disk[t] = session[t].note
                        \/ Saving /\ (t = save.tag \/ <<t, session[t].note>> \in save.removed)
\* The files there are, with those the save under way may put back.
CountInv ==
  Cardinality(Kept) + junk + Staged
    <= MaxRecords + slips.extra + (IF Saving /\ save.before = NoNote THEN 1 ELSE 0)
\* The runs of the process are counted.
RunsInv == runs \in Nat
NotesInv == NotesShape /\ GensInv /\ SaveInv /\ FileInv /\ CountInv

\* A save under way is not the record that stands for none.
LEMMA SaveIsNotNoSave == \A n : NoSave \notin SavesTo(n)
  <1> SUFFICES ASSUME NEW n, NoSave \in SavesTo(n) PROVE FALSE
    OBVIOUS
  <1>1. "note" \in DOMAIN NoSave
    BY DEF SavesTo
  <1>2. DOMAIN NoSave = {"tag"}
    BY DEF NoSave
  <1> QED
    BY <1>1, <1>2

\* What was possible after n notes is possible after one more.
LEMMA NotesGrow ==
  ASSUME NEW n \in Nat
  PROVE  NotesTo(n) \subseteq NotesTo(n + 1) /\ SavesTo(n) \subseteq SavesTo(n + 1)
  BY DEF NotesTo, SavesTo

\* There are finitely many files.
LEMMA FilesFinite == IsFiniteSet(Records) /\ IsFiniteSet(Records')
  BY NotesAssumption, FS_Subset DEF Records

\* Reading a saved note fills an empty place of the session with generation 0.
LEMMA LoadedEffect ==
  ASSUME NotesShape, NEW t \in Tags, LoadNote(t)
  PROVE  /\ session' \in [Tags -> NotesTo(arrivals)]
         /\ \A u \in Tags : \/ session'[u] = session[u]
                            \/ session'[u].gen = 0 /\ session[u].gen = 0 /\ session'[u].note = disk[u]
  <1>1. CASE session' = session
    BY <1>1 DEF NotesShape
  <1>2. CASE session[t] = Unread /\ disk[t] # NoNote
             /\ session' = [session EXCEPT ![t] = [note |-> disk[t], gen |-> 0, saved |-> TRUE]]
    <2>1. PICK y : y = [note |-> disk[t], gen |-> 0, saved |-> TRUE]
      OBVIOUS
    <2>2. y \in NotesTo(arrivals) /\ y.gen = 0 /\ y.note = disk[t]
      BY <1>2, <2>1 DEF NotesTo, NotesShape
    <2>3. session' = [session EXCEPT ![t] = y] /\ session[t].gen = 0
      BY <1>2, <2>1 DEF Unread
    <2> QED
      BY <2>2, <2>3 DEF NotesShape
  <1> QED
    BY <1>1, <1>2 DEF LoadNote

\* Look-ups and answers that write nothing.
LEMMA NotesQuiet ==
  ASSUME NotesInv, UNCHANGED <<disk, junk, offered, arrivals, save, pruned, slips>>,
         session' = session \/ (~Saving /\ \E t \in Tags : LoadNote(t)),
         gens' \in [Tags -> Nat], \A t \in Tags : gens[t] <= gens'[t],
         fetches' \subseteq [tag : Tags, gen : Nat], \A f \in fetches' : f.gen \in 1..gens'[f.tag],
         results' \in [Tags -> Lookups]
  PROVE  NotesInv' /\ \A t \in Tags : session'[t].gen >= session[t].gen
  <1>1. /\ session' \in [Tags -> NotesTo(arrivals)]
        /\ \A u \in Tags : \/ session'[u] = session[u]
                           \/ session'[u].gen = 0 /\ session[u].gen = 0 /\ session'[u].note = disk[u]
        /\ Saving => session' = session
    BY LoadedEffect DEF NotesInv, NotesShape
  <1>2. \A t \in Tags : session[t].gen \in Nat /\ gens[t] \in Nat /\ gens'[t] \in Nat
    BY DEF NotesInv, NotesShape, NotesTo
  <1>3. NotesShape'
    BY <1>1 DEF NotesInv, NotesShape, Staged, Saving, SavesTo, NoSave
  <1>4. GensInv'
    <2>1. \A t \in Tags : session'[t].gen <= gens'[t]
      BY <1>1, <1>2 DEF NotesInv, GensInv
    <2>2. Saving => save.tag \in Tags /\ save.gen \in Nat
      BY DEF NotesInv, NotesShape, Saving, SavesTo
    <2>3. Saving => save.gen <= gens'[save.tag] /\ session'[save.tag].gen <= save.gen
      BY <1>1, <1>2, <2>2 DEF NotesInv, GensInv
    <2> QED
      BY <2>1, <2>3 DEF GensInv, Saving, NoSave
  <1>5. SaveInv'
    BY DEF NotesInv, SaveInv, Saving, NoSave
  <1>6. FileInv'
    BY <1>1 DEF NotesInv, FileInv, Saving, NoSave
  <1>7. CountInv'
    BY DEF NotesInv, CountInv, Kept, Records, RemovedTags, Staged, Saving, NoSave
  <1>8. \A t \in Tags : session'[t].gen >= session[t].gen
    BY <1>1, <1>2
  <1> QED
    BY <1>3, <1>4, <1>5, <1>6, <1>7, <1>8 DEF NotesInv

\* A note of the last request arrives and is kept, saved or about to be.
LEMMA NotesArrive ==
  ASSUME NotesInv, ~Saving, NEW t \in Tags, NEW gen, gen = gens'[t], Arrive(t, gen),
         gens' \in [Tags -> Nat], \A u \in Tags : gens[u] <= gens'[u],
         fetches' \subseteq [tag : Tags, gen : Nat], \A f \in fetches' : f.gen \in 1..gens'[f.tag],
         offered' \in Tags \cup {NoTag}
  PROVE  NotesInv' /\ \A u \in Tags : session'[u].gen >= session[u].gen
  <1>0. /\ arrivals' = arrivals + 1 /\ arrivals \in Nat /\ gen \in Nat /\ save = NoSave
        /\ RemovedTags = {} /\ Staged = 0
        /\ slips \in [lost : {slips.lost}, extra : Nat] /\ junk \in Nat
        /\ \A u \in Tags : session[u].gen \in Nat /\ session[u].note <= arrivals
    BY DEF Arrive, Saving, NotesInv, NotesShape, RemovedTags, Staged, NotesTo
  <1>c. /\ Cardinality(Records) + junk <= MaxRecords + slips.extra
        /\ slips.extra \in Nat /\ Cardinality(Records) \in Nat /\ MaxRecords \in Nat
    <2>1. Kept = Records
      BY <1>0 DEF Kept
    <2> QED
      BY <1>0, <2>1, FilesFinite, FS_CardinalityType, NotesAssumption DEF NotesInv, CountInv
  <1>1. /\ session \in [Tags -> NotesTo(arrivals')] /\ disk \in [Tags -> 0..arrivals'] /\ arrivals' \in Nat
        /\ arrivals' \in 1..arrivals' /\ NotesTo(arrivals) \subseteq NotesTo(arrivals')
    BY <1>0, NotesGrow DEF NotesInv, NotesShape
  <1>2. IsFiniteSet(Records) /\ IsFiniteSet(Records')
    BY FilesFinite
  \* The session gets the note, unsaved.
  <1>3. ASSUME Keep(t, arrivals', gen, FALSE)
        PROVE  /\ session' \in [Tags -> NotesTo(arrivals')] /\ results' \in [Tags -> Lookups] /\ pruned' = pruned
               /\ session'[t].gen = gen /\ ~session'[t].saved
               /\ \A u \in Tags \ {t} : session'[u] = session[u]
    <2>1. PICK y : y = [note |-> arrivals', gen |-> gen, saved |-> FALSE]
      OBVIOUS
    <2>2. y \in NotesTo(arrivals') /\ y.gen = gen /\ ~y.saved
      BY <1>0, <1>1, <2>1 DEF NotesTo
    <2>3. session' = [session EXCEPT ![t] = y] /\ pruned' = pruned
          /\ results' = [results EXCEPT ![t] = "published"]
      BY <1>3, <2>1 DEF Keep
    <2> QED
      BY <1>1, <2>2, <2>3 DEF NotesInv, NotesShape, Lookups
  <1>4. ASSUME Keep(t, arrivals', gen, FALSE), UNCHANGED save
        PROVE  /\ \A u \in Tags : session'[u].gen >= session[u].gen
               /\ GensInv' /\ SaveInv' /\ ~Saving' /\ RemovedTags' = {} /\ Staged' = 0
    <2>1. \A u \in Tags : session[u].gen <= gens'[u] /\ gens'[u] \in Nat
      BY <1>0 DEF NotesInv, NotesShape, GensInv
    <2>2. \A u \in Tags : session'[u].gen <= gens'[u] /\ session'[u].gen >= session[u].gen
      BY <1>0, <1>3, <1>4, <2>1
    <2>3. ~Saving' /\ RemovedTags' = {} /\ Staged' = 0
      BY <1>0, <1>4 DEF Saving, RemovedTags, Staged, NoSave
    <2> QED
      BY <2>2, <2>3 DEF GensInv, SaveInv
  <1>5. CASE Keep(t, arrivals', gen, FALSE) /\ UNCHANGED <<disk, junk, save, slips>>
    <2>1. NotesShape'
      BY <1>0, <1>1, <1>3, <1>4, <1>5 DEF NotesInv, NotesShape
    <2>2. FileInv'
      BY <1>0, <1>3, <1>5 DEF NotesInv, FileInv, Saving
    <2>3. CountInv'
      <3>1. Kept' = Records
        BY <1>4, <1>5 DEF Kept, Records
      <3>2. ~Saving' /\ Staged' = 0 /\ junk' = junk /\ slips' = slips
        BY <1>4, <1>5
      <3>3. Cardinality(Kept') + junk' + Staged' <= MaxRecords + slips'.extra + 0
        BY <1>0, <1>c, <3>1, <3>2
      <3> QED
        BY <3>2, <3>3 DEF CountInv
    <2> QED
      BY <1>4, <1>5, <2>1, <2>2, <2>3 DEF NotesInv
  <1>6. CASE /\ Keep(t, arrivals', gen, FALSE) /\ disk' = [disk EXCEPT ![t] = arrivals']
             /\ slips' = [slips EXCEPT !.extra = @ + 1] /\ UNCHANGED <<junk, save>>
    <2>1. slips' \in [lost : {slips'.lost}, extra : Nat] /\ slips'.lost = slips.lost /\ slips'.extra = slips.extra + 1
      BY <1>0, <1>6
    <2>2. disk' \in [Tags -> 0..arrivals'] /\ \A u \in Tags \ {t} : disk'[u] = disk[u]
      BY <1>1, <1>6
    <2>3. NotesShape'
      BY <1>0, <1>1, <1>3, <1>4, <1>6, <2>1, <2>2 DEF NotesInv, NotesShape
    <2>4. FileInv'
      BY <1>0, <1>3, <1>6, <2>1, <2>2 DEF NotesInv, FileInv, Saving
    <2>5. CountInv'
      <3>1. Records' \subseteq Records \cup {t}
        BY <2>2 DEF Records
      <3>2. Cardinality(Records') <= Cardinality(Records) + 1 /\ Cardinality(Records') \in Nat
            /\ Cardinality(Records) \in Nat
        <4>1. IsFiniteSet(Records \cup {t})
              /\ Cardinality(Records \cup {t}) \in {Cardinality(Records), Cardinality(Records) + 1}
          BY <1>2, FS_AddElement
        <4>2. Cardinality(Records') <= Cardinality(Records \cup {t}) /\ Cardinality(Records') \in Nat
              /\ Cardinality(Records \cup {t}) \in Nat
          BY <1>2, <3>1, <4>1, FS_Subset, FS_CardinalityType
        <4> QED
          BY <1>c, <4>1, <4>2
      <3>3. Kept' = Records'
        BY <1>4, <1>6 DEF Kept
      <3>4. ~Saving' /\ Staged' = 0 /\ junk' = junk
        BY <1>4, <1>6
      <3>5. Cardinality(Kept') + junk' + Staged' <= MaxRecords + slips'.extra + 0
        BY <1>0, <1>c, <2>1, <3>2, <3>3, <3>4
      <3> QED
        BY <3>4, <3>5 DEF CountInv
    <2> QED
      BY <1>4, <1>6, <2>3, <2>4, <2>5 DEF NotesInv
  <1>7. CASE /\ disk' = [disk EXCEPT ![t] = arrivals']
             /\ \E listed \in BOOLEAN :
                  save' = [tag |-> t, note |-> arrivals', gen |-> gen, before |-> disk[t],
                           listed |-> listed, removed |-> {}, staged |-> 0]
             /\ UNCHANGED <<junk, session, results, pruned, slips>>
    <2>1. /\ save'.tag = t /\ save'.note = arrivals' /\ save'.gen = gen /\ save'.before = disk[t]
          /\ save'.removed = {} /\ save'.staged = 0 /\ save' \in SavesTo(arrivals')
      BY <1>0, <1>1, <1>7 DEF SavesTo
    <2>2. Saving' /\ RemovedTags' = {} /\ Staged' = 0
      <3>1. Saving'
        BY <2>1, SaveIsNotNoSave DEF Saving, NoSave
      <3> QED
        BY <2>1, <3>1 DEF RemovedTags, Staged
    <2>3. disk' \in [Tags -> 0..arrivals'] /\ disk'[t] = arrivals' /\ \A u \in Tags \ {t} : disk'[u] = disk[u]
      BY <1>1, <1>7
    <2>4. NotesShape'
      BY <1>0, <1>1, <1>7, <2>1, <2>2, <2>3 DEF NotesInv, NotesShape
    <2>5. GensInv' /\ \A u \in Tags : session'[u].gen >= session[u].gen
      <3>1. \A u \in Tags : session[u].gen <= gens'[u] /\ gens'[u] \in Nat
        BY <1>0 DEF NotesInv, NotesShape, GensInv
      <3> QED
        BY <1>0, <1>7, <2>1, <3>1 DEF GensInv
    <2>6. SaveInv'
      BY <2>1, <2>3 DEF SaveInv
    <2>7. FileInv'
      BY <1>0, <1>7, <2>1, <2>2, <2>3 DEF NotesInv, FileInv, Saving
    <2>8. CountInv'
      <3>1. Records' = Records \cup {t} /\ (t \in Records <=> disk[t] # NoNote)
        BY <1>0, <1>1, <2>3 DEF Records, NoNote
      <3>2. Cardinality(Records') = IF disk[t] = NoNote THEN Cardinality(Records) + 1 ELSE Cardinality(Records)
        BY <1>2, <3>1, FS_AddElement
      <3>3. Cardinality(Records) \in Nat /\ Kept' = Records'
        BY <1>2, <2>2, FS_CardinalityType DEF Kept
      <3> QED
        BY <1>0, <1>c, <1>7, <2>1, <2>2, <3>2, <3>3, NotesAssumption DEF CountInv
    <2> QED
      BY <2>4, <2>5, <2>6, <2>7, <2>8 DEF NotesInv
  <1> QED
    BY <1>5, <1>6, <1>7 DEF Arrive

\* The fields of the save under way.
LEMMA SaveFields ==
  ASSUME NotesInv, Saving
  PROVE  /\ save.tag \in Tags /\ save.note \in 1..arrivals /\ save.gen \in Nat /\ save.before \in 0..arrivals
         /\ save.removed \subseteq (Tags \X (1..arrivals)) /\ save.staged \in Nat
         /\ Staged = save.staged /\ RemovedTags = {r[1] : r \in save.removed}
         /\ IsFiniteSet(Kept) /\ Cardinality(Kept) \in Nat /\ Records \subseteq Kept
  <1>1. save \in SavesTo(arrivals)
    BY DEF NotesInv, NotesShape, Saving
  <1>2. RemovedTags = {r[1] : r \in save.removed} /\ RemovedTags \subseteq Tags /\ Staged = save.staged
    BY <1>1 DEF RemovedTags, Staged, SavesTo
  <1>3. Kept \subseteq Tags /\ Records \subseteq Kept
    BY <1>2 DEF Kept, Records
  <1>4. IsFiniteSet(Kept) /\ Cardinality(Kept) \in Nat
    BY <1>3, NotesAssumption, FS_Subset, FS_CardinalityType
  <1> QED
    BY <1>1, <1>2, <1>3, <1>4 DEF SavesTo

\* While too many files are left, one of them may be removed.
LEMMA OldestRemovable ==
  ASSUME NotesInv, Saving, Count > MaxRecords, junk = 0,
         Cardinality(Records \ Removable) <= MaxRecords
  PROVE  Oldest(Removable) \in Removable
  <1>1. save.tag \in Records /\ Cardinality(Records) > MaxRecords
    <2>1. save.tag \in Tags /\ disk[save.tag] \in 1..arrivals
      BY SaveFields DEF NotesInv, SaveInv
    <2>2. save.tag \in Records
      BY <2>1 DEF Records, NoNote
    <2>3. Cardinality(Records) \in Nat /\ Cardinality(Records) + junk > MaxRecords
      BY FilesFinite, FS_CardinalityType DEF Count
    <2> QED
      BY <2>2, <2>3
  <1>2. Removable # {}
    <2> SUFFICES ASSUME Removable = {} PROVE FALSE
      OBVIOUS
    <2>1. Records \ Removable = Records
      OBVIOUS
    <2>2. Cardinality(Records) <= MaxRecords /\ Cardinality(Records) \in Nat
      BY <2>1, FilesFinite, FS_CardinalityType
    <2> QED
      BY <1>1, <2>2, NotesAssumption
  <1>3. IsFiniteSet(Removable) /\ \A u \in Removable : disk[u] \in Int
    BY FilesFinite, FS_Subset DEF Removable, Records, NotesInv, NotesShape
  <1>4. \E x \in Removable : \A y \in Removable : disk[x] <= disk[y]
    <2> DEFINE R == {p \in Removable \X Removable : disk[p[1]] <= disk[p[2]]}
    <2>1. \A x, y \in Removable : <<x, y>> \in R <=> disk[x] <= disk[y]
      OBVIOUS
    <2> HIDE DEF R
    <2>2. \A x, y \in Removable : <<x, y>> \in R \/ <<y, x>> \in R
      <3>1. \A x, y \in Removable : disk[x] <= disk[y] \/ disk[y] <= disk[x]
        BY <1>3
      <3> QED
        BY <2>1, <3>1
    <2>3. \A x, y, z \in Removable : <<x, y>> \in R /\ <<y, z>> \in R => <<x, z>> \in R
      BY <1>3, <2>1
    <2>4. \E x \in Removable : \A y \in Removable : <<x, y>> \in R
      BY <1>2, <1>3, <2>2, <2>3, FiniteLeast
    <2> QED
      BY <2>1, <2>4
  <1> QED
    BY <1>4 DEF Oldest

\* Pruning moves one file from the directory to what the save may put back.
LEMMA NotesPruneOne ==
  ASSUME NotesInv, PruneOne
  PROVE  NotesInv' /\ session' = session
  <1>0. Saving /\ Count > MaxRecords /\ session' = session /\ slips' = slips /\ pruned' = pruned
        /\ UNCHANGED <<offered, gens, results, fetches, arrivals>>
    BY DEF PruneOne, Saving
  <1>1. /\ save.tag \in Tags /\ save.note \in 1..arrivals /\ save.gen \in Nat /\ save.before \in 0..arrivals
        /\ save.removed \subseteq (Tags \X (1..arrivals)) /\ save.staged \in Nat
        /\ Staged = save.staged /\ RemovedTags = {r[1] : r \in save.removed} /\ save \in SavesTo(arrivals)
    BY <1>0, SaveFields DEF NotesInv, NotesShape, Saving
  <1>2. CASE junk > 0
    <2>1. junk' = junk - 1 /\ disk' = disk /\ save' = [save EXCEPT !.staged = @ + 1]
      BY <1>2 DEF PruneOne
    <2>2. /\ save' \in SavesTo(arrivals) /\ save'.staged = save.staged + 1
          /\ save'.tag = save.tag /\ save'.note = save.note /\ save'.gen = save.gen
          /\ save'.before = save.before /\ save'.removed = save.removed
      BY <1>1, <2>1 DEF SavesTo
    <2>3. Saving'
      BY <1>0, <2>2, SaveIsNotNoSave DEF Saving, NoSave
    <2>4. Records' = Records /\ Staged' = Staged + 1 /\ RemovedTags' = RemovedTags
      BY <1>0, <1>1, <2>1, <2>2, <2>3 DEF Records, Staged, RemovedTags
    <2>5. NotesShape'
      BY <1>0, <1>1, <1>2, <2>1, <2>2, <2>4 DEF NotesInv, NotesShape
    <2>6. GensInv'
      BY <1>0, <2>2 DEF NotesInv, GensInv
    <2>7. SaveInv'
      BY <1>0, <2>1, <2>2, <2>4 DEF NotesInv, SaveInv
    <2>8. FileInv'
      BY <1>0, <2>1, <2>2, <2>3 DEF NotesInv, FileInv
    <2>9. CountInv'
      <3>1. Kept' = Kept /\ Cardinality(Kept) \in Nat
        BY <1>0, <2>4, SaveFields DEF Kept
      <3> QED
        BY <1>0, <1>1, <1>2, <2>1, <2>2, <2>3, <2>4, <3>1 DEF NotesInv, NotesShape, CountInv
    <2> QED
      BY <1>0, <2>5, <2>6, <2>7, <2>8, <2>9 DEF NotesInv
  <1>3. CASE ~(junk > 0)
    <2>1. junk = 0 /\ junk' = 0
      BY <1>3 DEF PruneOne, NotesInv, NotesShape
    <2>2. PICK t \in Removable : /\ disk' = [disk EXCEPT ![t] = NoNote]
                                 /\ save' = [save EXCEPT !.removed = @ \cup {<<t, disk[t]>>}]
      BY <1>0, <1>3, <2>1, OldestRemovable DEF PruneOne
    <2>3. /\ t \in Tags /\ t # save.tag /\ t \in Records /\ disk[t] \in 1..arrivals
          /\ t \notin {Installed, offered}
      BY <1>0, <2>2 DEF Removable, Records, Protected, NotesInv, NotesShape, NoNote
    <2>4. /\ save' \in SavesTo(arrivals) /\ save'.removed = save.removed \cup {<<t, disk[t]>>}
          /\ save'.tag = save.tag /\ save'.note = save.note /\ save'.gen = save.gen
          /\ save'.before = save.before /\ save'.staged = save.staged
      BY <1>1, <2>2, <2>3 DEF SavesTo
    <2>5. disk' \in [Tags -> 0..arrivals] /\ disk'[t] = NoNote /\ \A u \in Tags \ {t} : disk'[u] = disk[u]
      BY <2>2, <2>3 DEF NotesInv, NotesShape, NoNote
    <2>6. Saving'
      BY <1>0, <2>4, SaveIsNotNoSave DEF Saving, NoSave
    <2>7. Records' = Records \ {t} /\ Staged' = Staged
      <3>1. Records' = Records \ {t}
        BY <2>3, <2>5 DEF Records
      <3> QED
        BY <1>0, <1>1, <2>3, <2>4, <2>6, <3>1 DEF Staged
    <2>8. RemovedTags' = RemovedTags \cup {t}
      <3>1. RemovedTags' = {r[1] : r \in save.removed \cup {<<t, disk[t]>>}}
        BY <2>4, <2>6 DEF RemovedTags
      <3>2. PICK p : p = <<t, disk[t]>>
        OBVIOUS
      <3>3. p[1] = t /\ RemovedTags' = {r[1] : r \in save.removed} \cup {p[1]}
        BY <3>1, <3>2
      <3> QED
        BY <1>1, <3>3
    <2>9. NotesShape'
      BY <1>0, <1>1, <2>1, <2>4, <2>5, <2>7 DEF NotesInv, NotesShape
    <2>10. GensInv'
      BY <1>0, <2>4 DEF NotesInv, GensInv
    <2>11. SaveInv'
      <3>1. disk'[save'.tag] = save'.note
        BY <1>0, <1>1, <2>3, <2>4, <2>5, <2>7 DEF NotesInv, SaveInv
      <3>2. \A r \in save.removed : r[1] \in Tags /\ r[1] # save.tag /\ disk[r[1]] = NoNote /\ r[1] # t
        BY <1>0, <1>1, <2>3 DEF NotesInv, SaveInv, NoNote
      <3>3. \A r \in save'.removed : r[1] # save'.tag /\ disk'[r[1]] = NoNote
        BY <2>3, <2>4, <2>5, <3>2
      <3>4. \A r, s \in save'.removed : r[1] = s[1] => r = s
        BY <1>0, <2>4, <3>2 DEF NotesInv, SaveInv
      <3> QED
        BY <3>1, <3>3, <3>4 DEF SaveInv
    <2>12. FileInv'
      <3> SUFFICES ASSUME NEW u \in Tags \ (pruned \cup slips.lost), session[u].saved, u # save.tag
                   PROVE  disk'[u] = session[u].note \/ <<u, session[u].note>> \in save'.removed
        BY <1>0, <2>4, <2>6 DEF FileInv
      <3>1. disk[u] = session[u].note \/ <<u, session[u].note>> \in save.removed
        BY <1>0 DEF NotesInv, FileInv
      <3> QED
        BY <2>4, <2>5, <3>1
    <2>13. CountInv'
      <3>1. Kept' = Kept /\ Cardinality(Kept) \in Nat
        BY <1>0, <2>3, <2>7, <2>8, SaveFields DEF Kept
      <3> QED
        BY <1>0, <2>1, <2>4, <2>6, <2>7, <3>1 DEF NotesInv, CountInv
    <2> QED
      BY <1>0, <2>9, <2>10, <2>11, <2>12, <2>13 DEF NotesInv
  <1> QED
    BY <1>2, <1>3

\* What a save leaves, whichever way it ends.
LEMMA SaveEnds ==
  ASSUME NotesInv, Saving, save' = NoSave, UNCHANGED <<gens, offered, fetches, arrivals>>,
         NEW ok \in BOOLEAN,
         session' = [session EXCEPT ![save.tag] = [note |-> save.note, gen |-> save.gen, saved |-> ok]],
         results' = [results EXCEPT ![save.tag] = "published"]
  PROVE  /\ ~Saving' /\ RemovedTags' = {} /\ Staged' = 0 /\ Kept' = Records' /\ SaveInv' /\ GensInv'
         /\ session' \in [Tags -> NotesTo(arrivals)] /\ results' \in [Tags -> Lookups]
         /\ session'[save.tag].note = save.note /\ session'[save.tag].saved = ok
         /\ \A u \in Tags \ {save.tag} : session'[u] = session[u]
         /\ \A u \in Tags : session'[u].gen >= session[u].gen
  <1>1. ~Saving' /\ RemovedTags' = {} /\ Staged' = 0 /\ Kept' = Records'
    BY DEF Saving, RemovedTags, Staged, Kept, NoSave
  <1>2. /\ save.tag \in Tags /\ save.note \in 1..arrivals /\ save.gen \in Nat /\ arrivals \in Nat
        /\ session \in [Tags -> NotesTo(arrivals)]
    BY SaveFields DEF NotesInv, NotesShape
  <1>3. PICK y : y = [note |-> save.note, gen |-> save.gen, saved |-> ok]
    OBVIOUS
  <1>4. y \in NotesTo(arrivals) /\ y.note = save.note /\ y.gen = save.gen /\ y.saved = ok
    BY <1>2, <1>3 DEF NotesTo, NoNote
  <1>5. /\ session' \in [Tags -> NotesTo(arrivals)] /\ session'[save.tag] = y
        /\ \A u \in Tags \ {save.tag} : session'[u] = session[u]
    BY <1>2, <1>3, <1>4
  <1>6. \A u \in Tags : session[u].gen \in Nat /\ gens[u] \in Nat
    BY DEF NotesInv, NotesShape, NotesTo
  <1>7. \A u \in Tags : session'[u].gen >= session[u].gen /\ session'[u].gen <= gens[u]
    BY <1>2, <1>4, <1>5, <1>6 DEF NotesInv, GensInv
  <1>8. SaveInv' /\ GensInv'
    BY <1>1, <1>7 DEF SaveInv, GensInv, NotesInv
  <1>9. results' \in [Tags -> Lookups]
    BY <1>2 DEF NotesInv, NotesShape, Lookups
  <1> QED
    BY <1>1, <1>4, <1>5, <1>7, <1>8, <1>9

\* A complete save leaves the note in its file and no file too many.
LEMMA NotesPruneDone ==
  ASSUME NotesInv, PruneDone
  PROVE  NotesInv' /\ \A u \in Tags : session'[u].gen >= session[u].gen
  <1>0. /\ Saving /\ (save.listed => Count <= MaxRecords) /\ save' = NoSave /\ disk' = disk /\ junk' = junk
        /\ UNCHANGED <<gens, offered, fetches, arrivals>>
        /\ session' = [session EXCEPT ![save.tag] = [note |-> save.note, gen |-> save.gen, saved |-> TRUE]]
        /\ results' = [results EXCEPT ![save.tag] = "published"]
        /\ pruned' = (pruned \cup {r[1] : r \in save.removed}) \ {save.tag}
        /\ slips' = [lost |-> slips.lost \ {save.tag},
                     extra |-> IF save.listed THEN 0 ELSE slips.extra + 1]
    BY DEF PruneDone, Saving
  <1>1. /\ ~Saving' /\ RemovedTags' = {} /\ Staged' = 0 /\ Kept' = Records' /\ SaveInv' /\ GensInv'
        /\ session' \in [Tags -> NotesTo(arrivals)] /\ results' \in [Tags -> Lookups]
        /\ session'[save.tag].note = save.note /\ session'[save.tag].saved = TRUE
        /\ \A u \in Tags \ {save.tag} : session'[u] = session[u]
        /\ \A u \in Tags : session'[u].gen >= session[u].gen
    BY <1>0, SaveEnds
  <1>2. /\ slips'.lost = slips.lost \ {save.tag} /\ slips.extra \in Nat
        /\ slips'.extra = (IF save.listed THEN 0 ELSE slips.extra + 1)
        /\ slips' \in [lost : {slips'.lost}, extra : Nat]
    BY <1>0 DEF NotesInv, NotesShape
  <1>3. NotesShape'
    <2>1. junk \in Nat /\ junk <= Junk
      BY <1>0, SaveFields, NotesAssumption DEF NotesInv, NotesShape
    <2> QED
      BY <1>0, <1>1, <1>2, <2>1 DEF NotesInv, NotesShape
  <1>4. FileInv'
    <2> SUFFICES ASSUME NEW u \in Tags \ (pruned' \cup slips'.lost), session'[u].saved
                 PROVE  disk'[u] = session'[u].note
      BY DEF FileInv
    <2>1. CASE u = save.tag
      BY <1>0, <1>1, <2>1 DEF NotesInv, SaveInv
    <2>2. CASE u # save.tag
      <3>1. u \notin pruned /\ u \notin slips.lost /\ session'[u] = session[u]
            /\ \A r \in save.removed : r[1] # u
        BY <1>0, <1>1, <1>2, <2>2
      <3>2. <<u, session[u].note>> \notin save.removed
        BY <3>1
      <3> QED
        BY <1>0, <2>2, <3>1, <3>2 DEF NotesInv, FileInv
    <2> QED
      BY <2>1, <2>2
  <1>5. CountInv'
    <2>1. Kept' = Records /\ Cardinality(Records) \in Nat /\ junk \in Nat
      BY <1>0, <1>1, FilesFinite, FS_CardinalityType DEF Records, NotesInv, NotesShape
    <2>2. CASE save.listed
      BY <1>0, <1>1, <1>2, <2>1, <2>2, NotesAssumption DEF CountInv, Count
    <2>3. CASE ~save.listed
      <3>1. Cardinality(Records) <= Cardinality(Kept) /\ Cardinality(Kept) \in Nat /\ Staged \in Nat
        BY <1>0, SaveFields, FS_Subset
      <3> QED
        BY <1>0, <1>1, <1>2, <2>1, <2>3, <3>1, NotesAssumption DEF NotesInv, CountInv
    <2> QED
      BY <2>2, <2>3
  <1> QED
    BY <1>1, <1>3, <1>4, <1>5 DEF NotesInv

\* A save that fails puts back what it can, and the session does not call it saved.
LEMMA NotesPruneFails ==
  ASSUME NotesInv, Saving, NEW back \in SUBSET save.removed, NEW undone \in BOOLEAN,
         PruneFails(back, undone)
  PROVE  NotesInv' /\ \A u \in Tags : session'[u].gen >= session[u].gen
  <1>0. /\ save' = NoSave /\ junk' = junk + save.staged /\ UNCHANGED <<gens, offered, fetches, arrivals>>
        /\ session' = [session EXCEPT ![save.tag] = [note |-> save.note, gen |-> save.gen, saved |-> FALSE]]
        /\ results' = [results EXCEPT ![save.tag] = "published"] /\ pruned' = pruned
    BY DEF PruneFails, Keep
  <1>1. /\ ~Saving' /\ RemovedTags' = {} /\ Staged' = 0 /\ Kept' = Records' /\ SaveInv' /\ GensInv'
        /\ session' \in [Tags -> NotesTo(arrivals)] /\ results' \in [Tags -> Lookups]
        /\ session'[save.tag].saved = FALSE
        /\ \A u \in Tags \ {save.tag} : session'[u] = session[u]
        /\ \A u \in Tags : session'[u].gen >= session[u].gen
    BY <1>0, SaveEnds
  <1>2. /\ save.tag \in Tags /\ save.note \in 1..arrivals /\ save.before \in 0..arrivals
        /\ save.removed \subseteq (Tags \X (1..arrivals)) /\ save.staged \in Nat /\ Staged = save.staged
        /\ RemovedTags = {r[1] : r \in save.removed}
    BY SaveFields
  <1>3. /\ slips'.lost = slips.lost \cup {r[1] : r \in save.removed \ back}
        /\ slips'.extra = slips.extra + (IF undone THEN 0 ELSE 1)
        /\ slips' \in [lost : {slips'.lost}, extra : Nat] /\ slips.extra \in Nat
    BY DEF PruneFails, NotesInv, NotesShape
  <1>4. \A r \in back : r \in save.removed /\ r = <<r[1], r[2]>> /\ r[1] \in Tags /\ r[2] \in 1..arrivals
    BY <1>2
  \* What each file is afterwards.
  <1>5. /\ DOMAIN disk' = Tags /\ disk' = [u \in Tags |-> disk'[u]]
        /\ disk'[save.tag] = IF undone THEN save.before ELSE save.note
        /\ \A r \in back : disk'[r[1]] = r[2]
        /\ \A u \in Tags \ {save.tag} : (\A r \in back : r[1] # u) => disk'[u] = disk[u]
    <2>1. disk' = [u \in Tags |-> IF u = save.tag THEN (IF undone THEN save.before ELSE save.note)
                                  ELSE IF \E r \in back : r[1] = u
                                  THEN (CHOOSE r \in back : r[1] = u)[2] ELSE disk[u]]
      BY DEF PruneFails
    <2>2. ASSUME NEW r \in back PROVE disk'[r[1]] = r[2]
      <3>1. r[1] \in Tags /\ r[1] # save.tag /\ \A s \in back : s[1] = r[1] => s = r
        BY <1>4 DEF NotesInv, SaveInv
      <3>2. (CHOOSE s \in back : s[1] = r[1]) = r
        BY <3>1
      <3> QED
        BY <2>1, <3>1, <3>2
    <2> QED
      BY <1>2, <2>1, <2>2
  <1>6. disk' \in [Tags -> 0..arrivals]
    <2>1. \A u \in Tags : disk'[u] \in 0..arrivals
      BY <1>2, <1>4, <1>5 DEF NotesInv, NotesShape
    <2> QED
      BY <1>5, <2>1
  <1>7. NotesShape'
    BY <1>0, <1>1, <1>2, <1>3, <1>6 DEF NotesInv, NotesShape
  <1>8. FileInv'
    <2> SUFFICES ASSUME NEW u \in Tags \ (pruned' \cup slips'.lost), session'[u].saved
                 PROVE  disk'[u] = session'[u].note
      BY DEF FileInv
    <2>1. /\ u # save.tag /\ u \notin pruned /\ u \notin slips.lost /\ session'[u] = session[u]
          /\ session[u].note # NoNote
      BY <1>0, <1>1, <1>3 DEF NotesInv, NotesShape, NotesTo
    <2>2. CASE <<u, session[u].note>> \in save.removed
      <3>1. <<u, session[u].note>> \in back
        BY <1>3, <2>2
      <3> QED
        BY <1>5, <2>1, <3>1
    <2>3. CASE disk[u] = session[u].note
      <3>1. \A r \in back : r[1] # u
        BY <1>4, <2>1, <2>3 DEF NotesInv, SaveInv
      <3> QED
        BY <1>5, <2>1, <2>3, <3>1
    <2> QED
      BY <2>1, <2>2, <2>3 DEF NotesInv, FileInv
  <1>9. CountInv'
    <2>1. IsFiniteSet(Kept) /\ Cardinality(Kept) \in Nat /\ IsFiniteSet(Records') /\ Cardinality(Records') \in Nat
      BY SaveFields, FilesFinite, FS_CardinalityType
    <2>2. Records' \subseteq Kept
      <3>1. ASSUME NEW u \in Records' PROVE u \in Kept
        <4>1. CASE u = save.tag
          BY <1>2, <4>1 DEF NotesInv, SaveInv, Kept, Records, NoNote
        <4>2. CASE \E r \in back : r[1] = u
          BY <1>2, <1>4, <4>2 DEF Kept
        <4>3. CASE u # save.tag /\ \A r \in back : r[1] # u
          BY <1>5, <4>3 DEF Kept, Records
        <4> QED
          BY <4>1, <4>2, <4>3
      <3> QED
        BY <3>1
    <2>3. Cardinality(Records') <= Cardinality(Kept)
      BY <2>1, <2>2, FS_Subset
    <2>4. CASE undone /\ save.before = NoNote
      <3>1. save.tag \in Kept /\ Records' \subseteq Kept \ {save.tag}
        BY <1>2, <1>5, <2>2, <2>4 DEF Records, Kept, NotesInv, SaveInv, NoNote
      <3>2. Cardinality(Kept \ {save.tag}) = Cardinality(Kept) - 1 /\ IsFiniteSet(Kept \ {save.tag})
        BY <2>1, <3>1, FS_RemoveElement
      <3>3. Cardinality(Records') <= Cardinality(Kept) - 1
        BY <3>1, <3>2, FS_Subset
      <3> QED
        BY <1>0, <1>1, <1>2, <1>3, <2>1, <2>4, <3>3, NotesAssumption DEF NotesInv, NotesShape, CountInv
    <2>5. CASE ~(undone /\ save.before = NoNote)
      BY <1>0, <1>1, <1>2, <1>3, <2>1, <2>3, <2>5, NotesAssumption DEF NotesInv, NotesShape, CountInv
    <2> QED
      BY <2>4, <2>5
  <1> QED
    BY <1>1, <1>7, <1>8, <1>9 DEF NotesInv

\* A process that ends in the middle of a save leaves at most its file over.
LEMMA NotesRestart ==
  ASSUME NotesInv, Restart
  PROVE  NotesInv'
  <1>0. /\ session' = [t \in Tags |-> Unread] /\ gens' = [t \in Tags |-> 0]
        /\ results' = [t \in Tags |-> "none"] /\ offered' = NoTag /\ fetches' = {} /\ save' = NoSave
        /\ disk' = disk /\ junk' = junk /\ arrivals' = arrivals
        /\ slips' = [slips EXCEPT !.extra = @ + (IF save = NoSave THEN 0 ELSE 1)]
    BY DEF Restart
  <1>1. ~Saving' /\ RemovedTags' = {} /\ Staged' = 0 /\ Kept' = Records
    BY <1>0 DEF Saving, RemovedTags, Staged, Kept, Records, NoSave
  <1>2. /\ slips.extra \in Nat /\ slips' \in [lost : {slips'.lost}, extra : Nat]
        /\ slips'.extra = slips.extra + (IF save = NoSave THEN 0 ELSE 1)
    BY <1>0 DEF NotesInv, NotesShape
  <1>3. Unread \in NotesTo(arrivals) /\ Unread.gen = 0 /\ ~Unread.saved
    BY DEF Unread, NotesTo, NoNote, NotesInv, NotesShape
  <1>4. NotesShape'
    <2>1. junk <= Junk /\ junk \in Nat
      BY NotesAssumption, SaveFields DEF NotesInv, NotesShape, Staged
    <2> QED
      BY <1>0, <1>1, <1>2, <1>3, <2>1 DEF NotesInv, NotesShape, Lookups
  <1>5. GensInv' /\ SaveInv' /\ FileInv'
    BY <1>0, <1>1, <1>3 DEF GensInv, SaveInv, FileInv
  <1>6. CountInv'
    <2>1. Cardinality(Records) \in Nat /\ junk \in Nat
      BY FilesFinite, FS_CardinalityType DEF NotesInv, NotesShape
    <2>2. CASE Saving
      <3>1. Cardinality(Records) <= Cardinality(Kept) /\ Cardinality(Kept) \in Nat /\ Staged \in Nat
        BY <2>2, SaveFields, FS_Subset
      <3> QED
        BY <1>0, <1>1, <1>2, <2>1, <2>2, <3>1, NotesAssumption DEF NotesInv, CountInv, Saving
    <2>3. CASE ~Saving
      <3>1. Kept = Records /\ Staged = 0
        BY <2>3 DEF Kept, RemovedTags, Staged
      <3> QED
        BY <1>0, <1>1, <1>2, <2>1, <2>3, <3>1, NotesAssumption DEF NotesInv, CountInv, Saving
    <2> QED
      BY <2>2, <2>3
  <1> QED
    BY <1>4, <1>5, <1>6 DEF NotesInv

\* The directory holds no note at first.
LEMMA NotesStart == NotesInit => NotesInv
  <1> SUFFICES ASSUME NotesInit PROVE NotesInv
    OBVIOUS
  <1>1. ~Saving /\ RemovedTags = {} /\ Staged = 0 /\ Records = {} /\ Kept = {}
    BY DEF NotesInit, Saving, RemovedTags, Staged, Records, Kept, NoSave
  <1>2. Unread \in NotesTo(0) /\ Unread.gen = 0 /\ ~Unread.saved
    BY DEF Unread, NotesTo, NoNote
  <1>3. NotesShape
    BY <1>1, <1>2, NotesAssumption DEF NotesInit, NotesShape, Lookups, NoNote
  <1>4. GensInv /\ SaveInv /\ FileInv
    BY <1>1, <1>2 DEF NotesInit, GensInv, SaveInv, FileInv
  <1>5. CountInv
    BY <1>1, NotesAssumption, FS_EmptySet DEF NotesInit, CountInv
  <1> QED
    BY <1>3, <1>4, <1>5 DEF NotesInv

\* Every step keeps the invariant, and in one run no note gives way to an older.
LEMMA NotesNextInv ==
  ASSUME NotesInv, runs \in Nat, [NotesNext]_rnVars
  PROVE  NotesInv' /\ runs' \in Nat /\ (runs' = runs => \A t \in Tags : session'[t].gen >= session[t].gen)
  <1>0. /\ arrivals \in Nat /\ gens \in [Tags -> Nat] /\ fetches \subseteq [tag : Tags, gen : Nat]
        /\ results \in [Tags -> Lookups] /\ offered \in Tags \cup {NoTag}
        /\ \A f \in fetches : f.gen \in 1..gens[f.tag]
        /\ ~Saving <=> save = NoSave
        /\ \A t \in Tags : gens[t] <= gens[t]
    BY DEF NotesInv, NotesShape, GensInv, Saving
  <1>1. ASSUME NEW t \in Tags, Read(t) PROVE NotesInv' /\ \A u \in Tags : session'[u].gen >= session[u].gen
    BY <1>0, <1>1, NotesQuiet DEF Read
  <1>2. ASSUME NEW t \in Tags, Refresh(t) PROVE NotesInv' /\ \A u \in Tags : session'[u].gen >= session[u].gen
    <2>1. PICK f : f = [tag |-> t, gen |-> gens'[t]]
      OBVIOUS
    <2>2. /\ gens' \in [Tags -> Nat] /\ gens'[t] = gens[t] + 1 /\ gens'[t] \in 1..gens'[t]
          /\ \A u \in Tags \ {t} : gens'[u] = gens[u]
      BY <1>0, <1>2 DEF Refresh
    <2>3. f \in [tag : Tags, gen : Nat] /\ f.tag = t /\ f.gen = gens'[t] /\ fetches' = fetches \cup {f}
      BY <1>2, <2>1, <2>2 DEF Refresh
    <2>4. \A u \in Tags : gens[u] <= gens'[u] /\ gens[u] \in Nat /\ gens'[u] \in Nat
      BY <1>0, <2>2
    <2>5. \A g \in fetches' : g.gen \in 1..gens'[g.tag]
      <3> SUFFICES ASSUME NEW g \in fetches' PROVE g.gen \in 1..gens'[g.tag]
        OBVIOUS
      <3>1. CASE g = f
        BY <2>2, <2>3, <3>1
      <3>2. CASE g \in fetches
        BY <1>0, <2>4, <3>2
      <3> QED
        BY <2>3, <3>1, <3>2
    <2>6. fetches' \subseteq [tag : Tags, gen : Nat]
      BY <1>0, <2>3
    <2> QED
      BY <1>0, <1>2, <2>2, <2>4, <2>5, <2>6, NotesQuiet DEF Refresh
  <1>3. ASSUME NEW t \in Tags, RetryAt(t) PROVE NotesInv' /\ \A u \in Tags : session'[u].gen >= session[u].gen
    <2>1. results' \in [Tags -> Lookups]
      BY <1>0, <1>3 DEF RetryAt, Lookups
    <2> QED
      BY <1>0, <1>3, <2>1, NotesQuiet DEF RetryAt
  <1>4. ASSUME NEW f \in fetches, Superseded(f)
        PROVE  NotesInv' /\ \A u \in Tags : session'[u].gen >= session[u].gen
    <2>1. f.tag \in Tags /\ fetches' \subseteq fetches
      BY <1>0, <1>4 DEF Superseded
    <2> QED
      BY <1>0, <1>4, <2>1, NotesQuiet DEF Superseded
  <1>5. ASSUME NEW f \in fetches, NEW lookup \in {"missing", "failed", "limited"}, Unpublished(f, lookup)
        PROVE  NotesInv' /\ \A u \in Tags : session'[u].gen >= session[u].gen
    <2>1. f.tag \in Tags /\ fetches' \subseteq fetches
      BY <1>0, <1>5 DEF Unpublished
    <2>2. results' \in [Tags -> Lookups]
      BY <1>0, <1>5, <2>1 DEF Unpublished, Lookups
    <2> QED
      BY <1>0, <1>5, <2>1, <2>2, NotesQuiet DEF Unpublished
  <1>6. ASSUME NEW f \in fetches, Published(f)
        PROVE  NotesInv' /\ \A u \in Tags : session'[u].gen >= session[u].gen
    <2>1. f.tag \in Tags /\ fetches' \subseteq fetches /\ f.gen = gens'[f.tag] /\ gens' = gens
          /\ ~Saving /\ offered' = offered /\ Arrive(f.tag, f.gen)
      BY <1>0, <1>6 DEF Published, Current
    <2>2. /\ gens' \in [Tags -> Nat] /\ \A u \in Tags : gens[u] <= gens'[u]
          /\ fetches' \subseteq [tag : Tags, gen : Nat] /\ \A g \in fetches' : g.gen \in 1..gens'[g.tag]
          /\ offered' \in Tags \cup {NoTag}
      BY <1>0, <2>1
    <2> QED
      BY <2>1, <2>2, NotesArrive
  <1>7. ASSUME NEW t \in Tags, RememberOffer(t)
        PROVE  NotesInv' /\ \A u \in Tags : session'[u].gen >= session[u].gen
    <2>1. /\ gens' \in [Tags -> Nat] /\ gens'[t] = gens[t] + 1 /\ \A u \in Tags \ {t} : gens'[u] = gens[u]
      BY <1>0, <1>7 DEF RememberOffer
    <2>2. \A u \in Tags : gens[u] <= gens'[u] /\ gens[u] \in Nat /\ gens'[u] \in Nat
      BY <1>0, <2>1
    <2>3. \A f \in fetches' : f.gen \in 1..gens'[f.tag]
      BY <1>0, <1>7, <2>2 DEF RememberOffer
    <2>4. fetches' = fetches /\ offered' \in Tags \cup {NoTag} /\ ~Saving /\ Arrive(t, gens'[t])
      BY <1>0, <1>7 DEF RememberOffer
    <2> QED
      BY <1>0, <2>1, <2>2, <2>3, <2>4, NotesArrive
  <1>8. ASSUME PruneOne PROVE NotesInv' /\ \A u \in Tags : session'[u].gen >= session[u].gen
    <2>1. \A u \in Tags : session[u].gen \in Nat
      BY DEF NotesInv, NotesShape, NotesTo
    <2> QED
      BY <1>8, <2>1, NotesPruneOne
  <1>9. ASSUME PruneDone PROVE NotesInv' /\ \A u \in Tags : session'[u].gen >= session[u].gen
    BY <1>9, NotesPruneDone
  <1>10. ASSUME NEW undone \in BOOLEAN,
                NEW back \in SUBSET (IF save = NoSave THEN {} ELSE save.removed), PruneFails(back, undone)
         PROVE  NotesInv' /\ \A u \in Tags : session'[u].gen >= session[u].gen
    <2>1. Saving /\ back \in SUBSET save.removed
      BY <1>0, <1>10 DEF PruneFails
    <2> QED
      BY <1>10, <2>1, NotesPruneFails
  <1>11. ASSUME Restart PROVE NotesInv' /\ runs' # runs
    BY <1>11, NotesRestart DEF Restart
  <1>12. CASE UNCHANGED rnVars
    <2>1. \A u \in Tags : session[u].gen \in Nat
      BY DEF NotesInv, NotesShape, NotesTo
    <2> QED
      BY <1>0, <1>12, <2>1, NotesQuiet DEF rnVars
  <1>13. runs' \in Nat
    <2>1. ASSUME NEW t, NEW gen, Arrive(t, gen) PROVE runs' = runs
      BY <2>1 DEF Arrive
    <2>2. CASE \E t \in Tags : Read(t) \/ Refresh(t) \/ RetryAt(t) \/ RememberOffer(t)
      BY <2>1, <2>2 DEF Read, Refresh, RetryAt, RememberOffer
    <2>3. CASE \E f \in fetches : \/ Superseded(f) \/ Published(f)
                                  \/ \E lookup \in {"missing", "failed", "limited"} : Unpublished(f, lookup)
      BY <2>1, <2>3 DEF Superseded, Published, Unpublished
    <2>4. CASE PruneOne \/ PruneDone \/ Restart \/ UNCHANGED rnVars
      BY <2>4 DEF PruneOne, PruneDone, Restart, rnVars
    <2>5. ASSUME NEW back, NEW undone, PruneFails(back, undone) PROVE runs' = runs
      BY <2>5 DEF PruneFails
    <2> QED
      BY <2>2, <2>3, <2>4, <2>5 DEF NotesNext
  <1> QED
    BY <1>1, <1>2, <1>3, <1>4, <1>5, <1>6, <1>7, <1>8, <1>9, <1>10, <1>11, <1>12, <1>13 DEF NotesNext

\* The invariant that the theorems about the release notes follow from.
THEOREM NotesInvariant == NotesSpec => [](NotesInv /\ RunsInv)
  <1>1. NotesInit => RunsInv
    BY DEF NotesInit, RunsInv
  <1>2. NotesInv /\ RunsInv /\ [NotesNext]_rnVars => NotesInv' /\ RunsInv'
    BY NotesNextInv DEF RunsInv
  <1> QED
    BY <1>1, <1>2, NotesStart, PTL DEF NotesSpec

\* The invariant gives the types.
LEMMA NotesTypes == NotesInv => NotesTypeOK
  <1> SUFFICES ASSUME NotesInv PROVE NotesTypeOK
    OBVIOUS
  <1>1. junk \in 0..Junk
    <2>1. Staged \in Nat
      BY SaveFields DEF Staged
    <2> QED
      BY <2>1, NotesAssumption DEF NotesInv, NotesShape
  <1> QED
    BY <1>1 DEF NotesInv, NotesShape, GensInv, NotesTypeOK, NotesTo, NoNote, Lookups

\* The invariant gives what is in the files.
LEMMA NotesSaved == NotesInv => SavedIsOnDisk
  BY DEF NotesInv, FileInv, SavedIsOnDisk, Saving

\* The invariant bounds the files.
LEMMA NotesBounded == NotesInv => CacheBounded
  <1> SUFFICES ASSUME NotesInv, save = NoSave PROVE Count <= MaxRecords + slips.extra
    BY DEF CacheBounded
  <1>1. Kept = Records /\ Staged = 0 /\ ~Saving
    BY DEF Kept, RemovedTags, Staged, Saving
  <1>2. Cardinality(Records) \in Nat /\ junk \in Nat /\ slips.extra \in Nat
    BY FilesFinite, FS_CardinalityType DEF NotesInv, NotesShape
  <1> QED
    BY <1>1, <1>2, NotesAssumption DEF NotesInv, CountInv, Count

\* Published, RememberOffer and a save that ends give the session a note of the
\* last request; what is read from a file only fills an empty place.
THEOREM NotesNeverGoBack == NotesSpec => NoteNeverGoesBack
  <1>1. NotesInv /\ RunsInv /\ [NotesNext]_rnVars
        => [\A t \in Tags : runs' = runs => session'[t].gen >= session[t].gen]_rnVars
    BY NotesNextInv DEF RunsInv
  <1> QED
    BY <1>1, NotesInvariant, PTL DEF NotesSpec, NoteNeverGoesBack

-----------------------------------------------------------------------------
(* The application: every behaviour of Desktop is one of each service.     *)

\* A step of the application is a step of the service it follows, and leaves the
\* other services as they are.
LEMMA ServiceSteps ==
  ASSUME [Next]_vars
  PROVE  /\ [MapWindowNext]_mwVars /\ [OverlayNext]_ovVars /\ [ScreenshotsNext]_ssVars
         /\ [WatcherNext]_lwVars /\ [TrackingNext]_trVars /\ [QuestNext]_qtVars /\ [NotesNext]_rnVars
  BY DEF Next, vars

\* The application runs each of its services as the service itself would.
THEOREM ServicesRun ==
  Spec => /\ MapWindowSpec /\ OverlaySpec /\ ScreenshotsSpec /\ WatcherSpec
          /\ TrackingSpec /\ QuestSpec /\ NotesSpec
  <1>1. Init => /\ MapWindowInit /\ OverlayInit /\ ScreenshotsInit /\ WatcherInit
                /\ TrackingInit /\ QuestInit /\ NotesInit
    BY DEF Init
  <1>2. [Next]_vars => /\ [MapWindowNext]_mwVars /\ [OverlayNext]_ovVars /\ [ScreenshotsNext]_ssVars
                       /\ [WatcherNext]_lwVars /\ [TrackingNext]_trVars /\ [QuestNext]_qtVars
                       /\ [NotesNext]_rnVars
    BY ServiceSteps
  <1> QED
    BY <1>1, <1>2, PTL DEF Spec, MapWindowSpec, OverlaySpec, ScreenshotsSpec, WatcherSpec,
                           TrackingSpec, QuestSpec, NotesSpec

\* handleWebSocket and Broadcast: a page that has its fullState was given every
\* broadcast that is over, in that state or alone.
THEOREM PagesHearAll == Spec => []NoBroadcastMissed
  BY ServicesRun, NoPageMissesABroadcast, PTL

\* A page at rest shows a member where the server has that member, unless one of the
\* events that ShowsLatest names misled it since the last message about the member.
THEOREM PagesShowLatest == Spec => []ShowsLatest
  BY ServicesRun, OverlayInvariant, OverlayShown, PTL

\* A screenshot is handed on once, unless two callbacks crossed in processFile.
THEOREM ShotsOnce == Spec => []TwiceOnlyIfCrossed
  BY ServicesRun, ShotsAreHandedOnOnce, PTL

\* StopMonitoring leaves no timer but the ones an older callback made it forget.
THEOREM ShotsStopped == Spec => []StopLeavesOrphans
  BY ServicesRun, ShotsStop, PTL

\* No writer of the map window's document takes a placement or a look back, but the
\* first save of a process that could not load the file.
THEOREM PlacementKept == Spec => NothingGoesBack
  BY ServicesRun, WindowNeverGoesBack, PTL

\* The watcher of the game log implements the line feed: the initial read applies the
\* lines there are in order, polling those from where it starts, each once per read.
THEOREM LogIsLineFeed == Spec => FeedsInOrder
  BY ServicesRun, WatcherIsLineFeed, PTL

\* mapLoaded and raidEnded: once its events are handled the map in use is the raid's,
\* or none, unless the handlers of two events finished in the other order.
THEOREM MapsFollowTheLog == Spec => []MapFollowsLog
  BY ServicesRun, TrackInvariant, TrackFollows, PTL

\* SendMapChange: with no handler at work tarkov.dev shows the map ordered last, unless
\* that order was not sent (no connection, a failed write) or was overtaken.
THEOREM SitesFollowTheOrders == Spec => []SiteFollowsOrders
  BY ServicesRun, TrackInvariant, TrackFollows, PTL

\* A window of the throttle sees one position beside those injected or requested and
\* those of screenshots that passed the throttle while it knew less than was sent.
THEOREM PositionsThrottled == Spec => []ThrottleHolds
  BY ServicesRun, TrackInvariant, TrackThrottled, PTL

\* Every post of a quest beyond the first answers to one event that lost what would
\* have stopped it: a crossing look-up, a lost answer or mark, a file that was not loaded.
THEOREM QuestsPostedOnce == Spec => []PostedOnce
  BY ServicesRun, QuestInvariant, QuestPosted, PTL

\* writeRecordLocked: a note called saved is in its file.
THEOREM NotesAreOnDisk == Spec => []SavedIsOnDisk
  BY ServicesRun, NotesInvariant, NotesSaved, PTL

\* pruneLocked: the cache holds its limit, and one file more for each save since the
\* last pruning that could not list the files, was not undone, or was cut short.
THEOREM NotesAreBounded == Spec => []CacheBounded
  BY ServicesRun, NotesInvariant, NotesBounded, PTL

\* No answer, however late, replaces the note of a newer request.
THEOREM NotesOfNewestRequest == Spec => NoteNeverGoesBack
  BY ServicesRun, NotesNeverGoBack, PTL

\* The window is opened inside a monitor that is there, whatever the document says
\* and whichever monitor has gone since.
THEOREM WindowsOpenOnScreen == Spec => []OpensOnScreen
  BY ServicesRun, WindowOpensOnScreen, PTL

\* Every service keeps its state among those its code can have.
THEOREM TypesKept == Spec => []TypeOK
  <1> DEFINE Follows == svc \in Services
  <1>1. Init => Follows
    BY DEF Init
  <1>2. Follows /\ [Next]_vars => Follows'
    BY DEF Next, vars
  <1>3. Spec => []Follows
    BY <1>1, <1>2, PTL DEF Spec
  <1>4. /\ OverlayInv => OverlayTypeOK
        /\ TrackInv => TrackingTypeOK
        /\ QuestInv => QuestTypeOK
        /\ NotesInv /\ RunsInv => NotesTypeOK
    BY OverlayTypes, TrackTypes, QuestTypes, NotesTypes
  <1>5. /\ Follows /\ MapWindowTypeOK /\ OverlayTypeOK /\ ScreenshotsTypeOK
        /\ WatcherTypeOK /\ TrackingTypeOK /\ QuestTypeOK /\ NotesTypeOK
        => TypeOK
    BY DEF TypeOK
  <1> QED
    BY <1>3, <1>4, <1>5, ServicesRun, WindowTypes, OverlayInvariant, ShotsTypes, LogTypeCorrect,
       TrackInvariant, QuestInvariant, NotesInvariant, PTL
==============================================================================
