------------------------------ MODULE LogWatcher ------------------------------
(***************************************************************************)
(* How the game log watcher (internal/game/watcher.go) reads one log file. *)
(* What it holds at the start is read once, most of it to be skipped; then *)
(* a goroutine polls the file: it takes the size, the position it had read *)
(* to, reads what lies between and applies its lines one by one, while the *)
(* game appends.  A line is written in two pieces, so a read may end in    *)
(* the middle of one.  Lines are numbers here; what they say is in         *)
(* MapTracking.                                                            *)
(***************************************************************************)
EXTENDS Integers

CONSTANT MaxLines   \* bound: lines of the log
ASSUME LinesAssumption == MaxLines \in Nat

VARIABLES
  lines,   \* lines begun
  half,    \* TRUE while the last line is half written
  pos,     \* gw.filePositions of the log, in pieces
  poll,    \* the poller: [at, from, to, found], found the lines it has yet to apply
  live,    \* gw.ctx is not cancelled
  since,   \* initialPosition: where polling is to start
  heard,   \* history: the lines applied by polling
  last,    \* history: the line applied last, of the initial read or of polling
  split    \* history: the lines a read ended in the middle of

lwVars == <<lines, half, pos, poll, live, since, heard, last, split>>

Resting == [at |-> "idle", from |-> 0, to |-> 0, found |-> {}]
Pieces == 2 * lines - (IF half THEN 1 ELSE 0)

WatcherInit ==
  /\ lines = 0 /\ half = FALSE /\ pos = 0
  /\ poll = [Resting EXCEPT !.at = "off"] /\ live = TRUE
  /\ since = 0 /\ heard = {} /\ last = 0 /\ split = {}

(* readIncrementalData, parseLogData: a line is found if it begins in the  *)
(* data; one that does not end there may be recognised by its beginning.   *)
Begun(from, to) == {n \in 1..MaxLines : 2 * n - 1 \in (from + 1)..to}
Torn(to) == IF to % 2 = 1 THEN {(to + 1) \div 2} ELSE {}

(* startLogFileWatcher: the application log is polled from its beginning,  *)
(* although what it holds is read first, as far as that can be read; any   *)
(* other from its end, or its beginning if its size cannot be had.         *)
StartLogFileWatcher(application) ==
  /\ poll.at = "off" /\ live
  /\ since' \in IF application THEN {0} ELSE {0, Pieces}
  /\ \E to \in IF application THEN 0..Pieces ELSE {0} :
       /\ pos' = IF to = 0 THEN pos ELSE Pieces
       /\ \E found \in {Begun(0, to), Begun(0, to) \ Torn(to)} :
            poll' = [Resting EXCEPT !.at = "initial", !.found = found]
  /\ UNCHANGED <<lines, half, live, heard, last, split>>
(* processExistingLogContent, line by line. *)
ReadExisting ==
  /\ poll.at = "initial"
  /\ \E n \in poll.found :
       /\ \A k \in poll.found : n <= k
       /\ last' = n
       /\ poll' = [poll EXCEPT !.found = @ \ {n}]
  /\ UNCHANGED <<lines, half, pos, live, since, heard, split>>
StartPolling ==
  /\ poll.at = "initial" /\ poll.found = {}
  /\ pos' = since /\ last' = 0
  /\ poll' = Resting
  /\ UNCHANGED <<lines, half, live, since, heard, split>>

(* The game writes. *)
BeginLine ==
  /\ ~half /\ lines < MaxLines
  /\ lines' = lines + 1 /\ half' = TRUE
  /\ UNCHANGED <<pos, poll, live, since, heard, last, split>>
EndLine ==
  /\ half /\ half' = FALSE
  /\ UNCHANGED <<lines, pos, poll, live, since, heard, last, split>>

(* pollLogFile, checkForNewLogData: a tick may still be taken after Stop,  *)
(* as select chooses between two ready cases.                              *)
PollSize ==
  /\ poll.at = "idle"
  /\ poll' = [poll EXCEPT !.at = "sized", !.to = Pieces]
  /\ UNCHANGED <<lines, half, pos, live, since, heard, last, split>>
PollPosition ==
  /\ poll.at = "sized"
  /\ poll' = IF poll.to <= pos THEN Resting ELSE [poll EXCEPT !.at = "read", !.from = pos]
  /\ UNCHANGED <<lines, half, pos, live, since, heard, last, split>>
\* Mutant of PollFails: an error ends the goroutine.
PollFailsForGood ==
  /\ poll.at \in {"sized", "read"}
  /\ poll' = [Resting EXCEPT !.at = "ended"]
  /\ UNCHANGED <<lines, half, pos, live, since, heard, last, split>>

PollFails ==
  /\ poll.at \in {"sized", "read"}
  /\ poll' = Resting
  /\ UNCHANGED <<lines, half, pos, live, since, heard, last, split>>
PollEnds ==
  /\ poll.at = "idle" /\ ~live
  /\ poll' = [poll EXCEPT !.at = "ended"]
  /\ UNCHANGED <<lines, half, pos, live, since, heard, last, split>>

\* Mutant of PollRead: the position is not stored.
PollReadForgets ==
  /\ poll.at = "read"
  /\ \E found \in {Begun(poll.from, poll.to), Begun(poll.from, poll.to) \ Torn(poll.to)} :
       poll' = IF found = {} THEN Resting
               ELSE [Resting EXCEPT !.at = "lines", !.found = found]
  /\ split' = split \cup Torn(poll.to)
  /\ UNCHANGED <<lines, half, pos, live, since, heard, last>>

PollRead ==
  /\ poll.at = "read"
  /\ \E found \in {Begun(poll.from, poll.to), Begun(poll.from, poll.to) \ Torn(poll.to)} :
       poll' = IF found = {} THEN Resting
               ELSE [Resting EXCEPT !.at = "lines", !.found = found]
  /\ pos' = poll.to
  /\ split' = split \cup Torn(poll.to)
  /\ UNCHANGED <<lines, half, live, since, heard, last>>

(* processLogEvent, for the next line found. *)
ProcessLine ==
  /\ poll.at = "lines"
  /\ \E n \in poll.found :
       /\ \A k \in poll.found : n <= k
       /\ heard' = heard \cup {n} /\ last' = n
       /\ poll' = IF poll.found = {n} THEN Resting ELSE [poll EXCEPT !.found = @ \ {n}]
  /\ UNCHANGED <<lines, half, pos, live, since, split>>

(* Stop cancels the context and clears the positions, whatever the poller  *)
(* is doing.                                                               *)
StopWatcher ==
  /\ live /\ live' = FALSE /\ pos' = 0
  /\ UNCHANGED <<lines, half, poll, since, heard, last, split>>

Poller == PollSize \/ PollPosition \/ PollRead \/ ProcessLine
WatcherNext ==
  \/ BeginLine \/ EndLine \/ ReadExisting \/ StartPolling \/ Poller \/ PollFails \/ PollEnds \/ StopWatcher
  \/ \E application \in BOOLEAN : StartLogFileWatcher(application)

WatcherSpec == WatcherInit /\ [][WatcherNext]_lwVars

------------------------------------------------------------------------------
(* The poller's state is one of those of the code, its positions lie in    *)
(* the file, and only lines of the file have been applied.                 *)
WatcherTypeOK ==
  /\ poll.at \in {"off", "initial", "idle", "sized", "read", "lines", "ended"}
  /\ pos \in 0..Pieces /\ poll.from \in 0..Pieces /\ poll.to \in 0..Pieces
  /\ since \in 0..Pieces /\ heard \cup split \subseteq 1..lines

(* The watcher implements a line feed: however the game's writes, the      *)
(* polls and their failures interleave, a line is applied at most once by  *)
(* the initial read and at most once by polling, in order in each, but for *)
(* a last replay after Stop has cleared the positions.                     *)
Feed == INSTANCE LineFeed WITH written <- lines, heard <- last, open <- live,
                               started <- poll.at \notin {"off", "initial"}
FeedsInOrder == Feed!Spec

(* Once started the watcher catches up again and again, unless it is       *)
(* stopped: every such line that another one follows is applied or torn.   *)
CaughtUp == \A n \in 1..(lines - 1) : n \in heard \cup split \/ 2 * n - 1 <= since
LinesAreHeard == (poll.at # "off") ~> (CaughtUp \/ ~live)
==============================================================================
