----------------------------- MODULE QuestTracker -----------------------------
(***************************************************************************)
(* Reporting completed quests to TarkovTracker: the tracker and its rate   *)
(* limiter (internal/tracker) and the storage of what was reported         *)
(* (internal/storage/quest_storage.go).                                    *)
(*                                                                         *)
(* Each quest event is handled by a goroutine that looks the quest up,     *)
(* waits for a token, posts it and marks it; nothing is held from one step *)
(* to the next.  Stopping the integration closes the tracker, starting it  *)
(* again makes another one with its own limiter and its own copy of the    *)
(* storage, over the same file; the handlers of the first live on.         *)
(***************************************************************************)
EXTENDS Integers, FiniteSets

CONSTANTS
  Quests,
  MaxTokens,     \* the limiter's buffer, 15 in the code
  MaxCompletions, \* bound: completions reported by the game
  MaxTrackers,   \* bound: trackers made
  MaxMishaps     \* bound: lost answers and saves that fail
ASSUME QuestAssumption == MaxTokens \in Nat /\ MaxTrackers \in Nat \ {0}

VARIABLES
  era,        \* the number of the tracker in use, 0 while the process is down
  closed,     \* the trackers whose ticker is stopped
  made,       \* trackers made so far
  tokens,     \* the tokens of each tracker's limiter
  quests,     \* qs.quests of each tracker
  stored,      \* processed_quests.json: the quests in it
  handlers,   \* the handlers at work: [n, era, quest, step]
  completions, \* quest events so far
  mishaps,
  posts,      \* history: how often TarkovTracker took each quest
  lapses      \* history: how often what keeps a quest from being posted again was lost

qtVars == <<era, closed, made, tokens, quests, stored, handlers, completions, mishaps, posts,
            lapses>>
Trackers == 1..MaxTrackers

QuestInit ==
  /\ era = 1 /\ made = 1 /\ closed = {}
  /\ tokens = [e \in Trackers |-> MaxTokens]
  /\ stored = {}
  /\ quests = [e \in Trackers |-> {}]
  /\ handlers = {} /\ completions = 0 /\ mishaps = 0
  /\ posts = [q \in Quests |-> 0] /\ lapses = posts

Advance(h, step) == (handlers \ {h}) \cup {[h EXCEPT !.step = step]}
AtStep(h, step) == h \in handlers /\ h.step = step
UnderWay(q, e) == {h \in handlers : h.quest = q /\ h.era = e /\ h.step # "new"}
Lapsed(qs) == [q \in Quests |-> lapses[q] + (IF q \in qs THEN 1 ELSE 0)]

------------------------------------------------------------------------------
(* The watcher hands the event to a goroutine of the tracker in use. *)
QuestEvent(q) ==
  /\ era # 0 /\ era \notin closed /\ completions < MaxCompletions
  /\ completions' = completions + 1
  /\ handlers' = handlers \cup {[n |-> completions', era |-> era, quest |-> q, step |-> "new"]}
  /\ UNCHANGED <<era, closed, made, tokens, quests, stored, mishaps, posts, lapses>>

(* HasProcessed. Two handlers of one quest may both find it new. *)
LookUp(h) ==
  /\ AtStep(h, "new")
  /\ IF h.quest \in quests[h.era] THEN handlers' = handlers \ {h} /\ UNCHANGED lapses
     ELSE /\ handlers' = Advance(h, "wait")
          /\ lapses' = IF UnderWay(h.quest, h.era) = {} THEN lapses ELSE Lapsed({h.quest})
  /\ UNCHANGED <<era, closed, made, tokens, quests, stored, completions, mishaps, posts>>

(* rateLimiter.wait *)
TakeToken(h) ==
  /\ AtStep(h, "wait") /\ tokens[h.era] > 0
  /\ tokens' = [tokens EXCEPT ![h.era] = @ - 1]
  /\ handlers' = Advance(h, "post")
  /\ UNCHANGED <<era, closed, made, quests, stored, completions, mishaps, posts, lapses>>

(* UpdateTaskStatus: taken, or refused with a status, or an error that     *)
(* leaves open whether it was taken.  A failure is not tried again.        *)
PostTaken(h) ==
  /\ AtStep(h, "post")
  /\ posts' = [posts EXCEPT ![h.quest] = @ + 1]
  /\ handlers' = Advance(h, "mark")
  /\ UNCHANGED <<era, closed, made, tokens, quests, stored, completions, mishaps, lapses>>
PostFails(h) ==
  /\ AtStep(h, "post") /\ mishaps < MaxMishaps
  /\ mishaps' = mishaps + 1
  /\ handlers' = handlers \ {h}
  /\ \/ UNCHANGED <<posts, lapses>>
     \/ posts' = [posts EXCEPT ![h.quest] = @ + 1] /\ lapses' = Lapsed({h.quest})
  /\ UNCHANGED <<era, closed, made, tokens, quests, stored, completions>>

\* Mutant of Mark: the record goes to the file only.
MarkFileOnly(h, written) ==
  /\ AtStep(h, "mark")
  /\ handlers' = handlers \ {h}
  /\ stored' = stored \cup {h.quest} /\ written = "all"
  /\ UNCHANGED <<era, closed, made, tokens, quests, completions, mishaps, posts, lapses>>

(* MarkProcessed: memory, then the whole map over the file.  WriteFile     *)
(* truncates first, so a save that fails may leave nothing that can be     *)
(* loaded.  The save also drops what another tracker wrote meanwhile.      *)
Mark(h, written) ==
  /\ AtStep(h, "mark")
  /\ handlers' = handlers \ {h}
  /\ LET known == quests[h.era] \cup {h.quest}
     IN /\ quests' = [quests EXCEPT ![h.era] = known]
        /\ stored' = CASE written = "all" -> known [] written = "none" -> stored [] OTHER -> {}
        /\ lapses' = Lapsed((stored \cup known) \ stored')
  /\ mishaps' = IF written = "all" THEN mishaps ELSE mishaps + 1
  /\ written = "all" \/ mishaps < MaxMishaps
  /\ UNCHANGED <<era, closed, made, tokens, completions, posts>>

\* Mutant of Refill: the buffer is called full one token early.
RefillShort ==
  /\ era # 0 /\ era \notin closed /\ tokens[era] < MaxTokens - 1
  /\ tokens' = [tokens EXCEPT ![era] = @ + 1]
  /\ UNCHANGED <<era, closed, made, quests, stored, handlers, completions, mishaps, posts, lapses>>

(* refill: once per tick while the ticker runs. *)
Refill ==
  /\ era # 0 /\ era \notin closed /\ tokens[era] < MaxTokens
  /\ tokens' = [tokens EXCEPT ![era] = @ + 1]
  /\ UNCHANGED <<era, closed, made, quests, stored, handlers, completions, mishaps, posts, lapses>>

------------------------------------------------------------------------------
(* Shutdown closes the tracker: its ticker stops, nothing else.            *)
Close ==
  /\ era # 0 /\ era \notin closed
  /\ closed' = closed \cup {era}
  /\ UNCHANGED <<era, made, tokens, quests, stored, handlers, completions, mishaps, posts, lapses>>
(* NewQuestTracker, when the integration starts again or the process does. *)
(* A file that cannot be read or parsed counts as none; what the handlers  *)
(* of another tracker still hold cannot be known.                          *)
NewTracker ==
  /\ made < MaxTrackers /\ (era = 0 \/ era \in closed)
  /\ made' = made + 1 /\ era' = made'
  /\ \E loaded \in {stored, {}} :
       /\ quests' = [quests EXCEPT ![made'] = loaded]
       /\ lapses' = Lapsed((stored \cup {h.quest : h \in handlers}) \ loaded)
  /\ UNCHANGED <<closed, tokens, stored, handlers, completions, mishaps, posts>>
(* The process ends: what was posted and not saved is forgotten. *)
Exit ==
  /\ era # 0 /\ made < MaxTrackers
  /\ era' = 0 /\ closed' = 1..made
  /\ handlers' = {}
  /\ lapses' = Lapsed({h.quest : h \in {k \in handlers : k.step = "mark"}} \ stored)
  /\ UNCHANGED <<made, tokens, quests, stored, completions, mishaps, posts>>

Handle(h) == LookUp(h) \/ PostTaken(h) \/ Mark(h, "all")
QuestNext ==
  \/ \E q \in Quests : QuestEvent(q)
  \/ \E h \in handlers : \/ Handle(h) \/ TakeToken(h) \/ PostFails(h)
                         \/ \E written \in {"none", "part"} : Mark(h, written)
  \/ Refill \/ Close \/ NewTracker \/ Exit

QuestSpec == QuestInit /\ [][QuestNext]_qtVars

------------------------------------------------------------------------------
(* Tokens, trackers and records are the ones the code can have.            *)
QuestTypeOK ==
  /\ era \in 0..made /\ closed \subseteq 1..made
  /\ tokens \in [Trackers -> 0..MaxTokens]
  /\ handlers \subseteq [n : 1..completions, era : 1..made, quest : Quests,
                         step : {"new", "wait", "post", "mark"}]
  /\ quests \in [Trackers -> SUBSET Quests] /\ stored \subseteq Quests

(* Every post of a quest beyond the first is accounted for: by a look-up   *)
(* beside another handler of it, an answer that was lost, a kill before    *)
(* the mark, a save that failed or dropped it, a file that could not be    *)
(* loaded, or a tracker that was replaced under its handler.               *)
PostedOnce == \A q \in Quests : posts[q] <= 1 + lapses[q]

(* No handler works for ever: again and again there is none at work, but   *)
(* for those of a closed tracker, which may wait for a token that never    *)
(* comes.                                                                  *)
HandlersEnd == []<>(\A h \in handlers : h.era \in closed)
==============================================================================
