----------------------------- MODULE MapTracking -----------------------------
(***************************************************************************)
(* How the application knows the player's map and sends positions: what    *)
(* the game log watcher makes of a line (internal/game/watcher.go) and the *)
(* handlers of the integration service (internal/integration).             *)
(*                                                                         *)
(* Every event of the watcher, every screenshot and every request of the   *)
(* site is handled by a goroutine of its own: the integration's state is   *)
(* changed or read under its lock, tarkov.dev is told after it, if its     *)
(* connection is up and takes the message.  n is an event's place in the   *)
(* log, k an order's place among those given to the site.                  *)
(***************************************************************************)
EXTENDS Integers, FiniteSets

CONSTANTS
  Maps,                           \* normalized map names
  MaxEntries, MaxShots, MaxWindow,  \* bounds: lines, screenshots, throttle windows
  MaxChoices                      \* bound: overrides, positions injected or requested
ASSUME TrackingAssumption == MaxWindow \in Nat

VARIABLES
  raid,      \* gw.raidInfo: [map, started, ended]
  lineCount, \* lines applied by the watcher so far
  events,    \* the event handlers at work: [n, k, step, map]
  ran,       \* history: [last, top], the event handled last, the newest one handled
  current,   \* i.currentNormalizedMap
  override,  \* i.manualMapOverride
  choices,   \* overrides, injections and requests so far
  wanted,    \* history: [k, map], the last order, of a map event or an override
  site,      \* [k, map], the order tarkov.dev has followed last
  orders,    \* history: [top, lost], the newest order it followed, those never sent
  window,    \* the throttle window it is: time divided by the throttle
  lastSent,  \* i.lastPositionUpdate, as a window
  shotCount, \* screenshots so far
  shots,     \* the screenshot handlers at work: [n, step, at]
  latest,    \* history: the latest that lastSent has been
  sent       \* history: by window, [all, asked, slipped]: the positions sent, those
             \* somebody asked for, those that slipped through the throttle

trVars == <<raid, lineCount, events, ran, current, override, choices, wanted,
            site, orders, window, lastSent, shotCount, shots, latest, sent>>
raidVars == <<raid, lineCount>>
eventVars == <<events, ran, current>>
siteVars == <<wanted, site, orders>>
userVars == <<override, choices>>
shotVars == <<window, lastSent, shotCount, shots, latest, sent>>

NoMap == "none"
NoRaid == [map |-> NoMap, started |-> FALSE, ended |-> FALSE]
Unsent == -1
Lines == {<<"map", m>> : m \in Maps} \cup {<<k>> : k \in {"loaded", "started", "profile", "over"}}

TrackingInit ==
  /\ raid = NoRaid /\ lineCount = 0
  /\ events = {} /\ ran = [last |-> 0, top |-> 0]
  /\ current = NoMap /\ override = NoMap /\ choices = 0
  /\ wanted = [k |-> 0, map |-> NoMap] /\ site = wanted
  /\ orders = [top |-> 0, lost |-> {}]
  /\ window = 0 /\ lastSent = Unsent /\ shotCount = 0 /\ shots = {} /\ latest = Unsent
  /\ sent = [w \in 0..MaxWindow |-> [all |-> 0, asked |-> 0, slipped |-> 0]]

------------------------------------------------------------------------------
(* processLogEvent: what a line does to raidInfo, and the event of it that *)
(* concerns the map: a map, or none.  "profile" is the return to the menu, *)
(* "over" the notification of the raid's end, from the other log.          *)
RaidAfter(line) ==
  CASE line[1] = "map" -> [raid EXCEPT !.map = line[2]]
    [] line[1] = "loaded" -> [NoRaid EXCEPT !.map = raid.map]
    [] line[1] = "started" -> [raid EXCEPT !.started = TRUE]
    [] line[1] = "profile" -> [raid EXCEPT !.ended = @ \/ raid.started]
    [] line[1] = "over" -> NoRaid
Emitted(line) ==
  CASE line[1] = "map" -> {line[2]}
    [] line[1] = "profile" -> IF raid.started /\ ~raid.ended THEN {NoMap} ELSE {}
    [] line[1] = "over" -> {NoMap}
    [] OTHER -> {}
ProcessLogEvent(line) ==
  /\ lineCount < MaxEntries
  /\ lineCount' = lineCount + 1
  /\ raid' = RaidAfter(line)
  /\ events' = events \cup {[n |-> lineCount', k |-> 0, step |-> "new", map |-> m] : m \in Emitted(line)}
  /\ UNCHANGED <<ran, current, siteVars, userVars, shotVars>>

(* SendMapChange: nothing is sent while the connection is down, a failed   *)
(* write is logged; neither is tried again.                                *)
SendMapChange(k, map) ==
  \/ /\ site' = [k |-> k, map |-> map]
     /\ orders' = [orders EXCEPT !.top = IF k > @ THEN k ELSE @]
  \/ /\ orders' = [orders EXCEPT !.lost = @ \cup {k}]
     /\ UNCHANGED site
Order(map) == [k |-> wanted.k + 1, map |-> map]

\* Mutants of HandleEvent: the end of a raid does not clear its map; the site is told
\* only of a raid's first map.
HandleEventKeeps(e) ==
  /\ e \in events /\ e.step = "new"
  /\ ran' = [last |-> e.n, top |-> IF e.n > ran.top THEN e.n ELSE ran.top]
  /\ IF e.map = NoMap
     THEN events' = events \ {e} /\ UNCHANGED <<current, override, wanted>>
     ELSE /\ current' = e.map /\ override' = NoMap
          /\ wanted' = Order(e.map)
          /\ events' = (events \ {e}) \cup {[e EXCEPT !.step = "navigate", !.k = wanted'.k]}
  /\ UNCHANGED <<raidVars, site, orders, choices, shotVars>>
HandleEventOnce(e) ==
  /\ e \in events /\ e.step = "new"
  /\ current' = e.map
  /\ ran' = [last |-> e.n, top |-> IF e.n > ran.top THEN e.n ELSE ran.top]
  /\ IF e.map = NoMap
     THEN events' = events \ {e} /\ UNCHANGED <<override, wanted>>
     ELSE /\ override' = NoMap
          /\ wanted' = Order(e.map)
          /\ events' = (events \ {e}) \cup
                         (IF current # NoMap THEN {}
                          ELSE {[e EXCEPT !.step = "navigate", !.k = wanted'.k]})
  /\ UNCHANGED <<raidVars, site, orders, choices, shotVars>>

(* mapLoaded, raidEnded, raidExited: the map replaces the user's choice,   *)
(* a raid's end clears it.                                                 *)
HandleEvent(e) ==
  /\ e \in events /\ e.step = "new"
  /\ current' = e.map
  /\ ran' = [last |-> e.n, top |-> IF e.n > ran.top THEN e.n ELSE ran.top]
  /\ IF e.map = NoMap
     THEN events' = events \ {e} /\ UNCHANGED <<override, wanted>>
     ELSE /\ override' = NoMap
          /\ wanted' = Order(e.map)
          /\ events' = (events \ {e}) \cup {[e EXCEPT !.step = "navigate", !.k = wanted'.k]}
  /\ UNCHANGED <<raidVars, site, orders, choices, shotVars>>
Navigate(e) ==
  /\ e \in events /\ e.step = "navigate"
  /\ events' = events \ {e}
  /\ SendMapChange(e.k, e.map)
  /\ UNCHANGED <<raidVars, ran, current, wanted, userVars, shotVars>>

(* SetManualMapOverride, "" clears it; all of it is under the lock. *)
SetManualMapOverride(m) ==
  /\ choices < MaxChoices
  /\ choices' = choices + 1
  /\ override' = m
  /\ IF m = NoMap THEN UNCHANGED siteVars
     ELSE wanted' = Order(m) /\ SendMapChange(wanted'.k, m)
  /\ UNCHANGED <<raidVars, eventVars, shotVars>>

------------------------------------------------------------------------------
(* handleNewScreenshot: the throttle, the map (of the logs, the file name, *)
(* the user), the update and, last, the time of the update.  A screenshot  *)
(* may slip through while another is between the throttle and the record,  *)
(* or once a late record has taken the time back.                          *)
Shoot ==
  /\ shotCount < MaxShots
  /\ shotCount' = shotCount + 1
  /\ shots' = shots \cup (IF lastSent = window THEN {}
                         ELSE {[n |-> shotCount', step |-> "map", at |-> window]})
  /\ sent' = IF lastSent # window /\ (shots # {} \/ latest # lastSent)
             THEN [sent EXCEPT ![window].slipped = @ + 1] ELSE sent
  /\ UNCHANGED <<raidVars, eventVars, siteVars, userVars, window, lastSent, latest>>
MapToUse(fromName) == IF current # NoMap THEN current
                      ELSE IF fromName # NoMap THEN fromName ELSE override
UpdatePosition(s, fromName) ==
  /\ s \in shots /\ s.step = "map"
  /\ LET sends == MapToUse(fromName) # NoMap
     IN /\ shots' = (shots \ {s}) \cup (IF sends THEN {[s EXCEPT !.step = "sent"]} ELSE {})
        /\ sent' = IF sends THEN [sent EXCEPT ![s.at].all = @ + 1] ELSE sent
  /\ UNCHANGED <<raidVars, eventVars, siteVars, userVars, window, lastSent, shotCount, latest>>
Recorded(w) == lastSent' = w /\ latest' = IF w > latest THEN w ELSE latest
\* Mutant of RecordUpdate: the time of the update is not kept.
RecordNothing(s) ==
  /\ s \in shots /\ s.step = "sent"
  /\ shots' = shots \ {s}
  /\ UNCHANGED <<raidVars, eventVars, siteVars, userVars, window, lastSent, shotCount, latest, sent>>

RecordUpdate(s) ==
  /\ s \in shots /\ s.step = "sent"
  /\ Recorded(s.at)
  /\ shots' = shots \ {s}
  /\ UNCHANGED <<raidVars, eventVars, siteVars, userVars, window, shotCount, sent>>
NextWindow ==
  /\ window < MaxWindow
  /\ window' = window + 1
  /\ UNCHANGED <<raidVars, eventVars, siteVars, userVars, lastSent, shotCount, shots, latest, sent>>

(* InjectPosition, and the site's positionRequest, which repeats the last  *)
(* position: neither asks the throttle, only the first is recorded.        *)
Asked == sent' = [sent EXCEPT ![window] =
                    [all |-> @.all + 1, asked |-> @.asked + 1, slipped |-> @.slipped]]
InjectPosition ==
  /\ choices < MaxChoices
  /\ choices' = choices + 1
  /\ Recorded(window) /\ Asked
  /\ UNCHANGED <<raidVars, eventVars, siteVars, override, window, shotCount, shots>>
PositionRequest ==
  /\ choices < MaxChoices /\ lastSent # Unsent
  /\ choices' = choices + 1
  /\ Asked
  /\ UNCHANGED <<raidVars, eventVars, siteVars, override, window, lastSent, shotCount, shots, latest>>

TrackingNext ==
  \/ \E line \in Lines : ProcessLogEvent(line)
  \/ \E e \in events : HandleEvent(e) \/ Navigate(e)
  \/ \E m \in Maps \cup {NoMap} : SetManualMapOverride(m)
  \/ InjectPosition \/ PositionRequest \/ Shoot \/ NextWindow
  \/ \E s \in shots : RecordUpdate(s) \/ \E m \in Maps \cup {NoMap} : UpdatePosition(s, m)
TrackingSpec == TrackingInit /\ [][TrackingNext]_trVars

------------------------------------------------------------------------------
(* The watcher's raid, the integration's maps and its handlers are the     *)
(* ones the code can have.                                                 *)
TrackingTypeOK ==
  /\ raid \in [map : Maps \cup {NoMap}, started : BOOLEAN, ended : BOOLEAN]
  /\ raid.ended => raid.started
  /\ events \subseteq [n : 1..lineCount, k : 0..wanted.k, step : {"new", "navigate"},
                      map : Maps \cup {NoMap}]
  /\ {current, override, wanted.map, site.map} \subseteq Maps \cup {NoMap}
  /\ lastSent \in Unsent..window

(* Once its events are handled, the map in use is the one of the watcher's *)
(* raid, or none: unless the event handled last is older than one handled  *)
(* before it.                                                              *)
MapFollowsLog ==
  (ran.last = ran.top /\ \A e \in events : e.step # "new") => current \in {NoMap, raid.map}

(* Once the handlers are done, the site shows the map ordered last, by the *)
(* log or by the user: unless that order was never sent, or the one it     *)
(* followed last is older than one it had followed.                        *)
SiteFollowsOrders ==
  (events = {} /\ wanted.k \notin orders.lost /\ site.k = orders.top) => site = wanted

(* A throttle window sees one position, and beside it only those injected  *)
(* or requested and those of screenshots that slipped through the throttle *)
(* because another's was not recorded yet, or recorded too late.           *)
ThrottleHolds == \A w \in DOMAIN sent : sent[w].all <= 1 + sent[w].asked + sent[w].slipped
==============================================================================
