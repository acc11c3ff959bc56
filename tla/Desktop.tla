------------------------------- MODULE Desktop -------------------------------
(***************************************************************************)
(* The services of the desktop application beside its party and socket     *)
(* clients, each a module of its own.  They share no state, so that        *)
(* running them side by side would only multiply their states: svc picks   *)
(* the service whose behaviour is followed, the others stay as they are.   *)
(*                                                                         *)
(*   window   the map window process              MapWindow                *)
(*   overlay  the overlay server and its page     MapOverlay               *)
(*   shots    the screenshot monitor              Screenshots              *)
(*   log      the game log watcher                LogWatcher               *)
(*   map      the player's map and positions      MapTracking              *)
(*   quests   the quest tracker                   QuestTracker             *)
(*   notes    the release notes                   ReleaseNotes             *)
(***************************************************************************)
EXTENDS MapWindow, MapOverlay, Screenshots, LogWatcher, MapTracking, QuestTracker, ReleaseNotes

VARIABLE svc   \* the service that is followed

Services == {"window", "overlay", "shots", "log", "map", "quests", "notes"}
vars == <<svc, mwVars, ovVars, ssVars, lwVars, trVars, qtVars, rnVars>>

(* Only the screenshot monitor has more than one initial state. *)
Init ==
  /\ svc \in Services
  /\ MapWindowInit /\ OverlayInit /\ ScreenshotsInit /\ WatcherInit
  /\ TrackingInit /\ QuestInit /\ NotesInit
  /\ svc = "shots" \/ file = [f \in Files |-> "none"]

Next ==
  /\ UNCHANGED svc
  /\ \/ svc = "window" /\ MapWindowNext
        /\ UNCHANGED <<ovVars, ssVars, lwVars, trVars, qtVars, rnVars>>
     \/ svc = "overlay" /\ OverlayNext
        /\ UNCHANGED <<mwVars, ssVars, lwVars, trVars, qtVars, rnVars>>
     \/ svc = "shots" /\ ScreenshotsNext
        /\ UNCHANGED <<mwVars, ovVars, lwVars, trVars, qtVars, rnVars>>
     \/ svc = "log" /\ WatcherNext
        /\ UNCHANGED <<mwVars, ovVars, ssVars, trVars, qtVars, rnVars>>
     \/ svc = "map" /\ TrackingNext
        /\ UNCHANGED <<mwVars, ovVars, ssVars, lwVars, qtVars, rnVars>>
     \/ svc = "quests" /\ QuestNext
        /\ UNCHANGED <<mwVars, ovVars, ssVars, lwVars, trVars, rnVars>>
     \/ svc = "notes" /\ NotesNext
        /\ UNCHANGED <<mwVars, ovVars, ssVars, lwVars, trVars, qtVars>>

(* The poller of the window runs and its timers fire; a write that is tried *)
(* again and again succeeds in the end (the disk is not broken for good).  *)
WindowFairness ==
  /\ WF_mwVars(svc = "window" /\ PollRect)
  /\ SF_mwVars(svc = "window" /\ PollSample)
  /\ SF_mwVars(svc = "window" /\ Debounce(TRUE))
(* The reader and the timers' goroutines run. *)
ShotsFairness ==
  /\ WF_ssVars(svc = "shots" /\ (TakeEvent \/ SkipCreate \/ ArmTimer))
  /\ WF_ssVars(svc = "shots" /\ \E c \in Callbacks : Processing(c))
(* The start goes on to its end and a ticker drives the poller; a file that *)
(* can be read again and again is read in the end.                         *)
LogFairness ==
  /\ WF_lwVars(svc = "log" /\ (ReadExisting \/ StartPolling \/ PollSize \/ ProcessLine))
  /\ SF_lwVars(svc = "log" /\ PollPosition) /\ SF_lwVars(svc = "log" /\ PollRead)
(* Goroutines run, requests end within their time limit, the ticker ticks. *)
QuestFairness ==
  /\ WF_qtVars(svc = "quests" /\ Refill)
  /\ WF_qtVars(svc = "quests" /\ \E h \in handlers : Handle(h))
  /\ WF_qtVars(svc = "quests" /\ \E h \in handlers : TakeToken(h))
Spec ==
  Init /\ [][Next]_vars /\ WindowFairness /\ ShotsFairness /\ LogFairness /\ QuestFairness

------------------------------------------------------------------------------
(* The state of every service is one its code can have. *)
TypeOK ==
  /\ svc \in Services
  /\ MapWindowTypeOK /\ OverlayTypeOK /\ ScreenshotsTypeOK
  /\ WatcherTypeOK /\ TrackingTypeOK /\ QuestTypeOK /\ NotesTypeOK
==============================================================================
