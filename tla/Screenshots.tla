----------------------------- MODULE Screenshots -----------------------------
(***************************************************************************)
(* The screenshot monitor, internal/monitor/screenshot.go.  The game       *)
(* creates a file empty and fills it; every file event arms a timer that   *)
(* replaces the pending one of the file, and a timer that fires runs       *)
(* processFile on a goroutine of its own, in steps that other timers, the  *)
(* scan of existing files and StopMonitoring fall between.                 *)
(*                                                                         *)
(* Callback <<f, k>> is the k-th timer of file f; <<f, 0>> is the scan.    *)
(* A file is processed with its handler, which deletes it: that raises an  *)
(* event too.  Reading the directory and starting the watcher do not fail. *)
(***************************************************************************)
EXTENDS Naturals, Sequences, FiniteSets

CONSTANTS Files, MaxEvents    \* MaxEvents bounds the events of one file
ASSUME EventsAssumption == MaxEvents \in Nat

VARIABLES
  file,      \* each screenshot on disk: "none", "empty", "full"
  raised,    \* the number of events of each file so far
  fsq,       \* the events the reader goroutine has not taken: <<f, op>>
  reader,    \* processEvents: <<>> at its select, else the event in hand
  watcher,   \* "on", "stopped", or "crashed": the process is gone
  timer,     \* each callback: "none", "armed", "stopped", or its next step
  pendings,  \* sm.pendingFiles: the number of the file's timer, 0 if none
  processed, \* sm.processedFiles
  shown,     \* the times the file was emitted since it entered processedFiles
  crossed,   \* history: files two callbacks of which passed the test together
  orphans    \* history: timers whose entry an older callback deleted

ssVars == <<file, raised, fsq, reader, watcher, timer, pendings, processed, shown,
            crossed, orphans>>

Callbacks == Files \X (0..MaxEvents)
Steps == {"test", "stat", "mark", "emit", "forget"}
InStep(f, s) == {c \in Callbacks : c[1] = f /\ timer[c] \in s}

ScreenshotsInit ==
  /\ file \in [Files -> {"none", "full"}]
  /\ raised = [f \in Files |-> 0] /\ fsq = <<>> /\ reader = <<>> /\ watcher = "on"
  /\ timer = [c \in Callbacks |-> IF c[2] = 0 /\ file[c[1]] = "full" THEN "armed" ELSE "none"]
  /\ pendings = [f \in Files |-> 0]
  /\ processed = {} /\ crossed = {} /\ orphans = {}
  /\ shown = [f \in Files |-> 0]

(* The file system, and the watcher's queue of events. *)
Raise(f, op) ==
  /\ raised[f] < MaxEvents
  /\ raised' = [raised EXCEPT ![f] = @ + 1]
  /\ fsq' = IF watcher = "on" THEN Append(fsq, <<f, op>>) ELSE fsq
Create(f) ==
  /\ file[f] = "none" /\ f \notin processed
  /\ file' = [file EXCEPT ![f] = "empty"]
  /\ Raise(f, "create")
  /\ UNCHANGED <<reader, watcher, timer, pendings, processed, shown, crossed, orphans>>
WriteFile(f) ==
  /\ file[f] # "none"
  /\ file' = [file EXCEPT ![f] = "full"]
  /\ Raise(f, "write")
  /\ UNCHANGED <<reader, watcher, timer, pendings, processed, shown, crossed, orphans>>

(* processEvents takes an event; with no watcher left its select fails. *)
TakeEvent ==
  /\ reader = <<>> /\ watcher = "on" /\ fsq # <<>>
  /\ reader' = Head(fsq) /\ fsq' = Tail(fsq)
  /\ UNCHANGED <<file, raised, watcher, timer, pendings, processed, shown, crossed, orphans>>

(* handleFileEvent: a create of a processed file is skipped, all other     *)
(* events stop the file's timer and arm a new one.                         *)
SkipCreate ==
  /\ reader # <<>> /\ reader[2] = "create" /\ reader[1] \in processed
  /\ reader' = <<>>
  /\ watcher' = IF watcher = "stopped" THEN "crashed" ELSE watcher
  /\ UNCHANGED <<file, raised, fsq, timer, pendings, processed, shown, crossed, orphans>>
\* Mutant of Rearmed: the timer of the file's last event goes on.
RearmedBeside(f, k) == [timer EXCEPT ![<<f, k>>] = "armed"]

\* Mutant of Rearmed: no timer is armed while the file has one.
RearmedUnlessPending(f, k) ==
  IF pendings[f] # 0 THEN timer ELSE [timer EXCEPT ![<<f, k>>] = "armed"]

Rearmed(f, k) ==
  [timer EXCEPT ![<<f, pendings[f]>>] = IF pendings[f] # 0 /\ @ = "armed" THEN "stopped" ELSE @,
                ![<<f, k>>] = "armed"]
ArmTimer ==
  /\ reader # <<>> /\ watcher # "crashed"
  /\ LET f == reader[1]
         k == 1 + Cardinality({c \in Callbacks : c[1] = f /\ c[2] > 0 /\ timer[c] # "none"})
     IN /\ reader[2] = "create" => f \notin processed
        /\ timer' = Rearmed(f, k)
        /\ pendings' = [pendings EXCEPT ![f] = k]
  /\ reader' = <<>>
  /\ watcher' = IF watcher = "stopped" THEN "crashed" ELSE watcher
  /\ UNCHANGED <<file, raised, fsq, processed, shown, crossed, orphans>>

(* time.AfterFunc: the timer fires on a goroutine of its own. *)
Fire(c) ==
  /\ timer[c] = "armed" /\ watcher # "crashed"
  /\ timer' = [timer EXCEPT ![c] = "test"]
  /\ UNCHANGED <<file, raised, fsq, reader, watcher, pendings, processed, shown, crossed,
                 orphans>>

(* processFile: the test, the stat, the mark and the emission each on its  *)
(* own; only the test and the mark hold processMutex.                      *)
To(c, s) == timer' = [timer EXCEPT ![c] = s]
TestProcessed(c) ==
  /\ timer[c] = "test" /\ watcher # "crashed"
  /\ To(c, IF c[1] \in processed THEN "forget" ELSE "stat")
  /\ crossed' = IF c[1] \notin processed /\ InStep(c[1], {"stat", "mark"}) # {}
                THEN crossed \cup {c[1]} ELSE crossed
  /\ UNCHANGED <<file, raised, fsq, reader, watcher, pendings, processed, shown, orphans>>
StatFile(c) ==
  /\ timer[c] = "stat" /\ watcher # "crashed"
  /\ To(c, IF file[c[1]] = "full" THEN "mark" ELSE "forget")
  /\ UNCHANGED <<file, raised, fsq, reader, watcher, pendings, processed, shown, crossed,
                 orphans>>
\* Mutant of MarkProcessed: the mark is not made.
MarkNothing(c) ==
  /\ timer[c] = "mark" /\ watcher # "crashed"
  /\ To(c, "emit")
  /\ UNCHANGED <<file, raised, fsq, reader, watcher, pendings, processed, shown, crossed, orphans>>

MarkProcessed(c) ==
  /\ timer[c] = "mark" /\ watcher # "crashed"
  /\ To(c, "emit")
  /\ processed' = processed \cup {c[1]}
  /\ UNCHANGED <<file, raised, fsq, reader, watcher, pendings, shown, crossed, orphans>>
Emit(c) ==
  /\ timer[c] = "emit" /\ watcher # "crashed"
  /\ To(c, "forget")
  /\ shown' = [shown EXCEPT ![c[1]] = @ + 1]
  /\ UNCHANGED <<file, raised, fsq, reader, watcher, pendings, processed, crossed, orphans>>

(* The callback's end deletes the file's entry, whichever timer it is of. *)
Forget(c) ==
  /\ timer[c] = "forget" /\ watcher # "crashed"
  /\ To(c, "done")
  /\ IF c[2] = 0 THEN UNCHANGED <<pendings, orphans>>
     ELSE /\ pendings' = [pendings EXCEPT ![c[1]] = 0]
          /\ orphans' = IF pendings[c[1]] \in {0, c[2]} THEN orphans
                        ELSE orphans \cup {<<c[1], pendings[c[1]]>>}
  /\ UNCHANGED <<file, raised, fsq, reader, watcher, processed, shown, crossed>>

(* The handler of an emission deletes the file when it is done with it. *)
DeleteShot(f) ==
  /\ shown[f] > 0 /\ file[f] = "full" /\ watcher # "crashed"
  /\ file' = [file EXCEPT ![f] = "none"]
  /\ Raise(f, "remove")
  /\ UNCHANGED <<reader, watcher, timer, pendings, processed, shown, crossed, orphans>>

(* cleanupOldProcessedFiles, an hour later: long after the callbacks. *)
ForgetOld(f) ==
  /\ f \in processed /\ InStep(f, Steps) = {}
  /\ processed' = processed \ {f}
  /\ shown' = [shown EXCEPT ![f] = 0]
  /\ crossed' = crossed \ {f}
  /\ UNCHANGED <<file, raised, fsq, reader, watcher, timer, pendings, orphans>>

(* StopMonitoring stops the pending timers and closes the watcher; a       *)
(* reader that is not at its select finds no watcher when it returns there.*)
StopMonitoring ==
  /\ watcher = "on"
  /\ watcher' = "stopped"
  /\ timer' = [c \in Callbacks |-> IF c[2] # 0 /\ pendings[c[1]] = c[2] /\ timer[c] = "armed"
                                   THEN "stopped" ELSE timer[c]]
  /\ pendings' = [f \in Files |-> 0] /\ fsq' = <<>>
  /\ UNCHANGED <<file, raised, reader, processed, shown, crossed, orphans>>

Processing(c) == \/ Fire(c) \/ TestProcessed(c) \/ StatFile(c) \/ MarkProcessed(c)
                 \/ Emit(c) \/ Forget(c)
ScreenshotsNext ==
  \/ \E f \in Files : Create(f) \/ WriteFile(f) \/ DeleteShot(f) \/ ForgetOld(f)
  \/ TakeEvent \/ SkipCreate \/ ArmTimer
  \/ \E c \in Callbacks : Processing(c)
  \/ StopMonitoring

ScreenshotsSpec == ScreenshotsInit /\ [][ScreenshotsNext]_ssVars

------------------------------------------------------------------------------
ScreenshotsTypeOK ==
  /\ file \in [Files -> {"none", "empty", "full"}] /\ watcher \in {"on", "stopped", "crashed"}
  /\ timer \in [Callbacks -> {"none", "armed", "stopped", "done"} \cup Steps]
  /\ pendings \in [Files -> 0..MaxEvents] /\ processed \subseteq Files

(* A screenshot is handed on twice only if two callbacks passed the test   *)
(* before either had marked the file.                                      *)
TwiceOnlyIfCrossed == \A f \in Files : shown[f] > 1 => f \in crossed

(* After StopMonitoring no timer is left to fire but those whose entry an  *)
(* older callback of the same file had deleted.                            *)
StopLeavesOrphans ==
  watcher = "stopped" =>
    \A c \in Callbacks : (c[2] # 0 /\ timer[c] = "armed") => c \in orphans

(* A screenshot that is complete when one of its events waits, or the scan *)
(* of existing files has listed it, is handed on, whichever timer its event*)
(* replaces or is replaced by, unless monitoring is stopped.               *)
Reported(f) == \/ \E i \in DOMAIN fsq : fsq[i][1] = f
               \/ reader # <<>> /\ reader[1] = f
               \/ timer[<<f, 0>>] = "armed"
FullIsShown ==
  \A f \in Files : (file[f] = "full" /\ Reported(f)) ~> (f \in processed \/ watcher # "on")
==============================================================================
