------------------------------ MODULE MapWindow ------------------------------
(***************************************************************************)
(* The map window, a process of its own: internal/mapwindow and            *)
(* ui-wails/app_mapwindow.go.  The user moves and minimises the native     *)
(* window; the poller samples it and writes what it saw after a debounce;  *)
(* the pill toggles the pin and sets the appearance.  All of them write    *)
(* one document, which the next launch restores, clamped to the monitors   *)
(* there are then.  The main application kills this process when it likes. *)
(*                                                                         *)
(* A sample is [rect, age]: age numbers the moves of the window and is a   *)
(* history variable, the code compares rects only.  The appearance (shape  *)
(* and opacity) is abstracted to the number of the call that set it.       *)
(***************************************************************************)
EXTENDS Integers, FiniteSets, FiniteSetsExt

CONSTANTS
  Spots,         \* the rects the user may give the window
  Desks,         \* the sets of work areas a launch may find
  DefaultSize,   \* [w, h]: var DefaultSize
  Clicks,        \* clicks on the pin that may run at the same time
  MaxMoves, MaxCalls   \* bounds: placements of the window, requests of the pill

Rects == [x : Int, y : Int, w : Nat, h : Nat]
ASSUME BoundsAssumption == MaxMoves \in Nat /\ MaxCalls \in Nat
\* The code centres a window of DefaultSize (500 x 500) without a look at the work area.
ASSUME DesksAssumption ==
  /\ Spots \subseteq Rects /\ DefaultSize \in [w : Nat, h : Nat]
  /\ \A ms \in Desks : /\ IsFiniteSet(ms) /\ ms # {} /\ ms \subseteq Rects
                      /\ \A m \in ms : DefaultSize.w <= m.w /\ DefaultSize.h <= m.h

VARIABLES
  native,    \* the window: [rect, age, min, top]
  life,      \* "off", "placed", "unplaced", "open", "stopped", "flushed"
  desk,      \* the work areas the launch found, {} if unreadable or not launching
  sampler,   \* the poller: [got, last, pending, due]
  doc,       \* m.state
  saved,     \* mapwindow.json
  based,     \* history: m.state continues what the file holds, which this process
             \* has loaded or written
  pins,      \* each click in ToggleAlwaysOnTop: <<>> outside, else <<step, next>>
  pill       \* requests of the pill: [called, running, seq]

mwVars == <<native, life, desk, sampler, doc, saved, based, pins, pill>>

IconicOrigin == -32000
Iconic == [x |-> IconicOrigin, y |-> IconicOrigin, w |-> 1, h |-> 1]
NoSample == [rect |-> Iconic, age |-> 0]    \* nil: no rect was ever sampled or saved
Defaults == [placement |-> NoSample, pinned |-> FALSE, look |-> 0]
NoSampler == [got |-> NoSample, last |-> NoSample, pending |-> NoSample, due |-> FALSE]

Usable(r) == r.w > 0 /\ r.h > 0 /\ r.x > IconicOrigin /\ r.y > IconicOrigin
Seen == [rect |-> IF native.min THEN Iconic ELSE native.rect, age |-> native.age]

------------------------------------------------------------------------------
(* Clamp: where a saved rect opens on the monitors there are now. *)

Overlap(r, m) ==
  LET w == Min({r.x + r.w, m.x + m.w}) - Max({r.x, m.x})
      h == Min({r.y + r.h, m.y + m.h}) - Max({r.y, m.y})
  IN IF w <= 0 \/ h <= 0 THEN 0 ELSE w * h
Distance(r, m) ==
  LET dx == (r.x + r.w \div 2) - (m.x + m.w \div 2)
      dy == (r.y + r.h \div 2) - (m.y + m.h \div 2)
  IN dx * dx + dy * dy
PickMonitor(r, ms) ==
  LET over == {m \in ms : Overlap(r, m) > 0}
  IN IF over # {}
     THEN CHOOSE m \in over : \A n \in over : Overlap(r, m) >= Overlap(r, n)
     ELSE CHOOSE m \in ms : \A n \in ms : Distance(r, m) <= Distance(r, n)
FitsAny(r, ms) == \E m \in ms : r.w <= m.w /\ r.h <= m.h
Centred(m) == [x |-> m.x + (m.w - DefaultSize.w) \div 2,
               y |-> m.y + (m.h - DefaultSize.h) \div 2,
               w |-> DefaultSize.w, h |-> DefaultSize.h]
\* Mutant of SlideInside: only the left and the top edge are kept in.
SlideLeftTop(r, m) == [r EXCEPT !.x = Max({m.x, r.x}), !.y = Max({m.y, r.y})]

SlideInside(r, m) ==
  [r EXCEPT !.x = Max({m.x, Min({r.x, m.x + m.w - r.w})}),
            !.y = Max({m.y, Min({r.y, m.y + m.h - r.h})})]
Clamp(p, ms, primary) ==
  IF p = NoSample \/ ~FitsAny(p.rect, ms) THEN Centred(primary)
  ELSE LET m == PickMonitor(p.rect, ms)
       IN SlideInside([p.rect EXCEPT !.w = Min({@, m.w}), !.h = Min({@, m.h})], m)
Inside(r, m) == /\ m.x <= r.x /\ r.x + r.w <= m.x + m.w
                /\ m.y <= r.y /\ r.y + r.h <= m.y + m.h

------------------------------------------------------------------------------
MapWindowTypeOK ==
  /\ native.age \in 0..MaxMoves /\ native.min \in BOOLEAN /\ native.top \in BOOLEAN
  /\ life \in {"off", "placed", "unplaced", "open", "stopped", "flushed"}
  /\ sampler.due => sampler.pending # NoSample
  /\ doc.pinned \in BOOLEAN /\ doc.look \in 0..MaxCalls
  /\ saved.pinned \in BOOLEAN /\ saved.look \in 0..MaxCalls
  /\ pill.seq \in 0..pill.called /\ pill.running \subseteq 1..pill.called

MapWindowInit ==
  /\ native = [rect |-> Iconic, age |-> 0, min |-> FALSE, top |-> FALSE]
  /\ life = "off" /\ desk = {} /\ sampler = NoSampler
  /\ doc = Defaults /\ saved = Defaults /\ based = TRUE
  /\ pins = [c \in Clicks |-> <<>>]
  /\ pill = [called |-> 0, running |-> {}, seq |-> 0]

(* Store.Save replaces the file or leaves it as it was; ok is its answer. *)
Save(s, ok) ==
  /\ saved' = IF ok THEN s ELSE saved
  /\ based' = (based \/ ok)

(* Store.Load never fails: a file that cannot be read or parsed, or is of  *)
(* another version, yields Defaults(), which the next Save writes over it. *)
Load(readable) ==
  /\ doc' = IF readable THEN saved ELSE Defaults
  /\ based' = readable
  /\ UNCHANGED saved

(* The window is created with the saved pin, then restorePlacement moves it.*)
(* PlaceExactly may fail and the monitors may be unreadable.               *)
Restore ==
  /\ life = "off" /\ native.age < MaxMoves
  /\ \E readable \in BOOLEAN : Load(readable)
  /\ \E ms \in Desks \cup {{}}, ok \in BOOLEAN, r \in Spots :
       /\ ok => (ms # {} \/ doc'.placement # NoSample)
       /\ \E primary \in IF ms = {} THEN {Iconic} ELSE ms :
            LET target == IF ms = {} THEN doc'.placement.rect
                          ELSE Clamp(doc'.placement, ms, primary)
            IN native' = [rect |-> IF ok THEN target ELSE r, age |-> native.age + 1,
                          min |-> FALSE, top |-> doc'.pinned]
       /\ desk' = ms
       /\ life' = IF ok THEN "placed" ELSE "unplaced"
  /\ UNCHANGED <<sampler, pins, pill>>

(* WindowShow, then Poller.Start reads the baseline, which is not a change;*)
(* the read may fail, and then the first good tick sets it.                *)
StartPoller ==
  /\ life \in {"placed", "unplaced"}
  /\ life' = "open" /\ desk' = {}
  /\ \E ok \in BOOLEAN :
       sampler' = [NoSampler EXCEPT !.last =
                     IF ok /\ Usable(native.rect) THEN Seen ELSE NoSample]
  /\ UNCHANGED <<native, doc, saved, based, pins, pill>>

MoveWindow(r) ==
  /\ life \in {"open", "stopped"} /\ ~native.min
  /\ r # native.rect /\ native.age < MaxMoves
  /\ native' = [native EXCEPT !.rect = r, !.age = @ + 1]
  /\ UNCHANGED <<life, desk, sampler, doc, saved, based, pins, pill>>
Minimise ==
  /\ life \in {"open", "stopped"}
  /\ native' = [native EXCEPT !.min = ~@]
  /\ UNCHANGED <<life, desk, sampler, doc, saved, based, pins, pill>>

(* A tick reads the rect and then, in a second call, whether the window is *)
(* minimised; either may fail.                                             *)
PollRect ==
  /\ life = "open" /\ sampler.got = NoSample
  /\ sampler' = [sampler EXCEPT !.got = Seen]
  /\ UNCHANGED <<native, life, desk, doc, saved, based, pins, pill>>
SampleFails ==
  /\ life = "open" /\ sampler.got # NoSample
  /\ sampler' = [sampler EXCEPT !.got = NoSample]
  /\ UNCHANGED <<native, life, desk, doc, saved, based, pins, pill>>
Sampled(s, minimised) ==
  LET idle == [sampler EXCEPT !.got = NoSample]
  IN IF minimised \/ ~Usable(s.rect) THEN idle
     ELSE IF sampler.last = NoSample THEN [idle EXCEPT !.last = s]
     ELSE IF s.rect = sampler.last.rect THEN idle
     ELSE [idle EXCEPT !.last = s, !.pending = s, !.due = TRUE]
PollSample ==
  /\ life = "open" /\ sampler.got # NoSample
  /\ sampler' = Sampled(sampler.got, native.min)
  /\ UNCHANGED <<native, life, desk, doc, saved, based, pins, pill>>

(* savePlacement: the document keeps the rect even when the save fails. *)
SavePlacement(s, ok) ==
  /\ doc' = [doc EXCEPT !.placement = s]
  /\ Save(doc', ok)

\* Mutant of Debounce: a failed write is not tried again.
DebounceOnce(ok) ==
  /\ life = "open" /\ sampler.got = NoSample /\ sampler.due
  /\ SavePlacement(sampler.pending, ok)
  /\ sampler' = [sampler EXCEPT !.pending = NoSample, !.due = FALSE]
  /\ UNCHANGED <<native, life, desk, pins, pill>>

(* The debounce fires: a failed write is tried again after Interval. *)
Debounce(ok) ==
  /\ life = "open" /\ sampler.got = NoSample /\ sampler.due
  /\ SavePlacement(sampler.pending, ok)
  /\ sampler' = IF ok THEN [sampler EXCEPT !.pending = NoSample, !.due = FALSE] ELSE sampler
  /\ UNCHANGED <<native, life, desk, pins, pill>>

(* flushPlacement: Stop waits for the loop, which writes what is pending;  *)
(* the live rect is then read, minimised first, and saved.  beforeClose    *)
(* and shutdown both call it.                                              *)
StopPoller ==
  /\ life = "open" /\ sampler.got = NoSample
  /\ life' = "stopped"
  /\ IF sampler.pending = NoSample THEN UNCHANGED <<doc, saved, based>>
     ELSE \E ok \in BOOLEAN : SavePlacement(sampler.pending, ok)
  /\ sampler' = NoSampler
  /\ UNCHANGED <<native, desk, pins, pill>>
FlushLooks ==
  /\ life = "stopped" /\ ~native.min
  /\ life' = "flushed"
  /\ UNCHANGED <<native, desk, sampler, doc, saved, based, pins, pill>>
FlushSaves ==
  /\ life = "flushed" /\ Usable(Seen.rect)
  /\ \E ok \in BOOLEAN : SavePlacement(Seen, ok)
  /\ life' = "stopped"
  /\ UNCHANGED <<native, desk, sampler, pins, pill>>

(* The process ends: closed after a flush, or killed at any time. *)
WindowExit ==
  /\ life # "off"
  /\ life' = "off" /\ desk' = {} /\ sampler' = NoSampler
  /\ pins' = [c \in Clicks |-> <<>>]
  /\ pill' = [pill EXCEPT !.running = {}, !.seq = 0]
  /\ UNCHANGED <<native, doc, saved, based>>

(* ToggleAlwaysOnTop: pinMu is held from the look at the pin to the save. *)
PinFree == \A c \in Clicks : pins[c] = <<>>
TogglePin(c) ==
  /\ life = "open" /\ PinFree /\ pill.called < MaxCalls
  /\ pins' = [pins EXCEPT ![c] = <<"os", ~doc.pinned>>]
  /\ pill' = [pill EXCEPT !.called = @ + 1]
  /\ UNCHANGED <<native, life, desk, sampler, doc, saved, based>>
SetOnTop(c) ==
  /\ pins[c] # <<>> /\ pins[c][1] = "os"
  /\ native' = [native EXCEPT !.top = pins[c][2]]
  /\ pins' = [pins EXCEPT ![c][1] = "save"]
  /\ UNCHANGED <<life, desk, sampler, doc, saved, based, pill>>

SavePin(c) ==
  /\ pins[c] # <<>> /\ pins[c][1] = "save"
  /\ doc' = [doc EXCEPT !.pinned = pins[c][2]]
  /\ \E ok \in BOOLEAN : Save(doc', ok)
  /\ pins' = [pins EXCEPT ![c] = <<>>]
  /\ UNCHANGED <<native, life, desk, sampler, pill>>

(* The pill numbers its calls; the handlers run in any order. *)
CallAppearance ==
  /\ life = "open" /\ pill.called < MaxCalls
  /\ pill' = [pill EXCEPT !.called = @ + 1, !.running = @ \cup {pill.called + 1}]
  /\ UNCHANGED <<native, life, desk, sampler, doc, saved, based, pins>>
Answered(n) == [pill EXCEPT !.running = @ \ {n}]

\* Mutant of SetAppearance: a late call is not told from a new one.
SetAppearanceLate(n, ok) ==
  /\ n \in pill.running
  /\ pill' = Answered(n)
  /\ IF ok THEN doc' = [doc EXCEPT !.look = n] /\ Save(doc', TRUE)
     ELSE UNCHANGED <<doc, saved, based>>
  /\ UNCHANGED <<native, life, desk, sampler, pins>>

SetAppearance(n, ok) ==
  /\ n \in pill.running
  /\ IF n < pill.seq \/ ~ok
     THEN pill' = Answered(n) /\ UNCHANGED <<doc, saved, based>>
     ELSE /\ doc' = [doc EXCEPT !.look = n]
          /\ Save(doc', TRUE)
          /\ pill' = [Answered(n) EXCEPT !.seq = n]
  /\ UNCHANGED <<native, life, desk, sampler, pins>>

MapWindowNext ==
  \/ Restore \/ StartPoller \/ WindowExit \/ Minimise
  \/ \E r \in Spots : MoveWindow(r)
  \/ PollRect \/ SampleFails \/ PollSample
  \/ \E ok \in BOOLEAN : Debounce(ok)
  \/ StopPoller \/ FlushLooks \/ FlushSaves
  \/ \E c \in Clicks : TogglePin(c) \/ SetOnTop(c) \/ SavePin(c)
  \/ CallAppearance
  \/ \E n \in 1..MaxCalls, ok \in BOOLEAN : SetAppearance(n, ok)

MapWindowSpec == MapWindowInit /\ [][MapWindowNext]_mwVars

------------------------------------------------------------------------------
(* Whatever the user does between two native calls, the file never holds   *)
(* the rect Windows gives a minimised window.                              *)
NeverIconic == saved.placement # NoSample => saved.placement.rect # Iconic

(* The window opens wholly on one work area of the monitors there are now, *)
(* wherever it was left and whichever monitors are gone.                   *)
OpensOnScreen ==
  (life = "placed" /\ desk # {}) => \E m \in desk : Inside(native.rect, m)

(* With no click under way, the pin the pill shows is the pin of the       *)
(* window, though saves fail and the process is killed between the two.    *)
PinAgrees == (life \in {"open", "stopped"} /\ PinFree) => native.top = doc.pinned

(* The appearance in use is the one in the file, if that could be loaded:  *)
(* a refused save changes neither, no other writer takes it back.          *)
LookIsSaved == based => doc.look = saved.look

(* Nothing takes the document back: no writer, late or retried, replaces a *)
(* placement by one the window had before it, and a call of the pill that  *)
(* a newer one overtook changes nothing, whatever is refused, killed and   *)
(* restored in between.  The file goes back by one save only: the first of *)
(* a process that could not load it and writes its defaults over it.       *)
NothingGoesBack ==
  [][/\ life # "off" => doc'.placement.age >= doc.placement.age /\ doc'.look >= doc.look
     /\ based => saved'.placement.age >= saved.placement.age /\ saved'.look >= saved.look]_mwVars

(* A place the window keeps is saved while it is open: the main            *)
(* application kills the process without giving it time to flush.          *)
KeptPlacementIsSaved ==
  (life = "open" /\ sampler.due)
    ~> (life # "open" \/ (~sampler.due /\ saved.placement = sampler.last))
==============================================================================
