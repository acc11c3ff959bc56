----------------------------- MODULE ViewProofs -----------------------------
(* Theorems about what the player sees of the map, for every value of the    *)
(* constants: the map window, the overlay and the screenshots that place the *)
(* player.                                                                   *)
EXTENDS MapWindow, MapOverlay, Screenshots, FiniteSetTheorems, TLAPS

\* A finite set that a relation orders has a least element.
LEMMA FiniteLeast ==
  ASSUME NEW S, IsFiniteSet(S), S # {}, NEW R,
         \A x, y \in S : <<x, y>> \in R \/ <<y, x>> \in R,
         \A x, y, z \in S : <<x, y>> \in R /\ <<y, z>> \in R => <<x, z>> \in R
  PROVE  \E x \in S : \A y \in S : <<x, y>> \in R
  <1> DEFINE Least(A) == \E x \in A : \A y \in A : <<x, y>> \in R
             Bad == {A \in SUBSET S : A # {} /\ ~Least(A)}
  <1> SUFFICES ASSUME Bad # {} PROVE FALSE
    OBVIOUS
  <1>1. IsWellFoundedOn(StrictSubsetOrdering(S), FiniteSubsetsOf(S))
    BY FS_StrictSubsetOrderingWellFounded
  <1>2. Bad \subseteq FiniteSubsetsOf(S)
    BY FS_Subset DEF FiniteSubsetsOf
  <1>3. PICK A \in Bad : \A B \in Bad : <<B, A>> \notin StrictSubsetOrdering(S)
    <2> HIDE DEF Bad
    <2> QED
      BY <1>1, <1>2, WFMin
  <1>4. PICK x \in A : TRUE
    BY <1>3
  <1>5. A \ {x} \in SUBSET S /\ A \ {x} # A /\ A \in SUBSET S
    BY <1>3, <1>4
  <1>6. CASE A \ {x} = {}
    <2>1. A = {x} /\ <<x, x>> \in R
      BY <1>4, <1>5, <1>6
    <2> QED
      BY <1>3, <2>1
  <1>7. CASE A \ {x} # {}
    <2>1. A \ {x} \notin Bad
      <3>1. <<A \ {x}, A>> \in StrictSubsetOrdering(S)
        BY <1>5 DEF StrictSubsetOrdering
      <3> QED
        BY <1>3, <3>1
    <2>2. PICK m \in A \ {x} : \A y \in A \ {x} : <<m, y>> \in R
      BY <1>5, <1>7, <2>1
    <2>3. \A y \in A : <<m, y>> \in R \/ <<x, y>> \in R
      BY <2>2, <1>4, <1>5
    <2>4. Least(A)
      BY <1>4, <1>5, <2>2
    <2> QED
      BY <1>3, <2>4
  <1> QED
    BY <1>6, <1>7

\* A function of a finite set has a minimum.
LEMMA FiniteMinimum ==
  ASSUME NEW S, IsFiniteSet(S), S # {}, NEW f \in [S -> Int]
  PROVE  \E x \in S : \A y \in S : f[x] <= f[y]
  <1> DEFINE R == {p \in S \X S : f[p[1]] <= f[p[2]]}
  <1>1. \A x, y \in S : <<x, y>> \in R <=> f[x] <= f[y]
    OBVIOUS
  <1> HIDE DEF R
  <1>2. \A x, y \in S : <<x, y>> \in R \/ <<y, x>> \in R
    <2>1. \A x, y \in S : f[x] <= f[y] \/ f[y] <= f[x]
      OBVIOUS
    <2> QED
      BY <1>1, <2>1
  <1>3. \A x, y, z \in S : <<x, y>> \in R /\ <<y, z>> \in R => <<x, z>> \in R
    <2>1. \A x, y, z \in S : f[x] <= f[y] /\ f[y] <= f[z] => f[x] <= f[z]
      OBVIOUS
    <2> QED
      BY <1>1, <2>1
  <1>4. \E x \in S : \A y \in S : <<x, y>> \in R
    BY <1>2, <1>3, FiniteLeast
  <1> QED
    BY <1>1, <1>4

-----------------------------------------------------------------------------
(* The map window                                                          *)
\* The shape of the records; nothing is assumed of a rect.
IsSample(s) == s = [rect |-> s.rect, age |-> s.age] /\ s.age \in Nat
IsDocument(d) ==
  /\ d = [placement |-> d.placement, pinned |-> d.pinned, look |-> d.look]
  /\ IsSample(d.placement) /\ d.look \in Nat
WindowShape ==
  /\ native = [rect |-> native.rect, age |-> native.age, min |-> native.min, top |-> native.top]
  /\ native.age \in Nat
  /\ sampler = [got |-> sampler.got, last |-> sampler.last, pending |-> sampler.pending,
                due |-> sampler.due]
  /\ IsSample(sampler.got) /\ IsSample(sampler.last) /\ IsSample(sampler.pending)
  /\ IsDocument(doc) /\ IsDocument(saved)
  /\ doc.pinned \in BOOLEAN /\ saved.pinned \in BOOLEAN /\ based \in BOOLEAN
  /\ pins \in [Clicks -> {<<>>} \cup ({"os", "save"} \X BOOLEAN)]
  /\ pill = [called |-> pill.called, running |-> pill.running, seq |-> pill.seq]
  /\ pill.called \in Nat /\ pill.seq \in Nat /\ pill.running \subseteq Nat

\* A sample on its way to the file is not older than the document, and usable.
Newer(s) == doc.placement.age <= s.age /\ s.age <= native.age
AgeInv ==
  /\ based => saved.placement.age <= doc.placement.age
  /\ saved.placement.age <= native.age /\ doc.placement.age <= native.age
  /\ life # "open" => sampler = NoSampler
  /\ life # "off" => native.age > 0
  /\ sampler.due => sampler.pending # NoSample
  /\ sampler.got # NoSample => Newer(sampler.got)
  /\ sampler.pending # NoSample => Newer(sampler.pending)
RectInv ==
  /\ saved.placement # NoSample => Usable(saved.placement.rect)
  /\ doc.placement # NoSample => Usable(doc.placement.rect)
  /\ sampler.pending # NoSample => Usable(sampler.pending.rect)

\* The file has the appearance in use, once it was loaded or written, and no call
\* still running that would be obeyed is older than it.
LookInv ==
  /\ based => doc.look = saved.look
  /\ life = "off" => pill.running = {}
  /\ saved.look <= pill.called /\ doc.look <= pill.called
  /\ \A n \in pill.running : n <= pill.called
  /\ doc.look <= pill.seq \/ \A n \in pill.running : doc.look <= n

\* One click at a time is in ToggleAlwaysOnTop; the window has the pin of the
\* document, or the one the click under way is about to save.
PinInv ==
  /\ life = "off" => \A c \in Clicks : pins[c] = <<>>
  /\ \A c, d \in Clicks : pins[c] # <<>> /\ pins[d] # <<>> => c = d
  /\ \A c \in Clicks : pins[c] # <<>> /\ pins[c][1] = "save" => native.top = pins[c][2]
  /\ life # "off" /\ (\A c \in Clicks : pins[c] # <<>> => pins[c][1] = "os")
       => native.top = doc.pinned

WindowInv == WindowShape /\ AgeInv /\ RectInv /\ LookInv /\ PinInv

-----------------------------------------------------------------------------
\* The poller starts from a sample, of age 0.
LEMMA NoSampleIsSample == IsSample(NoSample) /\ NoSample.age = 0
  BY DEF NoSample, IsSample

\* Save writes the document or nothing, and afterwards the document continues what
\* the file holds if it did so before or was written.
Written == saved' \in {saved, doc'} /\ (based' => based \/ saved' = doc') /\ based' \in BOOLEAN
LEMMA SaveWrites == ASSUME NEW ok \in BOOLEAN, Save(doc', ok) PROVE Written
  BY DEF Save, Written

\* An unreadable file gives the defaults, which are a document.
LEMMA DefaultsAreDocument == IsDocument(Defaults) /\ Defaults.pinned \in BOOLEAN
                             /\ Defaults.placement = NoSample /\ Defaults.look = 0
  BY NoSampleIsSample DEF IsDocument, Defaults

\* savePlacement replaces the document's placement, and the file by the document
\* or by nothing.
LEMMA PlacementSaved ==
  ASSUME WindowShape, NEW s, IsSample(s), NEW ok \in BOOLEAN, SavePlacement(s, ok)
  PROVE  /\ doc'.placement = s /\ doc'.pinned = doc.pinned /\ doc'.look = doc.look
         /\ IsDocument(doc') /\ Written
  <1>1. doc' = [placement |-> s, pinned |-> doc.pinned, look |-> doc.look]
    BY DEF SavePlacement, WindowShape, IsDocument
  <1>2. Written
    BY SaveWrites DEF SavePlacement
  <1> QED
    BY <1>1, <1>2 DEF WindowShape, IsDocument

\* A tick keeps what is pending or replaces it by its sample, if that is usable.
LEMMA SampleTaken ==
  ASSUME WindowShape, sampler' = Sampled(sampler.got, native.min)
  PROVE  /\ sampler' = [got |-> NoSample, last |-> sampler'.last, pending |-> sampler'.pending,
                        due |-> sampler'.due]
         /\ sampler'.last \in {sampler.last, sampler.got}
         /\ \/ sampler'.pending = sampler.pending /\ sampler'.due = sampler.due
            \/ sampler'.pending = sampler.got /\ Usable(sampler.got.rect)
  <1> DEFINE s == sampler.got
             idle == [sampler EXCEPT !.got = NoSample]
  <1>1. idle = [got |-> NoSample, last |-> sampler.last, pending |-> sampler.pending, due |-> sampler.due]
    BY DEF WindowShape
  <1> HIDE DEF idle
  <1>2. CASE sampler' = idle
    BY <1>1, <1>2
  <1>3. CASE sampler' = [idle EXCEPT !.last = s]
    BY <1>1, <1>3
  <1>4. CASE sampler' = [idle EXCEPT !.last = s, !.pending = s, !.due = TRUE] /\ Usable(s.rect)
    BY <1>1, <1>4
  <1> QED
    BY <1>2, <1>3, <1>4 DEF Sampled, idle

\* The records keep their shape.
LEMMA WindowShapeNext == WindowShape /\ [MapWindowNext]_mwVars => WindowShape'
  <1> SUFFICES ASSUME WindowShape, [MapWindowNext]_mwVars PROVE WindowShape'
    OBVIOUS
  <1>0. IsSample(NoSample)
    BY NoSampleIsSample
  <1>1. CASE Restore
    <2>1. doc' \in {saved, Defaults} /\ based' \in BOOLEAN /\ UNCHANGED <<sampler, saved, pins, pill>>
      BY <1>1 DEF Restore, Load
    <2>2. PICK r : native' = [rect |-> r, age |-> native.age + 1, min |-> FALSE, top |-> doc'.pinned]
      BY <1>1 DEF Restore
    <2>3. IsDocument(doc') /\ doc'.pinned \in BOOLEAN
      BY <2>1, DefaultsAreDocument DEF WindowShape
    <2> QED
      BY <2>1, <2>2, <2>3 DEF WindowShape
  <1>2. CASE StartPoller
    <2>1. PICK ok \in BOOLEAN : sampler' = [NoSampler EXCEPT !.last =
                     IF ok /\ Usable(native.rect) THEN Seen ELSE NoSample]
      BY <1>2 DEF StartPoller
    <2>2. IsSample(Seen)
      BY DEF Seen, IsSample, WindowShape
    <2>3. sampler' = [got |-> NoSample, pending |-> NoSample, due |-> FALSE,
                      last |-> IF ok /\ Usable(native.rect) THEN Seen ELSE NoSample]
      BY <2>1 DEF NoSampler
    <2> QED
      BY <1>0, <1>2, <2>2, <2>3 DEF StartPoller, WindowShape
  <1>3. CASE (\E r \in Spots : MoveWindow(r)) \/ Minimise \/ \E c \in Clicks : SetOnTop(c)
    <2>1. UNCHANGED <<sampler, doc, saved, based, pill>>
      BY <1>3 DEF MoveWindow, Minimise, SetOnTop
    <2>2. /\ native' = [rect |-> native'.rect, age |-> native'.age, min |-> native'.min,
                        top |-> native'.top]
          /\ native'.age \in Nat
      <3>1. ASSUME NEW r \in Spots, MoveWindow(r)
            PROVE  native' = [rect |-> r, age |-> native.age + 1, min |-> native.min, top |-> native.top]
        BY <3>1 DEF MoveWindow, WindowShape
      <3>2. ASSUME Minimise
            PROVE  native' = [rect |-> native.rect, age |-> native.age, min |-> ~native.min,
                              top |-> native.top]
        BY <3>2 DEF Minimise, WindowShape
      <3>3. ASSUME NEW c \in Clicks, SetOnTop(c)
            PROVE  native' = [rect |-> native.rect, age |-> native.age, min |-> native.min,
                              top |-> pins[c][2]]
        BY <3>3 DEF SetOnTop, WindowShape
      <3> QED
        BY <1>3, <3>1, <3>2, <3>3 DEF WindowShape
    <2>3. pins' \in [Clicks -> {<<>>} \cup ({"os", "save"} \X BOOLEAN)]
      <3>1. CASE pins' = pins
        BY <3>1 DEF WindowShape
      <3>2. ASSUME NEW c \in Clicks, SetOnTop(c)
            PROVE  pins' \in [Clicks -> {<<>>} \cup ({"os", "save"} \X BOOLEAN)]
        <4>1. pins[c] \in {"os", "save"} \X BOOLEAN
          BY <3>2 DEF SetOnTop, WindowShape
        <4>2. [pins[c] EXCEPT ![1] = "save"] \in {"os", "save"} \X BOOLEAN
          BY <4>1
        <4>3. pins' = [pins EXCEPT ![c] = [pins[c] EXCEPT ![1] = "save"]]
          BY <3>2 DEF SetOnTop
        <4> QED
          BY <4>2, <4>3 DEF WindowShape
      <3> QED
        BY <1>3, <3>1, <3>2 DEF MoveWindow, Minimise
    <2> QED
      BY <2>1, <2>2, <2>3 DEF WindowShape
  <1>4. CASE PollRect \/ SampleFails
    <2>1. IsSample(Seen)
      BY DEF Seen, IsSample, WindowShape
    <2>2. sampler' = [got |-> sampler'.got, last |-> sampler.last, pending |-> sampler.pending,
                      due |-> sampler.due] /\ sampler'.got \in {Seen, NoSample}
      BY <1>4 DEF PollRect, SampleFails, WindowShape
    <2> QED
      BY <1>0, <1>4, <2>1, <2>2 DEF PollRect, SampleFails, WindowShape
  <1>5. CASE PollSample
    <2>1. sampler' = Sampled(sampler.got, native.min) /\ UNCHANGED <<native, doc, saved, based, pins, pill>>
      BY <1>5 DEF PollSample
    <2> QED
      BY <1>0, <2>1, SampleTaken DEF WindowShape
  <1>6. ASSUME NEW s, IsSample(s), NEW ok \in BOOLEAN, SavePlacement(s, ok),
               UNCHANGED <<native, pins, pill>>,
               sampler' \in {sampler, NoSampler, [sampler EXCEPT !.pending = NoSample, !.due = FALSE]}
        PROVE  WindowShape'
    <2>1. sampler' = [got |-> sampler'.got, last |-> sampler'.last, pending |-> sampler'.pending,
                      due |-> sampler'.due]
          /\ IsSample(sampler'.got) /\ IsSample(sampler'.last) /\ IsSample(sampler'.pending)
      <3>1. CASE sampler' = sampler
        BY <3>1 DEF WindowShape
      <3>2. CASE sampler' = NoSampler
        BY <1>0, <3>2 DEF NoSampler
      <3>3. CASE sampler' = [sampler EXCEPT !.pending = NoSample, !.due = FALSE]
        <4>1. sampler' = [got |-> sampler.got, last |-> sampler.last, pending |-> NoSample, due |-> FALSE]
          BY <3>3 DEF WindowShape
        <4> QED
          BY <1>0, <4>1 DEF WindowShape
      <3> QED
        BY <1>6, <3>1, <3>2, <3>3
    <2> QED
      BY <1>6, <2>1, PlacementSaved DEF WindowShape, Written
  <1>7. ASSUME NEW ok \in BOOLEAN, Debounce(ok) PROVE WindowShape'
    <2>1. IsSample(sampler.pending)
      BY DEF WindowShape
    <2> QED
      BY <1>6, <1>7, <2>1 DEF Debounce
  <1>8. CASE StopPoller
    <2>1. CASE sampler.pending = NoSample
      BY <1>0, <1>8, <2>1 DEF StopPoller, WindowShape, NoSampler
    <2>2. CASE sampler.pending # NoSample
      <3>1. IsSample(sampler.pending)
        BY DEF WindowShape
      <3> QED
        BY <1>6, <1>8, <2>2, <3>1 DEF StopPoller
    <2> QED
      BY <2>1, <2>2
  <1>9. CASE FlushSaves
    <2>1. IsSample(Seen)
      BY DEF Seen, IsSample, WindowShape
    <2> QED
      BY <1>6, <1>9, <2>1 DEF FlushSaves
  <1>10. CASE FlushLooks \/ UNCHANGED mwVars
    BY <1>10 DEF FlushLooks, mwVars, WindowShape
  <1>11. CASE WindowExit
    BY <1>0, <1>11 DEF WindowExit, WindowShape, NoSampler
  <1>12. ASSUME NEW c \in Clicks, TogglePin(c) PROVE WindowShape'
    <2>1. pins' = [pins EXCEPT ![c] = <<"os", ~doc.pinned>>]
      BY <1>12 DEF TogglePin
    <2>2. (~doc.pinned) \in BOOLEAN
      BY DEF WindowShape
    <2>3. <<"os", ~doc.pinned>> \in {"os", "save"} \X BOOLEAN
      BY <2>2
    <2>4. pins' \in [Clicks -> {<<>>} \cup ({"os", "save"} \X BOOLEAN)]
      BY <2>1, <2>3 DEF WindowShape
    <2>5. pill' = [called |-> pill.called + 1, running |-> pill.running, seq |-> pill.seq]
      BY <1>12 DEF TogglePin, WindowShape
    <2> QED
      BY <1>12, <2>4, <2>5 DEF TogglePin, WindowShape
  <1>13. ASSUME NEW c \in Clicks, SavePin(c) PROVE WindowShape'
    <2>1. pins[c] \in {"os", "save"} \X BOOLEAN
      BY <1>13 DEF SavePin, WindowShape
    <2>2. doc' = [placement |-> doc.placement, pinned |-> pins[c][2], look |-> doc.look]
      BY <1>13 DEF SavePin, WindowShape, IsDocument
    <2>3. Written
      BY <1>13, SaveWrites DEF SavePin
    <2>4. pins[c][2] \in BOOLEAN
      BY <2>1
    <2>5. IsDocument(doc') /\ doc'.pinned \in BOOLEAN
      BY <2>2, <2>4 DEF WindowShape, IsDocument
    <2> QED
      BY <1>13, <2>3, <2>5 DEF SavePin, WindowShape, Written
  <1>14. CASE CallAppearance
    <2>1. pill' = [called |-> pill.called + 1, running |-> pill.running \cup {pill.called + 1},
                   seq |-> pill.seq]
      BY <1>14 DEF CallAppearance, WindowShape
    <2>2. pill.called + 1 \in Nat /\ pill'.running \subseteq Nat
      BY <2>1 DEF WindowShape
    <2>3. UNCHANGED <<native, sampler, doc, saved, based, pins>>
      BY <1>14 DEF CallAppearance
    <2> QED
      BY <2>1, <2>2, <2>3 DEF WindowShape
  <1>15. ASSUME NEW n \in 1..MaxCalls, NEW ok \in BOOLEAN, SetAppearance(n, ok) PROVE WindowShape'
    <2>1. n \in Nat
      BY <1>15 DEF SetAppearance, WindowShape
    <2>2. pill' = [called |-> pill.called, running |-> pill.running \ {n}, seq |-> pill'.seq]
          /\ pill'.seq \in {pill.seq, n}
      BY <1>15 DEF SetAppearance, Answered, WindowShape
    <2>3. /\ based' \in BOOLEAN
          /\ \/ UNCHANGED <<doc, saved>>
             \/ doc' = [placement |-> doc.placement, pinned |-> doc.pinned, look |-> n] /\ saved' = doc'
      BY <1>15 DEF SetAppearance, Save, WindowShape, IsDocument
    <2> QED
      BY <1>15, <2>1, <2>2, <2>3 DEF SetAppearance, WindowShape, IsDocument
  <1> QED
    BY <1>1, <1>2, <1>3, <1>4, <1>5, <1>7, <1>8, <1>9, <1>10, <1>11, <1>12, <1>13, <1>14, <1>15
       DEF MapWindowNext

-----------------------------------------------------------------------------
\* No write takes the placement back, but one over a file that was not loaded.
AgesGrow ==
  /\ life # "off" => doc'.placement.age >= doc.placement.age
  /\ based => saved'.placement.age >= saved.placement.age

\* What is written next is never older than the document: a sample in hand was
\* taken after the last write, as nothing is written between the sample and its
\* arrival among the pending.
LEMMA AgeNext == WindowShape /\ AgeInv /\ [MapWindowNext]_mwVars =>
                   AgeInv' /\ AgesGrow
  <1> SUFFICES ASSUME WindowShape, AgeInv, [MapWindowNext]_mwVars
               PROVE  AgeInv' /\ AgesGrow
    OBVIOUS
  <1> DEFINE Goal == AgeInv' /\ AgesGrow
  <1> USE DEF AgesGrow
  <1>0. /\ native.age \in Nat /\ doc.placement.age \in Nat /\ saved.placement.age \in Nat
        /\ NoSampler.got = NoSample /\ NoSampler.pending = NoSample /\ NoSampler.due = FALSE
    BY DEF WindowShape, IsDocument, IsSample, NoSampler
  <1>1. ASSUME Restore PROVE Goal
    <2>1. native'.age = native.age + 1 /\ saved' = saved /\ sampler' = sampler /\ life = "off"
      BY <1>1 DEF Restore, Load
    <2>2. sampler = NoSampler
      BY <1>1 DEF Restore, AgeInv
    <2>3. doc' = saved \/ (doc'.placement.age = 0 /\ ~based')
      BY <1>1, DefaultsAreDocument, NoSampleIsSample DEF Restore, Load
    <2> QED
      BY <1>0, <2>1, <2>2, <2>3 DEF AgeInv
  <1>2. ASSUME StartPoller PROVE Goal
    <2>1. sampler'.got = NoSample /\ sampler'.pending = NoSample /\ sampler'.due = FALSE
      BY <1>0, <1>2 DEF StartPoller, NoSampler
    <2>2. life' = "open" /\ native' = native /\ UNCHANGED <<doc, saved, based>> /\ native.age > 0
      BY <1>2 DEF StartPoller, AgeInv
    <2> QED
      BY <1>0, <2>1, <2>2 DEF AgeInv
  <1>3. ASSUME UNCHANGED <<life, sampler>>,
               native'.age \in {native.age, native.age + 1},
               doc'.placement = doc.placement, saved'.placement \in {saved.placement, doc.placement},
               based' => based \/ saved'.placement = doc.placement
        PROVE  Goal
    BY <1>0, <1>3 DEF AgeInv, Newer, WindowShape, IsSample
  <1>4. ASSUME PollRect \/ SampleFails PROVE Goal
    <2>1. /\ sampler'.pending = sampler.pending /\ sampler'.due = sampler.due
          /\ sampler'.got = NoSample \/ sampler'.got.age = native.age
      BY <1>4 DEF PollRect, SampleFails, WindowShape, Seen
    <2>2. life = "open" /\ UNCHANGED <<life, native, doc, saved, based>>
      BY <1>4 DEF PollRect, SampleFails
    <2> QED
      BY <1>0, <2>1, <2>2 DEF AgeInv, Newer
  <1>5. ASSUME PollSample PROVE Goal
    <2>1. sampler.got # NoSample /\ life = "open" /\ UNCHANGED <<life, native, doc, saved, based>>
      BY <1>5 DEF PollSample
    <2>2. /\ sampler'.got = NoSample
          /\ \/ sampler'.pending = sampler.pending /\ sampler'.due = sampler.due
             \/ sampler'.pending = sampler.got
      BY <1>5, SampleTaken DEF PollSample
    <2> QED
      BY <1>0, <2>1, <2>2 DEF AgeInv, Newer
  <1>6. ASSUME NEW s, IsSample(s), Newer(s), NEW ok \in BOOLEAN, SavePlacement(s, ok),
               native' = native,
               sampler'.got = NoSample,
               sampler'.pending \in {s, NoSample}, sampler'.due => sampler'.pending = s /\ s # NoSample,
               life' # "open" => sampler' = NoSampler, life' # "off" => life # "off"
        PROVE  Goal
    <2>1. /\ doc'.placement = s /\ saved'.placement \in {saved.placement, s}
          /\ based' => based \/ saved'.placement = s
      BY <1>6, PlacementSaved DEF Written
    <2> QED
      BY <1>0, <1>6, <2>1 DEF AgeInv, Newer, IsSample
  <1>7. ASSUME NEW ok \in BOOLEAN, Debounce(ok) PROVE Goal
    <2>1. sampler.pending # NoSample
      BY <1>7 DEF Debounce, AgeInv
    <2>2. IsSample(sampler.pending) /\ Newer(sampler.pending)
      BY <2>1 DEF WindowShape, AgeInv
    <2>3. /\ sampler'.got = NoSample /\ sampler'.pending \in {sampler.pending, NoSample}
          /\ sampler'.due => sampler'.pending = sampler.pending
      BY <1>7 DEF Debounce, WindowShape
    <2>4. life = "open" /\ life' = "open" /\ native' = native
      BY <1>7 DEF Debounce
    <2> QED
      BY <1>6, <1>7, <2>1, <2>2, <2>3, <2>4 DEF Debounce
  <1>8. ASSUME StopPoller PROVE Goal
    <2>1. sampler' = NoSampler /\ life = "open" /\ life' = "stopped" /\ native' = native
      BY <1>8 DEF StopPoller
    <2>2. CASE sampler.pending = NoSample
      BY <1>0, <1>8, <2>1, <2>2 DEF StopPoller, AgeInv
    <2>3. CASE sampler.pending # NoSample
      <3>1. IsSample(sampler.pending) /\ Newer(sampler.pending)
        BY <2>3 DEF WindowShape, AgeInv
      <3>2. PICK ok \in BOOLEAN : SavePlacement(sampler.pending, ok)
        BY <1>8, <2>3 DEF StopPoller
      <3> QED
        BY <1>0, <1>6, <2>1, <3>1, <3>2
    <2> QED
      BY <2>2, <2>3
  <1>9. ASSUME FlushSaves PROVE Goal
    <2>1. IsSample(Seen) /\ Newer(Seen)
      BY <1>0 DEF Seen, IsSample, Newer, WindowShape, AgeInv
    <2>2. PICK ok \in BOOLEAN : SavePlacement(Seen, ok)
      BY <1>9 DEF FlushSaves
    <2>3. sampler' = NoSampler /\ life # "off" /\ native' = native
      BY <1>9 DEF FlushSaves, AgeInv
    <2> QED
      BY <1>0, <1>6, <2>1, <2>2, <2>3
  <1>10. ASSUME FlushLooks \/ WindowExit PROVE Goal
    BY <1>0, <1>10 DEF FlushLooks, WindowExit, AgeInv
  <1>11. ASSUME NEW c \in Clicks, TogglePin(c) \/ SetOnTop(c) PROVE Goal
    <2>1. native'.age = native.age
      BY <1>11 DEF TogglePin, SetOnTop, WindowShape
    <2> QED
      BY <1>3, <1>11, <2>1 DEF TogglePin, SetOnTop
  <1>12. ASSUME NEW c \in Clicks, SavePin(c) PROVE Goal
    <2>1. doc'.placement = doc.placement /\ saved' \in {saved, doc'} /\ (based' => based \/ saved' = doc')
      BY <1>12 DEF SavePin, Save, WindowShape, IsDocument
    <2> QED
      BY <1>3, <1>12, <2>1 DEF SavePin
  <1>13. ASSUME NEW n \in 1..MaxCalls, NEW ok \in BOOLEAN, SetAppearance(n, ok) PROVE Goal
    <2>1. doc'.placement = doc.placement /\ saved' \in {saved, doc'} /\ (based' => based \/ saved' = doc')
      BY <1>13 DEF SetAppearance, Save, WindowShape, IsDocument
    <2> QED
      BY <1>3, <1>13, <2>1 DEF SetAppearance
  <1>14. ASSUME CallAppearance \/ UNCHANGED mwVars PROVE Goal
    BY <1>3, <1>14 DEF CallAppearance, mwVars
  <1>15. ASSUME Minimise \/ \E r \in Spots : MoveWindow(r) PROVE Goal
    <2>1. native'.age \in {native.age, native.age + 1}
      BY <1>15 DEF Minimise, MoveWindow, WindowShape
    <2> QED
      BY <1>3, <1>15, <2>1 DEF Minimise, MoveWindow
  <1> QED
    BY <1>1, <1>2, <1>4, <1>5, <1>7, <1>8, <1>9, <1>10, <1>11, <1>12, <1>13, <1>14, <1>15
       DEF MapWindowNext

-----------------------------------------------------------------------------
\* Only usable rects become pending, and only those and the live rect of a window
\* that is usable are saved.
LEMMA RectNext == WindowShape /\ AgeInv /\ RectInv /\ [MapWindowNext]_mwVars => RectInv'
  <1> SUFFICES ASSUME WindowShape, AgeInv, RectInv, [MapWindowNext]_mwVars PROVE RectInv'
    OBVIOUS
  <1>0. NoSampler.pending = NoSample
    BY DEF NoSampler
  <1>1. ASSUME doc'.placement \in {doc.placement, saved.placement},
               saved'.placement \in {saved.placement, doc.placement},
               sampler'.pending \in {sampler.pending, NoSample}
        PROVE  RectInv'
    BY <1>1 DEF RectInv
  <1>2. ASSUME NEW s, IsSample(s), Usable(s.rect), NEW ok \in BOOLEAN, SavePlacement(s, ok),
               sampler'.pending \in {sampler.pending, NoSample}
        PROVE  RectInv'
    <2>1. doc'.placement = s /\ saved'.placement \in {saved.placement, s}
      BY <1>2, PlacementSaved DEF Written
    <2> QED
      BY <1>2, <2>1 DEF RectInv
  <1>3. ASSUME NEW ok \in BOOLEAN, Debounce(ok) PROVE RectInv'
    <2>1. IsSample(sampler.pending) /\ Usable(sampler.pending.rect)
      BY <1>3 DEF Debounce, WindowShape, AgeInv, RectInv
    <2>2. sampler'.pending \in {sampler.pending, NoSample}
      BY <1>3 DEF Debounce, WindowShape
    <2> QED
      BY <1>2, <1>3, <2>1, <2>2 DEF Debounce
  <1>4. ASSUME StopPoller PROVE RectInv'
    <2>1. CASE sampler.pending = NoSample
      BY <1>0, <1>1, <1>4, <2>1 DEF StopPoller
    <2>2. CASE sampler.pending # NoSample
      <3>1. IsSample(sampler.pending) /\ Usable(sampler.pending.rect)
        BY <2>2 DEF WindowShape, RectInv
      <3> QED
        BY <1>0, <1>2, <1>4, <2>2, <3>1 DEF StopPoller
    <2> QED
      BY <2>1, <2>2
  <1>5. ASSUME FlushSaves PROVE RectInv'
    <2>1. IsSample(Seen)
      BY DEF Seen, IsSample, WindowShape
    <2> QED
      BY <1>2, <1>5, <2>1 DEF FlushSaves
  <1>6. ASSUME PollSample PROVE RectInv'
    <2>1. /\ UNCHANGED <<doc, saved>>
          /\ sampler'.pending = sampler.pending \/ Usable(sampler'.pending.rect)
      BY <1>6, SampleTaken DEF PollSample
    <2> QED
      BY <2>1 DEF RectInv
  <1>13. ASSUME Restore PROVE RectInv'
    <2>1. doc' \in {saved, Defaults} /\ UNCHANGED <<saved, sampler>>
      BY <1>13 DEF Restore, Load
    <2> QED
      BY <2>1, DefaultsAreDocument DEF RectInv
  <1>7. ASSUME FlushLooks \/ WindowExit \/ Minimise \/ CallAppearance \/ UNCHANGED mwVars
        PROVE  RectInv'
    BY <1>0, <1>1, <1>7 DEF FlushLooks, WindowExit, Minimise, CallAppearance, mwVars
  <1>8. ASSUME StartPoller \/ PollRect \/ SampleFails PROVE RectInv'
    <2>1. sampler'.pending \in {sampler.pending, NoSample}
      BY <1>8 DEF StartPoller, PollRect, SampleFails, NoSampler, WindowShape
    <2> QED
      BY <1>1, <1>8, <2>1 DEF StartPoller, PollRect, SampleFails
  <1>9. ASSUME NEW r \in Spots, MoveWindow(r) PROVE RectInv'
    BY <1>1, <1>9 DEF MoveWindow
  <1>10. ASSUME NEW c \in Clicks, TogglePin(c) \/ SetOnTop(c) PROVE RectInv'
    BY <1>1, <1>10 DEF TogglePin, SetOnTop
  <1>11. ASSUME NEW c \in Clicks, SavePin(c) PROVE RectInv'
    <2>1. doc'.placement = doc.placement /\ saved' \in {saved, doc'}
      BY <1>11 DEF SavePin, Save, WindowShape, IsDocument
    <2> QED
      BY <1>1, <1>11, <2>1 DEF SavePin
  <1>12. ASSUME NEW n \in 1..MaxCalls, NEW ok \in BOOLEAN, SetAppearance(n, ok) PROVE RectInv'
    <2>1. doc'.placement = doc.placement /\ saved' \in {saved, doc'}
      BY <1>12 DEF SetAppearance, Save, WindowShape, IsDocument
    <2> QED
      BY <1>1, <1>12, <2>1 DEF SetAppearance
  <1> QED
    BY <1>3, <1>4, <1>5, <1>6, <1>7, <1>8, <1>9, <1>10, <1>11, <1>12, <1>13 DEF MapWindowNext

-----------------------------------------------------------------------------
\* No call takes the appearance back, but one over a file that was not loaded.
LooksGrow ==
  /\ life # "off" => doc'.look >= doc.look
  /\ based => saved'.look >= saved.look

\* A refused save of the appearance changes nothing, other saves keep it; calls
\* are numbered across launches, so the ones of a new page are newer than the file.
LEMMA LookNext == WindowShape /\ LookInv /\ [MapWindowNext]_mwVars => LookInv' /\ LooksGrow
  <1> SUFFICES ASSUME WindowShape, LookInv, [MapWindowNext]_mwVars PROVE LookInv' /\ LooksGrow
    OBVIOUS
  <1> DEFINE Goal == LookInv' /\ LooksGrow
  <1> USE DEF LooksGrow
  <1>0. doc.look \in Nat /\ saved.look \in Nat /\ pill.called \in Nat /\ pill.seq \in Nat /\ pill.running \subseteq Nat
    BY DEF WindowShape, IsDocument
  <1>1. ASSUME doc'.look = doc.look, saved'.look \in {saved.look, doc.look}, pill' = pill,
               based' => based \/ saved'.look = doc.look, life' = "off" => life = "off"
        PROVE  Goal
    BY <1>0, <1>1 DEF LookInv
  <1>2. ASSUME NEW s, IsSample(s), NEW ok \in BOOLEAN, SavePlacement(s, ok), pill' = pill,
               life' # "off"
        PROVE  Goal
    <2>1. /\ doc'.look = doc.look /\ saved'.look \in {saved.look, doc.look}
          /\ based' => based \/ saved'.look = doc.look
      BY <1>2, PlacementSaved DEF Written
    <2> QED
      BY <1>1, <1>2, <2>1
  <1>3. ASSUME NEW ok \in BOOLEAN, Debounce(ok) PROVE Goal
    BY <1>2, <1>3 DEF Debounce, WindowShape
  <1>4. ASSUME StopPoller PROVE Goal
    <2>1. CASE sampler.pending = NoSample
      BY <1>1, <1>4, <2>1 DEF StopPoller, LookInv
    <2>2. CASE sampler.pending # NoSample
      BY <1>2, <1>4, <2>2 DEF StopPoller, WindowShape
    <2> QED
      BY <2>1, <2>2
  <1>5. ASSUME FlushSaves PROVE Goal
    <2>1. IsSample(Seen)
      BY DEF Seen, IsSample, WindowShape
    <2> QED
      BY <1>2, <1>5, <2>1 DEF FlushSaves
  <1>6. ASSUME NEW c \in Clicks, SavePin(c) PROVE Goal
    <2>1. doc'.look = doc.look /\ saved' \in {saved, doc'} /\ (based' => based \/ saved' = doc')
      BY <1>6 DEF SavePin, Save, WindowShape, IsDocument
    <2> QED
      BY <1>1, <1>6, <2>1 DEF SavePin, LookInv
  <1>14. ASSUME Restore PROVE Goal
    <2>1. saved' = saved /\ pill' = pill /\ life = "off" /\ pill.running = {}
      BY <1>14 DEF Restore, Load, LookInv
    <2>2. doc'.look = saved.look \/ (doc'.look = 0 /\ ~based')
      BY <1>14, DefaultsAreDocument DEF Restore, Load
    <2> QED
      BY <1>0, <2>1, <2>2 DEF LookInv
  <1>7. ASSUME StartPoller \/ Minimise \/ PollRect \/ SampleFails \/ PollSample \/ FlushLooks
               \/ UNCHANGED mwVars
        PROVE  Goal
    BY <1>1, <1>7 DEF StartPoller, Minimise, PollRect, SampleFails, PollSample, FlushLooks,
       mwVars, LookInv
  <1>8. ASSUME NEW r \in Spots, MoveWindow(r) PROVE Goal
    BY <1>1, <1>8 DEF MoveWindow, LookInv
  <1>9. ASSUME NEW c \in Clicks, SetOnTop(c) PROVE Goal
    BY <1>1, <1>9 DEF SetOnTop, LookInv
  <1>10. ASSUME NEW c \in Clicks, TogglePin(c) PROVE Goal
    <2>1. pill'.called = pill.called + 1 /\ pill'.seq = pill.seq /\ pill'.running = pill.running
          /\ UNCHANGED <<doc, saved, based, life>>
      BY <1>10 DEF TogglePin, WindowShape
    <2> QED
      BY <1>0, <2>1 DEF LookInv
  <1>11. ASSUME CallAppearance PROVE Goal
    <2>1. pill'.called = pill.called + 1 /\ pill'.seq = pill.seq
          /\ pill'.running = pill.running \cup {pill.called + 1} /\ UNCHANGED <<doc, saved, based, life>>
          /\ life = "open"
      BY <1>11 DEF CallAppearance, WindowShape
    <2> QED
      BY <1>0, <2>1 DEF LookInv
  <1>12. ASSUME WindowExit PROVE Goal
    <2>1. pill'.called = pill.called /\ pill'.running = {} /\ UNCHANGED <<doc, saved, based>>
      BY <1>12 DEF WindowExit, WindowShape
    <2> QED
      BY <1>0, <2>1 DEF LookInv
  <1>13. ASSUME NEW n \in 1..MaxCalls, NEW ok \in BOOLEAN, SetAppearance(n, ok) PROVE Goal
    <2>1. n \in pill.running /\ n \in Nat /\ pill'.called = pill.called
          /\ pill'.running = pill.running \ {n} /\ life' = life /\ life # "off"
      BY <1>0, <1>13 DEF SetAppearance, Answered, WindowShape, LookInv
    <2>2. CASE n < pill.seq \/ ~ok
      <3>1. pill'.seq = pill.seq /\ UNCHANGED <<doc, saved, based>>
        BY <1>13, <2>2 DEF SetAppearance, Answered, WindowShape
      <3> QED
        BY <1>0, <2>1, <3>1 DEF LookInv
    <2>3. CASE ~(n < pill.seq \/ ~ok)
      <3>1. pill'.seq = n /\ doc'.look = n /\ saved' = doc'
        BY <1>13, <2>3 DEF SetAppearance, Answered, Save, WindowShape, IsDocument
      <3>2. doc.look <= n /\ n <= pill.called
        BY <1>0, <2>1, <2>3 DEF LookInv
      <3> QED
        BY <1>0, <2>1, <3>1, <3>2 DEF LookInv
    <2> QED
      BY <2>2, <2>3
  <1> QED
    BY <1>3, <1>4, <1>5, <1>6, <1>7, <1>8, <1>9, <1>10, <1>11, <1>12, <1>13, <1>14 DEF MapWindowNext

-----------------------------------------------------------------------------
\* pinMu: the click under way is alone from its look at the pin to its save.
LEMMA PinNext == WindowShape /\ PinInv /\ [MapWindowNext]_mwVars => PinInv'
  <1> SUFFICES ASSUME WindowShape, PinInv, [MapWindowNext]_mwVars PROVE PinInv'
    OBVIOUS
  <1>1. ASSUME native'.top = native.top, doc'.pinned = doc.pinned, pins' = pins,
               life' # "off", life # "off"
        PROVE  PinInv'
    BY <1>1 DEF PinInv
  <1>2. ASSUME NEW s, IsSample(s), NEW ok \in BOOLEAN, SavePlacement(s, ok), native' = native,
               pins' = pins, life # "off", life' # "off"
        PROVE  PinInv'
    BY <1>1, <1>2, PlacementSaved
  <1>3. ASSUME NEW ok \in BOOLEAN, Debounce(ok) PROVE PinInv'
    BY <1>2, <1>3 DEF Debounce, WindowShape
  <1>4. ASSUME StopPoller PROVE PinInv'
    <2>1. life' # "off" /\ life # "off" /\ native' = native /\ pins' = pins
      BY <1>4 DEF StopPoller
    <2>2. CASE sampler.pending = NoSample
      BY <1>1, <1>4, <2>1, <2>2 DEF StopPoller
    <2>3. CASE sampler.pending # NoSample
      BY <1>2, <1>4, <2>1, <2>3 DEF StopPoller, WindowShape
    <2> QED
      BY <2>2, <2>3
  <1>5. ASSUME FlushSaves PROVE PinInv'
    <2>1. IsSample(Seen) /\ life' # "off" /\ life # "off"
      BY <1>5 DEF Seen, IsSample, WindowShape, FlushSaves
    <2> QED
      BY <1>2, <1>5, <2>1 DEF FlushSaves
  <1>6. ASSUME Restore PROVE PinInv'
    <2>1. native'.top = doc'.pinned /\ pins' = pins /\ life = "off"
      BY <1>6 DEF Restore
    <2> QED
      BY <2>1 DEF PinInv
  <1>7. ASSUME StartPoller \/ PollRect \/ SampleFails \/ PollSample \/ FlushLooks PROVE PinInv'
    BY <1>1, <1>7 DEF StartPoller, PollRect, SampleFails, PollSample, FlushLooks
  <1>8. ASSUME Minimise \/ \E r \in Spots : MoveWindow(r) PROVE PinInv'
    <2>1. native'.top = native.top
      BY <1>8 DEF Minimise, MoveWindow, WindowShape
    <2> QED
      BY <1>1, <1>8, <2>1 DEF Minimise, MoveWindow
  <1>9. ASSUME WindowExit PROVE PinInv'
    BY <1>9 DEF WindowExit, PinInv
  <1>10. ASSUME CallAppearance PROVE PinInv'
    BY <1>1, <1>10 DEF CallAppearance
  <1>11. ASSUME NEW n \in 1..MaxCalls, NEW ok \in BOOLEAN, SetAppearance(n, ok) PROVE PinInv'
    <2>1. doc'.pinned = doc.pinned
      BY <1>11 DEF SetAppearance, WindowShape, IsDocument
    <2> QED
      BY <1>11, <2>1 DEF SetAppearance, PinInv
  <1>12. ASSUME NEW c \in Clicks, TogglePin(c) PROVE PinInv'
    <2>1. /\ life = "open" /\ UNCHANGED <<native, life, doc>>
          /\ \A d \in Clicks : pins[d] = <<>>
          /\ pins'[c][1] = "os" /\ \A d \in Clicks \ {c} : pins'[d] = <<>>
      BY <1>12 DEF TogglePin, PinFree, WindowShape
    <2> QED
      BY <2>1 DEF PinInv
  <1>13. ASSUME NEW c \in Clicks, SetOnTop(c) PROVE PinInv'
    <2>1. pins[c] \in {"os", "save"} \X BOOLEAN /\ pins[c] # <<>>
      BY <1>13 DEF SetOnTop, WindowShape
    <2>2. pins' = [pins EXCEPT ![c] = [pins[c] EXCEPT ![1] = "save"]]
      BY <1>13 DEF SetOnTop
    <2>3. pins'[c] = <<"save", pins[c][2]>> /\ \A d \in Clicks \ {c} : pins'[d] = pins[d]
      BY <2>1, <2>2 DEF WindowShape
    <2>4. \A d \in Clicks \ {c} : pins'[d] = <<>>
      BY <2>1, <2>3 DEF PinInv
    <2>5. native'.top = pins[c][2] /\ life' = life
      BY <1>13 DEF SetOnTop, WindowShape
    <2>6. pins'[c] # <<>> /\ pins'[c][1] = "save" /\ pins'[c][2] = pins[c][2] /\ "save" # "os"
      BY <2>3
    <2>7. life # "off"
      BY <2>1 DEF PinInv
    <2> QED
      BY <2>4, <2>5, <2>6, <2>7 DEF PinInv
  <1>14. ASSUME NEW c \in Clicks, SavePin(c) PROVE PinInv'
    <2>1. pins[c] # <<>> /\ pins[c][1] = "save" /\ native.top = pins[c][2]
          /\ UNCHANGED <<native, life>>
      BY <1>14 DEF SavePin, PinInv
    <2>2. \A d \in Clicks : pins'[d] = <<>>
      BY <1>14, <2>1 DEF SavePin, PinInv, WindowShape
    <2>3. doc'.pinned = pins[c][2]
      BY <1>14 DEF SavePin, WindowShape, IsDocument
    <2> QED
      BY <2>1, <2>2, <2>3 DEF PinInv
  <1>15. ASSUME UNCHANGED mwVars PROVE PinInv'
    BY <1>15 DEF mwVars, PinInv
  <1> QED
    BY <1>3, <1>4, <1>5, <1>6, <1>7, <1>8, <1>9, <1>10, <1>11, <1>12, <1>13, <1>14, <1>15
       DEF MapWindowNext

-----------------------------------------------------------------------------
(* The theorems *)

\* The first launch satisfies the invariant.
LEMMA WindowStart == MapWindowInit => WindowInv
  <1> SUFFICES ASSUME MapWindowInit PROVE WindowInv
    OBVIOUS
  <1> USE NoSampleIsSample DEF MapWindowInit
  <1>1. WindowShape
    BY DEF WindowShape, IsDocument, Defaults, NoSampler
  <1>2. AgeInv /\ RectInv /\ LookInv
    BY DEF AgeInv, RectInv, LookInv, Defaults, NoSampler
  <1>3. PinInv
    BY DEF PinInv
  <1> QED
    BY <1>1, <1>2, <1>3 DEF WindowInv

\* Every step of the window process, and a stutter, keeps the invariant.
LEMMA WindowNext == WindowInv /\ [MapWindowNext]_mwVars => WindowInv'
  BY WindowShapeNext, AgeNext, RectNext, LookNext, PinNext DEF WindowInv

\* The invariant that all the theorems below follow from.
THEOREM WindowInvariant == MapWindowSpec => []WindowInv
  BY WindowStart, WindowNext, PTL DEF MapWindowSpec

\* savePlacement, the debounce that retries it, the flush, the pin and the pill
\* write one document, and no order of them takes a placement or a look back; the
\* file goes back only by the first save of a process that could not load it.
THEOREM WindowNeverGoesBack == MapWindowSpec => NothingGoesBack
  <1>1. WindowInv /\ [MapWindowNext]_mwVars =>
          [/\ life # "off" => doc'.placement.age >= doc.placement.age /\ doc'.look >= doc.look
           /\ based => saved'.placement.age >= saved.placement.age /\ saved'.look >= saved.look]_mwVars
    BY AgeNext, LookNext DEF WindowInv, AgesGrow, LooksGrow
  <1> QED
    BY <1>1, WindowInvariant, PTL DEF MapWindowSpec, NothingGoesBack

\* The iconic rect of a minimised window never reaches the file, although
\* loop and flushPlacement ask for the rect and the state in two calls.
THEOREM WindowNeverIconic == MapWindowSpec => []NeverIconic
  <1>1. WindowInv => NeverIconic
    BY DEF WindowInv, RectInv, NeverIconic, Usable, Iconic, IconicOrigin
  <1> QED
    BY <1>1, WindowInvariant, PTL

\* ToggleAlwaysOnTop: once no click is under way the pill and the window agree.
THEOREM WindowPinAgrees == MapWindowSpec => []PinAgrees
  <1>1. WindowInv => PinAgrees
    BY DEF WindowInv, PinInv, PinAgrees, PinFree
  <1> QED
    BY <1>1, WindowInvariant, PTL

\* SetAppearance: the look in use is the one a restart that can read the file
\* would restore, unless this process could not and has not written it yet.
THEOREM WindowLookIsSaved == MapWindowSpec => []LookIsSaved
  <1>1. WindowInv => LookIsSaved
    BY DEF WindowInv, LookInv, LookIsSaved
  <1> QED
    BY <1>1, WindowInvariant, PTL

-----------------------------------------------------------------------------
(* Where the window opens *)

\* Min and Max of two integers are one of them.
LEMMA LeastOfTwo ==
  ASSUME NEW a \in Int, NEW b \in Int
  PROVE  Min({a, b}) = (IF a <= b THEN a ELSE b) /\ Max({a, b}) = (IF a >= b THEN a ELSE b)
  <1>1. PICK c : c = IF a <= b THEN a ELSE b
    OBVIOUS
  <1>2. PICK d : d = IF a >= b THEN a ELSE b
    OBVIOUS
  <1>3. c \in {a, b} /\ \A y \in {a, b} : c <= y
    BY <1>1
  <1>4. d \in {a, b} /\ \A y \in {a, b} : d >= y
    BY <1>2
  <1>5. \A x \in {a, b} : (\A y \in {a, b} : x <= y) => x = c
    BY <1>1
  <1>6. \A x \in {a, b} : (\A y \in {a, b} : x >= y) => x = d
    BY <1>2
  <1>7. (CHOOSE x \in {a, b} : \A y \in {a, b} : x <= y) = c
    BY <1>3, <1>5
  <1>8. (CHOOSE x \in {a, b} : \A y \in {a, b} : x >= y) = d
    BY <1>4, <1>6
  <1> QED
    BY <1>1, <1>2, <1>7, <1>8 DEF Min, Max

\* pickMonitor finds one of the monitors, whatever their number and places.
LEMMA MonitorPicked ==
  ASSUME NEW r \in Rects, NEW ms, IsFiniteSet(ms), ms # {}, ms \subseteq Rects
  PROVE  PickMonitor(r, ms) \in ms
  <1>1. ASSUME NEW m \in ms PROVE Overlap(r, m) \in Int /\ Distance(r, m) \in Int
    <2>1. /\ r.x \in Int /\ r.y \in Int /\ r.w \in Int /\ r.h \in Int
          /\ m.x \in Int /\ m.y \in Int /\ m.w \in Int /\ m.h \in Int
      BY DEF Rects
    <2>2. PICK w \in Int : w = Min({r.x + r.w, m.x + m.w}) - Max({r.x, m.x})
      <3>1. PICK a \in Int, b \in Int : a = r.x + r.w /\ b = m.x + m.w
        BY <2>1
      <3>2. Min({a, b}) \in Int
        BY LeastOfTwo
      <3>3. Max({r.x, m.x}) \in Int
        BY <2>1, LeastOfTwo
      <3> QED
        BY <3>1, <3>2, <3>3
    <2>3. PICK h \in Int : h = Min({r.y + r.h, m.y + m.h}) - Max({r.y, m.y})
      <3>1. PICK a \in Int, b \in Int : a = r.y + r.h /\ b = m.y + m.h
        BY <2>1
      <3>2. Min({a, b}) \in Int
        BY LeastOfTwo
      <3>3. Max({r.y, m.y}) \in Int
        BY <2>1, LeastOfTwo
      <3> QED
        BY <3>1, <3>2, <3>3
    <2>4. PICK dx \in Int : dx = (r.x + r.w \div 2) - (m.x + m.w \div 2)
      BY <2>1
    <2>5. PICK dy \in Int : dy = (r.y + r.h \div 2) - (m.y + m.h \div 2)
      BY <2>1
    <2>6. w * h \in Int /\ dx * dx + dy * dy \in Int
      OBVIOUS
    <2>7. Overlap(r, m) = IF w <= 0 \/ h <= 0 THEN 0 ELSE w * h
      BY <2>2, <2>3 DEF Overlap
    <2>8. Distance(r, m) = dx * dx + dy * dy
      BY <2>4, <2>5 DEF Distance
    <2> QED
      BY <2>6, <2>7, <2>8
  <1> DEFINE over == {m \in ms : Overlap(r, m) > 0}
  <1>2. CASE over # {}
    <2>1. IsFiniteSet(over)
      BY FS_Subset
    <2>2. PICK f : f = [m \in over |-> 0 - Overlap(r, m)]
      OBVIOUS
    <2>3. f \in [over -> Int]
      BY <1>1, <2>2
    <2>4. PICK m \in over : \A n \in over : f[m] <= f[n]
      <3> HIDE DEF over
      <3> QED
        BY <1>2, <2>1, <2>3, FiniteMinimum
    <2>5. \A n \in over : Overlap(r, m) >= Overlap(r, n)
      BY <1>1, <2>2, <2>4
    <2>6. (CHOOSE k \in over : \A n \in over : Overlap(r, k) >= Overlap(r, n)) \in over
      BY <2>4, <2>5
    <2> QED
      BY <1>2, <2>6 DEF PickMonitor
  <1>3. CASE over = {}
    <2>1. PICK f : f = [m \in ms |-> Distance(r, m)]
      OBVIOUS
    <2>2. f \in [ms -> Int]
      BY <1>1, <2>1
    <2>3. PICK m \in ms : \A n \in ms : f[m] <= f[n]
      BY <2>2, FiniteMinimum
    <2>4. (CHOOSE k \in ms : \A n \in ms : Distance(r, k) <= Distance(r, n)) \in ms
      BY <2>1, <2>3
    <2> QED
      BY <1>3, <2>4 DEF PickMonitor
  <1> QED
    BY <1>2, <1>3

\* slideInside: a rect no larger than the work area ends up within it.
LEMMA SlidesInside ==
  ASSUME NEW r \in Rects, NEW m \in Rects, r.w <= m.w, r.h <= m.h
  PROVE  SlideInside(r, m) \in Rects /\ Inside(SlideInside(r, m), m)
  <1>1. /\ r.x \in Int /\ r.y \in Int /\ r.w \in Nat /\ r.h \in Nat
        /\ m.x \in Int /\ m.y \in Int /\ m.w \in Nat /\ m.h \in Nat
    BY DEF Rects
  <1>2. PICK x \in Int : /\ x = Max({m.x, Min({r.x, m.x + m.w - r.w})})
                         /\ m.x <= x /\ x + r.w <= m.x + m.w
    <2>1. PICK a \in Int : a = Min({r.x, m.x + m.w - r.w}) /\ a <= m.x + m.w - r.w
      BY <1>1, LeastOfTwo
    <2>2. Max({m.x, a}) = IF m.x >= a THEN m.x ELSE a
      BY <1>1, LeastOfTwo
    <2> QED
      BY <1>1, <2>1, <2>2
  <1>3. PICK y \in Int : /\ y = Max({m.y, Min({r.y, m.y + m.h - r.h})})
                         /\ m.y <= y /\ y + r.h <= m.y + m.h
    <2>1. PICK a \in Int : a = Min({r.y, m.y + m.h - r.h}) /\ a <= m.y + m.h - r.h
      BY <1>1, LeastOfTwo
    <2>2. Max({m.y, a}) = IF m.y >= a THEN m.y ELSE a
      BY <1>1, LeastOfTwo
    <2> QED
      BY <1>1, <2>1, <2>2
  <1>4. SlideInside(r, m) = [r EXCEPT !.x = x, !.y = y]
    BY <1>2, <1>3 DEF SlideInside
  <1>5. SlideInside(r, m) = [x |-> x, y |-> y, w |-> r.w, h |-> r.h]
    BY <1>4 DEF Rects
  <1> QED
    BY <1>1, <1>2, <1>3, <1>5 DEF Rects, Inside

\* Clamp: what was saved opens wholly on one of the work areas there are now.
LEMMA ClampedInside ==
  ASSUME NEW p, p.rect \in Rects, NEW ms \in Desks, NEW primary \in ms
  PROVE  /\ Clamp(p, ms, primary) \in Rects
         /\ \E m \in ms : Inside(Clamp(p, ms, primary), m)
  <1>1. IsFiniteSet(ms) /\ ms # {} /\ ms \subseteq Rects
    BY DesksAssumption
  <1>2. CASE p = NoSample \/ ~FitsAny(p.rect, ms)
    <2>1. /\ primary \in Rects /\ DefaultSize.w \in Nat /\ DefaultSize.h \in Nat
          /\ DefaultSize.w <= primary.w /\ DefaultSize.h <= primary.h
      BY <1>1, DesksAssumption
    <2>2. /\ primary.x \in Int /\ primary.y \in Int /\ primary.w \in Nat /\ primary.h \in Nat
      BY <2>1 DEF Rects
    <2>3. PICK a \in Int : a = (primary.w - DefaultSize.w) \div 2 /\ 0 <= a /\ a + DefaultSize.w <= primary.w
      BY <2>1, <2>2
    <2>4. PICK b \in Int : b = (primary.h - DefaultSize.h) \div 2 /\ 0 <= b /\ b + DefaultSize.h <= primary.h
      BY <2>1, <2>2
    <2>5. Centred(primary) = [x |-> primary.x + a, y |-> primary.y + b,
                              w |-> DefaultSize.w, h |-> DefaultSize.h]
      BY <2>3, <2>4 DEF Centred
    <2>6. Centred(primary) \in Rects /\ Inside(Centred(primary), primary)
      BY <2>1, <2>2, <2>3, <2>4, <2>5 DEF Rects, Inside
    <2> QED
      BY <1>2, <2>6 DEF Clamp
  <1>3. CASE ~(p = NoSample \/ ~FitsAny(p.rect, ms))
    <2>1. PICK m \in ms : m = PickMonitor(p.rect, ms)
      BY <1>1, MonitorPicked
    <2>2. m \in Rects /\ m.w \in Nat /\ m.h \in Nat /\ p.rect.w \in Nat /\ p.rect.h \in Nat
      BY <1>1, <2>1 DEF Rects
    <2>3. PICK w \in Nat : w = Min({p.rect.w, m.w}) /\ w <= m.w
      BY <2>2, LeastOfTwo
    <2>4. PICK h \in Nat : h = Min({p.rect.h, m.h}) /\ h <= m.h
      BY <2>2, LeastOfTwo
    <2>5. PICK r : r = [p.rect EXCEPT !.w = w, !.h = h]
      OBVIOUS
    <2>6. r \in Rects /\ r.w = w /\ r.h = h
      BY <2>5 DEF Rects
    <2>7. Clamp(p, ms, primary) = SlideInside(r, m)
      BY <1>3, <2>1, <2>3, <2>4, <2>5 DEF Clamp
    <2> QED
      BY <2>2, <2>3, <2>4, <2>6, <2>7, SlidesInside
  <1> QED
    BY <1>2, <1>3

\* The rects are rects, and a window that was placed is where Clamp put it.
PlaceInv ==
  /\ native.rect \in Rects /\ doc.placement.rect \in Rects /\ saved.placement.rect \in Rects
  /\ sampler.got.rect \in Rects /\ sampler.last.rect \in Rects /\ sampler.pending.rect \in Rects
  /\ OpensOnScreen

\* Only Restore places the window on a desk; whatever moves it later comes after.
LEMMA PlaceNext == WindowShape /\ PlaceInv /\ [MapWindowNext]_mwVars => PlaceInv'
  <1> SUFFICES ASSUME WindowShape, PlaceInv, [MapWindowNext]_mwVars PROVE PlaceInv'
    OBVIOUS
  <1>0. /\ NoSample.rect \in Rects /\ Seen.rect \in Rects
        /\ NoSampler.got = NoSample /\ NoSampler.last = NoSample /\ NoSampler.pending = NoSample
    BY DEF NoSample, Iconic, IconicOrigin, Seen, Rects, PlaceInv, NoSampler
  <1>1. ASSUME native'.rect = native.rect \/ (native'.rect \in Rects /\ life' # "placed"),
               life' # "placed" \/ (life' = life /\ desk' = desk),
               doc'.placement \in {doc.placement, saved.placement, sampler.pending, Seen},
               saved'.placement \in {saved.placement, doc'.placement},
               \A s \in {sampler'.got, sampler'.last, sampler'.pending} :
                 s \in {NoSample, Seen, sampler.got, sampler.last, sampler.pending}
        PROVE  PlaceInv'
    <2>1. \A s \in {sampler'.got, sampler'.last, sampler'.pending} : s.rect \in Rects
      BY <1>0, <1>1 DEF PlaceInv
    <2>2. native'.rect \in Rects /\ doc'.placement.rect \in Rects /\ saved'.placement.rect \in Rects
      BY <1>0, <1>1 DEF PlaceInv
    <2>3. OpensOnScreen'
      BY <1>1 DEF PlaceInv, OpensOnScreen
    <2> QED
      BY <2>1, <2>2, <2>3 DEF PlaceInv
  <1>2. ASSUME Restore PROVE PlaceInv'
    <2>1. PICK ms \in Desks \cup {{}}, ok \in BOOLEAN, r \in Spots :
            /\ ok => (ms # {} \/ doc'.placement # NoSample)
            /\ \E primary \in IF ms = {} THEN {Iconic} ELSE ms :
                 native' = [rect |-> IF ok THEN IF ms = {} THEN doc'.placement.rect
                                                ELSE Clamp(doc'.placement, ms, primary)
                                     ELSE r,
                            age |-> native.age + 1, min |-> FALSE, top |-> doc'.pinned]
            /\ desk' = ms /\ life' = IF ok THEN "placed" ELSE "unplaced"
      BY <1>2 DEF Restore
    <2>2. UNCHANGED <<sampler, saved>> /\ doc'.placement \in {saved.placement, NoSample} /\ r \in Rects
      BY <1>2, DefaultsAreDocument, DesksAssumption DEF Restore, Load
    <2>6. doc'.placement.rect \in Rects
      BY <1>0, <2>2 DEF PlaceInv
    <2>3. PICK primary \in IF ms = {} THEN {Iconic} ELSE ms :
            native'.rect = IF ok THEN IF ms = {} THEN doc'.placement.rect
                                      ELSE Clamp(doc'.placement, ms, primary)
                           ELSE r
      BY <2>1
    <2>4. native'.rect \in Rects /\ (ok /\ ms # {} => \E m \in ms : Inside(native'.rect, m))
      BY <2>2, <2>3, <2>6, ClampedInside
    <2>5. OpensOnScreen'
      BY <2>1, <2>4 DEF OpensOnScreen
    <2> QED
      BY <2>2, <2>4, <2>5, <2>6 DEF PlaceInv
  <1>3. ASSUME StartPoller \/ PollRect \/ SampleFails PROVE PlaceInv'
    <2>1. /\ UNCHANGED <<native, doc, saved>>
          /\ life' # "placed" \/ (life' = life /\ desk' = desk)
      BY <1>3 DEF StartPoller, PollRect, SampleFails
    <2>2. \A s \in {sampler'.got, sampler'.last, sampler'.pending} :
            s \in {NoSample, Seen, sampler.got, sampler.last, sampler.pending}
      BY <1>3 DEF StartPoller, PollRect, SampleFails, NoSampler, WindowShape
    <2> QED
      BY <1>1, <2>1, <2>2
  <1>4. ASSUME PollSample PROVE PlaceInv'
    <2>1. sampler'.got = NoSample /\ sampler'.last \in {sampler.last, sampler.got}
          /\ sampler'.pending \in {sampler.pending, sampler.got}
      BY <1>4, SampleTaken DEF PollSample
    <2> QED
      BY <1>1, <1>4, <2>1 DEF PollSample
  <1>5. ASSUME NEW r \in Spots, MoveWindow(r) PROVE PlaceInv'
    <2>1. native'.rect = r /\ r \in Rects
      BY <1>5, DesksAssumption DEF MoveWindow, WindowShape
    <2> QED
      BY <1>1, <1>5, <2>1 DEF MoveWindow
  <1>6. ASSUME Minimise \/ \E c \in Clicks : SetOnTop(c) PROVE PlaceInv'
    <2>1. native'.rect = native.rect /\ UNCHANGED <<life, desk, sampler, doc, saved>>
      BY <1>6 DEF Minimise, SetOnTop, WindowShape
    <2> QED
      BY <1>1, <2>1
  <1>7. ASSUME NEW s, IsSample(s), s \in {sampler.pending, Seen}, NEW ok \in BOOLEAN, SavePlacement(s, ok),
               UNCHANGED native, life' # "placed",
               \A t \in {sampler'.got, sampler'.last, sampler'.pending} :
                 t \in {NoSample, Seen, sampler.got, sampler.last, sampler.pending}
        PROVE  PlaceInv'
    <2>1. doc'.placement = s /\ saved'.placement \in {saved.placement, doc'.placement}
      BY <1>7, PlacementSaved DEF Written
    <2> QED
      BY <1>1, <1>7, <2>1
  <1>8. ASSUME NEW ok \in BOOLEAN, Debounce(ok) PROVE PlaceInv'
    <2>1. /\ sampler'.got \in {NoSample, sampler.got} /\ sampler'.last \in {NoSample, sampler.last}
          /\ sampler'.pending \in {NoSample, sampler.pending} /\ IsSample(sampler.pending)
      BY <1>8 DEF Debounce, WindowShape
    <2> QED
      BY <1>7, <1>8, <2>1 DEF Debounce
  <1>9. ASSUME StopPoller PROVE PlaceInv'
    <2>1. sampler' = NoSampler /\ native' = native /\ life' # "placed" /\ IsSample(sampler.pending)
      BY <1>9 DEF StopPoller, WindowShape
    <2>2. CASE UNCHANGED <<doc, saved>>
      BY <1>0, <1>1, <2>1, <2>2
    <2>3. ASSUME NEW ok \in BOOLEAN, SavePlacement(sampler.pending, ok) PROVE PlaceInv'
      BY <1>0, <1>7, <2>1, <2>3
    <2> QED
      BY <1>9, <2>2, <2>3 DEF StopPoller
  <1>10. ASSUME FlushSaves PROVE PlaceInv'
    <2>1. IsSample(Seen) /\ native' = native /\ sampler' = sampler /\ life' # "placed"
      BY <1>10 DEF FlushSaves, Seen, IsSample, WindowShape
    <2> QED
      BY <1>7, <1>10, <2>1 DEF FlushSaves
  <1>11. ASSUME FlushLooks \/ WindowExit \/ CallAppearance \/ UNCHANGED mwVars PROVE PlaceInv'
    <2>1. /\ UNCHANGED <<native, doc, saved>> /\ sampler' \in {sampler, NoSampler}
          /\ life' # "placed" \/ (life' = life /\ desk' = desk)
      BY <1>11 DEF FlushLooks, WindowExit, CallAppearance, mwVars
    <2> QED
      BY <1>0, <1>1, <2>1
  <1>12. ASSUME \E c \in Clicks : TogglePin(c) \/ SavePin(c) PROVE PlaceInv'
    <2>1. /\ UNCHANGED <<native, sampler, life, desk>> /\ doc'.placement = doc.placement
          /\ saved' \in {saved, doc'}
      BY <1>12 DEF TogglePin, SavePin, Save, WindowShape, IsDocument
    <2> QED
      BY <1>1, <2>1
  <1>13. ASSUME NEW n \in 1..MaxCalls, NEW ok \in BOOLEAN, SetAppearance(n, ok) PROVE PlaceInv'
    <2>1. /\ UNCHANGED <<native, sampler, life, desk>> /\ doc'.placement = doc.placement
          /\ saved' \in {saved, doc'}
      BY <1>13 DEF SetAppearance, Save, WindowShape, IsDocument
    <2> QED
      BY <1>1, <2>1
  <1> QED
    BY <1>2, <1>3, <1>4, <1>5, <1>6, <1>8, <1>9, <1>10, <1>11, <1>12, <1>13 DEF MapWindowNext

\* restorePlacement and Clamp: on whatever monitors there are now, if the default
\* size fits each of them, the window opens wholly on one.
THEOREM WindowOpensOnScreen == MapWindowSpec => []OpensOnScreen
  <1>1. MapWindowInit => PlaceInv
    BY DEF MapWindowInit, PlaceInv, OpensOnScreen, NoSampler, Defaults, NoSample, Iconic, IconicOrigin, Rects
  <1>2. WindowInv /\ PlaceInv /\ [MapWindowNext]_mwVars => PlaceInv'
    BY PlaceNext DEF WindowInv
  <1>3. PlaceInv => OpensOnScreen
    BY DEF PlaceInv
  <1> QED
    BY <1>1, <1>2, <1>3, WindowInvariant, PTL DEF MapWindowSpec

\* What is counted stays within its bound, and the rest within its type.
CountsInv ==
  /\ native.age <= MaxMoves /\ native.min \in BOOLEAN /\ native.top \in BOOLEAN
  /\ life \in {"off", "placed", "unplaced", "open", "stopped", "flushed"}
  /\ pill.called <= MaxCalls /\ pill.seq <= pill.called
  /\ \A n \in pill.running : 1 <= n /\ n <= pill.called

\* Every step keeps the bounds.
LEMMA CountsNext == WindowShape /\ CountsInv /\ [MapWindowNext]_mwVars => CountsInv'
  <1> SUFFICES ASSUME WindowShape, CountsInv, [MapWindowNext]_mwVars PROVE CountsInv'
    OBVIOUS
  <1>0. /\ native.age \in Nat /\ pill.called \in Nat /\ pill.seq \in Nat /\ pill.running \subseteq Nat
        /\ MaxMoves \in Nat /\ MaxCalls \in Nat
    BY BoundsAssumption DEF WindowShape
  <1> DEFINE NativeOK == native'.age <= MaxMoves /\ native'.min \in BOOLEAN /\ native'.top \in BOOLEAN
             LifeOK == life' \in {"off", "placed", "unplaced", "open", "stopped", "flushed"}
             PillOK == /\ pill'.called <= MaxCalls /\ pill'.seq <= pill'.called
                       /\ \A n \in pill'.running : 1 <= n /\ n <= pill'.called
  <1>1. NativeOK
    <2>1. CASE UNCHANGED native
      BY <2>1 DEF CountsInv
    <2>2. CASE Restore
      <3>1. PICK r : native' = [rect |-> r, age |-> native.age + 1, min |-> FALSE, top |-> doc'.pinned]
        BY <2>2 DEF Restore
      <3>2. doc'.pinned \in BOOLEAN
        BY <2>2, DefaultsAreDocument DEF Restore, Load, WindowShape
      <3> QED
        BY <1>0, <2>2, <3>1, <3>2 DEF Restore, WindowShape
    <2>3. ASSUME NEW r \in Spots, MoveWindow(r) PROVE NativeOK
      <3>1. native'.age = native.age + 1 /\ native'.min = native.min /\ native'.top = native.top
            /\ native.age < MaxMoves
        BY <2>3 DEF MoveWindow, WindowShape
      <3> QED
        BY <1>0, <3>1 DEF CountsInv
    <2>4. CASE Minimise
      <3>1. native'.age = native.age /\ native'.min = ~native.min /\ native'.top = native.top
        BY <2>4 DEF Minimise, WindowShape
      <3> QED
        BY <1>0, <3>1 DEF CountsInv
    <2>5. ASSUME NEW c \in Clicks, SetOnTop(c) PROVE NativeOK
      <3>1. native'.age = native.age /\ native'.min = native.min /\ native'.top = pins[c][2]
        BY <2>5 DEF SetOnTop, WindowShape
      <3>2. pins[c] \in {"os", "save"} \X BOOLEAN
        BY <2>5 DEF SetOnTop, WindowShape
      <3> QED
        BY <1>0, <3>1, <3>2 DEF CountsInv
    <2> QED
      BY <2>1, <2>2, <2>3, <2>4, <2>5 DEF MapWindowNext, mwVars, StartPoller, WindowExit, PollRect, SampleFails,
         PollSample, Debounce, StopPoller, FlushLooks, FlushSaves, TogglePin, SavePin, CallAppearance,
         SetAppearance
  <1>2. LifeOK
    <2>1. UNCHANGED life \/ life' \in {"off", "placed", "unplaced", "open", "stopped", "flushed"}
      BY DEF MapWindowNext, mwVars, Restore, StartPoller, WindowExit, Minimise, MoveWindow, PollRect, SampleFails,
         PollSample, Debounce, StopPoller, FlushLooks, FlushSaves, TogglePin, SetOnTop, SavePin, CallAppearance,
         SetAppearance
    <2> QED
      BY <2>1 DEF CountsInv
  <1>3. PillOK
    <2>1. CASE UNCHANGED pill
      BY <2>1 DEF CountsInv
    <2>2. CASE WindowExit
      <3>1. pill'.called = pill.called /\ pill'.running = {} /\ pill'.seq = 0
        BY <2>2 DEF WindowExit, WindowShape
      <3> QED
        BY <1>0, <3>1 DEF CountsInv
    <2>3. ASSUME NEW c \in Clicks, TogglePin(c) PROVE PillOK
      <3>1. pill'.called = pill.called + 1 /\ pill'.running = pill.running /\ pill'.seq = pill.seq
            /\ pill.called < MaxCalls
        BY <2>3 DEF TogglePin, WindowShape
      <3> QED
        BY <1>0, <3>1 DEF CountsInv
    <2>4. CASE CallAppearance
      <3>1. /\ pill'.called = pill.called + 1 /\ pill'.running = pill.running \cup {pill.called + 1}
            /\ pill'.seq = pill.seq /\ pill.called < MaxCalls
        BY <2>4 DEF CallAppearance, WindowShape
      <3> QED
        BY <1>0, <3>1 DEF CountsInv
    <2>5. ASSUME NEW n \in 1..MaxCalls, NEW ok \in BOOLEAN, SetAppearance(n, ok) PROVE PillOK
      <3>1. /\ n \in pill.running /\ pill'.called = pill.called /\ pill'.running = pill.running \ {n}
            /\ pill'.seq \in {pill.seq, n}
        BY <2>5 DEF SetAppearance, Answered, WindowShape
      <3> QED
        BY <1>0, <3>1 DEF CountsInv
    <2> QED
      BY <2>1, <2>2, <2>3, <2>4, <2>5 DEF MapWindowNext, mwVars, Restore, StartPoller, Minimise, MoveWindow,
         PollRect, SampleFails, PollSample, Debounce, StopPoller, FlushLooks, FlushSaves, SetOnTop, SavePin
  <1> QED
    BY <1>1, <1>2, <1>3 DEF CountsInv

\* The state of the window process is one its code can have.
THEOREM WindowTypes == MapWindowSpec => []MapWindowTypeOK
  <1>1. MapWindowInit => CountsInv
    BY BoundsAssumption DEF MapWindowInit, CountsInv
  <1>2. WindowInv /\ CountsInv /\ [MapWindowNext]_mwVars => CountsInv'
    BY CountsNext DEF WindowInv
  <1>3. WindowInv /\ CountsInv => MapWindowTypeOK
    <2> SUFFICES ASSUME WindowShape, AgeInv, LookInv, CountsInv PROVE MapWindowTypeOK
      BY DEF WindowInv
    <2>1. /\ native.age \in Nat /\ pill.called \in Nat /\ pill.seq \in Nat /\ pill.running \subseteq Nat
          /\ doc.look \in Nat /\ saved.look \in Nat /\ doc.pinned \in BOOLEAN /\ saved.pinned \in BOOLEAN
          /\ MaxMoves \in Nat /\ MaxCalls \in Nat
      BY BoundsAssumption DEF WindowShape, IsDocument
    <2>2. native.age \in 0..MaxMoves /\ pill.seq \in 0..pill.called
      BY <2>1 DEF CountsInv
    <2>3. doc.look \in 0..MaxCalls /\ saved.look \in 0..MaxCalls
      BY <2>1 DEF CountsInv, LookInv
    <2>4. pill.running \subseteq 1..pill.called
      BY <2>1 DEF CountsInv
    <2> QED
      BY <2>1, <2>2, <2>3, <2>4 DEF MapWindowTypeOK, AgeInv, CountsInv
  <1> QED
    BY <1>1, <1>2, <1>3, WindowInvariant, PTL DEF MapWindowSpec

-----------------------------------------------------------------------------
(* The screenshots                                                         *)
Phases == {"none", "armed", "stopped", "done"} \cup Steps

\* The shape of the state; that timers are numbered within MaxEvents is not needed.
ShotsShape ==
  /\ timer \in [Callbacks -> Phases]
  /\ pendings = [f \in Files |-> pendings[f]]
  /\ shown \in [Files -> Nat]
  /\ fsq \in Seq(Files \X {"create", "write", "remove"})
  /\ reader \in {<<>>} \cup (Files \X {"create", "write", "remove"})

\* A callback that has passed the test of its file and not yet handed it on.
Passed(c) == timer[c] \in {"stat", "mark"}
Owing(c) == timer[c] \in {"stat", "mark", "emit"}

\* A file whose callbacks did not cross has one of them at most past the test;
\* until that one marks the file nothing was handed on, and then nobody passes.
OnceInv ==
  \A f \in Files \ crossed :
    /\ f \notin processed => shown[f] = 0 /\ \A c \in Callbacks : c[1] = f => timer[c] # "emit"
    /\ f \in processed => \A c \in Callbacks : c[1] = f => ~Passed(c)
    /\ \A c, d \in Callbacks : c[1] = f /\ d[1] = f /\ Owing(c) /\ Owing(d) => c = d
    /\ shown[f] <= 1
    /\ \A c \in Callbacks : c[1] = f /\ timer[c] = "emit" => shown[f] = 0

\* While the monitor runs, the timers it does not know are the orphans.
TimersInv ==
  /\ watcher = "on" =>
       \A c \in Callbacks : c[2] # 0 /\ timer[c] = "armed" => pendings[c[1]] = c[2] \/ c \in orphans
  /\ StopLeavesOrphans

ShotsInv == ShotsShape /\ OnceInv /\ TimersInv

-----------------------------------------------------------------------------
\* Re-arming touches the timers of one file and starts no callback.
LEMMA RearmedTimers ==
  ASSUME ShotsShape, NEW f \in Files, NEW k, timer' = Rearmed(f, k)
  PROVE  /\ timer' \in [Callbacks -> Phases]
         /\ \A c \in Callbacks : timer'[c] \in {timer[c], "armed", "stopped"}
         /\ \A c \in Callbacks : timer'[c] = "armed" =>
              c = <<f, k>> \/ (timer[c] = "armed" /\ ~(c[1] = f /\ c[2] = pendings[f] /\ c[2] # 0))
  <1> DEFINE old == <<f, pendings[f]>>
             halted == [timer EXCEPT ![old] = IF pendings[f] # 0 /\ @ = "armed" THEN "stopped" ELSE @]
  <1>1. halted \in [Callbacks -> Phases]
    BY DEF ShotsShape, Phases
  <1>2. \A c \in Callbacks :
          halted[c] = IF c = old /\ pendings[f] # 0 /\ timer[c] = "armed" THEN "stopped" ELSE timer[c]
    BY DEF ShotsShape
  <1> HIDE DEF halted
  <1>3. timer' = [halted EXCEPT ![<<f, k>>] = "armed"]
    BY DEF Rearmed, halted
  <1>4. timer' \in [Callbacks -> Phases]
    BY <1>1, <1>3 DEF Phases
  <1>5. \A c \in Callbacks : timer'[c] = IF c = <<f, k>> THEN "armed" ELSE halted[c]
    BY <1>1, <1>3
  <1>6. \A c \in Callbacks : c = <<c[1], c[2]>>
    BY DEF Callbacks
  <1> QED
    BY <1>2, <1>4, <1>5, <1>6

\* Events, the reader and the callbacks keep the shape of the state.
LEMMA ShotsShapeNext == ShotsShape /\ [ScreenshotsNext]_ssVars => ShotsShape'
  <1> SUFFICES ASSUME ShotsShape, [ScreenshotsNext]_ssVars PROVE ShotsShape'
    OBVIOUS
  <1> DEFINE Events == Files \X {"create", "write", "remove"}
  <1>1. ASSUME NEW f \in Files, NEW op \in {"create", "write", "remove"}, Raise(f, op),
               UNCHANGED <<timer, pendings, shown, reader>>
        PROVE  ShotsShape'
    <2>1. <<f, op>> \in Events
      OBVIOUS
    <2>2. fsq' \in Seq(Events)
      BY <1>1, <2>1 DEF Raise, ShotsShape
    <2> QED
      BY <1>1, <2>2 DEF ShotsShape
  <1>2. ASSUME NEW f \in Files, Create(f) \/ WriteFile(f) \/ DeleteShot(f) PROVE ShotsShape'
    BY <1>1, <1>2 DEF Create, WriteFile, DeleteShot
  <1>3. CASE TakeEvent
    <2>1. fsq \in Seq(Events) /\ fsq # <<>>
      BY <1>3 DEF TakeEvent, ShotsShape
    <2>2. Head(fsq) \in Events /\ Tail(fsq) \in Seq(Events)
      BY <2>1
    <2> QED
      BY <1>3, <2>2 DEF TakeEvent, ShotsShape
  <1>4. CASE SkipCreate \/ UNCHANGED ssVars
    BY <1>4 DEF SkipCreate, ssVars, ShotsShape
  <1>5. CASE ArmTimer
    <2> DEFINE f == reader[1]
               k == 1 + Cardinality({c \in Callbacks : c[1] = f /\ c[2] > 0 /\ timer[c] # "none"})
    <2>1. f \in Files
      BY <1>5 DEF ArmTimer, ShotsShape
    <2>2. timer' = Rearmed(f, k) /\ pendings' = [pendings EXCEPT ![f] = k] /\ reader' = <<>>
          /\ UNCHANGED <<fsq, shown>>
      BY <1>5 DEF ArmTimer
    <2> HIDE DEF f, k
    <2>3. timer' \in [Callbacks -> Phases]
      BY <2>1, <2>2, RearmedTimers
    <2>4. pendings' = [g \in Files |-> pendings'[g]]
      BY <2>2 DEF ShotsShape
    <2> QED
      BY <2>2, <2>3, <2>4 DEF ShotsShape
  <1>6. ASSUME NEW c \in Callbacks, Processing(c) PROVE ShotsShape'
    <2>1. timer' \in [Callbacks -> Phases]
      BY <1>6 DEF Processing, Fire, TestProcessed, StatFile, MarkProcessed, Emit, Forget, To, ShotsShape,
         Phases, Steps
    <2>2. c[1] \in Files
      BY DEF Callbacks
    <2>3. shown' \in [Files -> Nat]
      <3>1. shown' \in {shown, [shown EXCEPT ![c[1]] = @ + 1]}
        BY <1>6 DEF Processing, Fire, TestProcessed, StatFile, MarkProcessed, Emit, Forget
      <3>2. [shown EXCEPT ![c[1]] = @ + 1] \in [Files -> Nat]
        BY <2>2 DEF ShotsShape
      <3> QED
        BY <3>1, <3>2 DEF ShotsShape
    <2>4. pendings' = [f \in Files |-> pendings'[f]]
      BY <1>6 DEF Processing, Fire, TestProcessed, StatFile, MarkProcessed, Emit, Forget, ShotsShape
    <2>5. UNCHANGED <<fsq, reader>>
      BY <1>6 DEF Processing, Fire, TestProcessed, StatFile, MarkProcessed, Emit, Forget
    <2> QED
      BY <2>1, <2>3, <2>4, <2>5 DEF ShotsShape
  <1>7. ASSUME NEW f \in Files, ForgetOld(f) PROVE ShotsShape'
    BY <1>7 DEF ForgetOld, ShotsShape
  <1>8. CASE StopMonitoring
    <2>1. timer' \in [Callbacks -> Phases]
      BY <1>8 DEF StopMonitoring, ShotsShape, Phases
    <2> QED
      BY <1>8, <2>1 DEF StopMonitoring, ShotsShape
  <1> QED
    BY <1>2, <1>3, <1>4, <1>5, <1>6, <1>7, <1>8 DEF ScreenshotsNext

-----------------------------------------------------------------------------
\* Passing the test while another callback of the file has is recorded as a
\* crossing; the scan for old files waits until no callback is left.
LEMMA OnceNext == ShotsShape /\ OnceInv /\ [ScreenshotsNext]_ssVars => OnceInv'
  <1> SUFFICES ASSUME ShotsShape, OnceInv, [ScreenshotsNext]_ssVars PROVE OnceInv'
    OBVIOUS
  <1>1. ASSUME UNCHANGED <<processed, shown, crossed>>,
               \A c \in Callbacks : timer'[c] = timer[c] \/ timer'[c] \notin {"stat", "mark", "emit"}
        PROVE  OnceInv'
    BY <1>1 DEF OnceInv, Passed, Owing
  <1>2. ASSUME NEW f \in Files, Create(f) \/ WriteFile(f) \/ DeleteShot(f) PROVE OnceInv'
    BY <1>1, <1>2 DEF Create, WriteFile, DeleteShot
  <1>3. CASE TakeEvent \/ SkipCreate \/ UNCHANGED ssVars
    BY <1>1, <1>3 DEF TakeEvent, SkipCreate, ssVars
  <1>4. CASE ArmTimer
    <2> DEFINE f == reader[1]
               k == 1 + Cardinality({c \in Callbacks : c[1] = f /\ c[2] > 0 /\ timer[c] # "none"})
    <2>1. f \in Files
      BY <1>4 DEF ArmTimer, ShotsShape
    <2>2. timer' = Rearmed(f, k) /\ UNCHANGED <<processed, shown, crossed>>
      BY <1>4 DEF ArmTimer
    <2> HIDE DEF f, k
    <2>3. \A c \in Callbacks : timer'[c] \in {timer[c], "armed", "stopped"}
      BY <2>1, <2>2, RearmedTimers
    <2> QED
      BY <1>1, <2>2, <2>3
  <1>5. ASSUME NEW c \in Callbacks, Fire(c) \/ Forget(c) PROVE OnceInv'
    <2>1. \A d \in Callbacks : timer'[d] = timer[d] \/ timer'[d] \notin {"stat", "mark", "emit"}
      BY <1>5 DEF Fire, Forget, To, ShotsShape
    <2> QED
      BY <1>1, <1>5, <2>1 DEF Fire, Forget
  <1>6. ASSUME NEW c \in Callbacks, TestProcessed(c) PROVE OnceInv'
    <2>1. timer' = [timer EXCEPT ![c] = IF c[1] \in processed THEN "forget" ELSE "stat"]
          /\ UNCHANGED <<processed, shown>>
      BY <1>6 DEF TestProcessed, To
    <2>2. crossed \subseteq crossed'
      BY <1>6 DEF TestProcessed
    <2>3. ASSUME c[1] \notin processed, NEW d \in Callbacks, d[1] = c[1], Passed(d) PROVE c[1] \in crossed'
      <3>1. d \in InStep(c[1], {"stat", "mark"})
        BY <2>3 DEF InStep, Passed
      <3> QED
        BY <1>6, <2>3, <3>1 DEF TestProcessed
    <2> QED
      BY <2>1, <2>2, <2>3 DEF OnceInv, Passed, Owing, ShotsShape
  <1>7. ASSUME NEW c \in Callbacks, StatFile(c) PROVE OnceInv'
    <2>1. timer[c] = "stat" /\ timer' = [timer EXCEPT ![c] = timer'[c]] /\ timer'[c] \in {"mark", "forget"}
          /\ UNCHANGED <<processed, shown, crossed>>
      BY <1>7 DEF StatFile, To, ShotsShape
    <2> QED
      BY <2>1 DEF OnceInv, Passed, Owing, ShotsShape
  <1>8. ASSUME NEW c \in Callbacks, MarkProcessed(c) PROVE OnceInv'
    <2>1. timer[c] = "mark" /\ timer' = [timer EXCEPT ![c] = "emit"]
          /\ processed' = processed \cup {c[1]} /\ UNCHANGED <<shown, crossed>>
      BY <1>8 DEF MarkProcessed, To
    <2> QED
      BY <2>1 DEF OnceInv, Passed, Owing, ShotsShape
  <1>9. ASSUME NEW c \in Callbacks, Emit(c) PROVE OnceInv'
    <2>1. timer[c] = "emit" /\ timer' = [timer EXCEPT ![c] = "forget"]
          /\ shown' = [shown EXCEPT ![c[1]] = @ + 1] /\ UNCHANGED <<processed, crossed>>
      BY <1>9 DEF Emit, To
    <2>2. c[1] \in Files
      BY DEF Callbacks
    <2> QED
      BY <2>1, <2>2 DEF OnceInv, Passed, Owing, ShotsShape
  <1>10. ASSUME NEW f \in Files, ForgetOld(f) PROVE OnceInv'
    <2>1. \A c \in Callbacks : c[1] = f => timer[c] \notin Steps
      BY <1>10 DEF ForgetOld, InStep
    <2>2. \A c \in Callbacks : c[1] = f => timer[c] \notin {"stat", "mark", "emit"}
      BY <2>1 DEF Steps
    <2>3. shown' = [shown EXCEPT ![f] = 0] /\ processed' = processed \ {f} /\ crossed' = crossed \ {f}
          /\ timer' = timer
      BY <1>10 DEF ForgetOld
    <2> QED
      BY <2>2, <2>3 DEF OnceInv, Passed, Owing, ShotsShape
  <1>11. CASE StopMonitoring
    BY <1>1, <1>11 DEF StopMonitoring
  <1> QED
    BY <1>2, <1>3, <1>4, <1>5, <1>6, <1>7, <1>8, <1>9, <1>10, <1>11 DEF ScreenshotsNext, Processing

-----------------------------------------------------------------------------
\* A timer is armed with its entry; whoever takes the entry away stops the timer,
\* or is an older callback and makes it an orphan.
LEMMA TimersNext == ShotsShape /\ TimersInv /\ [ScreenshotsNext]_ssVars => TimersInv'
  <1> SUFFICES ASSUME ShotsShape, TimersInv, [ScreenshotsNext]_ssVars PROVE TimersInv'
    OBVIOUS
  <1> USE DEF TimersInv, StopLeavesOrphans
  <1>1. ASSUME UNCHANGED <<pendings, orphans>>, watcher' \in {watcher, "crashed"},
               \A c \in Callbacks : timer'[c] = "armed" => timer[c] = "armed"
        PROVE  TimersInv'
    BY <1>1
  <1>2. ASSUME NEW f \in Files, Create(f) \/ WriteFile(f) \/ DeleteShot(f) \/ ForgetOld(f)
        PROVE  TimersInv'
    BY <1>1, <1>2 DEF Create, WriteFile, DeleteShot, ForgetOld
  <1>3. CASE TakeEvent \/ SkipCreate \/ UNCHANGED ssVars
    BY <1>1, <1>3 DEF TakeEvent, SkipCreate, ssVars
  <1>4. CASE ArmTimer
    <2> DEFINE f == reader[1]
               k == 1 + Cardinality({c \in Callbacks : c[1] = f /\ c[2] > 0 /\ timer[c] # "none"})
    <2>1. f \in Files
      BY <1>4 DEF ArmTimer, ShotsShape
    <2>2. timer' = Rearmed(f, k) /\ pendings' = [pendings EXCEPT ![f] = k] /\ orphans' = orphans
          /\ watcher' = IF watcher = "stopped" THEN "crashed" ELSE watcher
      BY <1>4 DEF ArmTimer
    <2> HIDE DEF f, k
    <2>3. \A c \in Callbacks : timer'[c] = "armed" =>
            c = <<f, k>> \/ (timer[c] = "armed" /\ ~(c[1] = f /\ c[2] = pendings[f] /\ c[2] # 0))
      BY <2>1, <2>2, RearmedTimers
    <2>4. \A g \in Files : pendings'[g] = IF g = f THEN k ELSE pendings[g]
      BY <2>2 DEF ShotsShape
    <2>5. \A c \in Callbacks : c[1] \in Files
      BY DEF Callbacks
    <2> QED
      BY <2>1, <2>2, <2>3, <2>4, <2>5
  <1>5. ASSUME NEW c \in Callbacks,
               Fire(c) \/ TestProcessed(c) \/ StatFile(c) \/ MarkProcessed(c) \/ Emit(c)
        PROVE  TimersInv'
    <2>1. \A d \in Callbacks : timer'[d] = "armed" => timer[d] = "armed"
      BY <1>5 DEF Fire, TestProcessed, StatFile, MarkProcessed, Emit, To, ShotsShape
    <2> QED
      BY <1>1, <1>5, <2>1 DEF Fire, TestProcessed, StatFile, MarkProcessed, Emit
  <1>6. ASSUME NEW c \in Callbacks, Forget(c) PROVE TimersInv'
    <2>1. timer' = [timer EXCEPT ![c] = "done"] /\ watcher' = watcher /\ timer[c] = "forget"
      BY <1>6 DEF Forget, To
    <2>2. CASE c[2] = 0
      <3>1. \A d \in Callbacks : timer'[d] = "armed" => timer[d] = "armed"
        BY <2>1 DEF ShotsShape
      <3> QED
        BY <1>1, <1>6, <2>1, <2>2, <3>1 DEF Forget
    <2>3. CASE c[2] # 0
      <3>1. /\ pendings' = [pendings EXCEPT ![c[1]] = 0]
            /\ orphans' = IF pendings[c[1]] \in {0, c[2]} THEN orphans
                          ELSE orphans \cup {<<c[1], pendings[c[1]]>>}
        BY <1>6, <2>3 DEF Forget
      <3>2. \A d \in Callbacks : d = <<d[1], d[2]>> /\ d[1] \in Files
        BY DEF Callbacks
      <3>3. \A g \in Files : pendings'[g] = IF g = c[1] THEN 0 ELSE pendings[g]
        BY <3>1 DEF ShotsShape
      <3>4. ASSUME NEW d \in Callbacks, d[2] # 0, timer'[d] = "armed",
                   pendings[d[1]] = d[2] \/ d \in orphans
            PROVE  pendings'[d[1]] = d[2] \/ d \in orphans'
        <4>1. d # c /\ timer[d] = "armed"
          BY <2>1, <3>4 DEF ShotsShape
        <4>2. CASE d[1] # c[1] \/ d \in orphans
          BY <3>1, <3>2, <3>3, <3>4, <4>2
        <4>3. CASE d[1] = c[1] /\ pendings[d[1]] = d[2]
          BY <3>1, <3>2, <3>4, <4>1, <4>3
        <4> QED
          BY <3>4, <4>2, <4>3
      <3>5. \A d \in Callbacks : timer'[d] = "armed" => timer[d] = "armed"
        BY <2>1 DEF ShotsShape
      <3>6. orphans \subseteq orphans'
        BY <3>1
      <3> QED
        BY <2>1, <3>4, <3>5, <3>6
    <2> QED
      BY <2>2, <2>3
  <1>7. CASE StopMonitoring
    <2>1. \A c \in Callbacks : timer'[c] = "armed" /\ c[2] # 0 =>
            timer[c] = "armed" /\ pendings[c[1]] # c[2]
      BY <1>7 DEF StopMonitoring
    <2> QED
      BY <1>7, <2>1 DEF StopMonitoring
  <1> QED
    BY <1>2, <1>3, <1>4, <1>5, <1>6, <1>7 DEF ScreenshotsNext, Processing

-----------------------------------------------------------------------------
(* The theorems *)

\* A monitor that has just started satisfies the invariant, whatever files there are.
LEMMA ShotsStart == ScreenshotsInit => ShotsInv
  <1> SUFFICES ASSUME ScreenshotsInit PROVE ShotsInv
    OBVIOUS
  <1>1. timer = [c \in Callbacks |-> IF c[2] = 0 /\ file[c[1]] = "full" THEN "armed" ELSE "none"]
        /\ pendings = [f \in Files |-> 0] /\ shown = [f \in Files |-> 0]
        /\ fsq = <<>> /\ reader = <<>> /\ watcher = "on" /\ processed = {}
    BY DEF ScreenshotsInit
  <1>2. ShotsShape
    BY <1>1 DEF ShotsShape, Phases
  <1>3. OnceInv
    BY <1>1 DEF OnceInv, Passed, Owing
  <1>4. TimersInv
    BY <1>1 DEF TimersInv, StopLeavesOrphans
  <1> QED
    BY <1>2, <1>3, <1>4 DEF ShotsInv

\* The invariant that both theorems below follow from.
THEOREM ShotsInvariant == ScreenshotsSpec => []ShotsInv
  <1>1. ShotsInv /\ [ScreenshotsNext]_ssVars => ShotsInv'
    BY ShotsShapeNext, OnceNext, TimersNext DEF ShotsInv
  <1> QED
    BY <1>1, ShotsStart, PTL DEF ScreenshotsSpec

\* processFile tests and marks under processMutex but not in one section: that
\* is the only way to hand a screenshot on twice, however its events come.
THEOREM ShotsAreHandedOnOnce == ScreenshotsSpec => []TwiceOnlyIfCrossed
  <1>1. ShotsInv => TwiceOnlyIfCrossed
    BY DEF ShotsInv, ShotsShape, OnceInv, TwiceOnlyIfCrossed
  <1> QED
    BY <1>1, ShotsInvariant, PTL

\* StopMonitoring stops every timer but the ones whose entry in pendingFiles the
\* end of an older callback has deleted.
THEOREM ShotsStop == ScreenshotsSpec => []StopLeavesOrphans
  <1>1. ShotsInv => StopLeavesOrphans
    BY DEF ShotsInv, TimersInv
  <1> QED
    BY <1>1, ShotsInvariant, PTL

-----------------------------------------------------------------------------
(* The events of a screenshot: each is in the queue, in hand, or has armed *)
(* a timer of its own.                                                     *)
QueuedIn(q, f) == {i \in 1..Len(q) : q[i][1] = f}
IsOf(e, f) == IF e[1] = f THEN 1 ELSE 0
InHand(f) == IF reader # <<>> THEN IsOf(reader, f) ELSE 0
Used(f) == {c \in Callbacks : c[1] = f /\ c[2] > 0 /\ timer[c] # "none"}
EventsInv ==
  /\ raised \in [Files -> 0..MaxEvents] /\ pendings \in [Files -> 0..MaxEvents]
  /\ \A f \in Files : Cardinality(Used(f)) + InHand(f) + Cardinality(QueuedIn(fsq, f)) <= raised[f]

\* One more element makes a finite set larger by one at most.
LEMMA OneMore ==
  ASSUME NEW S, IsFiniteSet(S), NEW x
  PROVE  /\ IsFiniteSet(S \cup {x}) /\ Cardinality(S) \in Nat
         /\ Cardinality(S \cup {x}) \in {Cardinality(S), Cardinality(S) + 1}
  <1>1. IsFiniteSet(S \cup {x})
    BY FS_AddElement
  <1>2. Cardinality(S) \in Nat
    BY FS_CardinalityType
  <1>3. Cardinality(S \cup {x}) = IF x \in S THEN Cardinality(S) ELSE Cardinality(S) + 1
    BY FS_AddElement
  <1> QED
    BY <1>1, <1>2, <1>3

\* A file has finitely many callbacks, and so many are used as timers were armed.
LEMMA UsedFinite == \A f \in Files : IsFiniteSet(Used(f)) /\ Cardinality(Used(f)) \in Nat
  <1> SUFFICES ASSUME NEW f \in Files PROVE IsFiniteSet(Used(f)) /\ Cardinality(Used(f)) \in Nat
    OBVIOUS
  <1>1. PICK g : g = [c \in Used(f) |-> c[2]]
    OBVIOUS
  <1>2. \A c \in Used(f) : c = <<c[1], c[2]>> /\ c[1] = f /\ c[2] \in 0..MaxEvents
    BY DEF Used, Callbacks
  <1>3. g \in Injection(Used(f), 0..MaxEvents)
    BY <1>1, <1>2 DEF Injection, IsInjective
  <1>4. IsFiniteSet(0..MaxEvents)
    BY EventsAssumption, FS_Interval
  <1>5. IsFiniteSet(Used(f))
    BY <1>3, <1>4, FS_Injection
  <1> QED
    BY <1>5, FS_CardinalityType

\* A queue is finite.
LEMMA QueueFinite ==
  ASSUME NEW E, NEW q \in Seq(E), NEW f
  PROVE  IsFiniteSet(QueuedIn(q, f)) /\ Cardinality(QueuedIn(q, f)) \in Nat
  <1>1. IsFiniteSet(1..Len(q))
    BY FS_Interval
  <1>2. IsFiniteSet(QueuedIn(q, f))
    BY <1>1, FS_Subset DEF QueuedIn
  <1> QED
    BY <1>2, FS_CardinalityType

\* An event that is appended counts for its file.
LEMMA QueueGrows ==
  ASSUME NEW E, NEW q \in Seq(E), NEW e \in E, NEW f
  PROVE  Cardinality(QueuedIn(Append(q, e), f)) <= Cardinality(QueuedIn(q, f)) + IsOf(e, f)
  <1>1. PICK n \in Nat : n = Len(q)
    OBVIOUS
  <1>2. PICK r : r = Append(q, e)
    OBVIOUS
  <1>3. Len(r) = n + 1 /\ r[n + 1] = e /\ \A i \in 1..n : r[i] = q[i]
    BY <1>1, <1>2
  <1>4. QueuedIn(r, f) = IF e[1] = f THEN QueuedIn(q, f) \cup {n + 1} ELSE QueuedIn(q, f)
    BY <1>1, <1>3 DEF QueuedIn
  <1>5. IsFiniteSet(QueuedIn(q, f)) /\ Cardinality(QueuedIn(q, f)) \in Nat
    BY QueueFinite
  <1>6. Cardinality(QueuedIn(q, f) \cup {n + 1}) <= Cardinality(QueuedIn(q, f)) + 1
    <2>1. PICK x : x = n + 1
      OBVIOUS
    <2>2. Cardinality(QueuedIn(q, f) \cup {x}) \in {Cardinality(QueuedIn(q, f)), Cardinality(QueuedIn(q, f)) + 1}
      BY <1>5, OneMore
    <2> QED
      BY <1>5, <2>1, <2>2
  <1> QED
    BY <1>2, <1>4, <1>5, <1>6 DEF IsOf

\* The event that is taken no longer does.
LEMMA QueueShrinks ==
  ASSUME NEW E, NEW q \in Seq(E), q # <<>>, NEW f
  PROVE  Cardinality(QueuedIn(Tail(q), f)) + IsOf(Head(q), f) <= Cardinality(QueuedIn(q, f))
  <1>1. PICK n \in Nat : n + 1 = Len(q)
    OBVIOUS
  <1>2. PICK r : r = Tail(q)
    OBVIOUS
  <1>3. r \in Seq(E) /\ Len(r) = n /\ \A i \in 1..n : r[i] = q[i + 1]
    BY <1>1, <1>2
  <1>4. PICK g : g = [i \in QueuedIn(r, f) |-> i + 1]
    OBVIOUS
  <1>5. g \in Injection(QueuedIn(r, f), QueuedIn(q, f) \ {1})
    BY <1>1, <1>3, <1>4 DEF QueuedIn, Injection, IsInjective
  <1>6. IsFiniteSet(QueuedIn(q, f)) /\ Cardinality(QueuedIn(q, f)) \in Nat
    BY QueueFinite
  <1>7. /\ IsFiniteSet(QueuedIn(q, f) \ {1})
        /\ Cardinality(QueuedIn(q, f) \ {1}) = Cardinality(QueuedIn(q, f)) - (IF 1 \in QueuedIn(q, f) THEN 1 ELSE 0)
    BY <1>6, FS_RemoveElement
  <1>8. Cardinality(QueuedIn(r, f)) <= Cardinality(QueuedIn(q, f) \ {1})
    BY <1>5, <1>7, FS_Injection
  <1>9. Cardinality(QueuedIn(r, f)) \in Nat
    BY <1>3, QueueFinite
  <1>10. IsOf(Head(q), f) = IF 1 \in QueuedIn(q, f) THEN 1 ELSE 0
    BY <1>1 DEF QueuedIn, IsOf
  <1> QED
    BY <1>2, <1>6, <1>7, <1>8, <1>9, <1>10

\* Every event arms one timer at most, so that timers are numbered within the bound.
LEMMA EventsNext == ShotsShape /\ EventsInv /\ [ScreenshotsNext]_ssVars => EventsInv'
  <1> SUFFICES ASSUME ShotsShape, EventsInv, [ScreenshotsNext]_ssVars PROVE EventsInv'
    OBVIOUS
  <1> DEFINE Events == Files \X {"create", "write", "remove"}
  <1>0. /\ MaxEvents \in Nat /\ fsq \in Seq(Events) /\ raised \in [Files -> 0..MaxEvents]
        /\ timer \in [Callbacks -> Phases]
        /\ reader \in {<<>>} \cup Events
        /\ \A f \in Files : /\ Cardinality(Used(f)) \in Nat /\ Cardinality(QueuedIn(fsq, f)) \in Nat
                            /\ IsFiniteSet(Used(f)) /\ InHand(f) \in {0, 1} /\ raised[f] \in Nat
    BY EventsAssumption, UsedFinite, QueueFinite DEF ShotsShape, EventsInv, InHand, IsOf
  <1>1. ASSUME NEW g \in Files, NEW op \in {"create", "write", "remove"}, Raise(g, op),
               UNCHANGED <<reader, timer, pendings>>
        PROVE  EventsInv'
    <2>1. PICK e \in Events : e = <<g, op>>
      OBVIOUS
    <2>2. raised' \in [Files -> 0..MaxEvents] /\ raised'[g] = raised[g] + 1
          /\ \A f \in Files \ {g} : raised'[f] = raised[f]
      BY <1>0, <1>1 DEF Raise
    <2>3. ASSUME NEW f \in Files
          PROVE  Cardinality(QueuedIn(fsq', f)) <= Cardinality(QueuedIn(fsq, f)) + IsOf(e, f)
      <3>1. Cardinality(QueuedIn(Append(fsq, e), f)) <= Cardinality(QueuedIn(fsq, f)) + IsOf(e, f)
        BY <1>0, QueueGrows
      <3>2. Cardinality(QueuedIn(fsq, f)) <= Cardinality(QueuedIn(fsq, f)) + IsOf(e, f)
        BY <1>0 DEF IsOf
      <3>3. fsq' = Append(fsq, e) \/ fsq' = fsq
        BY <1>1, <2>1 DEF Raise
      <3> QED
        BY <3>1, <3>2, <3>3
    <2>4. \A f \in Files : Used(f)' = Used(f) /\ InHand(f)' = InHand(f) /\ Cardinality(QueuedIn(fsq', f)) \in Nat
      <3>1. fsq' \in Seq(Events)
        BY <1>0, <1>1 DEF Raise
      <3> QED
        BY <1>1, <3>1, QueueFinite DEF Used, InHand
    <2>5. \A f \in Files : IsOf(e, f) = IF f = g THEN 1 ELSE 0
      BY <2>1 DEF IsOf
    <2>6. ASSUME NEW f \in Files
          PROVE  Cardinality(Used(f)') + InHand(f)' + Cardinality(QueuedIn(fsq', f)) <= raised'[f]
      <3>1. Cardinality(Used(f)') = Cardinality(Used(f)) /\ InHand(f)' = InHand(f)
        BY <2>4
      <3>2. Cardinality(Used(f)) + InHand(f) + Cardinality(QueuedIn(fsq, f)) <= raised[f]
        BY DEF EventsInv
      <3>3. raised'[f] = raised[f] + IsOf(e, f) /\ IsOf(e, f) \in {0, 1}
        BY <1>0, <2>2, <2>5
      <3>4. InHand(f) \in Nat
        BY DEF InHand, IsOf
      <3>5. Cardinality(Used(f)) + InHand(f) + Cardinality(QueuedIn(fsq', f)) <= raised'[f]
        <4>1. PICK a \in Nat, b \in Nat, c \in Nat, z \in Nat :
                a = Cardinality(Used(f)) /\ b = InHand(f) /\ c = Cardinality(QueuedIn(fsq, f))
                /\ z = Cardinality(QueuedIn(fsq', f))
          BY <1>0, <2>4, <3>4
        <4>2. a + b + c <= raised[f] /\ z <= c + IsOf(e, f)
          BY <2>3, <3>2, <4>1
        <4>3. PICK n \in Nat, m \in Nat, d \in {0, 1} : n = raised[f] /\ m = raised'[f] /\ d = IsOf(e, f)
          BY <1>0, <3>3
        <4>4. a + b + c <= n /\ z <= c + d /\ m = n + d
          BY <3>3, <4>2, <4>3
        <4>5. a + b + z <= m
          BY <4>4
        <4> QED
          BY <4>1, <4>3, <4>5
      <3> QED
        BY <3>1, <3>5
    <2> QED
      BY <1>1, <2>2, <2>6 DEF EventsInv
  <1>2. ASSUME NEW g \in Files, Create(g) \/ WriteFile(g) \/ DeleteShot(g) PROVE EventsInv'
    BY <1>1, <1>2 DEF Create, WriteFile, DeleteShot
  <1>3. CASE TakeEvent
    <2>1. fsq # <<>> /\ reader = <<>> /\ reader' = Head(fsq) /\ fsq' = Tail(fsq)
          /\ UNCHANGED <<raised, timer, pendings>>
      BY <1>3 DEF TakeEvent
    <2>2. Head(fsq) \in Events /\ Tail(fsq) \in Seq(Events) /\ Head(fsq) # <<>>
      <3>1. Head(fsq) \in Events /\ Tail(fsq) \in Seq(Events)
        BY <1>0, <2>1
      <3>2. \A e \in Events : e # <<>>
        OBVIOUS
      <3> QED
        BY <3>1, <3>2
    <2>3. ASSUME NEW f \in Files
          PROVE  Cardinality(Used(f)') + InHand(f)' + Cardinality(QueuedIn(fsq', f)) <= raised'[f]
      <3>1. Used(f)' = Used(f) /\ InHand(f) = 0 /\ InHand(f)' = IsOf(Head(fsq), f)
        BY <2>1, <2>2 DEF Used, InHand
      <3>2. Cardinality(QueuedIn(fsq', f)) + IsOf(Head(fsq), f) <= Cardinality(QueuedIn(fsq, f))
            /\ Cardinality(QueuedIn(fsq', f)) \in Nat
        BY <1>0, <2>1, <2>2, QueueShrinks, QueueFinite
      <3>3. IsOf(Head(fsq), f) \in {0, 1}
        BY DEF IsOf
      <3>4. /\ Cardinality(Used(f)) + InHand(f) + Cardinality(QueuedIn(fsq, f)) <= raised[f]
            /\ raised'[f] = raised[f] /\ raised[f] \in Nat /\ Cardinality(Used(f)) \in Nat
        BY <1>0, <2>1 DEF EventsInv
      <3>5. Cardinality(QueuedIn(fsq, f)) \in Nat
        BY <1>0
      <3> QED
        BY <3>1, <3>2, <3>3, <3>4, <3>5
    <2> QED
      BY <2>1, <2>3 DEF EventsInv
  <1>4. ASSUME UNCHANGED raised, pendings' \in [Files -> 0..MaxEvents],
               fsq' \in {fsq, <<>>}, reader' \in {reader, <<>>}, \A f \in Files : Used(f)' = Used(f)
        PROVE  EventsInv'
    <2>1. ASSUME NEW f \in Files
          PROVE  Cardinality(Used(f)') + InHand(f)' + Cardinality(QueuedIn(fsq', f)) <= raised'[f]
      <3>1. Cardinality(QueuedIn(<<>>, f)) = 0
        <4>1. QueuedIn(<<>>, f) = {}
          BY DEF QueuedIn
        <4> QED
          BY <4>1, FS_EmptySet
      <3>2. Cardinality(QueuedIn(fsq', f)) <= Cardinality(QueuedIn(fsq, f)) /\ Cardinality(QueuedIn(fsq', f)) \in Nat
        BY <1>0, <1>4, <3>1
      <3>3. InHand(f)' <= InHand(f) /\ InHand(f)' \in {0, 1}
        BY <1>0, <1>4 DEF InHand, IsOf
      <3>4. PICK a \in Nat, b \in Nat, c \in Nat, z \in Nat :
              a = Cardinality(Used(f)) /\ b = InHand(f) /\ c = Cardinality(QueuedIn(fsq, f))
              /\ z = Cardinality(QueuedIn(fsq', f))
        BY <1>0, <3>2
      <3>5. a + b + c <= raised[f] /\ z <= c
        BY <3>2, <3>4 DEF EventsInv
      <3>6. PICK y \in Nat : y = InHand(f)' /\ y <= b
        BY <3>3, <3>4
      <3>7. a + y + z <= raised[f]
        BY <1>0, <3>5, <3>6
      <3>8. Cardinality(Used(f)') = a /\ raised'[f] = raised[f]
        BY <1>4, <3>4
      <3> QED
        BY <3>4, <3>6, <3>7, <3>8
    <2> QED
      BY <1>0, <1>4, <2>1 DEF EventsInv
  <1>5. CASE SkipCreate \/ UNCHANGED ssVars
    BY <1>4, <1>5 DEF SkipCreate, ssVars, Used, EventsInv
  <1>6. CASE ArmTimer
    <2>1. PICK g \in Files : g = reader[1]
      BY <1>0, <1>6 DEF ArmTimer
    <2>2. PICK k \in Nat : k = 1 + Cardinality(Used(g))
      BY <1>0
    <2>3. /\ timer' = Rearmed(g, k) /\ pendings' = [pendings EXCEPT ![g] = k] /\ reader' = <<>>
          /\ UNCHANGED <<fsq, raised>> /\ reader # <<>>
      BY <1>6, <2>1, <2>2 DEF ArmTimer, Used
    <2>4. InHand(g) = 1 /\ \A f \in Files \ {g} : InHand(f) = 0
      BY <2>1, <2>3 DEF InHand, IsOf
    <2>5. k <= raised[g] /\ k \in 0..MaxEvents
      <3>1. k <= raised[g]
        BY <1>0, <2>2, <2>4 DEF EventsInv
      <3> QED
        BY <1>0, <3>1
    <2>6. \A c \in Callbacks : timer'[c] # "none" => timer[c] # "none" \/ c = <<g, k>>
      BY <1>0, <2>1, <2>3 DEF Rearmed
    <2>7. ASSUME NEW f \in Files
          PROVE  Cardinality(Used(f)') + InHand(f)' + Cardinality(QueuedIn(fsq', f)) <= raised'[f]
      <3>1. InHand(f)' = 0
        BY <2>3 DEF InHand
      <3>2. CASE f = g
        <4>1. Used(f)' \in SUBSET (Used(f) \cup {<<g, k>>})
          BY <2>6, <3>2 DEF Used
        <4>2. IsFiniteSet(Used(f) \cup {<<g, k>>}) /\ Cardinality(Used(f) \cup {<<g, k>>}) <= Cardinality(Used(f)) + 1
          <5>1. PICK x : x = <<g, k>>
            OBVIOUS
          <5>2. /\ IsFiniteSet(Used(f) \cup {x})
                /\ Cardinality(Used(f) \cup {x}) \in {Cardinality(Used(f)), Cardinality(Used(f)) + 1}
            BY <1>0, OneMore
          <5> QED
            BY <1>0, <5>1, <5>2
        <4>3. /\ Cardinality(Used(f)') <= Cardinality(Used(f) \cup {<<g, k>>})
              /\ Cardinality(Used(f)') \in Nat /\ Cardinality(Used(f) \cup {<<g, k>>}) \in Nat
          BY <4>1, <4>2, FS_Subset, FS_CardinalityType
        <4>4. Cardinality(Used(f)) + 1 + Cardinality(QueuedIn(fsq, f)) <= raised[f]
          BY <2>4, <3>2 DEF EventsInv
        <4> QED
          BY <1>0, <2>3, <3>1, <4>2, <4>3, <4>4
      <3>3. CASE f # g
        <4>1. Used(f)' \in SUBSET Used(f)
          BY <2>6, <3>3 DEF Used
        <4>2. Cardinality(Used(f)') <= Cardinality(Used(f)) /\ Cardinality(Used(f)') \in Nat
          BY <1>0, <4>1, FS_Subset, FS_CardinalityType
        <4>3. Cardinality(Used(f)) + 0 + Cardinality(QueuedIn(fsq, f)) <= raised[f]
          BY <2>4, <3>3 DEF EventsInv
        <4> QED
          BY <1>0, <2>3, <3>1, <4>2, <4>3
      <3> QED
        BY <3>2, <3>3
    <2>8. pendings' \in [Files -> 0..MaxEvents]
      BY <2>3, <2>5 DEF EventsInv
    <2> QED
      BY <1>0, <2>3, <2>7, <2>8 DEF EventsInv
  <1>7. ASSUME NEW c \in Callbacks, Processing(c) PROVE EventsInv'
    <2>1. /\ UNCHANGED <<raised, fsq, reader>> /\ timer[c] # "none"
          /\ \E s \in Phases \ {"none"} : timer' = [timer EXCEPT ![c] = s]
      BY <1>7 DEF Processing, Fire, TestProcessed, StatFile, MarkProcessed, Emit, Forget, To, Phases, Steps
    <2>2. \A f \in Files : Used(f)' = Used(f)
      BY <1>0, <2>1 DEF Used
    <2>3. pendings' \in [Files -> 0..MaxEvents]
      <3>1. pendings' = pendings \/ pendings' = [pendings EXCEPT ![c[1]] = 0]
        BY <1>7 DEF Processing, Fire, TestProcessed, StatFile, MarkProcessed, Emit, Forget
      <3>2. c[1] \in Files /\ 0 \in 0..MaxEvents
        BY <1>0 DEF Callbacks
      <3> QED
        BY <3>1, <3>2 DEF EventsInv
    <2> QED
      BY <1>4, <2>1, <2>2, <2>3
  <1>8. ASSUME NEW g \in Files, ForgetOld(g) PROVE EventsInv'
    BY <1>4, <1>8 DEF ForgetOld, Used, EventsInv
  <1>9. CASE StopMonitoring
    <2>1. /\ UNCHANGED <<raised, reader>> /\ fsq' = <<>> /\ pendings' \in [Files -> 0..MaxEvents]
          /\ \A c \in Callbacks : timer'[c] # "none" <=> timer[c] # "none"
      BY <1>0, <1>9 DEF StopMonitoring
    <2>2. \A f \in Files : Used(f)' = Used(f)
      BY <2>1 DEF Used
    <2> QED
      BY <1>4, <2>1, <2>2
  <1> QED
    BY <1>2, <1>3, <1>5, <1>6, <1>7, <1>8, <1>9 DEF ScreenshotsNext

\* The state of the monitor is one its code can have: no more timers of a file
\* than there were events of it.
THEOREM ShotsTypes == ScreenshotsSpec => []ScreenshotsTypeOK
  <1> DEFINE FilesOK == /\ file \in [Files -> {"none", "empty", "full"}]
                        /\ watcher \in {"on", "stopped", "crashed"} /\ processed \subseteq Files
  <1>1. ScreenshotsInit => EventsInv /\ FilesOK
    <2> SUFFICES ASSUME ScreenshotsInit PROVE EventsInv /\ FilesOK
      OBVIOUS
    <2>1. \A f \in Files : Used(f) = {} /\ InHand(f) = 0 /\ QueuedIn(fsq, f) = {}
      BY DEF ScreenshotsInit, Used, InHand, QueuedIn, Callbacks
    <2>2. Cardinality({}) = 0
      BY FS_EmptySet
    <2>3. raised = [f \in Files |-> 0] /\ pendings = [f \in Files |-> 0] /\ 0 \in 0..MaxEvents
      BY EventsAssumption DEF ScreenshotsInit
    <2>4. \A f \in Files : Cardinality(Used(f)) + InHand(f) + Cardinality(QueuedIn(fsq, f)) <= raised[f]
      BY <2>1, <2>2, <2>3
    <2>5. EventsInv
      BY <2>3, <2>4 DEF EventsInv
    <2> QED
      BY <2>5 DEF ScreenshotsInit
  <1>2. FilesOK /\ [ScreenshotsNext]_ssVars => FilesOK'
    <2> SUFFICES ASSUME FilesOK, [ScreenshotsNext]_ssVars PROVE FilesOK'
      OBVIOUS
    <2>1. ASSUME NEW f \in Files, Create(f) \/ WriteFile(f) \/ DeleteShot(f) \/ ForgetOld(f) PROVE FilesOK'
      BY <2>1 DEF Create, WriteFile, DeleteShot, ForgetOld
    <2>2. CASE TakeEvent \/ SkipCreate \/ ArmTimer \/ StopMonitoring \/ UNCHANGED ssVars
      BY <2>2 DEF TakeEvent, SkipCreate, ArmTimer, StopMonitoring, ssVars
    <2>3. ASSUME NEW c \in Callbacks, Processing(c) PROVE FilesOK'
      <3>1. UNCHANGED <<file, watcher>> /\ processed' \subseteq processed \cup {c[1]} /\ c[1] \in Files
        BY <2>3 DEF Processing, Fire, TestProcessed, StatFile, MarkProcessed, Emit, Forget, Callbacks
      <3> QED
        BY <3>1
    <2> QED
      BY <2>1, <2>2, <2>3 DEF ScreenshotsNext
  <1>3. ShotsInv /\ EventsInv /\ [ScreenshotsNext]_ssVars => EventsInv'
    BY EventsNext DEF ShotsInv
  <1>4. ShotsInv /\ EventsInv /\ FilesOK => ScreenshotsTypeOK
    BY DEF ShotsInv, ShotsShape, EventsInv, ScreenshotsTypeOK, Phases
  <1> QED
    BY <1>1, <1>2, <1>3, <1>4, ShotsInvariant, PTL DEF ScreenshotsSpec

-----------------------------------------------------------------------------
(* The overlay                                                             *)
CastShape(k, n) ==
  /\ k \in [step : {"idle", "list", "send"}, msg : {k.msg}, left : SUBSET Sockets]
  /\ k.step = "idle" => k = NoCast
  /\ k.step # "send" => k.left = {}
  /\ k.msg.n \in 0..n /\ (k.step # "idle" => k.msg.n > 0)
SocketShape ==
  /\ clients \subseteq Sockets /\ up \subseteq Sockets /\ count \in Nat
  /\ sock \in [Sockets -> {"none", "known", "read", "open"}]
  /\ held = [c \in Sockets |-> held[c]] /\ \A c \in Sockets : held[c].n \in 0..count
  /\ got \in [Sockets -> SUBSET (1..count)]
  /\ casts = [b \in Broadcasters |-> casts[b]]
  /\ \A b \in Broadcasters : CastShape(casts[b], count)

\* The broadcast k has still to be written to socket c.
Due(c, k) ==
  \E b \in Broadcasters : casts[b].msg.n = k /\ (casts[b].step = "list" \/ c \in casts[b].left)

\* Whatever was broadcast is in a socket's snapshot, was written to it or is due.
Covered(c, k) ==
  \/ sock[c] \in {"none", "known"}
  \/ sock[c] = "read" /\ k <= held[c].n
  \/ k \in got[c]
  \/ Due(c, k)
CoverInv == \A c \in clients \cap up : \A k \in 1..count : Covered(c, k)

-----------------------------------------------------------------------------
\* A write reaches a socket that is up, and strikes one that is down off the clients.
LEMMA WriteEffect ==
  ASSUME SocketShape, NEW c \in Sockets, NEW msg, NEW S, S \subseteq 1..count, Write(c, msg, S)
  PROVE  /\ clients' \subseteq clients /\ clients \cap up \subseteq clients'
         /\ got' \in [Sockets -> SUBSET (1..count)]
         /\ \A d \in Sockets : got[d] \subseteq got'[d]
         /\ c \in up => S \subseteq got'[c]
         /\ c \notin up => c \notin clients'
  BY DEF Write, SocketShape

Recast(b, z) == casts' = [casts EXCEPT ![b] = z]

\* A broadcaster at rest has the shape of a broadcast.
LEMMA NoCastShape == \A n \in Nat : CastShape(NoCast, n)
  BY DEF NoCast, NoMsg, CastShape

\* What is left of a broadcast once it was written to one client.
LEMMA CastSent ==
  ASSUME NEW n, NEW k, CastShape(k, n), n \in Nat, k.step = "send", NEW c \in k.left, NEW z,
         z = IF k.left \ {c} = {} THEN NoCast ELSE [k EXCEPT !.left = k.left \ {c}]
  PROVE  /\ CastShape(z, n)
         /\ IF k.left \ {c} = {} THEN z = NoCast
            ELSE z.step = "send" /\ z.msg = k.msg /\ z.left = k.left \ {c}
  <1>1. CASE k.left \ {c} = {}
    BY <1>1, NoCastShape
  <1>2. CASE k.left \ {c} # {}
    <2>1. z = [k EXCEPT !.left = k.left \ {c}]
      BY <1>2
    <2>2. z.step = "send" /\ z.msg = k.msg /\ z.left = k.left \ {c}
      BY <2>1 DEF CastShape
    <2>3. z \in [step : {"send"}, msg : {k.msg}, left : SUBSET Sockets]
      BY <2>1 DEF CastShape
    <2> QED
      BY <1>2, <2>2, <2>3 DEF CastShape
  <1> QED
    BY <1>1, <1>2

\* Broadcast takes its message and has not yet looked at the clients.
LEMMA BroadcastEffect ==
  ASSUME SocketShape, NEW b \in Broadcasters, NEW msg, msg.n = count + 1, Broadcast(b, msg)
  PROVE  \E z : /\ Recast(b, z) /\ CastShape(z, count + 1)
                /\ z.step = "list" /\ z.msg = msg /\ z.left = {}
  <1>1. PICK z : z = [step |-> "list", msg |-> msg, left |-> {}]
    OBVIOUS
  <1>2. Recast(b, z)
    BY <1>1 DEF Recast, Broadcast
  <1>3. CastShape(z, count + 1)
    BY <1>1 DEF CastShape, SocketShape
  <1> QED
    BY <1>1, <1>2, <1>3

\* The clients of a broadcast are those the server knows when it takes the list.
LEMMA ListEffect ==
  ASSUME SocketShape, NEW b \in Broadcasters, ListClients(b)
  PROVE  \E z : /\ Recast(b, z) /\ CastShape(z, count)
                /\ IF clients = {} THEN z = NoCast
                   ELSE z.step = "send" /\ z.msg = casts[b].msg /\ z.left = clients
  <1>0. PICK k : k = casts[b]
    OBVIOUS
  <1>1. PICK z : z = IF clients = {} THEN NoCast
                     ELSE [k EXCEPT !.step = "send", !.left = clients]
    OBVIOUS
  <1>2. Recast(b, z)
    BY <1>0, <1>1 DEF Recast, ListClients, SocketShape
  <1>3. CastShape(k, count) /\ k.step = "list" /\ clients \subseteq Sockets /\ count \in Nat
    BY <1>0 DEF ListClients, SocketShape
  <1>4. clients \in SUBSET Sockets
    BY <1>3
  <1>5. CASE clients = {}
    BY <1>0, <1>1, <1>2, <1>3, <1>5, NoCastShape
  <1>6. CASE clients # {}
    <2>1. z = [k EXCEPT !.step = "send", !.left = clients]
      BY <1>1, <1>6
    <2>2. z.step = "send" /\ z.msg = k.msg /\ z.left = clients
      BY <1>3, <2>1 DEF CastShape
    <2>3. z \in [step : {"send"}, msg : {k.msg}, left : SUBSET Sockets]
      BY <1>3, <1>4, <2>1 DEF CastShape
    <2>4. CastShape(z, count)
      BY <1>3, <2>2, <2>3 DEF CastShape
    <2> QED
      BY <1>0, <1>2, <1>6, <2>2, <2>4
  <1> QED
    BY <1>5, <1>6

\* A write of a broadcast takes one client off those that are left.
LEMMA SendEffect ==
  ASSUME SocketShape, NEW b \in Broadcasters, NEW c \in Sockets, SendTo(b, c)
  PROVE  \E z : /\ Recast(b, z) /\ CastShape(z, count)
                /\ IF casts[b].left \ {c} = {} THEN z = NoCast
                   ELSE z.step = "send" /\ z.msg = casts[b].msg /\ z.left = casts[b].left \ {c}
  <1>1. PICK z : z = IF casts[b].left \ {c} = {} THEN NoCast
                     ELSE [casts[b] EXCEPT !.left = casts[b].left \ {c}]
    OBVIOUS
  <1>2. Recast(b, z)
    BY <1>1 DEF Recast, SendTo, SocketShape
  <1>3. CastShape(casts[b], count) /\ casts[b].step = "send" /\ c \in casts[b].left /\ count \in Nat
    BY DEF SendTo, SocketShape
  <1> QED
    BY <1>1, <1>2, <1>3, CastSent

\* Sockets, broadcasts and what was written keep their shape.
LEMMA SocketShapeNext == SocketShape /\ [OverlayNext]_ovVars => SocketShape'
  <1> SUFFICES ASSUME SocketShape, [OverlayNext]_ovVars PROVE SocketShape'
    OBVIOUS
  <1>1. ASSUME NEW b \in Broadcasters, NEW k, count' \in {count, count + 1}, CastShape(k, count'),
               Recast(b, k), UNCHANGED <<sock, up, held>>,
               clients' \subseteq clients, got' \in [Sockets -> SUBSET (1..count')]
        PROVE  SocketShape'
    <2>1. \A d \in Broadcasters : CastShape(casts[d], count')
      BY <1>1 DEF SocketShape, CastShape
    <2>2. casts' = [d \in Broadcasters |-> casts'[d]] /\ \A d \in Broadcasters : CastShape(casts'[d], count')
      <3>1. \A d \in Broadcasters : casts'[d] = IF d = b THEN k ELSE casts[d]
        BY <1>1 DEF SocketShape, Recast
      <3>2. casts' = [d \in Broadcasters |-> casts'[d]]
        BY <1>1 DEF SocketShape, Recast
      <3> QED
        BY <1>1, <2>1, <3>1, <3>2
    <2>3. \A c \in Sockets : held'[c].n \in 0..count'
      BY <1>1 DEF SocketShape
    <2> QED
      BY <1>1, <2>2, <2>3 DEF SocketShape
  <1>2. ASSUME UNCHANGED <<casts, count>>, clients' \subseteq Sockets, up' \subseteq Sockets,
               sock' \in [Sockets -> {"none", "known", "read", "open"}],
               got' \in [Sockets -> SUBSET (1..count)],
               held' = [c \in Sockets |-> held'[c]],
               \A c \in Sockets : held'[c].n \in 0..count
        PROVE  SocketShape'
    BY <1>2 DEF SocketShape, CastShape
  <1>3. ASSUME NEW c \in Sockets, ConnectWS(c) \/ Accept(c) \/ LoseSocket(c) \/ ReaderEnds(c)
        PROVE  SocketShape'
    BY <1>2, <1>3 DEF ConnectWS, Accept, LoseSocket, ReaderEnds, SocketShape
  <1>4. ASSUME NEW c \in Sockets, ReadState(c) PROVE SocketShape'
    <2>1. Snapshot.n = count
      BY DEF Snapshot
    <2> QED
      BY <1>2, <1>4, <2>1 DEF ReadState, SocketShape
  <1>5. ASSUME NEW c \in Sockets, SendFullState(c) PROVE SocketShape'
    <2>1. 1..held[c].n \subseteq 1..count
      BY DEF SocketShape
    <2>2. clients' \subseteq clients /\ got' \in [Sockets -> SUBSET (1..count)]
      BY <1>5, <2>1, WriteEffect DEF SendFullState
    <2>3. held' = [d \in Sockets |-> held'[d]] /\ \A d \in Sockets : held'[d].n \in 0..count
      BY <1>5 DEF SendFullState, SocketShape, NoMsg
    <2>4. UNCHANGED <<casts, count, up>> /\ sock' \in [Sockets -> {"none", "known", "read", "open"}]
      BY <1>5 DEF SendFullState, SocketShape
    <2> QED
      BY <1>2, <2>2, <2>3, <2>4 DEF SocketShape
  <1>6. CASE FetchState \/ FetchAnswered \/ FetchFails \/ (\E m \in PageMaps : SelectMap(m)) \/ UNCHANGED ovVars
    BY <1>6 DEF FetchState, FetchAnswered, FetchFails, SelectMap, ovVars, SocketShape, CastShape
  <1>7. ASSUME NEW b \in Broadcasters, NEW msg, msg.n = count + 1, Broadcast(b, msg) PROVE SocketShape'
    <2>1. count \in Nat /\ count' = count + 1 /\ UNCHANGED <<clients, sock, up, held, got>>
      BY <1>7 DEF Broadcast, SocketShape
    <2>2. got' \in [Sockets -> SUBSET (1..count')]
      BY <2>1 DEF SocketShape
    <2>3. PICK z : Recast(b, z) /\ CastShape(z, count')
      BY <1>7, <2>1, BroadcastEffect
    <2> QED
      BY <1>1, <2>1, <2>2, <2>3
  <1>8. ASSUME NEW b \in Broadcasters, ListClients(b) PROVE SocketShape'
    <2>1. UNCHANGED <<clients, sock, up, held, got, count>>
      BY <1>8 DEF ListClients
    <2>2. PICK z : Recast(b, z) /\ CastShape(z, count')
      BY <1>8, <2>1, ListEffect
    <2>3. got' \in [Sockets -> SUBSET (1..count')]
      BY <2>1 DEF SocketShape
    <2> QED
      BY <1>1, <2>1, <2>2, <2>3
  <1>9. ASSUME NEW b \in Broadcasters, NEW c \in Sockets, SendTo(b, c) PROVE SocketShape'
    <2>1. CastShape(casts[b], count) /\ casts[b].step = "send" /\ c \in casts[b].left
      BY <1>9 DEF SendTo, SocketShape
    <2>2. {casts[b].msg.n} \subseteq 1..count
      BY <2>1 DEF CastShape, SocketShape
    <2>3. UNCHANGED <<sock, up, held, count>>
      BY <1>9 DEF SendTo
    <2>4. clients' \subseteq clients /\ got' \in [Sockets -> SUBSET (1..count')]
      BY <1>9, <2>2, <2>3, WriteEffect DEF SendTo
    <2>5. PICK z : Recast(b, z) /\ CastShape(z, count')
      BY <1>9, <2>3, SendEffect
    <2> QED
      BY <1>1, <2>3, <2>4, <2>5
  <1>10. CASE StopOverlay
    BY <1>2, <1>10 DEF StopOverlay, SocketShape
  <1>11. /\ "party" \in Broadcasters /\ "game" \in Broadcasters
         /\ \A msg \in PartyMessages \cup MapMessages : msg.n = count + 1
    BY DEF Broadcasters, PartyMessages, MapMessages
  <1> QED
    BY <1>3, <1>4, <1>5, <1>6, <1>7, <1>8, <1>9, <1>10, <1>11 DEF OverlayNext

\* A broadcast is owed to every client registered when it lists them; a socket that
\* is registered later takes its snapshot after the state was changed.
LEMMA CoverNext == SocketShape /\ SocketShape' /\ CoverInv /\ [OverlayNext]_ovVars => CoverInv'
  <1> SUFFICES ASSUME SocketShape, SocketShape', CoverInv, [OverlayNext]_ovVars PROVE CoverInv'
    OBVIOUS
  <1>0. ASSUME NEW c \in Sockets, NEW k \in 1..count, Covered(c, k), UNCHANGED casts,
               sock'[c] = sock[c], got'[c] = got[c], held'[c] = held[c]
        PROVE  Covered(c, k)'
    BY <1>0 DEF Covered, Due
  <1>1. ASSUME NEW d \in Sockets, ConnectWS(d) \/ Accept(d) \/ LoseSocket(d) \/ ReaderEnds(d)
        PROVE  CoverInv'
    <2> SUFFICES ASSUME NEW c \in (clients \cap up)', NEW k \in 1..count PROVE Covered(c, k)'
      BY <1>1 DEF CoverInv, ConnectWS, Accept, LoseSocket, ReaderEnds
    <2>1. c \in Sockets /\ UNCHANGED casts
      BY <1>1 DEF SocketShape, ConnectWS, Accept, LoseSocket, ReaderEnds
    <2>2. CASE ConnectWS(d) \/ Accept(d)
      <3>1. CASE c = d
        BY <2>2, <3>1 DEF Covered, ConnectWS, Accept, SocketShape
      <3>2. CASE c # d
        <4>1. Covered(c, k) /\ sock'[c] = sock[c] /\ got'[c] = got[c] /\ held'[c] = held[c]
          BY <2>2, <3>2 DEF CoverInv, ConnectWS, Accept, SocketShape
        <4> QED
          BY <1>0, <2>1, <4>1
      <3> QED
        BY <3>1, <3>2
    <2>3. CASE LoseSocket(d) \/ ReaderEnds(d)
      <3>1. Covered(c, k) /\ sock'[c] = sock[c] /\ got'[c] = got[c] /\ held'[c] = held[c]
        BY <2>3 DEF CoverInv, LoseSocket, ReaderEnds, SocketShape
      <3> QED
        BY <1>0, <2>1, <3>1
    <2> QED
      BY <1>1, <2>2, <2>3
  <1>2. ASSUME NEW d \in Sockets, ReadState(d) PROVE CoverInv'
    <2>1. held' = [held EXCEPT ![d] = Snapshot] /\ Snapshot.n = count
      BY <1>2 DEF ReadState, Snapshot
    <2>2. held'[d].n = count /\ \A c \in Sockets \ {d} : held'[c] = held[c]
      BY <2>1 DEF SocketShape
    <2>3. UNCHANGED <<clients, up, casts, got, count>> /\ sock' = [sock EXCEPT ![d] = "read"]
      BY <1>2 DEF ReadState
    <2> SUFFICES ASSUME NEW c \in clients \cap up, NEW k \in 1..count PROVE Covered(c, k)'
      BY <2>3 DEF CoverInv
    <2>4. CASE c = d
      BY <2>2, <2>3, <2>4 DEF Covered, SocketShape
    <2>5. CASE c # d
      <3>1. c \in Sockets /\ sock'[c] = sock[c] /\ held'[c] = held[c]
        BY <2>2, <2>3, <2>5 DEF SocketShape
      <3> QED
        BY <1>0, <2>3, <3>1 DEF CoverInv
    <2> QED
      BY <2>4, <2>5
  <1>3. ASSUME NEW d \in Sockets, SendFullState(d) PROVE CoverInv'
    <2>1. sock[d] = "read" /\ Write(d, held[d], 1..held[d].n) /\ held[d].n \in 0..count
          /\ sock' = [sock EXCEPT ![d] = "open"] /\ UNCHANGED <<up, casts, count>>
      BY <1>3 DEF SendFullState, SocketShape
    <2>2. 1..held[d].n \subseteq 1..count
      BY <2>1 DEF SocketShape
    <2>3. /\ clients' \subseteq clients /\ (d \in up => 1..held[d].n \subseteq got'[d])
          /\ \A c \in Sockets : got[c] \subseteq got'[c]
          /\ d \notin up => d \notin clients'
      BY <2>1, <2>2, WriteEffect
    <2> SUFFICES ASSUME NEW c \in (clients \cap up)', NEW k \in (1..count)'
                 PROVE  Covered(c, k)'
      BY DEF CoverInv
    <2>4. c \in clients \cap up /\ k \in 1..count /\ c \in Sockets
      BY <2>1, <2>3 DEF SocketShape
    <2>5. Due(c, k)' <=> Due(c, k)
      BY <2>1 DEF Due
    <2>6. CASE c = d
      <3>1. sock[c] = "read"
        BY <2>1, <2>6
      <3>2. k <= held[c].n => k \in got'[c]
        BY <2>1, <2>3, <2>4, <2>6 DEF SocketShape
      <3> QED
        BY <2>3, <2>4, <2>5, <3>1, <3>2 DEF CoverInv, Covered
    <2>7. CASE c # d
      <3>1. sock'[c] = sock[c] /\ held'[c] = held[c]
        BY <1>3, <2>1, <2>4, <2>7 DEF SendFullState, SocketShape
      <3> QED
        BY <2>3, <2>4, <2>5, <3>1 DEF CoverInv, Covered
    <2> QED
      BY <2>6, <2>7
  <1>4. ASSUME NEW b \in Broadcasters, NEW msg, msg.n = count + 1, Broadcast(b, msg) PROVE CoverInv'
    <2>1. count' = count + 1 /\ UNCHANGED <<clients, sock, up, held, got>> /\ casts[b] = NoCast
      BY <1>4 DEF Broadcast
    <2>2. PICK z : Recast(b, z) /\ z.step = "list" /\ z.msg = msg
      BY <1>4, BroadcastEffect
    <2>3. casts'[b] = z /\ \A d \in Broadcasters \ {b} : casts'[d] = casts[d]
      BY <2>2 DEF Recast, SocketShape
    <2>4. \A c \in Sockets, k \in Nat : k = count + 1 => Due(c, k)'
      BY <1>4, <2>2, <2>3 DEF Due
    <2>5. \A c \in Sockets, k \in 1..count : Due(c, k) => Due(c, k)'
      BY <2>1, <2>3 DEF Due, NoCast
    <2>6. count \in Nat /\ clients \cap up \subseteq Sockets
      BY DEF SocketShape
    <2> SUFFICES ASSUME NEW c \in clients \cap up, NEW k \in 1..count' PROVE Covered(c, k)'
      BY <2>1 DEF CoverInv
    <2>7. k = count + 1 \/ k \in 1..count
      BY <2>1, <2>6
    <2> QED
      BY <2>1, <2>4, <2>5, <2>6, <2>7 DEF CoverInv, Covered
  <1>5. ASSUME NEW b \in Broadcasters, ListClients(b) PROVE CoverInv'
    <2>1. UNCHANGED <<clients, sock, up, held, got, count>>
      BY <1>5 DEF ListClients
    <2>2. PICK z : Recast(b, z)
                   /\ (clients # {} => z.step = "send" /\ z.msg = casts[b].msg /\ z.left = clients)
      BY <1>5, ListEffect
    <2>3. casts'[b] = z /\ \A d \in Broadcasters \ {b} : casts'[d] = casts[d]
      BY <2>2 DEF Recast, SocketShape
    <2>4. \A c \in clients, k \in 1..count : Due(c, k) => Due(c, k)'
      BY <2>2, <2>3 DEF Due
    <2> QED
      BY <2>1, <2>4 DEF CoverInv, Covered
  <1>6. ASSUME NEW b \in Broadcasters, NEW d \in Sockets, SendTo(b, d) PROVE CoverInv'
    <2>1. /\ casts[b].step = "send" /\ d \in casts[b].left /\ CastShape(casts[b], count)
          /\ Write(d, casts[b].msg, {casts[b].msg.n}) /\ UNCHANGED <<sock, up, held, count>>
      BY <1>6 DEF SendTo, SocketShape
    <2>2. {casts[b].msg.n} \subseteq 1..count
      BY <2>1 DEF CastShape, SocketShape
    <2>3. /\ clients' \subseteq clients /\ (d \in up => casts[b].msg.n \in got'[d])
          /\ \A c \in Sockets : got[c] \subseteq got'[c]
      BY <2>1, <2>2, WriteEffect
    <2>4. PICK z : Recast(b, z)
                   /\ (casts[b].left \ {d} # {} => /\ z.step = "send" /\ z.msg = casts[b].msg
                                                   /\ z.left = casts[b].left \ {d})
      BY <1>6, SendEffect
    <2>5. casts'[b] = z /\ \A e \in Broadcasters \ {b} : casts'[e] = casts[e]
      BY <2>4 DEF Recast, SocketShape
    <2>6. \A c \in clients \cap up, k \in 1..count : Due(c, k) => Due(c, k)' \/ k \in got'[c]
      BY <2>1, <2>3, <2>4, <2>5 DEF Due
    <2>7. clients \cap up \subseteq Sockets
      BY DEF SocketShape
    <2> QED
      BY <2>1, <2>3, <2>6, <2>7 DEF CoverInv, Covered
  <1>7. CASE StopOverlay
    BY <1>7 DEF StopOverlay, CoverInv
  <1>8. CASE FetchState \/ FetchAnswered \/ FetchFails \/ (\E m \in PageMaps : SelectMap(m)) \/ UNCHANGED ovVars
    <2>1. UNCHANGED <<clients, sock, up, held, casts, got, count>>
      BY <1>8 DEF FetchState, FetchAnswered, FetchFails, SelectMap, ovVars
    <2> QED
      BY <2>1 DEF CoverInv, Covered, Due
  <1>11. /\ "party" \in Broadcasters /\ "game" \in Broadcasters
         /\ \A msg \in PartyMessages \cup MapMessages : msg.n = count + 1
    BY DEF Broadcasters, PartyMessages, MapMessages
  <1> QED
    BY <1>1, <1>2, <1>3, <1>4, <1>5, <1>6, <1>7, <1>8, <1>11 DEF OverlayNext

OverlayCovered == SocketShape /\ CoverInv

\* At the start there is no client and no broadcast.
LEMMA CoverStart == OverlayInit => OverlayCovered
  <1> SUFFICES ASSUME OverlayInit PROVE OverlayCovered
    OBVIOUS
  <1>1. \A b \in Broadcasters : CastShape(casts[b], count)
    BY NoCastShape DEF OverlayInit
  <1> QED
    BY <1>1 DEF OverlayInit, OverlayCovered, SocketShape, CoverInv, NoMsg

\* handleWebSocket registers a client before it reads the state, and the state is
\* changed before it is broadcast: an open page lacks nothing that is not on its way.
THEOREM NoPageMissesABroadcast == OverlaySpec => []NoBroadcastMissed
  <1>1. OverlayCovered => NoBroadcastMissed
    <2> SUFFICES ASSUME SocketShape, CoverInv, NEW c \in clients \cap up, sock[c] = "open",
                        NEW k \in Over
                 PROVE  k \in got[c]
      BY DEF OverlayCovered, NoBroadcastMissed
    <2>1. k \in 1..count /\ ~Due(c, k)
      BY DEF Over, Due
    <2> QED
      BY <2>1 DEF CoverInv, Covered
  <1>2. OverlayCovered /\ [OverlayNext]_ovVars => OverlayCovered'
    BY SocketShapeNext, CoverNext DEF OverlayCovered
  <1> QED
    BY <1>1, <1>2, CoverStart, PTL DEF OverlaySpec

Placed(n) == [map : GameMaps \cup {MapUnset}, n : 0..n]
Fetches(n) == {<<"asked">>, <<"done">>}
                \cup ({"answered"} \X (GameMaps \cup {MapUnset}) \X [Members -> Placed(n)])
PageShape(p, n) ==
  p \in [on : SUBSET Sockets, map : PageMaps \cup {MapUnset}, marks : [Members -> Placed(n)],
         fetch : Fetches(n), astray : SUBSET Members, picks : Nat]
\* p and z may differ in their markers only.
Remarked(p, z) == z.on = p.on /\ z.map = p.map /\ z.fetch = p.fetch /\ z.astray = p.astray

\* A member of whom nothing is known may be on the board.
LEMMA UnseenPlaced == \A n \in Nat : Unseen \in Placed(n)
  BY DEF Unseen, Placed, MapUnset

\* What the marker of one member becomes, on its map or on another.
LEMMA MarkedPage ==
  ASSUME NEW n \in Nat, NEW p, PageShape(p, n), NEW i \in Members, NEW at \in Placed(n),
         NEW z, z = Marked(p, i, at)
  PROVE  /\ PageShape(z, n) /\ Remarked(p, z)
         /\ z.marks[i] = IF p.map \in {MapUnset, at.map} THEN at ELSE Unseen
         /\ \A j \in Members \ {i} : z.marks[j] = p.marks[j]
  <1>1. PICK x \in Placed(n) : /\ x = IF p.map \in {MapUnset, at.map} THEN at ELSE Unseen
                               /\ z = [p EXCEPT !.marks[i] = x]
    BY UnseenPlaced DEF Marked
  <1> QED
    BY <1>1 DEF PageShape, Remarked

\* Loading a map keeps socket and fetch; whoever is not astray after it is shown
\* as before, on that map.
LEMMA LoadedPage ==
  ASSUME NEW n \in Nat, NEW p, PageShape(p, n), NEW m, NEW z, z = LoadMap(p, m)
  PROVE  /\ PageShape(z, n) /\ z.on = p.on /\ z.fetch = p.fetch
         /\ z # p => z.map = m /\ m \in PageMaps
         /\ z # p => \A i \in Members \ z.astray :
              i \notin p.astray /\ z.marks[i] = p.marks[i] /\ p.marks[i].map = m
  <1>1. CASE m \notin PageMaps
    BY <1>1 DEF LoadMap
  <1>2. CASE m \in PageMaps
    <2>1. PICK f : f = [i \in Members |-> IF p.marks[i].map = m THEN p.marks[i] ELSE Unseen]
      OBVIOUS
    <2>2. f \in [Members -> Placed(n)]
      BY <2>1, UnseenPlaced DEF PageShape
    <2>3. PICK A : A = p.astray \cup {i \in Members : p.marks[i].map # m}
      OBVIOUS
    <2>4. z = [p EXCEPT !.map = m, !.astray = A, !.marks = f]
      BY <1>2, <2>1, <2>3 DEF LoadMap
    <2>5. A \subseteq Members
      BY <2>3 DEF PageShape
    <2>6. PageShape(z, n) /\ z.on = p.on /\ z.fetch = p.fetch /\ z.map = m
          /\ z.marks = f /\ z.astray = A
      BY <1>2, <2>2, <2>4, <2>5 DEF PageShape
    <2>7. \A i \in Members \ A : i \notin p.astray /\ f[i] = p.marks[i] /\ p.marks[i].map = m
      BY <2>1, <2>3
    <2> QED
      BY <1>2, <2>6, <2>7
  <1> QED
    BY <1>1, <1>2

\* Placing all markers changes the markers only: those of the members it names.
LEMMA AllMarkedPage ==
  ASSUME NEW n \in Nat, NEW p, PageShape(p, n), NEW at \in [Members -> Placed(n)],
         NEW z, z = AllMarked(p, at)
  PROVE  /\ PageShape(z, n) /\ Remarked(p, z)
         /\ \A i \in Members : z.marks[i] = IF at[i] = Unseen THEN p.marks[i]
                ELSE IF p.map \in {MapUnset, at[i].map} THEN at[i] ELSE Unseen
  <1>1. PICK f : f = [i \in Members |-> IF at[i] = Unseen THEN p.marks[i] ELSE Marked(p, i, at[i]).marks[i]]
    OBVIOUS
  <1>2. ASSUME NEW i \in Members
        PROVE  /\ f[i] \in Placed(n)
               /\ f[i] = IF at[i] = Unseen THEN p.marks[i]
                         ELSE IF p.map \in {MapUnset, at[i].map} THEN at[i] ELSE Unseen
    <2>1. PICK y : y = Marked(p, i, at[i])
      OBVIOUS
    <2>2. /\ y.marks[i] \in Placed(n)
          /\ y.marks[i] = IF p.map \in {MapUnset, at[i].map} THEN at[i] ELSE Unseen
      BY <2>1, MarkedPage, UnseenPlaced
    <2> QED
      BY <1>1, <2>1, <2>2 DEF PageShape
  <1>3. f \in [Members -> Placed(n)]
    BY <1>1, <1>2
  <1>4. z = [p EXCEPT !.marks = f]
    BY <1>1 DEF AllMarked
  <1>5. PageShape(z, n) /\ Remarked(p, z) /\ z.marks = f
    BY <1>3, <1>4 DEF PageShape, Remarked
  <1> QED
    BY <1>2, <1>5

\* After a state was read and handled, whoever is not astray is shown as the
\* board has it.
LEMMA RestatedPage ==
  ASSUME NEW n \in Nat, NEW p, PageShape(p, n), NEW m, NEW at \in [Members -> Placed(n)],
         NEW z, z = Restated(p, m, at)
  PROVE  /\ PageShape(z, n) /\ z.on = p.on /\ z.fetch = p.fetch
         /\ \A i \in Members \ z.astray :
              z.marks[i] = IF z.map \in {MapUnset, board[i].map} THEN board[i] ELSE Unseen
  <1>1. PICK q : q = LoadMap(p, m)
    OBVIOUS
  <1>2. PICK y : y = AllMarked(q, at)
    OBVIOUS
  <1>3. PICK A : A = {i \in Members : at[i] # board[i] \/ (at[i] = Unseen /\ q.marks[i] # Unseen)}
    OBVIOUS
  <1>4. PageShape(q, n) /\ q.on = p.on /\ q.fetch = p.fetch
    BY <1>1, LoadedPage
  <1>5. /\ PageShape(y, n) /\ Remarked(q, y)
        /\ \A i \in Members : y.marks[i] = IF at[i] = Unseen THEN q.marks[i]
                ELSE IF q.map \in {MapUnset, at[i].map} THEN at[i] ELSE Unseen
    BY <1>2, <1>4, AllMarkedPage
  <1>6. z = [y EXCEPT !.astray = A]
    BY <1>1, <1>2, <1>3 DEF Restated
  <1>7. /\ PageShape(z, n) /\ z.on = p.on /\ z.fetch = p.fetch
        /\ z.marks = y.marks /\ z.map = q.map /\ z.astray = A
    BY <1>3, <1>4, <1>5, <1>6 DEF PageShape, Remarked
  <1>8. ASSUME NEW i \in Members \ A
        PROVE  y.marks[i] = IF q.map \in {MapUnset, board[i].map} THEN board[i] ELSE Unseen
    <2>1. at[i] = board[i] /\ (at[i] = Unseen => q.marks[i] = Unseen)
      BY <1>3
    <2> QED
      BY <1>5, <2>1
  <1> QED
    BY <1>7, <1>8

\* What a broadcaster sends, and what a snapshot holds.
PartyMsg(msg, n) ==
  /\ msg.id \in Members
  /\ \/ msg.type = "partyPosition" /\ [map |-> msg.map, n |-> msg.n] \in Placed(n)
     \/ msg.type = "partyMemberLeft"
MapMsg(msg) == msg.type = "mapChange"
FullMsg(msg, n) == msg.type = "fullState" /\ msg.at \in [Members -> Placed(n)]
BoardShape ==
  /\ board \in [Members -> Placed(count)] /\ boardMap \in GameMaps \cup {MapUnset}
  /\ PageShape(page, count)
  /\ casts["party"].step # "idle" => PartyMsg(casts["party"].msg, count)
  /\ casts["game"].step # "idle" => MapMsg(casts["game"].msg)
  /\ \A c \in Sockets : sock[c] = "read" => FullMsg(held[c], count)

\* The page has one socket, which the server knows once it has accepted it; an
\* open page shows whoever is not astray as the board has it, or is about to.
Said(msg) == IF msg.type = "partyPosition" THEN [map |-> msg.map, n |-> msg.n] ELSE Unseen
Connected == \E c \in up : sock[c] = "open"
Coming(i) ==
  /\ casts["party"].step # "idle" /\ casts["party"].msg.id = i
  /\ casts["party"].step = "list" \/ \E c \in up : sock[c] = "open" /\ c \in casts["party"].left
Agrees(i) ==
  page.marks[i] = IF page.map \in {MapUnset, board[i].map} THEN board[i] ELSE Unseen
OneSocket ==
  /\ page.on = up /\ \A c, d \in up : c = d
  /\ \A c \in up : sock[c] # "none" => c \in clients
SaidInv ==
  casts["party"].step # "idle" => board[casts["party"].msg.id] = Said(casts["party"].msg)
StrayInv == Connected => \A i \in Members \ page.astray : Coming(i) \/ Agrees(i)
\* A page on which a map is loaded (or not) goes astray in no other way.
Loaded(z) ==
  \A i \in Members \ z.astray :
    /\ i \notin page.astray
    /\ Agrees(i) => z.marks[i] = IF z.map \in {MapUnset, board[i].map} THEN board[i] ELSE Unseen
Right(z) ==
  \A i \in Members \ z.astray :
    z.marks[i] = IF z.map \in {MapUnset, board[i].map} THEN board[i] ELSE Unseen

\* What a message of each type changes on the page.
LEMMA HandledPage ==
  ASSUME NEW n \in Nat, NEW p, PageShape(p, n), NEW msg, NEW z, z = Handled(p, msg),
         PartyMsg(msg, n) \/ MapMsg(msg) \/ FullMsg(msg, n)
  PROVE  /\ PageShape(z, n) /\ z.on = p.on /\ z.fetch = p.fetch
         /\ MapMsg(msg) => z = p \/ z = LoadMap(p, msg.map)
         /\ FullMsg(msg, n) => Right(z)
         /\ PartyMsg(msg, n) =>
              /\ z.map = p.map /\ z.astray = p.astray \ {msg.id}
              /\ z.marks[msg.id] = IF p.map \in {MapUnset, Said(msg).map} THEN Said(msg) ELSE Unseen
              /\ \A j \in Members \ {msg.id} : z.marks[j] = p.marks[j]
  <1>1. CASE PartyMsg(msg, n)
    <2>0. ~MapMsg(msg) /\ ~FullMsg(msg, n) /\ msg.id \in Members
      BY <1>1 DEF PartyMsg, MapMsg, FullMsg
    <2>1. ASSUME NEW y, PageShape(y, n), Remarked(p, y),
                 z = [y EXCEPT !.astray = p.astray \ {msg.id}],
                 y.marks[msg.id] = IF p.map \in {MapUnset, Said(msg).map} THEN Said(msg) ELSE Unseen,
                 \A j \in Members \ {msg.id} : y.marks[j] = p.marks[j]
          PROVE  /\ PageShape(z, n) /\ z.on = p.on /\ z.fetch = p.fetch
                 /\ z.map = p.map /\ z.astray = p.astray \ {msg.id}
                 /\ z.marks[msg.id] = IF p.map \in {MapUnset, Said(msg).map} THEN Said(msg) ELSE Unseen
                 /\ \A j \in Members \ {msg.id} : z.marks[j] = p.marks[j]
      BY <2>1 DEF PageShape, Remarked
    <2>2. CASE msg.type = "partyPosition"
      <3>1. PICK at : at = [map |-> msg.map, n |-> msg.n]
        OBVIOUS
      <3>2. PICK y : y = Marked(p, msg.id, at)
        OBVIOUS
      <3>3. z = [y EXCEPT !.astray = y.astray \ {msg.id}] /\ Said(msg) = at /\ at \in Placed(n)
        BY <1>1, <2>2, <3>1, <3>2 DEF Handled, PartyMsg, Said
      <3>4. /\ PageShape(y, n) /\ Remarked(p, y)
            /\ y.marks[msg.id] = IF p.map \in {MapUnset, at.map} THEN at ELSE Unseen
            /\ \A j \in Members \ {msg.id} : y.marks[j] = p.marks[j]
        BY <2>0, <3>2, <3>3, MarkedPage
      <3>5. z = [y EXCEPT !.astray = p.astray \ {msg.id}]
        BY <3>3, <3>4 DEF Remarked
      <3> QED
        BY <2>0, <2>1, <3>3, <3>4, <3>5
    <2>3. CASE msg.type = "partyMemberLeft"
      <3>1. PICK y : y = [p EXCEPT !.marks[msg.id] = Unseen]
        OBVIOUS
      <3>2. z = [y EXCEPT !.astray = p.astray \ {msg.id}] /\ Said(msg) = Unseen
        BY <2>3, <3>1 DEF Handled, Said, PageShape
      <3>3. Unseen \in Placed(n)
        BY UnseenPlaced
      <3>4. PageShape(y, n)
        BY <2>0, <3>1, <3>3 DEF PageShape
      <3>5. Remarked(p, y) /\ y.marks[msg.id] = Unseen /\ \A j \in Members \ {msg.id} : y.marks[j] = p.marks[j]
        BY <2>0, <3>1, <3>3 DEF PageShape, Remarked
      <3> QED
        BY <2>0, <2>1, <3>2, <3>4, <3>5
    <2> QED
      BY <1>1, <2>2, <2>3 DEF PartyMsg
  <1>2. CASE MapMsg(msg)
    <2>1. z = p \/ z = LoadMap(p, msg.map)
      BY <1>2 DEF Handled, MapMsg
    <2>2. ~PartyMsg(msg, n) /\ ~FullMsg(msg, n)
      BY <1>2 DEF PartyMsg, MapMsg, FullMsg
    <2> QED
      BY <2>1, <2>2, LoadedPage
  <1>3. CASE FullMsg(msg, n)
    <2>1. z = Restated(p, msg.map, msg.at) /\ msg.at \in [Members -> Placed(n)]
      BY <1>3 DEF Handled, FullMsg
    <2>2. ~PartyMsg(msg, n) /\ ~MapMsg(msg)
      BY <1>3 DEF PartyMsg, MapMsg, FullMsg
    <2> QED
      BY <2>1, <2>2, RestatedPage DEF Right
  <1> QED
    BY <1>1, <1>2, <1>3

\* A map that is loaded keeps right what it does not lead astray.
LEMMA LoadedIsRight ==
  ASSUME NEW n \in Nat, PageShape(page, n), NEW m, NEW z, z = page \/ z = LoadMap(page, m)
  PROVE  PageShape(z, n) /\ z.on = page.on /\ z.fetch = page.fetch /\ Loaded(z)
  <1>1. CASE z = page
    BY <1>1 DEF Loaded, Agrees
  <1>2. CASE z # page
    <2>1. /\ PageShape(z, n) /\ z.on = page.on /\ z.fetch = page.fetch
          /\ z.map = m /\ m \in PageMaps
          /\ \A i \in Members \ z.astray :
               i \notin page.astray /\ z.marks[i] = page.marks[i] /\ page.marks[i].map = m
      BY <1>2, LoadedPage
    <2>2. ASSUME NEW i \in Members \ z.astray, Agrees(i)
          PROVE  z.marks[i] = IF z.map \in {MapUnset, board[i].map} THEN board[i] ELSE Unseen
      <3>1. page.marks[i] # Unseen
        BY <2>1, OverlayAssumption DEF Unseen
      <3> QED
        BY <2>1, <2>2, <3>1 DEF Agrees
    <2> QED
      BY <2>1, <2>2 DEF Loaded
  <1> QED
    BY <1>1, <1>2

\* What was possible after n broadcasts is possible after one more.
LEMMA PlacedGrows ==
  ASSUME NEW n \in Nat
  PROVE  /\ Placed(n) \subseteq Placed(n + 1) /\ Fetches(n) \subseteq Fetches(n + 1)
         /\ \A p : PageShape(p, n) => PageShape(p, n + 1)
         /\ \A msg : /\ PartyMsg(msg, n) => PartyMsg(msg, n + 1)
                     /\ FullMsg(msg, n) => FullMsg(msg, n + 1)
  <1>1. Placed(n) \subseteq Placed(n + 1)
    BY DEF Placed
  <1>2. [Members -> Placed(n)] \subseteq [Members -> Placed(n + 1)]
    BY <1>1
  <1>3. Fetches(n) \subseteq Fetches(n + 1)
    BY <1>2 DEF Fetches
  <1>4. \A p : PageShape(p, n) => PageShape(p, n + 1)
    BY <1>2, <1>3 DEF PageShape
  <1> QED
    BY <1>1, <1>2, <1>3, <1>4 DEF PartyMsg, FullMsg

\* Fetching the state and choosing a map are steps of the page alone.
LEMMA PageMoves ==
  ASSUME BoardShape, count \in Nat,
         FetchState \/ FetchAnswered \/ FetchFails \/ \E m \in PageMaps : SelectMap(m)
  PROVE  /\ UNCHANGED <<board, boardMap, clients, sock, up, held, casts, got, count>>
         /\ PageShape(page', count) /\ page'.on = page.on
         /\ Loaded(page') \/ Right(page')
  <1> DEFINE Moved == /\ PageShape(page', count) /\ page'.on = page.on
                      /\ Loaded(page') \/ Right(page')
  <1>1. PageShape(page, count) /\ <<"done">> \in Fetches(count)
    BY DEF Fetches, BoardShape
  <1>2. CASE FetchState
    <2>1. <<"answered", boardMap, board>> \in Fetches(count) /\ page.fetch # <<"done">>
      BY <1>2 DEF Fetches, BoardShape, FetchState
    <2>2. /\ PageShape(page', count) /\ page'.on = page.on /\ page'.map = page.map
          /\ page'.marks = page.marks /\ page'.astray = page.astray
      BY <1>1, <1>2, <2>1 DEF FetchState, PageShape
    <2>3. Moved
      BY <2>2 DEF Loaded, Agrees
    <2> QED
      BY <1>2, <2>3 DEF FetchState
  <1>3. CASE FetchAnswered
    <2>1. PICK m : m = IF page.fetch[2] = MapUnset THEN DefaultMap ELSE page.fetch[2]
      OBVIOUS
    <2>2. PICK z : z = Restated(page, m, page.fetch[3])
      OBVIOUS
    <2>3. page.fetch[3] \in [Members -> Placed(count)]
      BY <1>1, <1>3 DEF FetchAnswered, PageShape, Fetches
    <2>4. PageShape(z, count) /\ z.on = page.on /\ Right(z)
      BY <1>1, <2>2, <2>3, RestatedPage DEF Right
    <2>5. page' = [z EXCEPT !.fetch = <<"done">>]
      BY <1>3, <2>1, <2>2 DEF FetchAnswered
    <2>6. Moved
      BY <1>1, <2>4, <2>5 DEF PageShape, Right
    <2> QED
      BY <1>3, <2>6 DEF FetchAnswered
  <1>4. CASE FetchFails
    <2>1. PICK y : y = LoadMap(page, DefaultMap)
      OBVIOUS
    <2>2. PageShape(y, count) /\ y.on = page.on /\ Loaded(y)
      BY <1>1, <2>1, LoadedIsRight
    <2>3. page' = [y EXCEPT !.fetch = <<"done">>]
      BY <1>4, <2>1 DEF FetchFails
    <2>4. Moved
      BY <1>1, <2>2, <2>3 DEF PageShape, Loaded
    <2> QED
      BY <1>4, <2>4 DEF FetchFails
  <1>5. ASSUME NEW m \in PageMaps, SelectMap(m)
        PROVE  Moved /\ UNCHANGED <<board, boardMap, clients, sock, up, held, casts, got, count>>
    <2>1. PICK y : y = LoadMap(page, m)
      OBVIOUS
    <2>2. PageShape(y, count) /\ y.on = page.on /\ Loaded(y)
      BY <1>1, <2>1, LoadedIsRight
    <2>3. page' = [y EXCEPT !.picks = y.picks + 1]
      BY <1>5, <2>1 DEF SelectMap
    <2>4. Moved
      BY <2>2, <2>3 DEF PageShape, Loaded
    <2> QED
      BY <1>5, <2>4 DEF SelectMap
  <1> QED
    BY <1>2, <1>3, <1>4, <1>5

\* Board, page and messages keep their shape.
LEMMA BoardShapeNext == SocketShape /\ BoardShape /\ [OverlayNext]_ovVars => BoardShape'
  <1> SUFFICES ASSUME SocketShape, BoardShape, [OverlayNext]_ovVars PROVE BoardShape'
    OBVIOUS
  <1>0. count \in Nat /\ PageShape(page, count)
    BY DEF SocketShape, BoardShape
  <1>1. ASSUME NEW c \in Sockets, ConnectWS(c) \/ LoseSocket(c) \/ Accept(c) \/ ReaderEnds(c)
        PROVE  BoardShape'
    <2>1. UNCHANGED <<board, boardMap, held, casts, count>>
          /\ \A d \in Sockets : sock'[d] = "read" => sock[d] = "read"
      BY <1>1 DEF ConnectWS, LoseSocket, Accept, ReaderEnds, SocketShape
    <2>2. PageShape(page', count)
      <3>1. CASE ConnectWS(c)
        BY <1>0, <3>1 DEF ConnectWS, PageShape
      <3>2. CASE LoseSocket(c)
        BY <1>0, <3>2 DEF LoseSocket, PageShape
      <3>3. CASE Accept(c) \/ ReaderEnds(c)
        BY <1>0, <3>3 DEF Accept, ReaderEnds
      <3> QED
        BY <1>1, <3>1, <3>2, <3>3
    <2> QED
      BY <2>1, <2>2 DEF BoardShape
  <1>2. ASSUME NEW c \in Sockets, ReadState(c) PROVE BoardShape'
    <2>1. FullMsg(Snapshot, count)
      BY DEF Snapshot, FullMsg, BoardShape
    <2>2. \A d \in Sockets : sock'[d] = "read" => FullMsg(held'[d], count)
      BY <1>2, <2>1 DEF ReadState, SocketShape, BoardShape
    <2> QED
      BY <1>2, <2>2 DEF ReadState, BoardShape
  <1>3. ASSUME NEW msg, NEW S, NEW c \in Sockets, Write(c, msg, S),
               PartyMsg(msg, count) \/ MapMsg(msg) \/ FullMsg(msg, count)
        PROVE  PageShape(page', count)
    BY <1>0, <1>3, HandledPage DEF Write
  <1>4. ASSUME NEW c \in Sockets, SendFullState(c) PROVE BoardShape'
    <2>1. FullMsg(held[c], count)
      BY <1>4 DEF SendFullState, BoardShape
    <2>2. PageShape(page', count)
      BY <1>3, <1>4, <2>1 DEF SendFullState
    <2>3. \A d \in Sockets : sock'[d] = "read" => sock[d] = "read" /\ held'[d] = held[d]
      BY <1>4 DEF SendFullState, SocketShape
    <2> QED
      BY <1>4, <2>2, <2>3 DEF SendFullState, BoardShape
  <1>5. ASSUME UNCHANGED <<board, boardMap, sock, held, casts, count>>, PageShape(page', count)
        PROVE  BoardShape'
    BY <1>5 DEF BoardShape
  <1>6. CASE FetchState \/ FetchAnswered \/ FetchFails \/ \E m \in PageMaps : SelectMap(m)
    BY <1>0, <1>5, <1>6, PageMoves
  <1>11. ASSUME NEW msg \in PartyMessages, Broadcast("party", msg) PROVE BoardShape'
    <2>1. PartyMsg(msg, count + 1) /\ msg.n = count + 1
      BY <1>0 DEF PartyMessages, PartyMsg, Placed
    <2>2. board' \in [Members -> Placed(count + 1)] /\ boardMap' = boardMap
      <3>1. board \in [Members -> Placed(count + 1)]
        BY <1>0, PlacedGrows DEF BoardShape
      <3> QED
        BY <1>0, <1>11, <2>1, <3>1, UnseenPlaced
           DEF Broadcast, Applied, PartyMsg, PartyMessages
    <2>3. PageShape(page', count + 1)
      BY <1>0, <1>11, PlacedGrows DEF Broadcast
    <2>4. PICK z : Recast("party", z) /\ z.msg = msg
      BY <1>11, <2>1, BroadcastEffect DEF Broadcasters
    <2>5. casts'["party"].msg = msg /\ casts'["game"] = casts["game"]
      BY <2>4 DEF Recast, SocketShape, Broadcasters
    <2>6. count' = count + 1 /\ UNCHANGED <<sock, held>>
      BY <1>11 DEF Broadcast
    <2>7. \A c \in Sockets : sock[c] = "read" => FullMsg(held[c], count + 1)
      BY <1>0, PlacedGrows DEF BoardShape
    <2> QED
      BY <2>1, <2>2, <2>3, <2>5, <2>6, <2>7 DEF BoardShape
  <1>12. ASSUME NEW msg \in MapMessages, Broadcast("game", msg) PROVE BoardShape'
    <2>1. MapMsg(msg) /\ msg.n = count + 1 /\ msg.map \in GameMaps
      BY <1>0 DEF MapMessages, MapMsg
    <2>2. board' = board /\ board \in [Members -> Placed(count + 1)] /\ boardMap' \in GameMaps
      BY <1>0, <1>12, <2>1, PlacedGrows DEF BoardShape, Broadcast, Applied, MapMsg
    <2>3. page' = page /\ PageShape(page, count + 1)
      BY <1>0, <1>12, PlacedGrows DEF Broadcast
    <2>4. PICK z : Recast("game", z) /\ z.msg = msg
      BY <1>12, <2>1, BroadcastEffect DEF Broadcasters
    <2>5. casts'["game"].msg = msg /\ casts'["party"] = casts["party"]
      BY <2>4 DEF Recast, SocketShape, Broadcasters
    <2>6. count' = count + 1 /\ UNCHANGED <<sock, held>>
      BY <1>12 DEF Broadcast
    <2>7. \A c \in Sockets : sock[c] = "read" => FullMsg(held[c], count + 1)
      BY <1>0, PlacedGrows DEF BoardShape
    <2>8. casts["party"].step # "idle" => PartyMsg(casts["party"].msg, count + 1)
      BY <1>0, PlacedGrows DEF BoardShape
    <2> QED
      BY <2>1, <2>2, <2>3, <2>5, <2>6, <2>7, <2>8 DEF BoardShape
  <1>13. ASSUME NEW b \in Broadcasters, NEW z, Recast(b, z), z = NoCast \/ z.msg = casts[b].msg,
                casts[b].step # "idle", UNCHANGED <<board, boardMap, sock, held, count>>,
                PageShape(page', count)
         PROVE  BoardShape'
    <2>1. casts'[b] = z /\ \A e \in Broadcasters \ {b} : casts'[e] = casts[e]
      BY <1>13 DEF Recast, SocketShape
    <2>2. \A e \in Broadcasters :
            casts'[e].step # "idle" => casts[e].step # "idle" /\ casts'[e].msg = casts[e].msg
      BY <1>13, <2>1 DEF NoCast
    <2> QED
      BY <1>13, <2>2 DEF BoardShape, Broadcasters
  <1>14. ASSUME NEW b \in Broadcasters, ListClients(b) PROVE BoardShape'
    <2>1. PICK z : Recast(b, z) /\ (z = NoCast \/ z.msg = casts[b].msg)
      BY <1>14, ListEffect
    <2> QED
      BY <1>0, <1>13, <1>14, <2>1 DEF ListClients
  <1>15. ASSUME NEW b \in Broadcasters, NEW c \in Sockets, SendTo(b, c) PROVE BoardShape'
    <2>1. PICK z : Recast(b, z) /\ (z = NoCast \/ z.msg = casts[b].msg)
      BY <1>15, SendEffect
    <2>2. PartyMsg(casts[b].msg, count) \/ MapMsg(casts[b].msg)
      BY <1>15 DEF SendTo, BoardShape, Broadcasters
    <2>3. PageShape(page', count)
      BY <1>3, <1>15, <2>2 DEF SendTo
    <2> QED
      BY <1>13, <1>15, <2>1, <2>3 DEF SendTo
  <1>16. CASE StopOverlay
    <2>1. PageShape(page', count)
      BY <1>0, <1>16 DEF StopOverlay, PageShape
    <2> QED
      BY <1>5, <1>16, <2>1 DEF StopOverlay
  <1>17. CASE UNCHANGED ovVars
    BY <1>17 DEF ovVars, BoardShape
  <1> QED
    BY <1>1, <1>2, <1>4, <1>6, <1>11, <1>12, <1>14, <1>15, <1>16, <1>17 DEF OverlayNext

\* The page closes its socket before it opens another, and the server knows one it
\* has accepted until it fails.
LEMMA OneSocketNext ==
  SocketShape /\ BoardShape /\ OneSocket /\ [OverlayNext]_ovVars => OneSocket'
  <1> SUFFICES ASSUME SocketShape, BoardShape, OneSocket, [OverlayNext]_ovVars PROVE OneSocket'
    OBVIOUS
  <1>0. up \subseteq Sockets /\ PageShape(page, count) /\ count \in Nat
    BY DEF SocketShape, BoardShape
  <1>1. ASSUME UNCHANGED up, page'.on = page.on, clients \cap up \subseteq clients',
               \A c \in up : sock[c] = "none" => sock'[c] = "none" \/ c \in clients'
        PROVE  OneSocket'
    BY <1>1 DEF OneSocket
  <1>2. ASSUME NEW c \in Sockets, ConnectWS(c) PROVE OneSocket'
    <2>1. page'.on = {c} /\ up' = {c} /\ sock'[c] = "none"
      BY <1>0, <1>2 DEF ConnectWS, PageShape, OneSocket
    <2> QED
      BY <2>1 DEF OneSocket
  <1>3. ASSUME NEW c \in Sockets, Accept(c) PROVE OneSocket'
    BY <1>1, <1>3 DEF Accept, SocketShape
  <1>4. ASSUME NEW c \in Sockets, ReadState(c) PROVE OneSocket'
    BY <1>1, <1>4, <1>0 DEF ReadState, SocketShape
  <1>5. ASSUME NEW msg, NEW S, NEW c \in Sockets, Write(c, msg, S),
               PartyMsg(msg, count) \/ MapMsg(msg) \/ FullMsg(msg, count)
        PROVE  page'.on = page.on /\ clients \cap up \subseteq clients'
    BY <1>0, <1>5, HandledPage DEF Write
  <1>6. ASSUME NEW c \in Sockets, SendFullState(c) PROVE OneSocket'
    <2>1. FullMsg(held[c], count) /\ Write(c, held[c], 1..held[c].n) /\ sock[c] = "read"
          /\ UNCHANGED up /\ sock' = [sock EXCEPT ![c] = "open"]
      BY <1>6 DEF SendFullState, BoardShape
    <2>2. page'.on = page.on /\ clients \cap up \subseteq clients'
      BY <1>5, <2>1
    <2> QED
      BY <1>0, <1>1, <2>1, <2>2 DEF SocketShape
  <1>7. ASSUME NEW c \in Sockets, LoseSocket(c) PROVE OneSocket'
    <2>1. page'.on = page.on \ {c}
      BY <1>0, <1>7 DEF LoseSocket, PageShape
    <2> QED
      BY <1>7, <2>1 DEF LoseSocket, OneSocket
  <1>8. ASSUME NEW c \in Sockets, ReaderEnds(c) PROVE OneSocket'
    BY <1>0, <1>1, <1>8 DEF ReaderEnds, SocketShape
  <1>9. CASE FetchState \/ FetchAnswered \/ FetchFails \/ \E m \in PageMaps : SelectMap(m)
    BY <1>0, <1>1, <1>9, PageMoves
  <1>10. ASSUME NEW b \in Broadcasters, NEW msg, Broadcast(b, msg) PROVE OneSocket'
    <2>1. page'.on = page.on
      BY <1>0, <1>10 DEF Broadcast, PageShape
    <2> QED
      BY <1>1, <1>10, <2>1 DEF Broadcast
  <1>11. ASSUME NEW b \in Broadcasters, ListClients(b) PROVE OneSocket'
    BY <1>1, <1>11 DEF ListClients
  <1>12. ASSUME NEW b \in Broadcasters, NEW c \in Sockets, SendTo(b, c) PROVE OneSocket'
    <2>1. PartyMsg(casts[b].msg, count) \/ MapMsg(casts[b].msg)
      BY <1>12 DEF SendTo, BoardShape, Broadcasters
    <2> QED
      BY <1>1, <1>5, <1>12, <2>1 DEF SendTo
  <1>13. CASE StopOverlay
    <2>1. page'.on = page.on \ clients
      BY <1>0, <1>13 DEF StopOverlay, PageShape
    <2> QED
      BY <1>13, <2>1 DEF StopOverlay, OneSocket
  <1>14. CASE UNCHANGED ovVars
    BY <1>14 DEF ovVars, OneSocket
  <1>15. "party" \in Broadcasters /\ "game" \in Broadcasters
    BY DEF Broadcasters
  <1> QED
    BY <1>2, <1>3, <1>4, <1>6, <1>7, <1>8, <1>9, <1>10, <1>11, <1>12, <1>13, <1>14, <1>15 DEF OverlayNext

OverlayShape == SocketShape /\ BoardShape /\ OneSocket
\* The board already has what the party's broadcast under way says.
LEMMA SaidNext == OverlayShape /\ SaidInv /\ [OverlayNext]_ovVars => SaidInv'
  <1> SUFFICES ASSUME SocketShape, BoardShape, SaidInv, [OverlayNext]_ovVars PROVE SaidInv'
    BY DEF OverlayShape
  <1>1. ASSUME NEW msg \in PartyMessages, Broadcast("party", msg) PROVE SaidInv'
    <2>1. PICK z : Recast("party", z) /\ z.msg = msg
      BY <1>1, BroadcastEffect DEF Broadcasters, PartyMessages
    <2>2. casts'["party"] = z
      BY <2>1 DEF Recast, SocketShape, Broadcasters
    <2>3. msg.id \in Members /\ board'[msg.id] = Said(msg)
      BY <1>1 DEF Broadcast, Applied, PartyMessages, BoardShape, Said
    <2> QED
      BY <2>1, <2>2, <2>3 DEF SaidInv
  <1>2. ASSUME NEW b \in Broadcasters, NEW z, Recast(b, z), UNCHANGED board,
               b = "game" \/ z = NoCast \/ (z.msg = casts[b].msg /\ casts[b].step # "idle")
        PROVE  SaidInv'
    <2>1. casts'["party"] = IF b = "party" THEN z ELSE casts["party"]
      BY <1>2 DEF Recast, SocketShape, Broadcasters
    <2> QED
      BY <1>2, <2>1 DEF SaidInv, NoCast
  <1>3. ASSUME NEW msg \in MapMessages, Broadcast("game", msg) PROVE SaidInv'
    <2>1. PICK z : Recast("game", z)
      BY <1>3, BroadcastEffect DEF Broadcasters, MapMessages
    <2>2. UNCHANGED board
      BY <1>3 DEF Broadcast, Applied, MapMessages
    <2> QED
      BY <1>2, <2>1, <2>2 DEF Broadcasters
  <1>4. ASSUME NEW b \in Broadcasters, NEW c \in Sockets, ListClients(b) \/ SendTo(b, c)
        PROVE  SaidInv'
    <2>1. casts[b].step # "idle" /\ UNCHANGED board
      BY <1>4 DEF ListClients, SendTo
    <2>2. PICK z : Recast(b, z) /\ (z = NoCast \/ z.msg = casts[b].msg)
      BY <1>4, ListEffect, SendEffect
    <2> QED
      BY <1>2, <2>1, <2>2
  <1>5. CASE UNCHANGED <<board, casts>>
    BY <1>5 DEF SaidInv
  <1>6. FetchState \/ FetchAnswered \/ FetchFails \/ (\E m \in PageMaps : SelectMap(m))
          => UNCHANGED <<board, casts>>
    BY DEF FetchState, FetchAnswered, FetchFails, SelectMap
  <1> QED
    BY <1>1, <1>3, <1>4, <1>5, <1>6
       DEF OverlayNext, ovVars, ConnectWS, Accept, ReadState, SendFullState, LoseSocket,
           ReaderEnds, StopOverlay

\* An open page shows whoever is not astray as the board has it, or the message is
\* on its way to it.
LEMMA StrayNext == OverlayShape /\ SaidInv /\ StrayInv /\ [OverlayNext]_ovVars => StrayInv'
  <1> SUFFICES ASSUME SocketShape, BoardShape, OneSocket, SaidInv, StrayInv, [OverlayNext]_ovVars
               PROVE  StrayInv'
    BY DEF OverlayShape
  <1>0. up \subseteq Sockets /\ PageShape(page, count) /\ count \in Nat
    BY DEF SocketShape, BoardShape
  <1>1. ASSUME ~Connected' PROVE StrayInv'
    BY <1>1 DEF StrayInv
  <1>2. ASSUME UNCHANGED <<board, casts, up>>, Loaded(page') \/ Right(page'),
               \A c \in up : sock[c] = "open" <=> sock'[c] = "open"
        PROVE  StrayInv'
    <2>1. Connected' <=> Connected
      BY <1>2 DEF Connected
    <2>2. \A i \in Members : Coming(i)' <=> Coming(i)
      BY <1>2 DEF Coming
    <2>3. CASE Right(page')
      BY <1>2, <2>3 DEF StrayInv, Right, Agrees
    <2>4. CASE Loaded(page')
      <3>1. ASSUME NEW i \in Members \ page'.astray, Connected PROVE Coming(i)' \/ Agrees(i)'
        BY <1>2, <2>2, <2>4, <3>1 DEF StrayInv, Loaded, Agrees
      <3> QED
        BY <2>1, <3>1 DEF StrayInv
    <2> QED
      BY <1>2, <2>3, <2>4
  <1>3. ASSUME NEW c, ConnectWS(c) \/ LoseSocket(c) \/ StopOverlay PROVE StrayInv'
    <2>1. ~Connected'
      <3>1. CASE ConnectWS(c)
        BY <1>0, <3>1 DEF ConnectWS, OneSocket, Connected
      <3>2. CASE LoseSocket(c)
        BY <1>0, <3>2 DEF LoseSocket, OneSocket, Connected
      <3>3. CASE StopOverlay
        BY <1>0, <3>3 DEF StopOverlay, OneSocket, Connected
      <3> QED
        BY <1>3, <3>1, <3>2, <3>3
    <2> QED
      BY <1>1, <2>1
  <1>4. ASSUME NEW c \in Sockets, Accept(c) \/ ReadState(c) \/ ReaderEnds(c) PROVE StrayInv'
    <2>1. UNCHANGED <<page, board, casts, up>>
      BY <1>4 DEF Accept, ReadState, ReaderEnds
    <2>2. \A d \in up : sock[d] = "open" <=> sock'[d] = "open"
      BY <1>0, <1>4 DEF Accept, ReadState, ReaderEnds, SocketShape
    <2>3. Loaded(page')
      BY <2>1 DEF Loaded, Agrees
    <2> QED
      BY <1>2, <2>1, <2>2, <2>3
  <1>5. ASSUME NEW c \in Sockets, SendFullState(c) PROVE StrayInv'
    <2>1. FullMsg(held[c], count) /\ Write(c, held[c], 1..held[c].n) /\ sock[c] = "read"
          /\ UNCHANGED <<board, casts, up>> /\ sock' = [sock EXCEPT ![c] = "open"]
      BY <1>5 DEF SendFullState, BoardShape
    <2>2. CASE c \in up
      <3>1. Right(page')
        BY <1>0, <2>1, <2>2, HandledPage DEF Write
      <3> QED
        BY <2>1, <3>1 DEF StrayInv, Right, Agrees
    <2>3. CASE c \notin up
      <3>1. UNCHANGED page /\ \A d \in up : sock'[d] = sock[d]
        BY <1>0, <2>1, <2>3 DEF Write, SocketShape
      <3>2. Loaded(page')
        BY <3>1 DEF Loaded, Agrees
      <3> QED
        BY <1>2, <2>1, <3>1, <3>2
    <2> QED
      BY <2>2, <2>3
  <1>6. CASE FetchState \/ FetchAnswered \/ FetchFails \/ \E m \in PageMaps : SelectMap(m)
    BY <1>0, <1>2, <1>6, PageMoves
  <1>7. ASSUME NEW msg \in PartyMessages, Broadcast("party", msg) PROVE StrayInv'
    <2>1. PICK z : Recast("party", z) /\ z.step = "list" /\ z.msg = msg
      BY <1>7, BroadcastEffect DEF Broadcasters, PartyMessages
    <2>2. casts'["party"] = z /\ casts["party"].step = "idle" /\ UNCHANGED <<sock, up, page>>
      BY <1>7, <2>1 DEF Recast, SocketShape, Broadcasters, Broadcast, NoCast
    <2>3. \A j \in Members \ {msg.id} : board'[j] = board[j]
      BY <1>7 DEF Broadcast, Applied, PartyMessages, BoardShape
    <2> SUFFICES ASSUME NEW i \in Members \ page.astray, Connected
                 PROVE  Coming(i)' \/ Agrees(i)'
      BY <2>2 DEF StrayInv, Connected
    <2>4. CASE i = msg.id
      BY <2>1, <2>2, <2>4 DEF Coming
    <2>5. CASE i # msg.id
      <3>1. ~Coming(i)
        BY <2>2 DEF Coming
      <3> QED
        BY <2>2, <2>3, <2>5, <3>1 DEF StrayInv, Agrees
    <2> QED
      BY <2>4, <2>5
  <1>8. ASSUME NEW z, Recast("game", z), UNCHANGED <<board, up, sock>>, Loaded(page')
        PROVE  StrayInv'
    <2>1. casts'["party"] = casts["party"]
      BY <1>8 DEF Recast, SocketShape, Broadcasters
    <2>2. ASSUME NEW i \in Members \ page'.astray, Connected PROVE Coming(i)' \/ Agrees(i)'
      BY <1>8, <2>1, <2>2 DEF StrayInv, Coming, Agrees, Loaded
    <2> QED
      BY <1>8, <2>2 DEF StrayInv, Connected
  <1>9. ASSUME NEW msg \in MapMessages, Broadcast("game", msg) PROVE StrayInv'
    <2>1. PICK z : Recast("game", z)
      BY <1>9, BroadcastEffect DEF Broadcasters, MapMessages
    <2>2. UNCHANGED <<page, board, up, sock>>
      BY <1>9 DEF Broadcast, Applied, MapMessages
    <2>3. Loaded(page')
      BY <2>2 DEF Loaded, Agrees
    <2> QED
      BY <1>8, <2>1, <2>2, <2>3
  <1>10. ASSUME ListClients("party") PROVE StrayInv'
    <2>1. PICK z : Recast("party", z) /\ IF clients = {} THEN z = NoCast
                   ELSE z.step = "send" /\ z.msg = casts["party"].msg /\ z.left = clients
      BY <1>10, ListEffect DEF Broadcasters
    <2>2. casts'["party"] = z /\ casts["party"].step = "list" /\ UNCHANGED <<page, board, sock, up>>
      BY <1>10, <2>1 DEF Recast, SocketShape, Broadcasters, ListClients
    <2>3. Connected => \E c \in up : sock[c] = "open" /\ c \in clients
      BY DEF Connected, OneSocket
    <2>4. ASSUME NEW i \in Members, Connected, Coming(i) PROVE Coming(i)'
      BY <2>1, <2>2, <2>3, <2>4 DEF Coming
    <2> QED
      BY <2>2, <2>4 DEF StrayInv, Agrees, Connected
  <1>11. ASSUME NEW c \in Sockets, SendTo("party", c) PROVE StrayInv'
    <2> DEFINE msg == casts["party"].msg
    <2>1. PICK z : Recast("party", z) /\ IF casts["party"].left \ {c} = {} THEN z = NoCast
                   ELSE z.step = "send" /\ z.msg = msg /\ z.left = casts["party"].left \ {c}
      BY <1>11, SendEffect DEF Broadcasters
    <2>2. /\ casts'["party"] = z /\ casts["party"].step = "send" /\ c \in casts["party"].left
          /\ UNCHANGED <<board, sock, up>> /\ PartyMsg(msg, count)
      BY <1>11, <2>1 DEF Recast, SocketShape, BoardShape, Broadcasters, SendTo
    <2>3. CASE c \notin up
      <3>1. UNCHANGED page
        BY <1>11, <2>3 DEF SendTo, Write
      <3>2. ASSUME NEW i \in Members, Coming(i) PROVE Coming(i)'
        BY <2>1, <2>2, <2>3, <3>2 DEF Coming, NoCast
      <3> QED
        BY <2>2, <3>1, <3>2 DEF StrayInv, Agrees, Connected
    <2>4. CASE c \in up
      <3>1. page' = Handled(page, msg)
        BY <1>11, <2>4 DEF SendTo, Write
      <3>2. /\ page'.map = page.map /\ page'.astray = page.astray \ {msg.id}
            /\ page'.marks[msg.id] = IF page.map \in {MapUnset, Said(msg).map} THEN Said(msg) ELSE Unseen
            /\ \A j \in Members \ {msg.id} : page'.marks[j] = page.marks[j]
        BY <1>0, <2>2, <3>1, HandledPage
      <3>3. board[msg.id] = Said(msg)
        BY <2>2 DEF SaidInv
      <3> SUFFICES ASSUME NEW i \in Members \ page'.astray, Connected
                   PROVE  Coming(i)' \/ Agrees(i)'
        BY <2>2 DEF StrayInv, Connected
      <3>4. CASE i = msg.id
        BY <2>2, <3>2, <3>3, <3>4 DEF Agrees
      <3>5. CASE i # msg.id
        <4>1. i \notin page.astray /\ ~Coming(i)
          BY <3>2, <3>5 DEF Coming
        <4> QED
          BY <2>2, <3>2, <3>5, <4>1 DEF Agrees, StrayInv
      <3> QED
        BY <3>4, <3>5
    <2> QED
      BY <2>3, <2>4
  <1>12. ASSUME ListClients("game") PROVE StrayInv'
    <2>1. PICK z : Recast("game", z)
      BY <1>12, ListEffect DEF Broadcasters
    <2>2. UNCHANGED <<page, board, up, sock>>
      BY <1>12 DEF ListClients
    <2>3. Loaded(page')
      BY <2>2 DEF Loaded, Agrees
    <2> QED
      BY <1>8, <2>1, <2>2, <2>3
  <1>13. ASSUME NEW c \in Sockets, SendTo("game", c) PROVE StrayInv'
    <2>1. PICK z : Recast("game", z)
      BY <1>13, SendEffect DEF Broadcasters
    <2>2. PICK m : page' = page \/ page' = LoadMap(page, m)
      <3>1. MapMsg(casts["game"].msg)
        BY <1>13 DEF SendTo, BoardShape
      <3> QED
        BY <1>0, <1>13, <3>1, HandledPage DEF SendTo, Write
    <2>3. Loaded(page')
      BY <1>0, <2>2, LoadedIsRight
    <2> QED
      BY <1>8, <1>13, <2>1, <2>3 DEF SendTo
  <1>14. CASE UNCHANGED ovVars
    <2>1. Loaded(page')
      BY <1>14 DEF ovVars, Loaded, Agrees
    <2> QED
      BY <1>2, <1>14, <2>1 DEF ovVars
  <1> QED
    BY <1>3, <1>4, <1>5, <1>6, <1>7, <1>9, <1>10, <1>11, <1>12, <1>13, <1>14
       DEF OverlayNext, Broadcasters

OverlayInv == OverlayShape /\ CoverInv /\ SaidInv /\ StrayInv

\* A server that has just started satisfies the invariant.
LEMMA OverlayStart == OverlayInit => OverlayInv
  <1> SUFFICES ASSUME OverlayInit PROVE OverlayInv
    OBVIOUS
  <1>1. SocketShape /\ CoverInv
    BY CoverStart DEF OverlayCovered
  <1>2. Unseen \in Placed(0) /\ PageShape(page, 0)
    BY UnseenPlaced DEF OverlayInit, NoPage, PageShape, Fetches
  <1>3. BoardShape
    BY <1>2 DEF OverlayInit, BoardShape, NoCast, Broadcasters
  <1>4. OneSocket /\ SaidInv /\ StrayInv
    BY DEF OverlayInit, OneSocket, SaidInv, StrayInv, Connected, NoPage, NoCast, Broadcasters
  <1> QED
    BY <1>1, <1>3, <1>4 DEF OverlayInv, OverlayShape

\* Every step of server, page and broadcasters keeps the invariant.
LEMMA OverlayNextInv == OverlayInv /\ [OverlayNext]_ovVars => OverlayInv'
  BY SocketShapeNext, BoardShapeNext, OneSocketNext, CoverNext, SaidNext, StrayNext DEF OverlayInv, OverlayShape

\* The invariant that the theorems about the overlay follow from.
THEOREM OverlayInvariant == OverlaySpec => []OverlayInv
  BY OverlayStart, OverlayNextInv, PTL DEF OverlaySpec

\* The invariant gives the types.
LEMMA OverlayTypes == OverlayInv => OverlayTypeOK
  <1> SUFFICES ASSUME SocketShape, BoardShape PROVE OverlayTypeOK
    BY DEF OverlayInv, OverlayShape
  <1>1. PageShape(page, count) /\ count \in Nat
    BY DEF SocketShape, BoardShape
  <1>2. page.on \subseteq Sockets /\ page.map \in PageMaps \cup {MapUnset}
    BY <1>1 DEF PageShape
  <1>3. \A i \in Members : board[i].n <= count /\ page.marks[i].n <= count
    BY <1>1 DEF PageShape, BoardShape, Placed
  <1>4. \A b \in Broadcasters : casts[b].left # {} => casts[b].step = "send"
    BY DEF SocketShape, CastShape
  <1> QED
    BY <1>2, <1>3, <1>4 DEF OverlayTypeOK, SocketShape, BoardShape

\* The invariant gives what the page shows.
LEMMA OverlayShown == OverlayInv => ShowsLatest
    <1> SUFFICES ASSUME BoardShape, OneSocket, StrayInv, AtRest, NEW i \in Members \ page.astray
               PROVE  Agrees(i)
    BY DEF OverlayInv, OverlayShape, ShowsLatest, Agrees
  <1>1. Connected /\ ~Coming(i)
    BY DEF AtRest, OneSocket, Connected, Coming, NoCast
  <1> QED
    BY <1>1 DEF StrayInv
==============================================================================
