----------------------------- MODULE ReleaseNotes -----------------------------
(***************************************************************************)
(* The release notes of internal/updater: fetches that overtake each       *)
(* other, offers of the update check, the notes of this session, and the   *)
(* files they are saved in, of which only so many are kept.                *)
(*                                                                         *)
(* A note is the number of its arrival, which is also its FetchedAt.  A    *)
(* save is under n.mu; its steps are told apart because the process may    *)
(* end between them.  All records have the same size: the byte limit acts  *)
(* as the limit on their number does.                                      *)
(***************************************************************************)
EXTENDS Integers, FiniteSets

CONSTANTS
  Tags, Installed,        \* releases, and the one that is running
  MaxRecords,             \* maxNoteRecords, 32 in the code
  Junk,                   \* unreadable files in the directory at first
  MaxArrivals, MaxFetches, MaxRuns  \* bounds: notes, fetches, runs of the process
ASSUME NotesAssumption == IsFiniteSet(Tags) /\ MaxRecords \in Nat /\ Junk \in Nat

VARIABLES
  disk,      \* each tag: the note in its file, NoNote without one
  junk,      \* unreadable files
  session,   \* n.session: [note, gen, saved]
  gens,      \* n.generations
  results,   \* n.results: the last lookup of each tag; "limited" is failed until RetryAt
  offered,   \* n.lastOfferedTag
  fetches,   \* the requests under way: [tag, gen]
  fetched,   \* requests so far
  arrivals,  \* notes so far
  save,      \* the save under way: [tag, note, gen, before, listed, removed, staged], or NoSave
  runs,      \* runs of the process
  pruned,    \* history: tags whose file was removed to make room since it was saved
  slips      \* history: [lost, extra]: files lost by failed restores; files there may be too
             \* many since pruning last counted them, by failed restores, exits, pruning that
             \* could not list the files, or at first

rnVars == <<disk, junk, session, gens, results, offered, fetches, fetched, arrivals, save, runs,
            pruned, slips>>

NoNote == 0
NoTag == "none"
Unread == [note |-> NoNote, gen |-> 0, saved |-> FALSE]
NoSave == [tag |-> NoTag]
Records == {t \in Tags : disk[t] # NoNote}
Count == Cardinality(Records) + junk

NotesInit ==
  /\ disk = [t \in Tags |-> NoNote] /\ junk = Junk
  /\ session = [t \in Tags |-> Unread] /\ gens = [t \in Tags |-> 0]
  /\ results = [t \in Tags |-> "none"] /\ offered = NoTag
  /\ fetches = {} /\ fetched = 0 /\ arrivals = 0 /\ save = NoSave /\ runs = 1
  /\ pruned = {}
  /\ slips = [lost |-> {}, extra |-> IF Junk > MaxRecords THEN Junk - MaxRecords ELSE 0]

(* readResultLocked, Read: the session's note, else the saved one, if its  *)
(* file can be read.                                                       *)
LoadNote(t) == session' \in
  {session, IF session[t] = Unread /\ disk[t] # NoNote
            THEN [session EXCEPT ![t] = [note |-> disk[t], gen |-> 0, saved |-> TRUE]]
            ELSE session}

------------------------------------------------------------------------------
(* Lookups. *)

Read(t) ==
  /\ save = NoSave
  /\ LoadNote(t)
  /\ UNCHANGED <<disk, junk, gens, results, offered, fetches, fetched, arrivals, save, runs,
                 pruned, slips>>

(* Refresh, to the request. *)
Refresh(t) ==
  /\ save = NoSave /\ fetched < MaxFetches /\ results[t] # "limited"
  /\ fetched' = fetched + 1
  /\ gens' = [gens EXCEPT ![t] = @ + 1]
  /\ fetches' = fetches \cup {[tag |-> t, gen |-> gens'[t]]}
  /\ UNCHANGED <<disk, junk, session, results, offered, arrivals, save, runs, pruned, slips>>
RetryAt(t) ==
  /\ results[t] = "limited"
  /\ results' = [results EXCEPT ![t] = "failed"]
  /\ UNCHANGED <<disk, junk, session, gens, offered, fetches, fetched, arrivals, save, runs,
                 pruned, slips>>

\* Mutant of Current: the generation is not compared.
CurrentAlways(f) == f \in fetches

(* Refresh, from the answer on: one that was superseded changes nothing    *)
(* but what it reads.                                                      *)
Current(f) == gens[f.tag] = f.gen
Superseded(f) ==
  /\ save = NoSave /\ f \in fetches /\ ~Current(f)
  /\ fetches' = fetches \ {f}
  /\ IF results[f.tag] = "none" THEN LoadNote(f.tag) ELSE UNCHANGED session
  /\ UNCHANGED <<disk, junk, gens, results, offered, fetched, arrivals, save, runs, pruned, slips>>
Unpublished(f, lookup) ==
  /\ save = NoSave /\ f \in fetches /\ Current(f)
  /\ fetches' = fetches \ {f}
  /\ LoadNote(f.tag)
  /\ results' = [results EXCEPT ![f.tag] = lookup]
  /\ UNCHANGED <<disk, junk, gens, offered, fetched, arrivals, save, runs, pruned, slips>>

------------------------------------------------------------------------------
(* writeRecordLocked. *)

Protected(t, current) == t \in {current, Installed, offered'}
(* canRetainLocked: there is room, or enough that may go.  A directory     *)
(* that cannot be used or listed counts as empty, here and in pruneLocked. *)
CanRetain(t, listed) ==
  LET others == Records \ {t}
      fixed == {x \in others : Protected(x, t)}
  IN listed => 1 + Cardinality(fixed) <= MaxRecords

(* The session gets the note whether or not it could be saved. *)
Keep(t, note, gen, saved) ==
  /\ session' = [session EXCEPT ![t] = [note |-> note, gen |-> gen, saved |-> saved]]
  /\ results' = [results EXCEPT ![t] = "published"]
  /\ pruned' = IF saved THEN pruned \ {t} ELSE pruned

(* The note arrives; nothing is written (no room, no directory), or the    *)
(* replacement fails and its restore may fail too, or it is in place and   *)
(* pruning follows.                                                        *)
Arrive(t, gen) ==
  /\ arrivals < MaxArrivals
  /\ arrivals' = arrivals + 1
  /\ \/ /\ Keep(t, arrivals', gen, FALSE)
        /\ UNCHANGED <<disk, junk, save, slips>>
     \/ /\ \E listed \in BOOLEAN : CanRetain(t, listed)
        /\ Keep(t, arrivals', gen, FALSE)
        /\ disk' = [disk EXCEPT ![t] = arrivals']
        /\ slips' = [slips EXCEPT !.extra = @ + 1]
        /\ UNCHANGED <<junk, save>>
     \/ /\ \E listed \in BOOLEAN : CanRetain(t, listed)
        /\ disk' = [disk EXCEPT ![t] = arrivals']
        /\ \E listed \in BOOLEAN :
             save' = [tag |-> t, note |-> arrivals', gen |-> gen, before |-> disk[t],
                      listed |-> listed, removed |-> {}, staged |-> 0]
        /\ UNCHANGED <<junk, session, results, pruned, slips>>
  /\ UNCHANGED <<fetched, runs>>
Published(f) ==
  /\ save = NoSave /\ f \in fetches /\ Current(f)
  /\ fetches' = fetches \ {f}
  /\ UNCHANGED <<gens, offered>>
  /\ Arrive(f.tag, f.gen)
RememberOffer(t) ==
  /\ save = NoSave
  /\ offered' = t
  /\ gens' = [gens EXCEPT ![t] = @ + 1]
  /\ UNCHANGED fetches
  /\ Arrive(t, gens'[t])

(* pruneLocked: the unreadable files first, then the oldest that may go,   *)
(* if enough of them may.                                                  *)
Removable == {t \in Records : ~Protected(t, save.tag)}
Oldest(S) == CHOOSE t \in S : \A u \in S : disk[t] <= disk[u]
PruneOne ==
  /\ save # NoSave /\ save.listed /\ Count > MaxRecords
  /\ UNCHANGED offered
  /\ Cardinality(Records \ Removable) <= MaxRecords
  /\ IF junk > 0
     THEN /\ junk' = junk - 1 /\ save' = [save EXCEPT !.staged = @ + 1]
          /\ UNCHANGED disk
     ELSE LET t == Oldest(Removable)
          IN /\ disk' = [disk EXCEPT ![t] = NoNote]
             /\ save' = [save EXCEPT !.removed = @ \cup {<<t, disk[t]>>}]
             /\ UNCHANGED junk
  /\ UNCHANGED <<session, gens, results, fetches, fetched, arrivals, runs, pruned, slips>>

\* Mutant of PruneDone: pruning stops one file early.
PruneDoneEarly ==
  /\ save # NoSave /\ (save.listed => Count <= MaxRecords + 1)
  /\ save' = NoSave
  /\ session' = [session EXCEPT ![save.tag] =
                   [note |-> save.note, gen |-> save.gen, saved |-> TRUE]]
  /\ results' = [results EXCEPT ![save.tag] = "published"]
  /\ pruned' = (pruned \cup {r[1] : r \in save.removed}) \ {save.tag}
  /\ slips' = [lost |-> slips.lost \ {save.tag},
               extra |-> IF save.listed THEN 0 ELSE slips.extra + 1]
  /\ UNCHANGED <<disk, junk, gens, offered, fetches, fetched, arrivals, runs>>

PruneDone ==
  /\ save # NoSave /\ (save.listed => Count <= MaxRecords)
  /\ save' = NoSave
  /\ session' = [session EXCEPT ![save.tag] =
                   [note |-> save.note, gen |-> save.gen, saved |-> TRUE]]
  /\ results' = [results EXCEPT ![save.tag] = "published"]
  /\ pruned' = (pruned \cup {r[1] : r \in save.removed}) \ {save.tag}
  /\ slips' = [lost |-> slips.lost \ {save.tag},
               extra |-> IF save.listed THEN 0 ELSE slips.extra + 1]
  /\ UNCHANGED <<disk, junk, gens, offered, fetches, fetched, arrivals, runs>>

\* Mutant of PruneFails: the session calls the note saved all the same.
PruneFailsSaved(back, undone) ==
  /\ save # NoSave /\ save.listed /\ Count > MaxRecords
  /\ disk' = [t \in Tags |-> IF t = save.tag THEN (IF undone THEN save.before ELSE save.note)
                             ELSE IF \E r \in back : r[1] = t
                             THEN (CHOOSE r \in back : r[1] = t)[2] ELSE disk[t]]
  /\ junk' = junk + save.staged
  /\ slips' = [lost |-> slips.lost \cup {r[1] : r \in save.removed \ back},
               extra |-> slips.extra + (IF undone THEN 0 ELSE 1)]
  /\ Keep(save.tag, save.note, save.gen, TRUE)
  /\ save' = NoSave
  /\ UNCHANGED <<gens, offered, fetches, fetched, arrivals, runs>>

(* A removal fails: what was removed comes back, and the file that was     *)
(* replaced; any of these restores may fail in its turn.                   *)
PruneFails(back, undone) ==
  /\ save # NoSave /\ save.listed /\ Count > MaxRecords
  /\ disk' = [t \in Tags |-> IF t = save.tag THEN (IF undone THEN save.before ELSE save.note)
                             ELSE IF \E r \in back : r[1] = t
                             THEN (CHOOSE r \in back : r[1] = t)[2] ELSE disk[t]]
  /\ junk' = junk + save.staged
  /\ slips' = [lost |-> slips.lost \cup {r[1] : r \in save.removed \ back},
               extra |-> slips.extra + (IF undone THEN 0 ELSE 1)]
  /\ Keep(save.tag, save.note, save.gen, FALSE)
  /\ save' = NoSave
  /\ UNCHANGED <<gens, offered, fetches, fetched, arrivals, runs>>

(* The process ends, perhaps in the middle of a save, and starts again. *)
Restart ==
  /\ runs < MaxRuns
  /\ runs' = runs + 1
  /\ session' = [t \in Tags |-> Unread] /\ gens' = [t \in Tags |-> 0]
  /\ results' = [t \in Tags |-> "none"] /\ offered' = NoTag
  /\ fetches' = {} /\ save' = NoSave /\ pruned' = {}
  /\ slips' = [slips EXCEPT !.extra = @ + (IF save = NoSave THEN 0 ELSE 1)]
  /\ UNCHANGED <<disk, junk, fetched, arrivals>>

NotesNext ==
  \/ \E t \in Tags : Read(t) \/ Refresh(t) \/ RetryAt(t) \/ RememberOffer(t)
  \/ \E f \in fetches : \/ Superseded(f) \/ Published(f)
                        \/ \E lookup \in {"missing", "failed", "limited"} : Unpublished(f, lookup)
  \/ PruneOne \/ PruneDone \/ Restart
  \/ \E undone \in BOOLEAN : \E back \in SUBSET (IF save = NoSave THEN {} ELSE save.removed) :
       PruneFails(back, undone)
NotesSpec == NotesInit /\ [][NotesNext]_rnVars

------------------------------------------------------------------------------
(* Notes, files and lookups are the ones the code can have.                *)
NotesTypeOK ==
  /\ disk \in [Tags -> NoNote..arrivals] /\ junk \in 0..Junk
  /\ \A t \in Tags : session[t].note <= arrivals /\ session[t].gen <= gens[t]
  /\ results \in [Tags -> {"none", "published", "missing", "failed", "limited"}]
  /\ offered \in Tags \cup {NoTag} /\ \A f \in fetches : f.gen \in 1..gens[f.tag]

(* In a run of the process the note shown for a release never gives way to *)
(* that of an older request, whichever answers last; an offer counts as a  *)
(* request.                                                                *)
NoteNeverGoesBack ==
  [][\A t \in Tags : runs' = runs => session'[t].gen >= session[t].gen]_rnVars

(* A note the session calls saved is in its file, unless it was removed to *)
(* make room for another, or a restore failed.                             *)
SavedIsOnDisk ==
  save = NoSave =>
    \A t \in Tags \ (pruned \cup slips.lost) : session[t].saved => disk[t] = session[t].note

(* There are never more files than the limit, but for one of each save     *)
(* since pruning last counted them that could not list them, that a failed *)
(* restore left in place, or that the process's end interrupted.           *)
CacheBounded == save = NoSave => Count <= MaxRecords + slips.extra
==============================================================================
