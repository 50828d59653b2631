-------------------------------- MODULE Dedupe --------------------------------
(***************************************************************************)
(* tv-dedupe.py and movie-dedupe.py on one folder that holds several       *)
(* copies of one episode, or one movie: a run reads what Sonarr or Radarr  *)
(* tracks, scans the folder, chooses the copy to keep, locks, checks again *)
(* and moves the others to .dupe-recycle, while releases are imported,     *)
(* pipelines rename files, requests fail, and runs are killed.             *)
(*                                                                         *)
(* Two episodes: every file holds "this" one, a double one "other" too,    *)
(* although its name shows only the first.  The episode, or movie, is told *)
(* from a name by episode_key; Doubtful names show two tokens.             *)
(***************************************************************************)
EXTENDS Naturals, FiniteSets

CONSTANTS
    Kinds,      \* which of the scripts run: "tv", "movie"
    Names,      \* file names in the folder
    Quality,    \* Quality[n]: resolution and source, as the name shows them
    Target,     \* Target[n]: the name a pipeline gives to n (.mp4 becomes .mkv), or
                \* None: no pipeline works on it
    Doubtful,   \* the names without a unique SxxEyy token
    Releases,   \* the [content, double] of what gets imported
    ImportAt,   \* the places of a run at which a release may be imported: ImportAt.any;
                \* one that ffprobe cannot read: .broken; one whose name a pipeline changes:
                \* .renamed; under a run with --force: .force; a movie: .movie
    Rows,       \* bound: ids of episodefile rows in use at one time
    MaxImports, MaxFaults,  \* bounds: releases; failures and kills
    None

ASSUME NamesAssumption ==
    /\ Quality \in [Names -> Nat] /\ Target \in [Names -> Names \cup {None}] /\ Doubtful \subseteq Names
(* A pipeline makes a title's .mkv, and changes nothing else in the name. *)
ASSUME TargetAssumption ==
    \A n \in Names : Target[n] # None =>
        /\ Target[Target[n]] \in {Target[n], None}
        /\ Target[n] \in Doubtful <=> n \in Doubtful
ASSUME ReleasesAssumption ==
    Releases \subseteq [content : {"good", "broken", "stub"}, double : BOOLEAN]
ASSUME RowsAssumption == Rows \subseteq Nat \ {0}
ASSUME BoundsAssumption == MaxImports \in Nat /\ MaxFaults \in Nat /\ Kinds \subseteq {"tv", "movie"}

VARIABLES
    kind,       \* the script at work
    disk,       \* disk[n]: the file in the folder, or None
    recycle,    \* the places of .dupe-recycle that are taken
    row,        \* row[i]: the path of an episodefile row (movieFile), or None
    link,       \* link[e]: the row of episode e, 0 without a file
    busy,       \* the name whose lock a pipeline holds, or None
    run,        \* the local variables of the run
    code,       \* the exit code of the last run, 1 if the operator has been told
    imports, faults

vars == <<kind, disk, recycle, row, link, busy, run, code, imports, faults>>
arr == <<row, link>>

Episodes == {"this", "other"}

(* "good"; "broken": large, but ffprobe cannot read it; "stub": less than    *)
(* CORRUPT_MAX_BYTES.                                                       *)
Contents == {"good", "broken", "stub"}
Files == [content : Contents, double : BOOLEAN, processed : BOOLEAN]
ASSUME NoneAssumption == None \notin Names \cup Files

Held(f) == IF f.double THEN Episodes ELSE {"this"}

(* A place of the recycle folder: a name, with a stamp if it was taken.     *)
Spots == Names \X Nat

Places == {"idle", "episodes", "scan", "lock", "validate", "refiles", "reepisodes",
           "move", "clean", "verify"}

(* main: "return 1 if flagged or errors or stale else 0", and the Telegram   *)
(* message.                                                                  *)
ExitCode(result) == IF result \in {"flagged", "error", "stale"} THEN 1 ELSE 0

NoTracking == [paths |-> [i \in Rows |-> None], links |-> [e \in Episodes |-> 0]]
NoRun ==
    [pc |-> "idle", force |-> FALSE, seen |-> NoTracking, ok |-> FALSE, tracked |-> None,
     keeper |-> None, extras |-> {}, todo |-> {}, stale |-> FALSE]

Init ==
    /\ kind \in Kinds
    /\ disk = [n \in Names |-> None]
    /\ recycle = {}
    /\ row = [i \in Rows |-> None]
    /\ link = [e \in Episodes |-> 0]
    /\ busy = None
    /\ run = NoRun
    /\ code = 0
    /\ imports = 0
    /\ faults = 0

-----------------------------------------------------------------------------
(* What a run makes of Sonarr's answers: _tracked_by_episode.               *)

(* tracked_by_ep: the path of e's row, if its row is among the ones read.   *)
TrackedBy(t, e) == IF t.links[e] = 0 THEN None ELSE t.paths[t.links[e]]

(* file_id_by_relpath *)
RowAt(t, n) == IF \E i \in Rows : t.paths[i] = n THEN CHOOSE i \in Rows : t.paths[i] = n ELSE 0

(* episode_by_file_id; a row that was not read has no owners.               *)
Owners(t, i) == {e \in Episodes : i # 0 /\ t.links[e] = i /\ t.paths[i] # None}

(* _extras_owned_by_other_episode *)
Blockers(t, extras) == (UNION {Owners(t, RowAt(t, n)) : n \in extras}) \ {"this"}

(* rank_key; what decides between equals, the size, is left open. *)
RankBelow(n, m) ==
    LET key(x) == <<IF disk[x].content = "stub" THEN 0 ELSE 1, Quality[x],
                    IF disk[x].processed THEN 1 ELSE 0>>
    IN  \E i \in 1..3 : key(n)[i] < key(m)[i] /\ \A j \in 1..(i - 1) : key(n)[j] = key(m)[j]

(* _videos_in with group_by_episode; a movie folder is one group. *)
Group == {n \in Names : disk[n] # None /\ (kind = "tv" => n \notin Doubtful)}

(* choose_keeper *)
MayKeep(n) == n \in Group /\ \A m \in Group : ~RankBelow(n, m)

-----------------------------------------------------------------------------
(* Steps of a run *)

Goto(place) == run' = [run EXCEPT !.pc = place]
Finish(result) ==
    /\ run' = NoRun
    /\ code' = ExitCode(result)
Folder == UNCHANGED <<kind, disk, recycle, busy, imports>>
NoFault == UNCHANGED faults
Fault == faults < MaxFaults /\ faults' = faults + 1

(* main, with --force when it is started by hand.  The tracking is read by   *)
(* two requests, rows and then episodes, once for the scan and once under    *)
(* the locks; movies() gives both at once.                                   *)
Begin ==
    /\ run.pc = "idle"
    /\ \E force \in BOOLEAN :
          run' = IF kind = "tv"
                 THEN [run EXCEPT !.pc = "episodes", !.force = force, !.seen.paths = row]
                 ELSE [run EXCEPT !.pc = "scan", !.force = force, !.ok = TRUE,
                                  !.seen = [paths |-> row, links |-> link]]
    /\ code' = 0
    /\ Folder /\ NoFault /\ UNCHANGED arr

ReadEpisodes ==
    /\ run.pc = "episodes"
    /\ run' = [run EXCEPT !.pc = "scan", !.seen.links = link, !.ok = TRUE]
    /\ Folder /\ NoFault /\ UNCHANGED <<arr, code>>

(* A request fails: the maps are empty, and tracking_ok is False. *)
ReadFails ==
    /\ run.pc = "episodes" \/ (kind = "movie" /\ run.pc = "scan" /\ run.ok)
    /\ run' = [run EXCEPT !.pc = "scan", !.seen = NoTracking, !.ok = FALSE]
    /\ Fault
    /\ Folder /\ UNCHANGED <<arr, code>>

(* Empty maps after a failed request are taken for an answer. *)
RefusalBlind(keeper, extras) ==
    IF \/ TrackedBy(run.seen, "this") # keeper /\ ~run.force
       \/ kind = "tv" /\ Blockers(run.seen, extras) # {}
    THEN "flagged" ELSE "none"

(* A copy of another episode is left to the next run, and not mentioned.    *)
RefusalQuiet(keeper, extras) ==
    IF TrackedBy(run.seen, "this") # keeper /\ ~run.force THEN "flagged"
    ELSE IF kind = "tv" /\ Blockers(run.seen, extras) # {} THEN "skipped"
    ELSE IF kind = "tv" /\ ~run.ok THEN "error" ELSE "none"

(* SAFE or RISKY, and the refusals before the locks, "none" to go on.       *)
Refusal(keeper, extras) ==
    IF \/ TrackedBy(run.seen, "this") # keeper /\ ~run.force
       \/ kind = "tv" /\ Blockers(run.seen, extras) # {}
    THEN "flagged"
    ELSE IF kind = "tv" /\ ~run.ok THEN "error" ELSE "none"

(* The scan of the folder, and the choice. *)
Scan ==
    /\ run.pc = "scan"
    /\ \/ /\ Cardinality(Group) <= 1
          /\ Finish("none")
       \/ /\ Cardinality(Group) > 1
          /\ \E keeper \in {n \in Names : MayKeep(n)} :
                LET extras == Group \ {keeper}
                    refusal == Refusal(keeper, extras)
                IN  IF refusal # "none" THEN Finish(refusal)
                    ELSE /\ run' = [run EXCEPT !.pc = "lock", !.seen = NoTracking,
                                               !.tracked = TrackedBy(run.seen, "this"),
                                               !.keeper = keeper,
                                               !.extras = extras, !.todo = extras]
                         /\ UNCHANGED code
    /\ Folder /\ NoFault /\ UNCHANGED arr

Safe == run.tracked = run.keeper

(* The locks a run wants, and holds from "validate" on, on the copies it    *)
(* moves and, in tv-dedupe.py, on the one it keeps.                          *)
Wants == run.extras \cup (IF kind = "tv" THEN {run.keeper} ELSE {})
Locked == run.pc \notin {"idle", "episodes", "scan", "lock"}

(* acquire_file_lock on all of them, or none. *)
Lock ==
    /\ run.pc = "lock"
    /\ IF busy \notin Wants
       THEN Goto(IF kind = "tv" THEN "validate" ELSE "move") /\ UNCHANGED code
       ELSE Finish("skipped")
    /\ Folder /\ NoFault /\ UNCHANGED arr

(* A check that the files are there, and no probe. *)
ValidateUnprobed ==
    /\ run.pc = "validate"
    /\ IF disk[run.keeper] = None THEN Finish("error")
       ELSE IF \E n \in run.extras : disk[n] = None THEN Finish("skipped")
       ELSE Goto("refiles") /\ UNCHANGED code
    /\ Folder /\ NoFault /\ UNCHANGED arr

(* Under the locks: the keeper is there and can be read, and so are the     *)
(* copies.                                                                  *)
Validate ==
    /\ run.pc = "validate"
    /\ LET keeper == disk[run.keeper] IN
       IF keeper = None \/ keeper.content = "broken" THEN Finish("error")
       ELSE IF \E n \in run.extras : disk[n] = None THEN Finish("skipped")
       ELSE Goto("refiles") /\ UNCHANGED code
    /\ Folder /\ NoFault /\ UNCHANGED arr

RereadFiles ==
    /\ run.pc = "refiles"
    /\ run' = [run EXCEPT !.pc = "reepisodes", !.seen.paths = row]
    /\ Folder /\ NoFault /\ UNCHANGED <<arr, code>>

(* The answers of the scan decide. *)
DecideStale ==
    /\ run.pc = "reepisodes"
    /\ run' = [run EXCEPT !.pc = "move", !.seen.links = link]
    /\ Folder /\ NoFault /\ UNCHANGED <<arr, code>>

(* What was read anew decides: SAFE still, and nobody else's. *)
Decide ==
    LET now == [run.seen EXCEPT !.links = link] IN
    /\ run.pc = "reepisodes"
    /\ IF TrackedBy(now, "this") # run.tracked THEN Finish("skipped")
       ELSE IF Blockers(now, run.extras) # {} THEN Finish("flagged")
       ELSE /\ run' = [run EXCEPT !.pc = "move", !.seen = now]
            /\ UNCHANGED code
    /\ Folder /\ NoFault /\ UNCHANGED arr

RereadFails ==
    /\ run.pc \in {"refiles", "reepisodes"}
    /\ Finish("error")
    /\ Fault
    /\ Folder /\ UNCHANGED arr

(* A copy recycled earlier under this name is overwritten. *)
RecycleTargetPlain(n) == <<n, 0>>

(* _unique_recycle_target; movie-dedupe.py takes the name as it is. *)
RecycleTarget(n) ==
    IF kind = "movie" \/ <<n, 0>> \notin recycle THEN <<n, 0>>
    ELSE <<n, CHOOSE k \in 1..Cardinality(recycle) : <<n, k>> \notin recycle>>

(* shutil.move of one copy; of one that has vanished it raises, and it may  *)
(* fail: what was moved stays moved, and its rows are left.                 *)
Move ==
    /\ run.pc = "move"
    /\ \/ /\ run.todo = {}
          /\ IF kind = "tv"
             THEN /\ run' = [run EXCEPT !.pc = "clean", !.todo = run.extras]
                  /\ UNCHANGED code
             ELSE IF Safe \/ ~run.ok
             THEN Finish("resolved")
             ELSE Goto("verify") /\ UNCHANGED code
          /\ NoFault /\ UNCHANGED <<disk, recycle>>
       \/ \E n \in run.todo :
             /\ disk[n] # None
             /\ disk' = [disk EXCEPT ![n] = None]
             /\ recycle' = recycle \cup {RecycleTarget(n)}
             /\ run' = [run EXCEPT !.todo = @ \ {n}]
             /\ UNCHANGED code
             /\ NoFault
       \/ /\ run.todo # {}
          /\ Finish("error")
          /\ IF \E n \in run.todo : disk[n] = None THEN NoFault ELSE Fault
          /\ UNCHANGED <<disk, recycle>>
    /\ UNCHANGED <<kind, arr, busy, imports>>

(* DELETE of an episodefile row: the row goes, and any file at its path.    *)
DeleteRow(i) ==
    /\ row' = [row EXCEPT ![i] = None]
    /\ link' = [e \in Episodes |-> IF link[e] = i THEN 0 ELSE link[e]]
    /\ disk' = [n \in Names |-> IF row[i] = n THEN None ELSE disk[n]]

(* _cleanup_orphan_episodefiles, for one of the vacated paths; a row that   *)
(* is gone already answers with an error.                                   *)
Clean ==
    /\ run.pc = "clean"
    /\ \E n \in run.todo :
          LET i == RowAt(run.seen, n)
              left == [run EXCEPT !.todo = @ \ {n}]
              failed == [left EXCEPT !.stale = TRUE]
          IN  \/ /\ i = 0 \/ Owners(run.seen, i) \ {"this"} # {}
                 /\ run' = left
                 /\ NoFault /\ UNCHANGED <<arr, disk>>
              \/ /\ i # 0 /\ Owners(run.seen, i) \subseteq {"this"}
                 /\ IF row[i] = None
                    THEN run' = failed /\ UNCHANGED <<arr, disk>>
                    ELSE run' = left /\ DeleteRow(i)
                 /\ NoFault
              \/ /\ i # 0 /\ Owners(run.seen, i) \subseteq {"this"}
                 /\ run' = failed
                 /\ Fault /\ UNCHANGED <<arr, disk>>
    /\ UNCHANGED <<kind, recycle, busy, imports, code>>

(* The vacated paths are done: a SAFE case is resolved, a RISKY one asks    *)
(* for a rescan, which Sonarr does when it likes (see ArrRescan).           *)
Cleaned ==
    /\ run.pc = "clean"
    /\ run.todo = {}
    /\ IF Safe THEN Finish(IF run.stale THEN "stale" ELSE "resolved")
       ELSE Goto("verify") /\ UNCHANGED code
    /\ Folder /\ NoFault /\ UNCHANGED arr

(* Four seconds later: one copy, and it is the one that is tracked. *)
Verify ==
    /\ run.pc = "verify"
    /\ LET now == [paths |-> row, links |-> link]
           alone == Cardinality(Group) = 1 /\ TrackedBy(now, "this") \in Group
       IN  \/ /\ Finish(IF ~alone THEN "error" ELSE IF run.stale THEN "stale" ELSE "forced")
              /\ NoFault
           \/ Finish("error") /\ Fault
    /\ Folder /\ UNCHANGED arr

(* The process ends; the kernel drops its locks. *)
Kill ==
    /\ run.pc # "idle"
    /\ run' = NoRun
    /\ Fault
    /\ Folder /\ UNCHANGED <<arr, code>>

Step ==
    \/ Begin
    \/ ReadEpisodes \/ ReadFails \/ Scan
    \/ Lock \/ Validate \/ RereadFiles \/ Decide \/ RereadFails
    \/ Move \/ Clean \/ Cleaned \/ Verify

-----------------------------------------------------------------------------
(* Sonarr or Radarr, and the pipelines *)

Remembered(i) ==
    run.seen.paths[i] # None \/ \E e \in Episodes : run.seen.links[e] = i

FreshRows == {i \in Rows : row[i] = None /\ ~Remembered(i)}

(* Ids tell rows apart and mean nothing else: any new one is the lowest. *)
IsFresh(i) == i \in FreshRows /\ \A j \in FreshRows : i <= j

NewFile(release) ==
    [content |-> release.content, double |-> release.double, processed |-> FALSE]

(* The rows that have no episode but those of the new file. *)
Replaced(new) ==
    {i \in Rows : /\ row[i] # None
                  /\ \E e \in Held(new) : link[e] = i
                  /\ \A e \in Episodes : link[e] = i => e \in Held(new)}

(* A release is imported: the file its episodes had goes, unless a pipeline *)
(* has renamed it; its row goes, or stays behind.  The new file takes a     *)
(* free name, and no lock; no two rows have one path.                       *)
Import ==
    /\ imports < MaxImports
    /\ run.pc \in ImportAt.any
    /\ run.force => run.pc \in ImportAt.force
    /\ kind = "movie" => run.pc \in ImportAt.movie
    /\ \E n \in Names, release \in Releases :
          LET new == NewFile(release)
              old == Replaced(new)
              vacated == {row[i] : i \in old}
              over == {i \in Rows : row[i] = n}
          IN  /\ new.content = "broken" => run.pc \in ImportAt.broken
              /\ Target[n] \notin {n, None} => run.pc \in ImportAt.renamed
              /\ n \in Doubtful => new.double
              /\ kind = "movie" => ~new.double
              /\ disk[n] = None \/ n \in vacated
              /\ disk' = [m \in Names |-> IF m = n THEN new
                                          ELSE IF m \in vacated THEN None ELSE disk[m]]
              /\ \E i \in Rows, orphans \in SUBSET old :
                    /\ IsFresh(i)
                    /\ kind = "movie" => orphans = {}
                    /\ row' = [j \in Rows |-> IF j = i THEN n
                                              ELSE IF j \in (old \ orphans) \cup over THEN None
                                              ELSE row[j]]
                    /\ link' = [e \in Episodes |-> IF e \in Held(new) THEN i
                                                   ELSE IF link[e] \in over THEN 0 ELSE link[e]]
    /\ imports' = imports + 1
    /\ UNCHANGED <<kind, recycle, busy, run, code, faults>>

(* A rescan forgets the rows whose file is gone, *)
Missing == {i \in Rows : row[i] # None /\ disk[row[i]] = None}
Left(e) == IF link[e] \in Missing THEN 0 ELSE link[e]

(* and may then take up a file that it does not know, for episodes that     *)
(* have none, by what its name shows.                                       *)
Shown(n) == IF n \in Doubtful /\ kind = "tv" THEN Episodes ELSE {"this"}

TakeUp(n, i) ==
    /\ disk[n] # None
    /\ \A j \in Rows : row[j] # n
    /\ \A e \in Shown(n) : Left(e) = 0
    /\ IsFresh(i)
    /\ row' = [j \in Rows |-> IF j = i THEN n ELSE IF j \in Missing THEN None ELSE row[j]]
    /\ link' = [e \in Episodes |-> IF e \in Shown(n) THEN i ELSE Left(e)]

ArrRescan ==
    /\ \/ /\ Missing # {}
          /\ row' = [j \in Rows |-> IF j \in Missing THEN None ELSE row[j]]
          /\ link' = [e \in Episodes |-> Left(e)]
       \/ \E n \in Names, i \in Rows : TakeUp(n, i)
    /\ UNCHANGED <<kind, disk, recycle, busy, run, code, imports, faults>>

(* A pipeline works on a file under the lock of its name, *)
PipelineStart(n) ==
    /\ busy = None
    /\ disk[n] # None
    /\ disk[n].content # "broken"
    /\ Target[n] # None
    /\ IF Target[n] = n THEN ~disk[n].processed ELSE disk[Target[n]] = None
    /\ Locked => n \notin Wants
    /\ busy' = n
    /\ UNCHANGED <<kind, disk, recycle, arr, run, code, imports, faults>>

(* and puts its output, tagged, in its place, under the .mkv name if that   *)
(* is free.  Sonarr is not told.                                            *)
PipelineEnd ==
    /\ busy # None
    /\ busy' = None
    /\ LET to == Target[busy] IN
       IF disk[busy] # None /\ (to = busy \/ disk[to] = None)
       THEN disk' = [n \in Names |-> IF n = to THEN [disk[busy] EXCEPT !.processed = TRUE]
                                     ELSE IF n = busy THEN None ELSE disk[n]]
       ELSE UNCHANGED disk
    /\ UNCHANGED <<kind, recycle, arr, run, code, imports, faults>>

Next ==
    \/ Step \/ Kill
    \/ Import \/ ArrRescan
    \/ \E n \in Names : PipelineStart(n)
    \/ PipelineEnd

Spec == Init /\ [][Next]_vars

(* cron starts a run every day, and every step of a run ends, a failing     *)
(* request by its timeout; a pipeline ends its work.                        *)
FairSpec == Spec /\ WF_vars(Step) /\ WF_vars(PipelineEnd)

-----------------------------------------------------------------------------
(* Types, and what is stored fits: an episode's row is there, and a run     *)
(* that moves has chosen what it keeps, on an answer that it got.           *)
TypeOK ==
    /\ kind \in Kinds
    /\ disk \in [Names -> Files \cup {None}]
    /\ recycle \subseteq Spots
    /\ row \in [Rows -> Names \cup {None}]
    /\ link \in [Episodes -> Rows \cup {0}]
    /\ \A e \in Episodes : link[e] # 0 => row[link[e]] # None
    /\ busy \in Names \cup {None}
    /\ run.pc \in Places
    /\ run.todo \subseteq run.extras /\ run.extras \subseteq Names
    /\ run.keeper \notin run.extras
    /\ run.pc \in {"move", "clean", "verify"} /\ kind = "tv" => run.ok /\ run.keeper # None
    /\ code \in {0, 1}
    /\ imports \in 0..MaxImports /\ faults \in 0..MaxFaults

Taken(n) == run.pc = "move" /\ run'.pc = "move" /\ n \in run.todo \ run'.todo

OwnersNow(n) == {e \in Episodes : link[e] # 0 /\ row[link[e]] = n}

(* What tv-dedupe.py moves is nobody's: it never takes a file that Sonarr   *)
(* has on record for another episode, nor, unless forced, the one it has on *)
(* record for this one; that would be grabbed again.                        *)
TrackedStays ==
    [][\A n \in Names :
          kind = "tv" /\ Taken(n) => OwnersNow(n) \subseteq IF run.force THEN {"this"} ELSE {}
      ]_vars

(* tv-dedupe.py moves a readable copy only while another one stays in the   *)
(* folder.                                                                  *)
CopyRemains ==
    [][\A n \in Names :
          kind = "tv" /\ Taken(n) /\ disk[n].content # "broken" =>
             \E m \in Names : disk'[m] # None /\ disk'[m].content # "broken"
      ]_vars

(* tv-dedupe.py only moves: a file that leaves the folder by a step of it   *)
(* is at a place of .dupe-recycle that was free; none is overwritten there, *)
(* and none deleted by Sonarr together with its row.                        *)
NothingDestroyed ==
    [][kind = "tv" /\ run' # run =>
          Cardinality({n \in Names : disk[n] # None /\ disk'[n] = None})
             = Cardinality(recycle' \ recycle)
      ]_vars

Duplicated == Cardinality(Group) > 1
Told == code = 1

(* Duplicates do not stay unheard of: they are resolved, or the operator is *)
(* told why not.                                                            *)
EndsResolvedOrTold == []<>(~Duplicated \/ Told)
=============================================================================
