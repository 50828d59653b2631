---------------------------- MODULE DedupeProofs ----------------------------
(***************************************************************************)
(* tv-dedupe.py moves no file that Sonarr has on record, leaves a readable *)
(* copy, and destroys nothing, for any set of names, rows and releases.    *)
(*                                                                         *)
(* A run decides by two readings of Sonarr and one of the folder, and acts *)
(* later.  The invariant says, place by place, what of those readings is   *)
(* still so: because rows that were read are not given to other files,     *)
(* because pipelines keep off locked names, and because the names that a   *)
(* pipeline could give to a file are locked, or their file would have been *)
(* among the copies.                                                       *)
(***************************************************************************)
EXTENDS Dedupe, FiniteSetTheorems, TLAPS

Tracking == [paths : [Rows -> Names \cup {None}], links : [Episodes -> Rows \cup {0}]]
Runs ==
    [pc : Places, force : BOOLEAN, seen : Tracking, ok : BOOLEAN,
     tracked : Names \cup {None}, keeper : Names \cup {None},
     extras : SUBSET Names, todo : SUBSET Names, stale : BOOLEAN]

(* The windows that are left out: no release is imported between the       *)
(* decision and the clean-up; under --force, or unreadable, none during the *)
(* second reading; and once the folder is scanned, none whose name a       *)
(* pipeline changes.                                                       *)
ImportsKeepAway ==
    /\ ImportAt.any \cap {"move", "clean"} = {}
    /\ ImportAt.force \cap {"refiles", "reepisodes"} = {}
    /\ ImportAt.broken \cap {"refiles", "reepisodes"} = {}
    /\ ImportAt.renamed \subseteq {"idle", "episodes", "scan"}

Chosen == run.pc \notin {"idle", "episodes", "scan"}

Typed ==
    /\ TypeOK
    /\ IsFiniteSet(recycle)
    /\ run \in Runs
    /\ Chosen => run.keeper \in Names

(* No two rows have one path. *)
OnePath(paths) == \A i, j \in Rows : paths[i] # None /\ paths[i] = paths[j] => i = j
PathsUnique == OnePath(row) /\ OnePath(run.seen.paths)

(* A row that was read has the path that was read, or is gone. *)
SeenStays ==
    \A i \in Rows : run.seen.paths[i] # None => row[i] \in {run.seen.paths[i], None}

(* A copy is chosen on an answer only. *)
Answered == kind = "tv" /\ Chosen => run.ok

RowsInv == Typed /\ PathsUnique /\ SeenStays /\ Answered

(* What was chosen: the copies are named without doubt; a case that is not *)
(* forced is SAFE; nobody works on a name that is locked, and no file is   *)
(* there that a pipeline would give such a name.                           *)
ChoiceStands ==
    Chosen =>
        /\ run.extras \cap Doubtful = {}
        /\ ~run.force => run.tracked = run.keeper
        /\ run.pc \in {"lock", "validate", "refiles", "reepisodes"} => run.todo = run.extras
        /\ Locked => busy \notin Wants
        /\ \A n \in Names \ Wants : Target[n] \in Wants => disk[n] = None

Readable(n) == disk[n] # None /\ disk[n].content # "broken"

(* The path of e's row, if that row was there at the last reading. *)
SeenNow(e) == IF link[e] = 0 THEN None ELSE run.seen.paths[link[e]]

(* The copy that is kept can be read where it is there at all, and is there *)
(* if the case is forced, or if Sonarr still has it on record.             *)
KeeperStands ==
    /\ run.pc \in {"refiles", "reepisodes"} =>
          /\ disk[run.keeper] # None => Readable(run.keeper)
          /\ run.force => Readable(run.keeper)
    /\ run.pc = "refiles" /\ "this" \in OwnersNow(run.keeper) => Readable(run.keeper)
    /\ run.pc = "reepisodes" /\ SeenNow("this") = run.keeper => Readable(run.keeper)
    /\ run.pc = "move" => Readable(run.keeper)

(* A copy that belongs to the other episode belonged to it at the second   *)
(* reading, or the episode at hand has another file by now.                *)
OtherIsSeen ==
    /\ run.pc = "reepisodes" =>
          \A n \in run.extras : "other" \in OwnersNow(n) =>
              SeenNow("other") = n \/ (~run.force /\ SeenNow("this") # run.keeper)
    /\ run.pc = "move" =>
          /\ \A n \in run.extras : "other" \notin OwnersNow(n)
          /\ ~run.force => "this" \in OwnersNow(run.keeper)

(* What was moved stays away. *)
MovedIsGone ==
    /\ run.pc = "move" => \A n \in run.extras \ run.todo : disk[n] = None
    /\ run.pc = "clean" => \A n \in run.extras : disk[n] = None

ChecksHold == ChoiceStands /\ KeeperStands /\ OtherIsSeen /\ MovedIsGone

IInv == RowsInv /\ (kind = "tv" => ChecksHold)

-----------------------------------------------------------------------------
(* The recycle folder has a free place for every name. *)
LEMMA FreeSpot ==
    ASSUME IsFiniteSet(recycle), NEW n \in Names
    PROVE  /\ RecycleTarget(n) \in Spots
           /\ kind = "tv" => RecycleTarget(n) \notin recycle
<1> DEFINE C == Cardinality(recycle)
           Stamped == {k \in 1..C : <<n, k>> \notin recycle}
<1>1. C \in Nat
      BY FS_CardinalityType
<1>2. ASSUME <<n, 0>> \in recycle, Stamped = {} PROVE FALSE
  <2> DEFINE f == [k \in 0..C |-> <<n, k>>]
  <2>1. f \in [0..C -> recycle]
    <3>1. ASSUME NEW k \in 0..C PROVE <<n, k>> \in recycle
      <4>1. CASE k = 0
            BY <4>1, <1>2
      <4>2. CASE k # 0
        <5>1. k \in 1..C
              BY <1>1, <4>2
        <5> QED BY <5>1, <1>2
      <4> QED BY <4>1, <4>2
    <3> QED BY <3>1
  <2>2. IsFiniteSet(0..C) /\ Cardinality(0..C) = C + 1
    <3>1. 0 \in Int /\ C \in Int /\ ~(0 > C)
          BY <1>1
    <3>2. /\ IsFiniteSet(0..C)
          /\ Cardinality(0..C) = IF 0 > C THEN 0 ELSE C - 0 + 1
          BY <3>1, FS_Interval, Zenon
    <3> QED BY <3>1, <3>2, <1>1
  <2>3. Cardinality(recycle) < Cardinality(0..C)
        BY <1>1, <2>2
  <2> HIDE DEF C
  <2>4. \E x, y \in 0..C : x # y /\ f[x] = f[y]
        BY <2>1, <2>2, <2>3, FS_PigeonHole
  <2> QED BY <2>4
<1>3. CASE kind = "movie" \/ <<n, 0>> \notin recycle
      BY <1>3 DEF RecycleTarget, Spots
<1>4. CASE ~(kind = "movie" \/ <<n, 0>> \notin recycle)
  <2>1. \E k \in 1..C : <<n, k>> \notin recycle
        BY <1>2, <1>4
  <2> DEFINE k == CHOOSE j \in 1..C : <<n, j>> \notin recycle
  <2>2. k \in 1..C /\ <<n, k>> \notin recycle
        BY <2>1
  <2>3. RecycleTarget(n) = <<n, k>>
        BY <1>4 DEF RecycleTarget
  <2>4. k \in Nat
        BY <2>2, <1>1
  <2> HIDE DEF k
  <2> QED BY <2>2, <2>3, <2>4 DEF Spots
<1> QED BY <1>3, <1>4

LEMMA EmptyRun ==
    /\ NoRun \in Runs /\ NoRun.pc = "idle" /\ NoRun.todo = {} /\ NoRun.extras = {}
    /\ NoRun.keeper = None
    /\ NoTracking \in Tracking
    /\ \A i \in Rows : NoRun.seen.paths[i] = None /\ NoTracking.paths[i] = None
BY DEF NoRun, NoTracking, Runs, Tracking, Places

(* A step by which only the run, the exit code and the faults change.      *)
Library == <<kind, disk, recycle, row, link, busy, imports>>

LEMMA FaultTyped == TypeOK /\ (NoFault \/ Fault) => faults' \in 0..MaxFaults
BY BoundsAssumption DEF TypeOK, NoFault, Fault

LEMMA FinishRows ==
    ASSUME RowsInv, UNCHANGED Library, run' = NoRun, code' \in {0, 1}, NoFault \/ Fault
    PROVE  RowsInv'
<1>1. faults' \in 0..MaxFaults
      BY FaultTyped DEF RowsInv, Typed
<1>2. TypeOK'
      BY EmptyRun, <1>1 DEF RowsInv, Typed, TypeOK, Library, Places
<1>3. Typed'
      BY EmptyRun, <1>2 DEF RowsInv, Typed, Chosen, Library
<1>4. PathsUnique' /\ SeenStays'
      BY EmptyRun DEF RowsInv, PathsUnique, OnePath, SeenStays, Library
<1>5. Answered'
      BY EmptyRun DEF Answered, Chosen
<1> QED BY <1>3, <1>4, <1>5 DEF RowsInv

(* A step of the run that goes on, and changes nothing else: what it reads, *)
(* if it reads, is what the rows are.                                      *)
LEMMA GoOnRows ==
    ASSUME RowsInv, UNCHANGED Library, run' \in Runs, code' \in {0, 1}, NoFault \/ Fault,
           run'.todo \subseteq run'.extras, run'.keeper \notin run'.extras,
           Chosen' => run'.keeper \in Names /\ (kind = "tv" => run'.ok),
           run'.seen.paths \in {row, run.seen.paths, NoTracking.paths}
    PROVE  RowsInv'
<1>1. faults' \in 0..MaxFaults
      BY FaultTyped DEF RowsInv, Typed
<1>2. TypeOK'
      BY <1>1, NoneAssumption DEF RowsInv, Typed, TypeOK, Library, Runs, Chosen
<1>3. Typed'
      BY <1>2 DEF RowsInv, Typed, Chosen, Library
<1>4. PathsUnique' /\ SeenStays'
  <2>1. CASE run'.seen.paths = row
        BY <2>1 DEF RowsInv, PathsUnique, OnePath, SeenStays, Library
  <2>2. CASE run'.seen.paths = run.seen.paths
        BY <2>2 DEF RowsInv, PathsUnique, OnePath, SeenStays, Library
  <2>3. CASE run'.seen.paths = NoTracking.paths
        BY <2>3, EmptyRun DEF RowsInv, PathsUnique, OnePath, SeenStays, Library
  <2> QED BY <2>1, <2>2, <2>3
<1>5. Answered'
      BY DEF Answered, Library
<1> QED BY <1>3, <1>4, <1>5 DEF RowsInv

LEMMA CodeIsExit == \A r : ExitCode(r) \in {0, 1}
BY DEF ExitCode

(* What is known of the run's variables before a step. *)
LEMMA RunTyped ==
    ASSUME RowsInv
    PROVE  /\ run \in Runs /\ run.seen \in Tracking
           /\ row \in [Rows -> Names \cup {None}] /\ link \in [Episodes -> Rows \cup {0}]
           /\ code \in {0, 1}
           /\ run.todo \subseteq run.extras /\ run.keeper \notin run.extras
           /\ Chosen => run.keeper \in Names /\ (kind = "tv" => run.ok)
BY DEF RowsInv, Typed, TypeOK, Runs, Answered

LEMMA ReadingRows ==
    ASSUME RowsInv, Begin \/ ReadEpisodes \/ ReadFails \/ RereadFiles
    PROVE  RowsInv'
<1> USE RunTyped
<1>1. CASE Begin
  <2>1. UNCHANGED Library /\ code' \in {0, 1} /\ NoFault
        BY <1>1 DEF Begin, Folder, Library, arr
  <2>2. PICK force \in BOOLEAN :
          run' = IF kind = "tv"
                 THEN [run EXCEPT !.pc = "episodes", !.force = force, !.seen.paths = row]
                 ELSE [run EXCEPT !.pc = "scan", !.force = force, !.ok = TRUE,
                                  !.seen = [paths |-> row, links |-> link]]
        BY <1>1 DEF Begin
  <2>3. /\ run' \in Runs /\ run'.seen.paths = row
        /\ run'.todo = run.todo /\ run'.extras = run.extras /\ run'.keeper = run.keeper
        /\ run'.pc \in {"episodes", "scan"}
    <3>1. CASE kind = "tv"
          BY <2>2, <3>1 DEF Runs, Tracking, Places
    <3>2. CASE kind # "tv"
          BY <2>2, <3>2 DEF Runs, Tracking, Places
    <3> QED BY <3>1, <3>2
  <2> QED BY <2>1, <2>3, GoOnRows DEF Chosen
<1>2. CASE ReadEpisodes
  <2>1. UNCHANGED Library /\ code' \in {0, 1} /\ NoFault
        BY <1>2 DEF ReadEpisodes, Folder, Library, arr
  <2>2. /\ run' \in Runs /\ run'.seen.paths = run.seen.paths
        /\ run'.todo = run.todo /\ run'.extras = run.extras /\ run'.keeper = run.keeper
        /\ run'.pc = "scan"
        BY <1>2 DEF ReadEpisodes, Runs, Tracking, Places
  <2> QED BY <2>1, <2>2, GoOnRows DEF Chosen
<1>3. CASE ReadFails
  <2>1. UNCHANGED Library /\ code' \in {0, 1} /\ Fault
        BY <1>3 DEF ReadFails, Folder, Library, arr
  <2>2. /\ run' \in Runs /\ run'.seen.paths = NoTracking.paths
        /\ run'.todo = run.todo /\ run'.extras = run.extras /\ run'.keeper = run.keeper
        /\ run'.pc = "scan"
        BY <1>3, EmptyRun DEF ReadFails, Runs, Places
  <2> QED BY <2>1, <2>2, GoOnRows DEF Chosen
<1>4. CASE RereadFiles
  <2>1. UNCHANGED Library /\ code' \in {0, 1} /\ NoFault
        BY <1>4 DEF RereadFiles, Folder, Library, arr
  <2>2. /\ run' \in Runs /\ run'.seen.paths = row
        /\ run'.todo = run.todo /\ run'.extras = run.extras /\ run'.keeper = run.keeper
        /\ run'.ok = run.ok /\ Chosen
        BY <1>4 DEF RereadFiles, Runs, Tracking, Places, Chosen
  <2> QED BY <2>1, <2>2, GoOnRows
<1> QED BY <1>1, <1>2, <1>3, <1>4

(* The choice, as the scan makes it. *)
LEMMA ScanChooses ==
    ASSUME RowsInv, Scan, run' # NoRun
    PROVE  /\ run' \in Runs /\ run'.pc = "lock" /\ run'.seen = NoTracking
           /\ run'.force = run.force /\ run'.ok = run.ok
           /\ run'.keeper \in Group /\ run'.extras = Group \ {run'.keeper}
           /\ run'.todo = run'.extras
           /\ kind = "tv" => run.ok /\ (~run.force => run'.tracked = run'.keeper)
           /\ code' = code
<1> USE RunTyped
<1>1. PICK keeper \in {n \in Names : MayKeep(n)} :
        /\ Refusal(keeper, Group \ {keeper}) = "none"
        /\ run' = [run EXCEPT !.pc = "lock", !.seen = NoTracking,
                              !.tracked = TrackedBy(run.seen, "this"),
                              !.keeper = keeper,
                              !.extras = Group \ {keeper}, !.todo = Group \ {keeper}]
        /\ code' = code
      BY DEF Scan, Finish
<1>2. keeper \in Group /\ Group \subseteq Names
      BY DEF MayKeep, Group
<1>3. TrackedBy(run.seen, "this") \in Names \cup {None}
      BY DEF TrackedBy, Tracking, Episodes
<1>4. kind = "tv" => run.ok /\ (~run.force => TrackedBy(run.seen, "this") = keeper)
      BY <1>1 DEF Refusal
<1>5. run' \in Runs
      BY <1>1, <1>2, <1>3, EmptyRun DEF Runs, Places
<1> QED BY <1>1, <1>2, <1>4, <1>5 DEF Runs

LEMMA ChoosingRows ==
    ASSUME RowsInv, Scan \/ Lock \/ Validate \/ Decide
    PROVE  RowsInv'
<1> USE RunTyped
<1>1. CASE Scan
  <2>1. UNCHANGED Library /\ NoFault /\ code' \in {0, 1}
        BY <1>1, CodeIsExit DEF Scan, Finish, Folder, Library, arr
  <2>2. CASE run' = NoRun
        BY <2>1, <2>2, FinishRows
  <2>3. CASE run' # NoRun
    <3>1. run'.keeper \in Names
          BY <1>1, <2>3, ScanChooses DEF Group
    <3> QED BY <1>1, <2>1, <2>3, <3>1, ScanChooses, GoOnRows
  <2> QED BY <2>2, <2>3
<1>2. CASE Lock
  <2>1. UNCHANGED Library /\ NoFault /\ code' \in {0, 1} /\ Chosen
        BY <1>2, CodeIsExit DEF Lock, Goto, Finish, Folder, Library, arr, Chosen
  <2>2. CASE run' = NoRun
        BY <2>1, <2>2, FinishRows
  <2>3. CASE run' # NoRun
    <3>1. run' = [run EXCEPT !.pc = IF kind = "tv" THEN "validate" ELSE "move"]
          BY <1>2, <2>3 DEF Lock, Finish, Goto
    <3>2. /\ run' \in Runs /\ run'.seen.paths = run.seen.paths /\ run'.todo = run.todo
          /\ run'.extras = run.extras /\ run'.keeper = run.keeper /\ run'.ok = run.ok
          BY <3>1 DEF Runs, Places
    <3> QED BY <2>1, <3>2, GoOnRows
  <2> QED BY <2>2, <2>3
<1>3. CASE Validate
  <2>1. UNCHANGED Library /\ NoFault /\ code' \in {0, 1} /\ Chosen
        BY <1>3, CodeIsExit DEF Validate, Goto, Finish, Folder, Library, arr, Chosen
  <2>2. CASE run' = NoRun
        BY <2>1, <2>2, FinishRows
  <2>3. CASE run' # NoRun
    <3>1. run' = [run EXCEPT !.pc = "refiles"]
          BY <1>3, <2>3 DEF Validate, Finish, Goto
    <3>2. /\ run' \in Runs /\ run'.seen.paths = run.seen.paths /\ run'.todo = run.todo
          /\ run'.extras = run.extras /\ run'.keeper = run.keeper /\ run'.ok = run.ok
          BY <3>1 DEF Runs, Places
    <3> QED BY <2>1, <3>2, GoOnRows
  <2> QED BY <2>2, <2>3
<1>4. CASE Decide
  <2>1. UNCHANGED Library /\ NoFault /\ code' \in {0, 1} /\ Chosen
        BY <1>4, CodeIsExit DEF Decide, Finish, Folder, Library, arr, Chosen
  <2>2. CASE run' = NoRun
        BY <2>1, <2>2, FinishRows
  <2>3. CASE run' # NoRun
    <3>1. run' = [run EXCEPT !.pc = "move", !.seen = [run.seen EXCEPT !.links = link]]
          BY <1>4, <2>3 DEF Decide, Finish
    <3>2. /\ [run.seen EXCEPT !.links = link] \in Tracking
          /\ [run.seen EXCEPT !.links = link].paths = run.seen.paths
          BY DEF Tracking
    <3>3. /\ run' \in Runs /\ run'.seen.paths = run.seen.paths /\ run'.todo = run.todo
          /\ run'.extras = run.extras /\ run'.keeper = run.keeper /\ run'.ok = run.ok
          BY <3>1, <3>2 DEF Runs, Places
    <3> QED BY <2>1, <3>3, GoOnRows
  <2> QED BY <2>2, <2>3
<1> QED BY <1>1, <1>2, <1>3, <1>4

LEMMA EndingRows ==
    ASSUME RowsInv, RereadFails \/ Cleaned \/ Verify \/ Kill
    PROVE  RowsInv'
<1> USE RunTyped
<1>1. UNCHANGED Library /\ (NoFault \/ Fault) /\ code' \in {0, 1}
      BY CodeIsExit DEF RereadFails, Cleaned, Verify, Kill, Goto, Finish, Folder, Library, arr
<1>2. CASE run' = NoRun
      BY <1>1, <1>2, FinishRows
<1>3. CASE run' # NoRun
  <2>1. Chosen /\ run' = [run EXCEPT !.pc = "verify"]
        BY <1>3 DEF RereadFails, Cleaned, Verify, Kill, Goto, Finish, Chosen
  <2>2. /\ run' \in Runs /\ run'.seen.paths = run.seen.paths /\ run'.todo = run.todo
        /\ run'.extras = run.extras /\ run'.keeper = run.keeper /\ run'.ok = run.ok
        BY <2>1 DEF Runs, Places
  <2> QED BY <1>1, <2>1, <2>2, GoOnRows
<1> QED BY <1>2, <1>3

(* What a move does, where it goes on. *)
LEMMA MoveCases ==
    ASSUME RowsInv, Move
    PROVE  \/ run' = NoRun /\ UNCHANGED Library /\ code' \in {0, 1} /\ (NoFault \/ Fault)
           \/ /\ UNCHANGED Library /\ UNCHANGED code /\ NoFault /\ run.todo = {}
              /\ kind = "tv" => run' = [run EXCEPT !.pc = "clean", !.todo = run.extras]
              /\ kind # "tv" => run' = [run EXCEPT !.pc = "verify"]
           \/ /\ UNCHANGED <<kind, row, link, busy, imports, code>> /\ NoFault
              /\ \E n \in run.todo :
                    /\ disk[n] # None
                    /\ disk' = [disk EXCEPT ![n] = None]
                    /\ recycle' = recycle \cup {RecycleTarget(n)}
                    /\ run' = [run EXCEPT !.todo = @ \ {n}]
BY CodeIsExit, Zenon DEF Move, Goto, Finish, arr, Library

LEMMA MovingRows == ASSUME RowsInv, Move PROVE RowsInv'
<1> USE RunTyped
<1>1. run.pc = "move" /\ Chosen
      BY DEF Move, Chosen
<1>2. CASE run' = NoRun /\ UNCHANGED Library /\ code' \in {0, 1} /\ (NoFault \/ Fault)
      BY <1>2, FinishRows
<1>3. CASE /\ UNCHANGED Library /\ UNCHANGED code /\ NoFault /\ run.todo = {}
           /\ kind = "tv" => run' = [run EXCEPT !.pc = "clean", !.todo = run.extras]
           /\ kind # "tv" => run' = [run EXCEPT !.pc = "verify"]
  <2>1. /\ run' \in Runs /\ run'.seen.paths = run.seen.paths
        /\ run'.todo \subseteq run'.extras
        /\ run'.extras = run.extras /\ run'.keeper = run.keeper /\ run'.ok = run.ok
    <3>1. CASE kind = "tv"
          BY <1>3, <3>1 DEF Runs, Places
    <3>2. CASE kind # "tv"
          BY <1>3, <3>2 DEF Runs, Places
    <3> QED BY <3>1, <3>2
  <2> QED BY <1>1, <1>3, <2>1, GoOnRows
<1>4. CASE /\ UNCHANGED <<kind, row, link, busy, imports, code>> /\ NoFault
           /\ \E n \in run.todo :
                 /\ disk[n] # None
                 /\ disk' = [disk EXCEPT ![n] = None]
                 /\ recycle' = recycle \cup {RecycleTarget(n)}
                 /\ run' = [run EXCEPT !.todo = @ \ {n}]
  <2>1. PICK n \in run.todo :
            /\ disk' = [disk EXCEPT ![n] = None]
            /\ recycle' = recycle \cup {RecycleTarget(n)}
            /\ run' = [run EXCEPT !.todo = @ \ {n}]
        BY <1>4
  <2>2. n \in Names /\ IsFiniteSet(recycle)
        BY DEF RowsInv, Typed, Runs
  <2>3. RecycleTarget(n) \in Spots
        BY <2>2, FreeSpot
  <2>4. IsFiniteSet(recycle')
        BY <2>1, <2>2, FS_AddElement
  <2>5. /\ run' \in Runs /\ run'.seen = run.seen /\ run'.pc = run.pc
        /\ run'.todo \subseteq run'.extras
        /\ run'.extras = run.extras /\ run'.keeper = run.keeper /\ run'.ok = run.ok
        BY <2>1 DEF Runs
  <2>6. TypeOK'
    <3>1. disk' \in [Names -> Files \cup {None}] /\ recycle' \subseteq Spots
          BY <2>1, <2>2, <2>3 DEF RowsInv, Typed, TypeOK
    <3> QED BY <1>1, <1>4, <2>5, <3>1, NoneAssumption
            DEF RowsInv, Typed, TypeOK, Runs, NoFault, Chosen
  <2> QED BY <1>1, <1>4, <2>4, <2>5, <2>6
          DEF RowsInv, Typed, PathsUnique, OnePath, SeenStays, Answered, Chosen
<1> QED BY <1>2, <1>3, <1>4, MoveCases

LEMMA CleaningRows == ASSUME RowsInv, Clean PROVE RowsInv'
<1> USE RunTyped
<1>1. run.pc = "clean" /\ Chosen /\ UNCHANGED <<kind, recycle, busy, imports, code>>
      BY DEF Clean, Chosen
<1>2. PICK n \in run.todo : LET i == RowAt(run.seen, n) IN
        /\ \/ run' = [run EXCEPT !.todo = @ \ {n}]
           \/ run' = [[run EXCEPT !.todo = @ \ {n}] EXCEPT !.stale = TRUE]
        /\ NoFault \/ Fault
        /\ UNCHANGED <<arr, disk>> \/ (i # 0 /\ row[i] # None /\ DeleteRow(i))
  <2>1. PICK n \in run.todo :
          LET i == RowAt(run.seen, n)
              left == [run EXCEPT !.todo = @ \ {n}]
              failed == [left EXCEPT !.stale = TRUE]
          IN  \/ /\ i = 0 \/ Owners(run.seen, i) \ {"this"} # {}
                 /\ run' = left
                 /\ NoFault /\ UNCHANGED <<arr, disk>>
              \/ /\ i # 0 /\ Owners(run.seen, i) \subseteq {"this"}
                 /\ IF row[i] = None
                    THEN run' = failed /\ UNCHANGED <<arr, disk>>
                    ELSE run' = left /\ DeleteRow(i)
                 /\ NoFault
              \/ /\ i # 0 /\ Owners(run.seen, i) \subseteq {"this"}
                 /\ run' = failed
                 /\ Fault /\ UNCHANGED <<arr, disk>>
        BY Zenon DEF Clean
  <2> QED BY <2>1, Zenon
<1>3. /\ run' \in Runs /\ run'.seen = run.seen /\ run'.pc = run.pc
      /\ run'.todo \subseteq run'.extras
      /\ run'.extras = run.extras /\ run'.keeper = run.keeper /\ run'.ok = run.ok
  <2>1. [run EXCEPT !.todo = @ \ {n}] \in Runs
        BY DEF Runs
  <2>2. CASE run' = [run EXCEPT !.todo = @ \ {n}]
        BY <2>1, <2>2 DEF Runs
  <2>3. CASE run' = [[run EXCEPT !.todo = @ \ {n}] EXCEPT !.stale = TRUE]
        BY <2>1, <2>3 DEF Runs
  <2> QED BY <1>2, <2>2, <2>3
<1>4. faults' \in 0..MaxFaults
      BY <1>2, FaultTyped DEF RowsInv, Typed
<1>5. CASE UNCHANGED <<arr, disk>>
  <2>1. TypeOK'
        BY <1>1, <1>3, <1>4, <1>5, NoneAssumption DEF RowsInv, Typed, TypeOK, arr, Chosen
  <2> QED BY <1>1, <1>3, <1>5, <2>1
          DEF RowsInv, Typed, PathsUnique, OnePath, SeenStays, Answered, arr, Chosen
<1>6. ASSUME NEW i \in Rows, DeleteRow(i) PROVE RowsInv'
  <2>1. /\ \A j \in Rows : row'[j] = IF j = i THEN None ELSE row[j]
        /\ row' \in [Rows -> Names \cup {None}]
        BY <1>6 DEF DeleteRow
  <2>2. /\ link' \in [Episodes -> Rows \cup {0}] /\ disk' \in [Names -> Files \cup {None}]
        /\ \A e \in Episodes : link'[e] # 0 => row'[link'[e]] # None
        BY <1>6, <2>1 DEF DeleteRow, RowsInv, Typed, TypeOK
  <2>3. TypeOK'
        BY <1>1, <1>3, <1>4, <2>1, <2>2, NoneAssumption DEF RowsInv, Typed, TypeOK, Chosen
  <2>4. PathsUnique' /\ SeenStays'
        BY <1>3, <2>1 DEF RowsInv, PathsUnique, OnePath, SeenStays
  <2> QED BY <1>1, <1>3, <2>3, <2>4 DEF RowsInv, Typed, Answered, Chosen
<1>7. \A i : RowAt(run.seen, n) = i => i = 0 \/ i \in Rows
      BY DEF RowAt
<1> QED BY <1>2, <1>5, <1>6, <1>7

(* An import, with what it chooses. *)
Imported(n, new, i, orphans) ==
    LET old == Replaced(new)
        vacated == {row[j] : j \in old}
        over == {j \in Rows : row[j] = n}
    IN  /\ new.content = "broken" => run.pc \in ImportAt.broken
        /\ Target[n] \notin {n, None} => run.pc \in ImportAt.renamed
        /\ disk' = [m \in Names |-> IF m = n THEN new
                                    ELSE IF m \in vacated THEN None ELSE disk[m]]
        /\ IsFresh(i)
        /\ row' = [j \in Rows |-> IF j = i THEN n
                                  ELSE IF j \in (old \ orphans) \cup over THEN None
                                  ELSE row[j]]
        /\ link' = [e \in Episodes |-> IF e \in Held(new) THEN i
                                       ELSE IF link[e] \in over THEN 0 ELSE link[e]]

LEMMA ImportChooses ==
    ASSUME Import
    PROVE  \E n \in Names, release \in Releases, i \in Rows :
              \E orphans \in SUBSET Replaced(NewFile(release)) :
                 Imported(n, NewFile(release), i, orphans)
<1>1. PICK n \in Names, release \in Releases :
          LET new == NewFile(release)
              old == Replaced(new)
              vacated == {row[i] : i \in old}
              over == {i \in Rows : row[i] = n}
          IN  /\ new.content = "broken" => run.pc \in ImportAt.broken
              /\ Target[n] \notin {n, None} => run.pc \in ImportAt.renamed
              /\ n \in Doubtful => new.double
              /\ kind = "movie" => ~new.double
              /\ disk[n] = None \/ n \in vacated
              /\ disk' = [m \in Names |-> IF m = n THEN new
                                          ELSE IF m \in vacated THEN None ELSE disk[m]]
              /\ \E i \in Rows, orphans \in SUBSET old :
                    /\ IsFresh(i)
                    /\ kind = "movie" => orphans = {}
                    /\ row' = [j \in Rows |-> IF j = i THEN n
                                              ELSE IF j \in (old \ orphans) \cup over THEN None
                                              ELSE row[j]]
                    /\ link' = [e \in Episodes |-> IF e \in Held(new) THEN i
                                                   ELSE IF link[e] \in over THEN 0 ELSE link[e]]
      BY Zenon DEF Import
<1> DEFINE new == NewFile(release)
           over == {j \in Rows : row[j] = n}
<1>2. PICK i \in Rows, orphans \in SUBSET Replaced(new) :
        /\ IsFresh(i)
        /\ row' = [j \in Rows |-> IF j = i THEN n
                                  ELSE IF j \in (Replaced(new) \ orphans) \cup over THEN None
                                  ELSE row[j]]
        /\ link' = [e \in Episodes |-> IF e \in Held(new) THEN i
                                       ELSE IF link[e] \in over THEN 0 ELSE link[e]]
      BY <1>1, Zenon
<1>3. Imported(n, new, i, orphans)
      BY <1>1, <1>2, Zenon DEF Imported
<1> QED BY <1>3

LEMMA FreshIsUnknown ==
    ASSUME NEW i \in Rows, IsFresh(i)
    PROVE  row[i] = None /\ run.seen.paths[i] = None
BY DEF IsFresh, FreshRows, Remembered

(* Rows after an import or a rescan: some are gone, a fresh one has a path *)
(* that no other has; every episode's row is there.                        *)
LEMMA ChangedRows ==
    ASSUME RowsInv, UNCHANGED <<kind, recycle, busy, run, code, faults>>,
           imports' \in 0..MaxImports, disk' \in [Names -> Files \cup {None}],
           NEW i \in Rows, NEW n \in Names,
           row' \in [Rows -> Names \cup {None}],
           \A j \in Rows : \/ row'[j] \in {row[j], None} /\ (row'[i] = n /\ j # i => row'[j] # n)
                           \/ j = i /\ IsFresh(i) /\ row'[i] = n,
           link' \in [Episodes -> Rows \cup {0}],
           \A e \in Episodes : link'[e] # 0 => row'[link'[e]] # None
    PROVE  RowsInv'
<1>1. Typed'
      BY DEF RowsInv, Typed, TypeOK, Chosen
<1>2. SeenStays'
      BY FreshIsUnknown DEF RowsInv, SeenStays
<1>3. OnePath(row')
  <2>1. SUFFICES ASSUME NEW j \in Rows, NEW k \in Rows, row'[j] # None, row'[j] = row'[k]
                 PROVE  j = k
        BY DEF OnePath
  <2>2. CASE j # i /\ k # i
        BY <2>1, <2>2 DEF RowsInv, PathsUnique, OnePath
  <2>3. CASE j = i \/ k = i
        BY <2>1, <2>3 DEF RowsInv, PathsUnique, OnePath
  <2> QED BY <2>2, <2>3
<1>4. PathsUnique'
      BY <1>3 DEF RowsInv, PathsUnique, OnePath
<1>5. Answered'
      BY DEF RowsInv, Answered, Chosen
<1> QED BY <1>1, <1>2, <1>4, <1>5 DEF RowsInv

LEMMA FilesMade ==
    ASSUME NEW release \in Releases
    PROVE  /\ NewFile(release) \in Files /\ "this" \in Held(NewFile(release))
           /\ Held(NewFile(release)) \subseteq Episodes
BY ReleasesAssumption DEF NewFile, Files, Contents, Held, Episodes

LEMMA ImportRows == ASSUME RowsInv, Import PROVE RowsInv'
<1> USE RunTyped
<1>1. PICK n \in Names, release \in Releases, i \in Rows :
         \E orphans \in SUBSET Replaced(NewFile(release)) :
            Imported(n, NewFile(release), i, orphans)
      BY ImportChooses
<1> DEFINE new == NewFile(release)
           over == {j \in Rows : row[j] = n}
<1>2. PICK orphans \in SUBSET Replaced(new) : Imported(n, new, i, orphans)
      BY <1>1
<1>3. new \in Files /\ Held(new) \subseteq Episodes
      BY FilesMade
<1> HIDE DEF new
<1>4. /\ UNCHANGED <<kind, recycle, busy, run, code, faults>> /\ imports' \in 0..MaxImports
      BY BoundsAssumption DEF Import, RowsInv, Typed, TypeOK
<1>5. disk' \in [Names -> Files \cup {None}]
      BY <1>2, <1>3 DEF Imported, RowsInv, Typed, TypeOK
<1>6. \A j \in Rows : row'[j] = IF j = i THEN n
                                ELSE IF j \in (Replaced(new) \ orphans) \cup over THEN None
                                ELSE row[j]
      BY <1>2 DEF Imported
<1>7. row' \in [Rows -> Names \cup {None}]
      BY <1>2 DEF Imported
<1>8. \A e \in Episodes : link'[e] = IF e \in Held(new) THEN i
                                     ELSE IF link[e] \in over THEN 0 ELSE link[e]
      BY <1>2 DEF Imported
<1>9. link' \in [Episodes -> Rows \cup {0}]
      BY <1>2 DEF Imported
<1>10. IsFresh(i)
      BY <1>2 DEF Imported
<1>11. ASSUME NEW e \in Episodes, link'[e] # 0 PROVE row'[link'[e]] # None
  <2>1. CASE e \in Held(new)
        BY <1>6, <1>8, <2>1, NoneAssumption
  <2>2. CASE e \notin Held(new)
    <3>1. link'[e] = link[e] /\ link[e] \in Rows \ over /\ row[link[e]] # None
          BY <1>8, <1>11, <2>2 DEF RowsInv, Typed, TypeOK
    <3>2. link[e] \notin Replaced(new)
          BY <2>2 DEF Replaced
    <3> QED BY <1>6, <3>1, <3>2, NoneAssumption
  <2> QED BY <2>1, <2>2
<1>12. \A j \in Rows : \/ row'[j] \in {row[j], None} /\ (row'[i] = n /\ j # i => row'[j] # n)
                       \/ j = i /\ IsFresh(i) /\ row'[i] = n
      BY <1>6, <1>10, NoneAssumption
<1> HIDE DEF over
<1> QED BY <1>4, <1>5, <1>7, <1>9, <1>11, <1>12, ChangedRows

LEMMA RescanRows == ASSUME RowsInv, ArrRescan PROVE RowsInv'
<1> USE RunTyped
<1>1. /\ UNCHANGED <<kind, disk, recycle, busy, run, code, imports, faults>>
      /\ disk \in [Names -> Files \cup {None}] /\ imports \in 0..MaxImports
      BY DEF ArrRescan, RowsInv, Typed, TypeOK
<1>2. \A e \in Episodes : Left(e) \in Rows \cup {0}
                          /\ (Left(e) # 0 => Left(e) \notin Missing /\ row[Left(e)] # None)
      BY DEF Left, RowsInv, Typed, TypeOK
<1>3. CASE /\ row' = [j \in Rows |-> IF j \in Missing THEN None ELSE row[j]]
           /\ link' = [e \in Episodes |-> Left(e)]
           /\ Missing # {}
  <2>1. PICK i \in Rows : i \in Missing
        BY <1>3 DEF Missing
  <2>2. row[i] \in Names /\ row'[i] = None
        BY <1>3, <2>1 DEF Missing
  <2>3. row' \in [Rows -> Names \cup {None}] /\ \A j \in Rows : row'[j] \in {row[j], None}
        BY <1>3
  <2>4. /\ link' \in [Episodes -> Rows \cup {0}]
        /\ \A e \in Episodes : link'[e] # 0 => row'[link'[e]] # None
        BY <1>2, <1>3
  <2>5. row'[i] # row[i]
        BY <2>2, NoneAssumption
  <2> QED BY <1>1, <2>2, <2>3, <2>4, <2>5, ChangedRows
<1>4. ASSUME NEW n \in Names, NEW i \in Rows, TakeUp(n, i) PROVE RowsInv'
  <2>1. row' \in [Rows -> Names \cup {None}] /\ row'[i] = n /\ IsFresh(i)
        BY <1>4 DEF TakeUp
  <2>2. \A j \in Rows : j # i => row'[j] \in {row[j], None} /\ row'[j] # n
        BY <1>4, NoneAssumption DEF TakeUp
  <2>3. link' \in [Episodes -> Rows \cup {0}]
        BY <1>2, <1>4 DEF TakeUp
  <2>4. \A e \in Episodes : link'[e] # 0 => row'[link'[e]] # None
        BY <1>2, <1>4, NoneAssumption DEF TakeUp
  <2> QED BY <1>1, <2>1, <2>2, <2>3, <2>4, ChangedRows
<1> QED BY <1>3, <1>4 DEF ArrRescan

LEMMA PipelineRows ==
    ASSUME RowsInv, (\E n \in Names : PipelineStart(n)) \/ PipelineEnd
    PROVE  RowsInv'
<1> USE RunTyped
<1>1. /\ UNCHANGED <<kind, recycle, row, link, run, code, imports, faults>>
      /\ busy' \in Names \cup {None}
      BY DEF PipelineStart, PipelineEnd, arr
<1>2. disk' \in [Names -> Files \cup {None}]
  <2>1. CASE UNCHANGED disk
        BY <2>1 DEF RowsInv, Typed, TypeOK
  <2>2. CASE ~UNCHANGED disk
    <3>1. /\ busy \in Names /\ disk[busy] # None
          /\ disk' = [n \in Names |->
                        IF n = Target[busy] THEN [disk[busy] EXCEPT !.processed = TRUE]
                        ELSE IF n = busy THEN None ELSE disk[n]]
          BY <2>2 DEF PipelineStart, PipelineEnd, RowsInv, Typed, TypeOK
    <3>2. disk[busy] \in Files /\ disk \in [Names -> Files \cup {None}]
          BY <3>1 DEF RowsInv, Typed, TypeOK
    <3>3. [disk[busy] EXCEPT !.processed = TRUE] \in Files
          BY <3>2 DEF Files
    <3> QED BY <3>1, <3>2, <3>3
  <2> QED BY <2>1, <2>2
<1>3. Typed'
      BY <1>1, <1>2 DEF RowsInv, Typed, TypeOK, Chosen
<1> QED BY <1>1, <1>3 DEF RowsInv, PathsUnique, OnePath, SeenStays, Answered, Chosen

LEMMA RowsStep == ASSUME RowsInv, [Next]_vars PROVE RowsInv'
<1>1. CASE UNCHANGED vars
      BY <1>1 DEF vars, RowsInv, Typed, TypeOK, PathsUnique, OnePath, SeenStays, Answered, Chosen
<1>2. CASE Step \/ Kill
      BY <1>2, ReadingRows, ChoosingRows, EndingRows, MovingRows, CleaningRows DEF Step
<1>3. CASE Import
      BY <1>3, ImportRows
<1>4. CASE ArrRescan
      BY <1>4, RescanRows
<1>5. CASE (\E n \in Names : PipelineStart(n)) \/ PipelineEnd
      BY <1>5, PipelineRows
<1> QED BY <1>1, <1>2, <1>3, <1>4, <1>5 DEF Next

(* Types, for both scripts and any windows of imports. *)
THEOREM TypeCorrect == Spec => []TypeOK
<1>1. Init => RowsInv
  <2> SUFFICES ASSUME Init PROVE RowsInv
      OBVIOUS
  <2>1. run = NoRun /\ recycle = {} /\ row = [i \in Rows |-> None]
        BY DEF Init
  <2>2. TypeOK
        BY <2>1, EmptyRun, BoundsAssumption DEF Init, TypeOK, Episodes, Places
  <2> QED BY <2>1, <2>2, EmptyRun, FS_EmptySet
          DEF RowsInv, Typed, PathsUnique, OnePath, SeenStays, Answered, Chosen
<1>2. RowsInv /\ [Next]_vars => RowsInv'
      BY RowsStep
<1>3. RowsInv => TypeOK
      BY DEF RowsInv, Typed
<1> QED BY <1>1, <1>2, <1>3, PTL DEF Spec

-----------------------------------------------------------------------------
(* The steps of a run of tv-dedupe.py *)

LEMMA NothingChosen == ASSUME run'.pc \in {"idle", "episodes", "scan"} PROVE ChecksHold'
BY DEF ChecksHold, ChoiceStands, Chosen, Locked, KeeperStands, OtherIsSeen, MovedIsGone

LEMMA ScanChecks ==
    ASSUME IInv, kind = "tv", Scan
    PROVE  ChecksHold'
<1> USE RunTyped DEF IInv
<1>1. CASE run' = NoRun
      BY <1>1, EmptyRun, NothingChosen
<1>2. CASE run' # NoRun
  <2>1. /\ run'.pc = "lock" /\ run'.keeper \in Group /\ run'.extras = Group \ {run'.keeper}
        /\ run'.todo = run'.extras /\ (~run'.force => run'.tracked = run'.keeper)
        BY <1>2, ScanChooses
  <2>2. kind' = kind /\ disk' = disk
        BY DEF Scan, Folder
  <2>3. Wants' = Group
        BY <2>1, <2>2 DEF Wants
  <2>4. ASSUME NEW n \in Names \ Group, Target[n] \in Group PROVE disk[n] = None
    <3>1. Target[n] \in Names /\ Target[n] \notin Doubtful
          BY <2>4 DEF Group
    <3>2. n \notin Doubtful
          BY <3>1, NoneAssumption, TargetAssumption
    <3> QED BY <3>2 DEF Group
  <2>5. run'.extras \cap Doubtful = {}
        BY <2>1 DEF Group
  <2>6. ChoiceStands'
        BY <2>1, <2>2, <2>3, <2>4, <2>5 DEF ChoiceStands, Locked
  <2> QED BY <2>1, <2>6 DEF ChecksHold, KeeperStands, OtherIsSeen, MovedIsGone
<1> QED BY <1>1, <1>2

(* A step to another place with the same choice. *)
LEMMA ChoiceKept ==
    ASSUME IInv, kind = "tv", Chosen, UNCHANGED <<kind, disk, busy>>,
           run'.extras = run.extras, run'.keeper = run.keeper,
           run'.force = run.force, run'.tracked = run.tracked,
           run'.pc \in {"lock", "validate", "refiles", "reepisodes"}
              => run'.todo = run.todo /\ run.pc \in {"lock", "validate", "refiles", "reepisodes"},
           Locked \/ busy \notin Wants
    PROVE  ChoiceStands'
<1>1. Wants' = Wants
      BY DEF Wants
<1> QED BY <1>1 DEF IInv, ChecksHold, ChoiceStands

LEMMA LockingChecks ==
    ASSUME IInv, kind = "tv", Lock \/ Validate \/ RereadFiles
    PROVE  ChecksHold'
<1> USE RunTyped DEF IInv
<1>1. CASE run' = NoRun
      BY <1>1, EmptyRun, NothingChosen
<1>2. CASE Lock /\ run' # NoRun
  <2>1. run.pc = "lock" /\ run' = [run EXCEPT !.pc = "validate"] /\ busy \notin Wants
        BY <1>2 DEF Lock, Finish, Goto
  <2>2. /\ run'.pc = "validate" /\ run'.todo = run.todo
        /\ run'.extras = run.extras /\ run'.keeper = run.keeper
        /\ run'.force = run.force /\ run'.tracked = run.tracked
        BY <2>1 DEF Runs
  <2>3. UNCHANGED <<kind, disk, busy>>
        BY <1>2 DEF Lock, Folder
  <2>4. Chosen
        BY <2>1 DEF Chosen
  <2>5. ChoiceStands'
        BY <2>1, <2>2, <2>3, <2>4, ChoiceKept
  <2> QED BY <2>2, <2>5 DEF ChecksHold, KeeperStands, OtherIsSeen, MovedIsGone
<1>3. CASE Validate /\ run' # NoRun
  <2>1. run.pc = "validate" /\ run' = [run EXCEPT !.pc = "refiles"] /\ Readable(run.keeper)
        BY <1>3 DEF Validate, Finish, Goto, Readable
  <2>2. /\ run'.pc = "refiles" /\ run'.todo = run.todo
        /\ run'.extras = run.extras /\ run'.keeper = run.keeper
        /\ run'.force = run.force /\ run'.tracked = run.tracked
        BY <2>1 DEF Runs
  <2>3. UNCHANGED <<kind, disk, busy>>
        BY <1>3 DEF Validate, Folder
  <2>4. Chosen /\ Locked
        BY <2>1 DEF Chosen, Locked
  <2>5. ChoiceStands'
        BY <2>1, <2>2, <2>3, <2>4, ChoiceKept
  <2>6. Readable(run.keeper)' /\ run'.keeper = run.keeper
        BY <2>1, <2>2, <2>3 DEF Readable
  <2>7. KeeperStands'
        BY <2>1, <2>2, <2>3, <2>6 DEF KeeperStands, Readable
  <2> QED BY <2>2, <2>5, <2>7 DEF ChecksHold, OtherIsSeen, MovedIsGone
<1>4. CASE RereadFiles
  <2>1. run.pc = "refiles" /\ run' = [run EXCEPT !.pc = "reepisodes", !.seen.paths = row]
        BY <1>4 DEF RereadFiles
  <2>2. /\ run'.pc = "reepisodes" /\ run'.todo = run.todo
        /\ run'.extras = run.extras /\ run'.keeper = run.keeper
        /\ run'.force = run.force /\ run'.tracked = run.tracked /\ run'.seen.paths = row
        BY <2>1 DEF Runs, Tracking
  <2>3. UNCHANGED <<kind, disk, busy, row, link>>
        BY <1>4 DEF RereadFiles, Folder, arr
  <2>4. Chosen /\ Locked
        BY <2>1 DEF Chosen, Locked
  <2>5. ChoiceStands'
        BY <2>1, <2>2, <2>3, <2>4, ChoiceKept
  <2>6. SeenNow("this")' = run.keeper => "this" \in OwnersNow(run.keeper)
        BY <2>2, <2>3, <2>4, NoneAssumption DEF SeenNow, OwnersNow, Episodes
  <2>7. KeeperStands'
        BY <2>1, <2>2, <2>3, <2>6 DEF ChecksHold, KeeperStands, Readable
  <2>8. \A n \in run.extras : "other" \in OwnersNow(n)' => SeenNow("other")' = n
        BY <2>2, <2>3 DEF SeenNow, OwnersNow, Episodes
  <2>9. OtherIsSeen'
        BY <2>2, <2>8 DEF OtherIsSeen
  <2> QED BY <2>2, <2>5, <2>7, <2>9 DEF ChecksHold, MovedIsGone
<1> QED BY <1>1, <1>2, <1>3, <1>4 DEF RereadFiles

(* The row of a path is found by the path. *)
LEMMA RowFound ==
    ASSUME NEW t, NEW i \in Rows, OnePath(t.paths), t.paths[i] # None
    PROVE  RowAt(t, t.paths[i]) = i
BY DEF RowAt, OnePath

LEMMA DecidingChecks ==
    ASSUME IInv, kind = "tv", Decide
    PROVE  ChecksHold'
<1> USE RunTyped DEF IInv
<1>1. CASE run' = NoRun
      BY <1>1, EmptyRun, NothingChosen
<1>2. CASE run' # NoRun
  <2> DEFINE now == [run.seen EXCEPT !.links = link]
  <2>1. /\ run.pc = "reepisodes" /\ Chosen /\ Locked
        /\ run' = [run EXCEPT !.pc = "move", !.seen = now]
        /\ TrackedBy(now, "this") = run.tracked
        /\ Blockers(now, run.extras) = {}
        BY <1>2 DEF Decide, Finish, Chosen, Locked
  <2>2. now \in Tracking /\ now.paths = run.seen.paths /\ now.links = link
        BY DEF Tracking
  <2>3. /\ run'.pc = "move" /\ run'.todo = run.todo
        /\ run'.extras = run.extras /\ run'.keeper = run.keeper
        /\ run'.force = run.force /\ run'.tracked = run.tracked
        BY <2>1, <2>2 DEF Runs
  <2>4. UNCHANGED <<kind, disk, busy, row, link>>
        BY <1>2 DEF Decide, Folder, arr
  <2> HIDE DEF now
  <2>5. ChoiceStands'
        BY <2>1, <2>3, <2>4, ChoiceKept
  <2>6. TrackedBy(now, "this") = SeenNow("this")
        BY <2>2 DEF TrackedBy, SeenNow
  <2>7. ~run.force => SeenNow("this") = run.keeper
        BY <2>1, <2>6 DEF ChecksHold, ChoiceStands
  <2>8. ~run.force => "this" \in OwnersNow(run.keeper)
    <3>1. SUFFICES ASSUME SeenNow("this") = run.keeper PROVE "this" \in OwnersNow(run.keeper)
          BY <2>7
    <3>2. link["this"] \in Rows /\ run.seen.paths[link["this"]] = run.keeper
          BY <3>1, <2>1, NoneAssumption DEF SeenNow, Episodes
    <3>3. row[link["this"]] = run.keeper
      <4>1. row[link["this"]] # None
            BY <3>2, RowsAssumption DEF RowsInv, Typed, TypeOK, Episodes
      <4>2. run.keeper # None
            BY <2>1, NoneAssumption
      <4> QED BY <3>2, <4>1, <4>2 DEF RowsInv, SeenStays
    <3> QED BY <3>2, <3>3, RowsAssumption DEF OwnersNow, Episodes
  <2>9. Readable(run.keeper)
        BY <2>1, <2>7 DEF ChecksHold, KeeperStands
  <2>10. KeeperStands'
        BY <2>3, <2>4, <2>9 DEF KeeperStands, Readable
  <2>11. ASSUME NEW n \in run.extras, "other" \in OwnersNow(n) PROVE FALSE
    <3>1. link["other"] \in Rows /\ row[link["other"]] = n /\ n \in Names
          BY <2>11 DEF OwnersNow, Episodes, Runs
    <3>2. SeenNow("other") = n
          BY <2>1, <2>7, <2>11 DEF ChecksHold, OtherIsSeen
    <3>3. now.paths[link["other"]] = n /\ n # None
          BY <3>1, <3>2, <2>2, RowsAssumption, NoneAssumption DEF SeenNow
    <3>4. OnePath(now.paths)
          BY <2>2 DEF RowsInv, PathsUnique
    <3>5. RowAt(now, n) = link["other"]
          BY <3>1, <3>3, <3>4, RowFound
    <3>6. "other" \in Owners(now, RowAt(now, n))
          BY <3>1, <3>3, <3>5, <2>2, RowsAssumption DEF Owners, Episodes
    <3>7. "other" \in Blockers(now, run.extras)
      <4>1. Owners(now, RowAt(now, n)) \in {Owners(now, RowAt(now, m)) : m \in run.extras}
            OBVIOUS
      <4> QED BY <3>6, <4>1 DEF Blockers
    <3> QED BY <3>7, <2>1
  <2>12. OtherIsSeen'
        BY <2>3, <2>4, <2>8, <2>11 DEF OtherIsSeen, OwnersNow
  <2>13. MovedIsGone'
        BY <2>1, <2>3 DEF MovedIsGone, ChecksHold, ChoiceStands
  <2> QED BY <2>5, <2>10, <2>12, <2>13 DEF ChecksHold
<1> QED BY <1>1, <1>2

LEMMA MovingChecks ==
    ASSUME IInv, kind = "tv", Move
    PROVE  ChecksHold'
<1> USE RunTyped DEF IInv
<1>1. run.pc = "move" /\ Chosen /\ Locked
      BY DEF Move, Chosen, Locked
<1>2. CASE run' = NoRun
      BY <1>2, EmptyRun, NothingChosen
<1>3. CASE /\ UNCHANGED Library /\ run.todo = {}
           /\ run' = [run EXCEPT !.pc = "clean", !.todo = run.extras]
  <2>1. /\ run'.pc = "clean"
        /\ run'.extras = run.extras /\ run'.keeper = run.keeper
        /\ run'.force = run.force /\ run'.tracked = run.tracked
        BY <1>3 DEF Runs
  <2>2. UNCHANGED <<kind, disk, busy>>
        BY <1>3 DEF Library
  <2>3. ChoiceStands'
        BY <1>1, <2>1, <2>2, ChoiceKept
  <2>4. MovedIsGone'
        BY <1>1, <1>3, <2>1, <2>2 DEF MovedIsGone, ChecksHold
  <2> QED BY <2>1, <2>3, <2>4 DEF ChecksHold, KeeperStands, OtherIsSeen
<1>4. ASSUME NEW n \in run.todo,
             UNCHANGED <<kind, row, link, busy>>,
             disk' = [disk EXCEPT ![n] = None],
             run' = [run EXCEPT !.todo = @ \ {n}]
      PROVE  ChecksHold'
  <2>1. /\ run'.pc = "move" /\ run'.todo = run.todo \ {n}
        /\ run'.extras = run.extras /\ run'.keeper = run.keeper
        /\ run'.force = run.force /\ run'.tracked = run.tracked /\ run'.seen = run.seen
        BY <1>1, <1>4 DEF Runs
  <2>2. \A m \in Names : disk'[m] = IF m = n THEN None ELSE disk[m]
        BY <1>4 DEF RowsInv, Typed, TypeOK
  <2>3. Wants' = Wants
        BY <1>4, <2>1 DEF Wants
  <2>4. ChoiceStands'
        BY <1>1, <1>4, <2>1, <2>2, <2>3 DEF ChecksHold, ChoiceStands
  <2>5. n # run.keeper
        OBVIOUS
  <2>6. KeeperStands'
        BY <1>1, <2>1, <2>2, <2>5 DEF ChecksHold, KeeperStands, Readable
  <2>7. OtherIsSeen'
        BY <1>1, <1>4, <2>1 DEF ChecksHold, OtherIsSeen, OwnersNow
  <2>8. MovedIsGone'
        BY <1>1, <2>1, <2>2 DEF ChecksHold, MovedIsGone, Runs
  <2> QED BY <2>4, <2>6, <2>7, <2>8 DEF ChecksHold
<1> QED BY <1>2, <1>3, <1>4, MoveCases, Zenon

(* What a clean-up does to the folder: nothing, since a row that is still  *)
(* there is still the row of the path that was vacated.                    *)
LEMMA CleanSpares ==
    ASSUME IInv, kind = "tv", Clean
    PROVE  disk' = disk
<1> USE RunTyped DEF IInv
<1>1. PICK n \in run.todo : LET i == RowAt(run.seen, n) IN
        UNCHANGED disk \/ (i # 0 /\ row[i] # None /\ DeleteRow(i))
      BY DEF Clean
<1> DEFINE i == RowAt(run.seen, n)
<1>2. CASE i # 0 /\ row[i] # None /\ DeleteRow(i)
  <2>1. i \in Rows /\ run.seen.paths[i] = n
        BY <1>2 DEF RowAt
  <2>2. n \in run.extras /\ n \in Names /\ disk[n] = None
        BY DEF Clean, ChecksHold, MovedIsGone, Runs
  <2>3. row[i] = n
        BY <1>2, <2>1, <2>2, NoneAssumption DEF RowsInv, SeenStays
  <2>4. disk' = [m \in Names |-> IF row[i] = m THEN None ELSE disk[m]]
        BY <1>2 DEF DeleteRow
  <2>5. disk \in [Names -> Files \cup {None}]
        BY DEF RowsInv, Typed, TypeOK
  <2> HIDE DEF i
  <2> QED BY <2>2, <2>3, <2>4, <2>5
<1> QED BY <1>1, <1>2

LEMMA CleaningChecks ==
    ASSUME IInv, kind = "tv", Clean \/ Cleaned \/ Verify \/ RereadFails \/ Kill
    PROVE  ChecksHold'
<1> USE RunTyped DEF IInv
<1>1. CASE run' = NoRun
      BY <1>1, EmptyRun, NothingChosen
<1>2. CASE Clean
  <2>1. PICK n \in run.todo :
          \/ run' = [run EXCEPT !.todo = @ \ {n}]
          \/ run' = [[run EXCEPT !.todo = @ \ {n}] EXCEPT !.stale = TRUE]
        BY <1>2 DEF Clean
  <2>2. [run EXCEPT !.todo = @ \ {n}] \in Runs
        BY DEF Runs
  <2>3. /\ run'.pc = run.pc
        /\ run'.extras = run.extras /\ run'.keeper = run.keeper
        /\ run'.force = run.force /\ run'.tracked = run.tracked
    <3>1. CASE run' = [run EXCEPT !.todo = @ \ {n}]
          BY <3>1 DEF Runs
    <3>2. CASE run' = [[run EXCEPT !.todo = @ \ {n}] EXCEPT !.stale = TRUE]
          BY <2>2, <3>2 DEF Runs
    <3> QED BY <2>1, <3>1, <3>2
  <2>4. /\ run.pc = "clean" /\ Chosen /\ Locked
        /\ UNCHANGED <<kind, disk, busy>>
        BY <1>2, CleanSpares DEF Clean, Chosen, Locked
  <2>5. ChoiceStands'
        BY <2>3, <2>4, ChoiceKept
  <2>6. MovedIsGone'
        BY <2>3, <2>4 DEF MovedIsGone, ChecksHold
  <2> QED BY <2>3, <2>4, <2>5, <2>6 DEF ChecksHold, KeeperStands, OtherIsSeen
<1>3. CASE ~Clean /\ run' # NoRun
  <2>1. run.pc = "clean" /\ run' = [run EXCEPT !.pc = "verify"] /\ UNCHANGED <<kind, disk, busy>>
        BY <1>3 DEF Cleaned, Verify, RereadFails, Kill, Finish, Goto, Folder
  <2>2. /\ run'.pc = "verify"
        /\ run'.extras = run.extras /\ run'.keeper = run.keeper
        /\ run'.force = run.force /\ run'.tracked = run.tracked
        BY <2>1 DEF Runs
  <2>3. Chosen /\ Locked
        BY <2>1 DEF Chosen, Locked
  <2>4. ChoiceStands'
        BY <2>1, <2>2, <2>3, ChoiceKept
  <2> QED BY <2>2, <2>4 DEF ChecksHold, KeeperStands, OtherIsSeen, MovedIsGone
<1> QED BY <1>1, <1>2, <1>3

-----------------------------------------------------------------------------
(* What Sonarr and the pipelines do meanwhile *)

LEMMA ImportChecks ==
    ASSUME IInv, kind = "tv", Import, ImportsKeepAway
    PROVE  ChecksHold'
<1> USE RunTyped DEF IInv
<1>1. CASE ~Chosen
  <2>1. run'.pc \in {"idle", "episodes", "scan"}
        BY <1>1 DEF Import, Chosen
  <2> QED BY <2>1, NothingChosen
<1>2. CASE Chosen
  <2>1. PICK n \in Names, release \in Releases, i \in Rows :
           \E orphans \in SUBSET Replaced(NewFile(release)) :
              Imported(n, NewFile(release), i, orphans)
        BY ImportChooses
  <2> DEFINE new == NewFile(release)
             over == {j \in Rows : row[j] = n}
  <2>2. PICK orphans \in SUBSET Replaced(new) : Imported(n, new, i, orphans)
        BY <2>1
  <2>3. new \in Files /\ Held(new) \subseteq Episodes /\ "this" \in Held(new)
        BY FilesMade
  <2> HIDE DEF new
  <2>4. /\ UNCHANGED <<kind, busy, run>> /\ run.pc \in ImportAt.any
        /\ run.force => run.pc \in ImportAt.force
        BY DEF Import
  <2>5. /\ run.pc \notin {"move", "clean"}
        /\ run.pc \in {"refiles", "reepisodes"} => ~run.force /\ new.content # "broken"
        /\ Target[n] \in {n, None}
        BY <1>2, <2>2, <2>4 DEF ImportsKeepAway, Imported, Chosen
  <2>6. \A m \in Names : m # n => disk'[m] \in {disk[m], None}
        BY <2>2 DEF Imported
  <2>7. disk'[n] = new
        BY <2>2 DEF Imported
  <2>8. link'["this"] = i /\ row'[i] = n /\ run.seen.paths[i] = None
        BY <2>2, <2>3, FreshIsUnknown DEF Imported, Episodes
  <2>9. ASSUME NEW m \in Names \ Wants, Target[m] \in Wants, disk[m] = None
        PROVE  disk'[m] = None
    <3>1. CASE m = n
      <4>1. Target[m] = None \/ Target[m] = m
            BY <2>5, <3>1
      <4>2. None \notin Wants
            BY <1>2, NoneAssumption DEF Wants, Runs
      <4> QED BY <2>9, <4>1, <4>2
    <3>2. CASE m # n
          BY <2>6, <2>9, <3>2
    <3> QED BY <3>1, <3>2
  <2>10. Wants' = Wants
        BY <2>4 DEF Wants
  <2>11. ChoiceStands'
        BY <1>2, <2>4, <2>9, <2>10 DEF ChecksHold, ChoiceStands, Chosen, Locked
  <2>12. run.keeper \in Names /\ run.keeper # None
        BY <1>2, NoneAssumption
  <2>13. SeenNow("this")' # run.keeper
        BY <2>4, <2>8, <2>12, RowsAssumption DEF SeenNow
  <2>14. run.pc = "refiles" /\ ("this" \in OwnersNow(run.keeper))' => run.keeper = n
        BY <2>4, <2>8 DEF OwnersNow
  <2>15. ASSUME run.pc \in {"refiles", "reepisodes"}, disk'[run.keeper] # None
         PROVE  Readable(run.keeper)'
    <3>1. CASE run.keeper = n
          BY <2>4, <2>5, <2>7, <2>15, <3>1 DEF Readable
    <3>2. CASE run.keeper # n
      <4>1. disk'[run.keeper] = disk[run.keeper]
            BY <2>6, <2>12, <2>15, <3>2
      <4> QED BY <2>4, <2>15, <4>1 DEF ChecksHold, KeeperStands, Readable
    <3> QED BY <3>1, <3>2
  <2>16. run.keeper = n => disk'[run.keeper] # None
        BY <2>3, <2>7, NoneAssumption
  <2>17. KeeperStands'
        BY <2>4, <2>5, <2>13, <2>14, <2>15, <2>16 DEF KeeperStands
  <2>18. OtherIsSeen'
        BY <2>4, <2>5, <2>13 DEF OtherIsSeen
  <2>19. MovedIsGone'
        BY <2>4, <2>5 DEF MovedIsGone
  <2> QED BY <2>11, <2>17, <2>18, <2>19 DEF ChecksHold
<1> QED BY <1>1, <1>2

LEMMA RescanChecks ==
    ASSUME IInv, kind = "tv", ArrRescan
    PROVE  ChecksHold'
<1> USE RunTyped DEF IInv
<1>1. UNCHANGED <<kind, disk, busy, run>>
      BY DEF ArrRescan
<1>2. CASE ~Chosen
  <2>1. run'.pc \in {"idle", "episodes", "scan"}
        BY <1>1, <1>2 DEF Chosen
  <2> QED BY <2>1, NothingChosen
<1>3. CASE Chosen
  <2>1. ChoiceStands' /\ MovedIsGone'
        BY <1>1 DEF ChecksHold, ChoiceStands, MovedIsGone, Chosen, Locked, Wants
  <2>2. Wants' = Wants /\ \A n \in Names : Readable(n)' = Readable(n)
        BY <1>1 DEF Wants, Readable
  <2>3. run.keeper \in Names /\ run.keeper # None /\ run.extras \subseteq Names
        BY <1>3, NoneAssumption DEF Runs
  (* An episode keeps its row, or loses it, or gets a new one. *)
  <2>4. \A e \in Episodes :
           \/ link'[e] = link[e] /\ (link[e] # 0 => row'[link[e]] = row[link[e]])
           \/ link'[e] = 0
           \/ \E n \in Names, i \in Rows :
                 /\ disk[n] # None /\ e \in Shown(n) /\ Left(e) = 0 /\ IsFresh(i)
                 /\ link'[e] = i /\ row'[i] = n
    <3>1. \A e \in Episodes : link[e] \notin Missing => Left(e) = link[e]
          BY DEF Left
    <3>2. \A e \in Episodes : link[e] \in Missing => Left(e) = 0
          BY DEF Left
    <3>3. CASE /\ row' = [j \in Rows |-> IF j \in Missing THEN None ELSE row[j]]
               /\ link' = [e \in Episodes |-> Left(e)]
          BY <3>1, <3>2, <3>3
    <3>4. ASSUME NEW n \in Names, NEW i \in Rows, TakeUp(n, i),
                 NEW e \in Episodes, e \in Shown(n)
          PROVE  /\ disk[n] # None /\ Left(e) = 0 /\ IsFresh(i)
                 /\ link'[e] = i /\ row'[i] = n
          BY <3>4 DEF TakeUp
    <3>5. ASSUME NEW n \in Names, NEW i \in Rows, TakeUp(n, i),
                 NEW e \in Episodes, e \notin Shown(n), link'[e] # 0
          PROVE  link'[e] = link[e] /\ row'[link[e]] = row[link[e]]
      <4>1. link'[e] = link[e] /\ link[e] \in Rows \ Missing
            BY <3>1, <3>2, <3>5 DEF TakeUp
      <4>2. link[e] # i
            BY <3>5, <4>1, FreshIsUnknown, RowsAssumption DEF TakeUp, RowsInv, Typed, TypeOK
      <4> QED BY <3>5, <4>1, <4>2 DEF TakeUp
    <3> QED BY <3>3, <3>4, <3>5 DEF ArrRescan
  <2>5. ("this" \in OwnersNow(run.keeper))' =>
            "this" \in OwnersNow(run.keeper) \/ disk[run.keeper] # None
        BY <1>1, <2>3, <2>4, RowsAssumption DEF OwnersNow, Episodes
  <2>6. (SeenNow("this") = run.keeper)' => SeenNow("this") = run.keeper
        BY <1>1, <2>3, <2>4, FreshIsUnknown, RowsAssumption DEF SeenNow, Episodes
  <2>7. KeeperStands'
        BY <1>1, <2>2, <2>3, <2>5, <2>6 DEF ChecksHold, KeeperStands, Readable
  <2>8. ASSUME NEW n \in run.extras, ("other" \in OwnersNow(n))'
        PROVE  "other" \in OwnersNow(n) /\ link'["other"] = link["other"]
    <3>1. link'["other"] # 0 /\ row'[link'["other"]] = n /\ n \in Names
          BY <2>3, <2>8 DEF OwnersNow
    <3>2. "other" \notin Shown(n)
          BY <1>3, <2>8 DEF ChecksHold, ChoiceStands, Shown
    <3> QED BY <2>4, <3>1, <3>2, RowsAssumption DEF OwnersNow, Episodes
  <2>9. ASSUME run.pc = "reepisodes", NEW n \in run.extras, ("other" \in OwnersNow(n))'
        PROVE  (SeenNow("other") = n \/ (~run.force /\ SeenNow("this") # run.keeper))'
        BY <1>1, <2>6, <2>8, <2>9 DEF ChecksHold, OtherIsSeen, SeenNow
  <2>10. ASSUME run.pc = "move", ~run.force PROVE ("this" \in OwnersNow(run.keeper))'
    <3>1. /\ "this" \in OwnersNow(run.keeper) /\ disk[run.keeper] # None
          BY <2>10 DEF ChecksHold, OtherIsSeen, KeeperStands, Readable
    <3>2. link["this"] # 0 /\ row[link["this"]] = run.keeper /\ link["this"] \in Rows
          BY <3>1 DEF OwnersNow, Episodes
    <3>3. link["this"] \notin Missing /\ Left("this") = link["this"]
          BY <3>1, <3>2 DEF Missing, Left
    <3>4. link'["this"] = link["this"] /\ row'[link["this"]] = run.keeper
      <4>1. \A n \in Names : "this" \in Shown(n)
            BY DEF Shown, Episodes
      <4>2. \A n \in Names, i \in Rows : ~TakeUp(n, i)
            BY <3>2, <3>3, <4>1 DEF TakeUp
      <4>3. /\ row' = [j \in Rows |-> IF j \in Missing THEN None ELSE row[j]]
            /\ link' = [e \in Episodes |-> Left(e)]
            BY <4>2 DEF ArrRescan
      <4> QED BY <3>2, <3>3, <4>3 DEF Episodes
    <3> QED BY <1>1, <3>2, <3>4 DEF OwnersNow, Episodes
  <2>11. OtherIsSeen'
        BY <1>1, <2>8, <2>9, <2>10 DEF ChecksHold, OtherIsSeen
  <2> QED BY <2>1, <2>7, <2>11 DEF ChecksHold
<1> QED BY <1>2, <1>3

(* What a pipeline's end does to names that are locked: nothing. *)
LEMMA LockedIsLeft ==
    ASSUME IInv, kind = "tv", Locked, PipelineEnd, NEW n \in Wants
    PROVE  disk'[n] = disk[n]
<1> USE RunTyped DEF IInv
<1>1. Chosen /\ busy \notin Wants /\ n \in Names
      BY DEF Locked, Chosen, ChecksHold, ChoiceStands, Wants, Runs
<1>2. CASE n = Target[busy] /\ busy \in Names
      BY <1>1, <1>2 DEF PipelineEnd, ChecksHold, ChoiceStands
<1>3. CASE n # Target[busy]
      BY <1>1, <1>3 DEF PipelineEnd
<1> QED BY <1>2, <1>3 DEF PipelineEnd, RowsInv, Typed, TypeOK

LEMMA PipelineChecks ==
    ASSUME IInv, kind = "tv", (\E n \in Names : PipelineStart(n)) \/ PipelineEnd
    PROVE  ChecksHold'
<1> USE RunTyped DEF IInv
<1>1. UNCHANGED <<kind, row, link, run>>
      BY DEF PipelineStart, PipelineEnd, arr
<1>2. CASE ~Chosen
  <2>1. run'.pc \in {"idle", "episodes", "scan"}
        BY <1>1, <1>2 DEF Chosen
  <2> QED BY <2>1, NothingChosen
<1>3. CASE Chosen
  <2>1. \A n \in Names : Locked /\ n \in Wants => disk'[n] = disk[n]
        BY LockedIsLeft DEF PipelineStart
  <2>2. Wants' = Wants /\ Chosen' = Chosen /\ Locked' = Locked
        BY <1>1 DEF Wants, Chosen, Locked
  <2>3. Locked => busy' \notin Wants
    <3>1. None \notin Wants
          BY <1>3, NoneAssumption DEF Wants, Runs
    <3> QED BY <3>1 DEF PipelineStart, PipelineEnd
  <2>4. ASSUME NEW n \in Names \ Wants, Target[n] \in Wants PROVE disk'[n] = None
    <3>1. disk[n] = None
          BY <1>3, <2>4 DEF ChecksHold, ChoiceStands
    <3>2. CASE UNCHANGED disk
          BY <3>1, <3>2
    <3>3. CASE ~UNCHANGED disk
      <4>1. /\ busy \in Names /\ disk[busy] # None
            /\ disk'[n] # disk[n] => n \in {busy, Target[busy]}
        <5>1. PipelineEnd
              BY <3>3 DEF PipelineStart
        <5> QED BY <3>3, <5>1 DEF PipelineEnd, RowsInv, Typed, TypeOK
      <4>2. n # busy
            BY <3>1, <4>1
      <4>3. n # Target[busy]
        <5>1. ASSUME n = Target[busy] PROVE FALSE
          <6>1. Target[n] \in {n, None}
                BY <4>1, <5>1, TargetAssumption, NoneAssumption
          <6>2. Target[n] # None
                BY <1>3, <2>4, NoneAssumption DEF Wants, Runs
          <6> QED BY <2>4, <6>1, <6>2
        <5> QED BY <5>1
      <4> QED BY <3>1, <4>1, <4>2, <4>3
    <3> QED BY <3>2, <3>3
  <2>5. ChoiceStands'
        BY <1>1, <1>3, <2>2, <2>3, <2>4 DEF ChecksHold, ChoiceStands
  <2>6. run.keeper \in Names /\ run.keeper \in Wants /\ run.extras \subseteq Wants
        BY <1>3 DEF Wants
  <2>7. Locked => Readable(run.keeper)' = Readable(run.keeper)
                  /\ disk'[run.keeper] = disk[run.keeper]
        BY <1>1, <2>1, <2>6 DEF Readable
  <2>8. run.pc \in {"refiles", "reepisodes", "move", "clean"} => Locked
        BY DEF Locked
  <2>9. SeenNow("this")' = SeenNow("this") /\ SeenNow("other")' = SeenNow("other")
        /\ \A n \in Names : OwnersNow(n)' = OwnersNow(n)
        BY <1>1 DEF SeenNow, OwnersNow
  <2>10. KeeperStands'
        BY <1>1, <2>6, <2>7, <2>8, <2>9 DEF ChecksHold, KeeperStands
  <2>11. OtherIsSeen'
        BY <1>1, <2>6, <2>9 DEF ChecksHold, OtherIsSeen, Runs
  <2>12. MovedIsGone'
        BY <1>1, <2>1, <2>6, <2>8 DEF ChecksHold, MovedIsGone, Runs
  <2> QED BY <2>5, <2>10, <2>11, <2>12 DEF ChecksHold
<1> QED BY <1>2, <1>3

-----------------------------------------------------------------------------
LEMMA Inductive ==
    ASSUME ImportsKeepAway
    PROVE  Spec => []IInv
<1>1. Init => IInv
  <2> SUFFICES ASSUME Init PROVE IInv
      OBVIOUS
  <2>1. run = NoRun /\ recycle = {} /\ row = [i \in Rows |-> None]
        BY DEF Init
  <2>2. TypeOK
        BY <2>1, EmptyRun, BoundsAssumption DEF Init, TypeOK, Episodes, Places
  <2>3. RowsInv
        BY <2>1, <2>2, EmptyRun, FS_EmptySet
           DEF RowsInv, Typed, PathsUnique, OnePath, SeenStays, Answered, Chosen
  <2> QED BY <2>1, <2>3, EmptyRun DEF IInv, ChecksHold, ChoiceStands, Chosen, Locked,
                                      KeeperStands, OtherIsSeen, MovedIsGone
<1>2. IInv /\ [Next]_vars => IInv'
  <2> SUFFICES ASSUME IInv, [Next]_vars PROVE IInv'
      OBVIOUS
  <2>1. RowsInv'
        BY RowsStep DEF IInv
  <2>2. ASSUME kind' = "tv" PROVE ChecksHold'
    <3>1. kind = "tv"
          BY <2>2 DEF Next, Step, vars, Begin, ReadEpisodes, ReadFails, Scan, Lock, Validate,
                RereadFiles, Decide, RereadFails, Move, Clean, Cleaned, Verify, Kill, Folder,
                Import, ArrRescan, PipelineStart, PipelineEnd
    <3>2. CASE UNCHANGED vars
          BY <3>1, <3>2 DEF vars, IInv, ChecksHold, ChoiceStands, Chosen, Locked, Wants,
                KeeperStands, Readable, OwnersNow, SeenNow, OtherIsSeen, MovedIsGone
    <3>3. CASE Begin \/ ReadEpisodes \/ ReadFails
      <4>1. run'.pc \in {"idle", "episodes", "scan"}
            BY <3>3, RunTyped DEF Begin, ReadEpisodes, ReadFails, IInv, Runs, Tracking
      <4> QED BY <4>1, NothingChosen
    <3>4. CASE Scan
          BY <3>1, <3>4, ScanChecks
    <3>5. CASE Lock \/ Validate \/ RereadFiles
          BY <3>1, <3>5, LockingChecks
    <3>6. CASE Decide
          BY <3>1, <3>6, DecidingChecks
    <3>7. CASE Move
          BY <3>1, <3>7, MovingChecks
    <3>8. CASE Clean \/ Cleaned \/ Verify \/ RereadFails \/ Kill
          BY <3>1, <3>8, CleaningChecks
    <3>9. CASE Import
          BY <3>1, <3>9, ImportChecks
    <3>10. CASE ArrRescan
          BY <3>1, <3>10, RescanChecks
    <3>11. CASE (\E n \in Names : PipelineStart(n)) \/ PipelineEnd
          BY <3>1, <3>11, PipelineChecks
    <3> QED BY <3>2, <3>3, <3>4, <3>5, <3>6, <3>7, <3>8, <3>9, <3>10, <3>11 DEF Next, Step
  <2> QED BY <2>1, <2>2 DEF IInv
<1> QED BY <1>1, <1>2, PTL DEF Spec

(* What is moved, and by what step. *)
LEMMA TakenCases ==
    ASSUME IInv, kind = "tv", [Next]_vars, NEW n \in Names, Taken(n)
    PROVE  /\ n \in run.extras /\ run.pc = "move"
           /\ UNCHANGED <<row, link>>
           /\ disk' = [disk EXCEPT ![n] = None]
<1> USE RunTyped DEF IInv
<1>1. run.pc = "move" /\ run'.pc = "move" /\ n \in run.todo /\ n \notin run'.todo
      BY DEF Taken
<1>2. Move
      BY <1>1, EmptyRun DEF Next, Step, vars, Begin, ReadEpisodes, ReadFails, Scan, Lock,
         Validate, RereadFiles, Decide, RereadFails, Clean, Cleaned, Verify, Kill,
         Import, ArrRescan, PipelineStart, PipelineEnd
<1>3. run' # NoRun
      BY <1>1, EmptyRun
<1>4. ~(run.todo = {})
      BY <1>1
<1>5. PICK m \in run.todo :
        /\ UNCHANGED <<row, link>>
        /\ disk' = [disk EXCEPT ![m] = None]
        /\ run' = [run EXCEPT !.todo = @ \ {m}]
      BY <1>2, <1>3, <1>4, MoveCases
<1>6. run'.todo = run.todo \ {m}
      BY <1>5 DEF Runs
<1> QED BY <1>1, <1>5, <1>6

(* tv-dedupe.py moves no file that Sonarr has on record for another        *)
(* episode, nor, unless forced, the one it has on record for this one.     *)
THEOREM TrackedKept == ASSUME ImportsKeepAway PROVE Spec => TrackedStays
<1> DEFINE Good == \A n \in Names :
             kind = "tv" /\ Taken(n) => OwnersNow(n) \subseteq IF run.force THEN {"this"} ELSE {}
<1>1. IInv /\ [Next]_vars => Good
  <2> SUFFICES ASSUME IInv, [Next]_vars, NEW n \in Names, kind = "tv", Taken(n)
               PROVE  OwnersNow(n) \subseteq IF run.force THEN {"this"} ELSE {}
      OBVIOUS
  <2>1. n \in run.extras /\ run.pc = "move"
        BY TakenCases
  <2>2. "other" \notin OwnersNow(n)
        BY <2>1 DEF IInv, ChecksHold, OtherIsSeen
  <2>3. ~run.force => "this" \notin OwnersNow(n)
    <3>1. n # run.keeper
          BY <2>1, RunTyped DEF IInv, RowsInv, Typed, TypeOK
    <3> QED BY <2>1, <3>1 DEF IInv, ChecksHold, OtherIsSeen, OwnersNow
  <2>4. OwnersNow(n) \subseteq {"this", "other"}
        BY DEF OwnersNow, Episodes
  <2> QED BY <2>2, <2>3, <2>4
<1>2. Spec => []IInv
      BY Inductive
<1>3. Spec => [][Good]_vars
      BY <1>1, <1>2, PTL DEF Spec
<1> QED BY <1>3 DEF TrackedStays

(* While tv-dedupe.py moves a readable copy, another one is there. *)
THEOREM ReadableStays == ASSUME ImportsKeepAway PROVE Spec => CopyRemains
<1> DEFINE Good == \A n \in Names :
             kind = "tv" /\ Taken(n) /\ disk[n].content # "broken" =>
                \E m \in Names : disk'[m] # None /\ disk'[m].content # "broken"
<1>1. IInv /\ [Next]_vars => Good
  <2> SUFFICES ASSUME IInv, [Next]_vars, NEW n \in Names, kind = "tv", Taken(n)
               PROVE  \E m \in Names : disk'[m] # None /\ disk'[m].content # "broken"
      OBVIOUS
  <2>1. /\ n \in run.extras /\ run.pc = "move"
        /\ disk' = [disk EXCEPT ![n] = None]
        BY TakenCases
  <2>2. Readable(run.keeper) /\ run.keeper \in Names /\ run.keeper # n
        BY <2>1, RunTyped DEF IInv, ChecksHold, KeeperStands, Chosen
  <2>3. disk'[run.keeper] = disk[run.keeper]
        BY <2>1, <2>2 DEF IInv, RowsInv, Typed, TypeOK
  <2> QED BY <2>2, <2>3 DEF Readable
<1>2. Spec => []IInv
      BY Inductive
<1>3. Spec => [][Good]_vars
      BY <1>1, <1>2, PTL DEF Spec
<1> QED BY <1>3 DEF CopyRemains

(* What leaves the folder by a step of tv-dedupe.py is in the recycle      *)
(* folder, at a place that was free.                                       *)
THEOREM OnlyMoved == ASSUME ImportsKeepAway PROVE Spec => NothingDestroyed
<1> DEFINE Gone == {n \in Names : disk[n] # None /\ disk'[n] = None}
           Good == kind = "tv" /\ run' # run =>
                     Cardinality({n \in Names : disk[n] # None /\ disk'[n] = None})
                        = Cardinality(recycle' \ recycle)
<1>1. IInv /\ [Next]_vars => Good
  <2> SUFFICES ASSUME IInv, [Next]_vars, kind = "tv", run' # run
               PROVE  Cardinality(Gone) = Cardinality(recycle' \ recycle)
      OBVIOUS
  <2>1. CASE disk' = disk /\ recycle' = recycle
    <3>1. Gone = {} /\ recycle' \ recycle = {}
          BY <2>1
    <3> QED BY <3>1
  <2>2. CASE Move /\ ~(disk' = disk /\ recycle' = recycle)
    <3>1. PICK n \in run.todo :
            /\ disk[n] # None
            /\ disk' = [disk EXCEPT ![n] = None]
            /\ recycle' = recycle \cup {RecycleTarget(n)}
          BY <2>2, MoveCases DEF IInv, Library
    <3>2. n \in Names /\ disk \in [Names -> Files \cup {None}] /\ IsFiniteSet(recycle)
          BY RunTyped DEF IInv, RowsInv, Typed, TypeOK, Runs
    <3>3. Gone = {n}
          BY <3>1, <3>2
    <3>4. recycle' \ recycle = {RecycleTarget(n)}
          BY <3>1, <3>2, FreeSpot
    <3> QED BY <3>3, <3>4, FS_Singleton
  <2>3. CASE Clean
        BY <2>1, <2>3, CleanSpares DEF Clean
  <2>4. CASE ~Move /\ ~Clean
        BY <2>1, <2>4 DEF Next, Step, vars, Begin, ReadEpisodes, ReadFails, Scan, Lock,
           Validate, RereadFiles, Decide, RereadFails, Cleaned, Verify, Kill, Folder,
           Import, ArrRescan, PipelineStart, PipelineEnd
  <2> QED BY <2>1, <2>2, <2>3, <2>4
<1>2. Spec => []IInv
      BY Inductive
<1>3. Spec => [][Good]_vars
      BY <1>1, <1>2, PTL DEF Spec
<1> QED BY <1>3, PTL DEF NothingDestroyed

=============================================================================
