-------------------------- MODULE SubFallbackProofs -------------------------
(***************************************************************************)
(* The unlocked run of sub-fallback.py against the passes, the imports and *)
(* Bazarr, for any number of releases, faults and file identities.         *)
(*                                                                         *)
(* That a noted file stays on the list, and that run_dub forgets no file,  *)
(* holds wherever an import falls.  The three properties of what is placed *)
(* and reported hold if no import falls into the gap of a system call that *)
(* the code leaves open, and each theorem names the gaps it needs closed.  *)
(***************************************************************************)
EXTENDS SubFallback, FiniteSetTheorems, TLAPS

Runs ==
    [pc : RunPlaces, mode : {"main", "dub"}, seen : Entries \cup {None},
     walk : Ids \cup {0}, id : Ids \cup {0}, release : Releases \cup {0},
     text : Texts, slot : Slots, outcome : {"none", "fixed"}]

Passes ==
    [pc : PassPlaces, id : Ids \cup {0}, took : SUBSET Slots, same : SUBSET Slots]

Typed ==
    /\ TypeOK
    /\ run \in Runs
    /\ pass \in Passes
    /\ sidecar \in [Slots -> Texts \cup {None}]
    /\ run.pc \in {"judge", "drop", "revalidate", "compare"} => run.mode = "main"

(* The file that run_dub is about to remember has nothing to add. *)
SavedIsSettled ==
    At("save") /\ video # None /\ video.id = run.walk
        => ~video.tag \/ ~video.dual \/ video.dub

(* An untagged file is not the one whose entry was judged stale, and if it *)
(* has been noted, neither is its entry.                                   *)
DroppedIsStale ==
    At("drop") /\ video # None /\ ~video.tag =>
        /\ video.id # run.seen.id
        /\ video.noted /\ entry # None => entry.id # run.seen.id

(* The file of a pass that is about to clear the entry, or one that was    *)
(* imported over it since, has not been noted.                             *)
SwappedIsUnnoted ==
    pass.pc \in {"tag", "delete", "record", "clear"} /\ video # None => ~video.noted

(* A pass begins with a file without the tag and writes it last. *)
PassedIsUntagged ==
    pass.pc \in {"note", "swap", "tag"} /\ video # None => ~video.tag

Gone(slots) == \A s \in slots : sidecar[s] = None

(* What has gone into the video is what the pass is about to remove, ... *)
SpentIsSame == pass.pc \in {"tag", "delete"} => spent \subseteq pass.same

(* ... has removed, ... *)
SpentIsGone == pass.pc \in {"record", "clear"} /\ ~marred => Gone(spent)

(* ... and stays away from a tagged file, and so does its entry. *)
TaggedIsDone ==
    /\ video # None /\ video.tag
    /\ ~marred
    /\ pass.pc \notin {"delete", "record", "clear"}
    => entry = None /\ Gone(spent)

(* A text was made from the file that the run goes by, if that is there. *)
TextIsOfRelease ==
    run.pc \in {"reprobe", "relook", "recompare"} /\ video # None /\ video.id = run.id
        => run.release = video.release

IInv ==
    /\ Typed
    /\ NotedStaysListed
    /\ MemoHidesNone
    /\ SavedIsSettled
    /\ DroppedIsStale
    /\ SwappedIsUnnoted
    /\ PassedIsUntagged
    /\ SpentIsSame
    /\ SpentIsGone
    /\ TaggedIsDone
    /\ TextIsOfRelease

(* What an entry says of the file that it is about, also after the run has *)
(* read it.                                                                *)
SinceIsOfRelease ==
    /\ entry # None /\ video # None /\ entry.id = video.id => entry.since = video.release
    /\ run.seen # None /\ video # None /\ run.seen.id = video.id
         => run.seen.since = video.release
    /\ pass.pc = "note" /\ video # None => video.id = pass.id

(* The run in mode "main" works on a file that has waited. *)
WaitedIsOfRelease ==
    run.mode = "main" =>
        /\ run.pc \in {"compare", "identify", "probe", "work", "reprobe", "relook",
                       "recompare", "link"} => run.seen.old
        /\ run.pc = "identify" /\ video # None => run.seen.since = video.release
        /\ run.pc = "link" => video # None /\ run.seen.since = video.release
        /\ run.pc \in {"probe", "work", "reprobe", "relook", "recompare"}
             /\ video # None /\ video.id = run.id => run.seen.since = video.release

(* Right before the link, the file is the one whose text it is. *)
LinkedIsOfRelease == At("link") => video # None /\ run.release = video.release

(* The tag is there when the run looks at the lock. *)
SeenIsTagged == At("lock") /\ run.mode = "main" => video # None /\ video.tag

-----------------------------------------------------------------------------
(* Eight identities are never all of them. *)
LEMMA EightAreNotAll ==
    ASSUME NEW a, NEW b, NEW c, NEW d, NEW e, NEW f, NEW g, NEW h
    PROVE  \E i \in Ids : i \notin {a, b, c, d, e, f, g, h}
<1> DEFINE T2 == {a} \cup {b}
           T3 == T2 \cup {c}
           T4 == T3 \cup {d}
           T5 == T4 \cup {e}
           T6 == T5 \cup {f}
           T7 == T6 \cup {g}
           T8 == T7 \cup {h}
<1>1. IsFiniteSet({a}) /\ Cardinality({a}) = 1
      BY FS_Singleton
<1>2. IsFiniteSet(T2) /\ Cardinality(T2) \in 0..2
      BY <1>1, FS_AddElement
<1> HIDE DEF T2
<1>3. IsFiniteSet(T3) /\ Cardinality(T3) \in 0..3
      BY <1>2, FS_AddElement
<1> HIDE DEF T3
<1>4. IsFiniteSet(T4) /\ Cardinality(T4) \in 0..4
      BY <1>3, FS_AddElement
<1> HIDE DEF T4
<1>5. IsFiniteSet(T5) /\ Cardinality(T5) \in 0..5
      BY <1>4, FS_AddElement
<1> HIDE DEF T5
<1>6. IsFiniteSet(T6) /\ Cardinality(T6) \in 0..6
      BY <1>5, FS_AddElement
<1> HIDE DEF T6
<1>7. IsFiniteSet(T7) /\ Cardinality(T7) \in 0..7
      BY <1>6, FS_AddElement
<1> HIDE DEF T7
<1>8. IsFiniteSet(T8) /\ Cardinality(T8) \in 0..8
      BY <1>7, FS_AddElement
<1> HIDE DEF T8
<1>9. ~(Ids \subseteq T8)
  <2>1. ASSUME Ids \subseteq T8 PROVE FALSE
    <3>1. IsFiniteSet(Ids) /\ Cardinality(Ids) <= Cardinality(T8)
          BY <1>8, <2>1, FS_Subset
    <3>2. Cardinality(Ids) \in Nat
          BY <3>1, FS_CardinalityType
    <3> QED BY <1>8, <3>1, <3>2, IdsAssumption
  <2> QED BY <2>1
<1>10. T8 = {a, b, c, d, e, f, g, h}
       BY DEF T8, T7, T6, T5, T4, T3, T2
<1> QED BY <1>9, <1>10

(* A fresh identity is one that nothing mentions. *)
LEMMA FreshIsFresh ==
    /\ FreshId \in Ids
    /\ FreshId \notin {run.id, run.walk, pass.id, memo}
    /\ entry # None => FreshId # entry.id
    /\ run.seen # None => FreshId # run.seen.id
    /\ video # None => FreshId # video.id
<1> DEFINE used == {run.id, run.walk, pass.id, memo, cached} \cup EntryIds(entry) \cup EntryIds(run.seen)
                     \cup (IF video = None THEN {} ELSE {video.id})
<1>1. \E i \in Ids : i \notin used
  <2>1. PICK i \in Ids :
            i \notin {run.id, run.walk, pass.id, memo, cached, entry.id, run.seen.id, video.id}
        BY EightAreNotAll
  <2> QED BY <2>1 DEF EntryIds
<1>2. FreshId = CHOOSE i \in Ids : i \notin used
      BY DEF FreshId
<1> HIDE DEF used
<1>3. FreshId \in Ids /\ FreshId \notin used
      BY <1>1, <1>2
<1> QED BY <1>3 DEF used, EntryIds

-----------------------------------------------------------------------------
(* The initial state satisfies the inductive invariant. *)
LEMMA InitInv == Init => IInv
<1> SUFFICES ASSUME Init PROVE IInv
    OBVIOUS
<1> USE DEF Init, NoRun, NoPass
<1>1. Typed
      BY DEF Typed, TypeOK, Runs, Passes, RunPlaces, PassPlaces, Texts, Slots, MainSlots
<1>2. NotedStaysListed /\ MemoHidesNone /\ SavedIsSettled /\ DroppedIsStale
      BY DEF NotedStaysListed, MemoHidesNone, SavedIsSettled, DroppedIsStale
<1>3. SwappedIsUnnoted /\ PassedIsUntagged /\ TextIsOfRelease
      BY DEF SwappedIsUnnoted, PassedIsUntagged, TextIsOfRelease
<1>4. SpentIsSame /\ SpentIsGone /\ TaggedIsDone
      BY DEF SpentIsSame, SpentIsGone, TaggedIsDone
<1> QED BY <1>1, <1>2, <1>3, <1>4 DEF IInv

(* Which actions touch which variables. *)
LEMMA WhoTouchesWhat ==
    ASSUME Next
    PROVE  /\ \/ video' = video
              \/ Note \/ PassForced \/ PassSwap \/ PassTag \/ LateSwap \/ Import \/ Remove
           /\ \/ sidecar' = sidecar
              \/ Link \/ PassBegin \/ LateBegin \/ PassDelete \/ LateUnlink \/ Bazarr
           /\ entry' = entry \/ Drop \/ Note \/ PassClear \/ Age
           /\ cached' = cached \/ PassRecord \/ LateUnlink
           /\ memo' = memo \/ Walk \/ Settle
           /\ run' = run \/ RunStep \/ PipelineTimeout \/ RunKilled
           /\ pass' = pass \/ PassBegin \/ LateBegin \/ PassStep \/ Bazarr
           /\ imported' = imported \/ Import
           /\ spent' = spent \/ Link \/ PassSwap \/ Import \/ Bazarr
           /\ marred' = marred \/ PassSwap \/ PassDelete \/ PassClear \/ PassFails \/ Import
<1> USE DEF Private, ghosts
<1>1. CASE RunStep \/ PipelineTimeout \/ RunKilled
      BY <1>1 DEF RunStep, LoadTracker, Judge, Drop, Revalidate, Compare, TakeIdentity, ProbeFirst,
                  Walk, ProbeDub, Settle, Work, Reprobe, Relook, Recompare, Link, SeeTag, Report,
                  SeeGone, ReportDub, PipelineTimeout, RunKilled
<1>2. CASE PassBegin \/ PassForced \/ LateBegin \/ PassStep
      BY <1>2 DEF PassBegin, PassForced, LateBegin, PassStep, Note, PassSwap, PassTag, PassDelete,
                  PassRecord, PassClear,
                  LateSwap, LateUnlink, PassFails
<1>3. CASE Age \/ Import \/ Remove \/ Bazarr
      BY <1>3 DEF Age, Import, Remove, Bazarr
<1> QED BY <1>1, <1>2, <1>3 DEF Next

(* The ranges of the run's local variables. *)
LEMMA RunType ==
    ASSUME Typed, Next
    PROVE  /\ run' \in Runs
           /\ run'.mode = "main" /\ run'.pc \notin {"idle", "wait", "lock"} => run'.seen # None
           /\ run'.pc \in {"judge", "drop", "revalidate", "compare"} => run'.mode = "main"
<1> DEFINE Good == /\ run' \in Runs
                   /\ run'.mode = "main" /\ run'.pc \notin {"idle", "wait", "lock"} => run'.seen # None
                   /\ run'.pc \in {"judge", "drop", "revalidate", "compare"} => run'.mode = "main"
<1>1. NoRun \in Runs
      BY DEF Runs, NoRun, RunPlaces, Texts, Slots, MainSlots
<1>2. CASE run' = NoRun
      BY <1>1, <1>2 DEF NoRun
<1>3. CASE run' = run
      BY <1>3 DEF Typed, TypeOK
<1>4. ASSUME NEW place \in RunPlaces \ {"judge", "drop", "revalidate", "compare"},
             Goto(place), run.pc \notin {"idle", "wait", "lock"} \/ place = "lock" \/ place = "wait"
      PROVE  Good
  <2>1. /\ run' \in Runs /\ run'.pc = place /\ run'.mode = run.mode /\ run'.seen = run.seen
        BY <1>4 DEF Goto, Runs, Typed
  <2> QED BY <1>4, <2>1 DEF Typed, TypeOK
<1>5. CASE LoadTracker
  <2>1. entry \in Entries
        BY <1>5 DEF LoadTracker, Typed, TypeOK
  <2> QED BY <1>1, <1>5, <2>1 DEF LoadTracker, NoRun, Runs, RunPlaces
<1>6. CASE Judge
      BY <1>2, <1>6 DEF Judge, At, Goto, Stop, Runs, RunPlaces, Typed, TypeOK
<1>7. CASE Revalidate
  <2>1. CASE Stop
        BY <1>2, <2>1 DEF Stop
  <2>2. CASE entry # None /\ run' = [run EXCEPT !.seen = entry, !.pc = "compare"]
    <3>1. entry \in Entries /\ run.mode = "main"
          BY <1>7, <2>2 DEF Revalidate, At, Typed, TypeOK
    <3>2. run' \in Runs /\ run'.seen = entry /\ run'.mode = "main"
          BY <2>2, <3>1 DEF Runs, RunPlaces, Typed
    <3> QED BY <2>2, <3>2
  <2> QED BY <1>7, <2>1, <2>2 DEF Revalidate
<1>8. CASE Compare \/ ProbeFirst \/ Reprobe \/ Relook \/ Recompare
      BY <1>2, <1>4, <1>8 DEF Compare, ProbeFirst, Reprobe, Relook, Recompare, At, Stop, RunPlaces
<1>9. CASE TakeIdentity
  <2>1. video # None => video.id \in Ids
        BY DEF Typed, TypeOK, Videos
  <2>2. CASE Stop
        BY <1>2, <2>2 DEF Stop
  <2>3. CASE video # None /\ run' = [run EXCEPT !.id = video.id, !.pc = "probe"]
    <3>1. run' \in Runs /\ run'.pc = "probe" /\ run'.mode = run.mode /\ run'.seen = run.seen
          BY <2>1, <2>3 DEF Runs, RunPlaces, Typed
    <3> QED BY <1>9, <3>1 DEF TakeIdentity, At, Typed, TypeOK
  <2> QED BY <1>9, <2>2, <2>3 DEF TakeIdentity
<1>10. CASE Walk
  <2>1. video # None => video.id \in Ids
        BY DEF Typed, TypeOK, Videos
  <2> QED BY <1>1, <1>3, <1>10, <2>1 DEF Walk, At, NoRun, Runs, RunPlaces
<1>11. CASE ProbeDub
  <2>1. CASE Stop
        BY <1>2, <2>1 DEF Stop
  <2>2. CASE Goto("save")
        BY <1>4, <1>11, <2>2 DEF ProbeDub, At, RunPlaces
  <2>3. CASE run' = [run EXCEPT !.pc = "work", !.walk = 0]
    <3>1. run' \in Runs /\ run'.pc = "work" /\ run'.mode = run.mode
          BY <2>3 DEF Runs, RunPlaces, Typed
    <3> QED BY <1>11, <3>1 DEF ProbeDub
  <2> QED BY <1>11, <2>1, <2>2, <2>3 DEF ProbeDub
<1>12. CASE Work
  <2>1. CASE Stop
        BY <1>2, <2>1 DEF Stop
  <2>2. CASE ~Stop
    <3>1. PICK slot \in Slots : run' = [run EXCEPT !.release = video.release, !.text = video.speech,
                                                   !.slot = slot, !.pc = "reprobe"]
          BY <1>12, <2>2 DEF Work, Slots, MainSlots
    <3>2. video # None /\ video.speech # "none"
          BY <1>12, <2>2 DEF Work
    <3>3. video.release \in Releases /\ video.speech \in Texts
          BY <3>2 DEF Typed, TypeOK, Videos, Speech
    <3>4. run' \in Runs /\ run'.pc = "reprobe" /\ run'.mode = run.mode /\ run'.seen = run.seen
          BY <3>1, <3>3 DEF Runs, RunPlaces, Typed
    <3> QED BY <1>12, <3>4 DEF Work, At, Typed, TypeOK
  <2> QED BY <2>1, <2>2
<1>13. CASE Link
  <2>1. CASE Stop
        BY <1>2, <2>1 DEF Stop
  <2>2. CASE run' = [NoRun EXCEPT !.pc = "wait", !.mode = run.mode]
    <3>1. run' \in Runs /\ run'.pc = "wait"
          BY <1>1, <2>2 DEF NoRun, Runs, RunPlaces, Typed
    <3> QED BY <3>1
  <2> QED BY <1>13, <2>1, <2>2 DEF Link
<1>14. CASE SeeTag \/ SeeGone
      BY <1>4, <1>14 DEF SeeTag, SeeGone, RunPlaces
<1>15. CASE Report \/ ReportDub
      BY <1>1, <1>2, <1>4, <1>15 DEF Report, ReportDub, At, Stop, NoRun, Runs, RunPlaces
<1>16. CASE Drop \/ Settle \/ PipelineTimeout \/ RunKilled
      BY <1>2, <1>16 DEF Drop, Settle, PipelineTimeout, RunKilled, Stop
<1>17. CASE PassBegin \/ PassForced \/ LateBegin \/ PassStep \/ Age \/ Import \/ Remove \/ Bazarr
      BY <1>3, <1>17 DEF PassBegin, PassForced, LateBegin, PassStep, Note, PassSwap, PassTag, PassDelete,
                  PassRecord, PassClear,
                     LateSwap, LateUnlink, PassFails, Age, Import, Remove, Bazarr
<1> QED BY <1>5, <1>6, <1>7, <1>8, <1>9, <1>10, <1>11, <1>12, <1>13, <1>14, <1>15, <1>16, <1>17
        DEF Next, RunStep

(* The ranges of what a pass holds. *)
LEMMA PassType == ASSUME Typed, Next PROVE pass' \in Passes
<1>1. NoPass \in Passes
      BY DEF Passes, NoPass, PassPlaces
<1>2. video # None => video.id \in Ids
      BY DEF Typed, TypeOK, Videos
<1>3. CASE PassBegin
  <2> DEFINE took == Usable \cup {s \in {"forced"} : sidecar[s] # None}
                            \cup {s \in {"dub"} : DubText = "good"}
             noting == [NoPass EXCEPT !.pc = "note", !.id = video.id]
             swapping == [NoPass EXCEPT !.pc = "swap", !.took = took, !.same = took]
  <2>1. took \in SUBSET Slots
        BY DEF Usable, Present, Slots
  <2>2. pass' = noting \/ pass' = swapping
        BY <1>3 DEF PassBegin
  <2>3. video.id \in Ids
        BY <1>2, <1>3 DEF PassBegin, Unsettled
  <2> HIDE DEF took
  <2>4. noting \in Passes
        BY <2>3 DEF NoPass, Passes, PassPlaces
  <2>5. swapping \in Passes
        BY <2>1 DEF NoPass, Passes, PassPlaces
  <2> QED BY <2>2, <2>4, <2>5
<1>4. CASE LateBegin
      BY <1>1, <1>2, <1>4 DEF LateBegin, NoPass, Passes, PassPlaces, Slots
<1>5. CASE PassStep
      BY <1>1, <1>5
         DEF PassStep, Note, PassSwap, PassTag, PassDelete, PassRecord, PassClear, LateSwap, LateUnlink,
             PassFails, Passes, PassPlaces, Typed
<1>6. CASE Bazarr
      BY <1>6 DEF Bazarr, Passes, Typed
<1>7. CASE pass' = pass
      BY <1>7 DEF Typed
<1> QED BY <1>3, <1>4, <1>5, <1>6, <1>7, WhoTouchesWhat

(* The file's ranges; a pass does not remove it. *)
LEMMA VideoType ==
    ASSUME Typed, Next
    PROVE  /\ video' \in Videos \cup {None}
           /\ Note \/ PassSwap \/ PassForced => video' \in Videos
           /\ PassTag \/ LateSwap => video' = video \/ video' \in Videos
<1>1. video \in Videos \cup {None}
      BY DEF Typed, TypeOK
<1>2. Note => video' \in Videos
  <2>1. ASSUME Note PROVE video \in Videos
        BY <1>1, <2>1 DEF Note
  <2> QED BY <2>1, FreshIsFresh DEF Note, Videos
<1>3. PassSwap => video' \in Videos
  <2> SUFFICES ASSUME PassSwap PROVE video' \in Videos
      OBVIOUS
  <2> DEFINE sub == IF "real" \in pass.took \/ video.sub = "main" THEN "main" ELSE "gen"
             dub == "dub" \in pass.took \/ (video.dual /\ video.dub)
  <2>1. video \in Videos
        BY <1>1 DEF PassSwap
  <2>2. video' = [video EXCEPT !.id = FreshId, !.sub = sub, !.dub = dub, !.noted = FALSE]
        BY DEF PassSwap
  <2>3. sub \in Subs /\ dub \in BOOLEAN
        BY DEF Subs
  <2> HIDE DEF sub, dub
  <2> QED BY <2>1, <2>2, <2>3, FreshIsFresh DEF Videos
<1>4. PassTag => video' = video \/ video' \in Videos
  <2>1. ASSUME video # None PROVE video \in Videos
        BY <1>1, <2>1
  <2> QED BY <2>1, FreshIsFresh DEF PassTag, Videos
<1>5. LateSwap => video' = video \/ video' \in Videos
  <2>1. ASSUME video # None PROVE video \in Videos
        BY <1>1, <2>1
  <2> QED BY <2>1, FreshIsFresh DEF LateSwap, Videos
<1>6. Import => video' \in Videos
      BY FreshIsFresh, KindsAssumption DEF Import, Videos, Subs, AllKinds
<1>7. Remove => video' = None
      BY DEF Remove
<1>8. PassForced => video' \in Videos
  <2>1. ASSUME PassForced PROVE video \in Videos
        BY <1>1, <2>1 DEF PassForced, Unsettled
  <2> QED BY <2>1, FreshIsFresh DEF PassForced, Videos
<1> QED BY <1>1, <1>2, <1>3, <1>4, <1>5, <1>6, <1>7, <1>8, WhoTouchesWhat

(* The ranges of all variables. *)
LEMMA TypeStep == Typed /\ [Next]_vars => Typed'
<1> SUFFICES ASSUME Typed, Next PROVE Typed'
    BY DEF vars, Typed, TypeOK, Runs, Passes, NoRun
<1>1. video' \in Videos \cup {None}
      BY VideoType
<1>2. sidecar' \in [Slots -> Texts \cup {None}]
  <2>1. CASE sidecar' = sidecar
        BY <2>1 DEF Typed
  <2>2. CASE Link
        BY <2>2 DEF Link, Typed, Runs
  <2>3. CASE PassBegin \/ LateBegin
        BY <2>3 DEF PassBegin, LateBegin, Quarantine, Typed
  <2>4. CASE PassDelete \/ LateUnlink
        BY <2>4 DEF PassDelete, LateUnlink, Quarantine, Typed
  <2>5. CASE Bazarr
        BY <2>5 DEF Bazarr, Typed, Texts
  <2> QED BY <2>1, <2>2, <2>3, <2>4, <2>5, WhoTouchesWhat
<1>3. entry' \in Entries \cup {None}
  <2>1. CASE entry' = entry
        BY <2>1 DEF Typed, TypeOK
  <2>2. CASE Note
        BY <2>2, FreshIsFresh DEF Note, Entries, Videos, Typed, TypeOK
  <2>3. CASE Age
        BY <2>3 DEF Age, Entries, Typed, TypeOK
  <2>4. CASE Drop \/ PassClear
        BY <2>4 DEF Drop, PassClear, Typed, TypeOK
  <2> QED BY <2>1, <2>2, <2>3, <2>4, WhoTouchesWhat
<1>4. memo' \in Ids \cup {0}
      BY WhoTouchesWhat DEF Walk, Settle, Typed, TypeOK, Runs
<1>5. imported' \subseteq Releases
      BY WhoTouchesWhat DEF Import, Typed, TypeOK
<1>6. run' \in Runs /\ pass' \in Passes
      BY RunType, PassType
<1>7. cached' \in Ids \cup {0}
      BY WhoTouchesWhat DEF PassRecord, LateUnlink, Typed, TypeOK, Videos
<1>8. spent' \subseteq Slots
      BY WhoTouchesWhat DEF Link, PassSwap, Import, Bazarr, Typed, TypeOK
<1>9. marred' \in BOOLEAN
      BY WhoTouchesWhat DEF PassSwap, PassDelete, PassClear, PassFails, Import, Typed, TypeOK
<1> QED BY <1>1, <1>2, <1>3, <1>4, <1>5, <1>6, <1>7, <1>8, <1>9, RunType
        DEF Typed, TypeOK, Runs, NoRun, Passes

-----------------------------------------------------------------------------
(* A step that replaces the file, and is no report: it has an identity that *)
(* nothing mentions.                                                        *)
Replaced ==
    /\ UNCHANGED <<run, memo, entry>>
    /\ video' # None =>
        /\ video'.id \notin {run.id, run.walk, pass.id, memo}
        /\ entry # None => video'.id # entry.id
        /\ run.seen # None => video'.id # run.seen.id
        /\ \/ video # None /\ (video.tag => video'.tag) /\ (video'.noted => video.noted)
           \/ ~video'.noted /\ ~video'.tag

LEMMA VideoStep == ASSUME Typed, Next PROVE video' = video \/ Note \/ Replaced
<1>1. CASE PassSwap
  <2>1. video \in Videos
        BY <1>1 DEF PassSwap, Typed, TypeOK
  <2>2. PICK sub, dub :
            video' = [video EXCEPT !.id = FreshId, !.sub = sub, !.dub = dub, !.noted = FALSE]
        BY <1>1 DEF PassSwap
  <2>3. video'.id = FreshId /\ video'.tag = video.tag /\ ~video'.noted
        BY <2>1, <2>2 DEF Videos
  <2> QED BY <1>1, <2>3, FreshIsFresh DEF PassSwap, Replaced
<1>2. CASE PassTag
  <2>1. CASE video = None
        BY <1>2, <2>1 DEF PassTag
  <2>2. CASE video # None
    <3>1. video \in Videos
          BY <2>2 DEF Typed, TypeOK
    <3>2. video' = video \/ video'.id = FreshId
      <4>1. [video EXCEPT !.id = video.id] = video
            BY <3>1 DEF Videos
      <4>2. video' = [video EXCEPT !.id = video.id] \/ video'.id = FreshId
            BY <1>2, <2>2, <3>1 DEF PassTag, Videos
      <4> QED BY <4>1, <4>2
    <3>3. (video.tag => video'.tag) /\ video'.noted = video.noted
          BY <1>2, <2>2, <3>1 DEF PassTag, Videos
    <3> QED BY <1>2, <2>2, <3>2, <3>3, FreshIsFresh DEF PassTag, Replaced
  <2> QED BY <2>1, <2>2
<1>3. CASE LateSwap
  <2>1. CASE video # None /\ video' = [video EXCEPT !.id = FreshId, !.dub = TRUE]
    <3>1. video \in Videos
          BY <2>1 DEF Typed, TypeOK
    <3>2. video'.id = FreshId /\ video'.tag = video.tag /\ video'.noted = video.noted
          BY <2>1, <3>1 DEF Videos
    <3> QED BY <1>3, <2>1, <3>2, FreshIsFresh DEF LateSwap, Replaced
  <2> QED BY <1>3, <2>1 DEF LateSwap
<1>4. CASE Import
  <2>1. video'.id = FreshId /\ ~video'.noted /\ ~video'.tag
        BY <1>4 DEF Import
  <2> QED BY <1>4, <2>1, FreshIsFresh DEF Import, Replaced
<1>5. CASE Remove
      BY <1>5 DEF Remove, Replaced
<1>6. CASE PassForced
  <2>1. video \in Videos
        BY <1>6 DEF PassForced, Unsettled, Typed, TypeOK
  <2>2. video'.id = FreshId /\ video'.tag = video.tag /\ video'.noted = video.noted
        BY <1>6, <2>1 DEF PassForced, Videos
  <2> QED BY <1>6, <2>2, FreshIsFresh DEF PassForced, Unsettled, Replaced
<1> QED BY <1>1, <1>2, <1>3, <1>4, <1>5, <1>6, WhoTouchesWhat

(* What a report does to the file and to its entry. *)
LEMMA NoteStep ==
    ASSUME Typed, Note
    PROVE  /\ UNCHANGED <<run, memo>> /\ pass' = NoPass /\ pass.pc = "note"
           /\ video # None /\ video' # None /\ video'.noted
           /\ video'.release = video.release /\ video'.tag = video.tag
           /\ video'.dual = video.dual /\ video'.dub = video.dub
           /\ video'.id # video.id =>
                  /\ video'.id \notin {run.id, run.walk, pass.id, memo}
                  /\ run.seen # None => video'.id # run.seen.id
           /\ entry' # None /\ entry'.id = video'.id
           /\ \/ entry # None /\ entry.id = pass.id /\ entry'.since = entry.since
              \/ entry'.since = video.release
<1>1. video \in Videos
      BY DEF Note, Typed, TypeOK
<1>2. FreshId \in Ids /\ video.id \in Ids /\ video.release \in Releases
      BY <1>1, FreshIsFresh DEF Videos
<1> DEFINE same == entry # None /\ entry.id = pass.id
           id == IF video.clean THEN video.id ELSE FreshId
           since == IF same THEN entry.since ELSE video.release
           old == same /\ entry.old
<1>3. /\ video' = [video EXCEPT !.noted = TRUE, !.id = id, !.clean = TRUE]
      /\ entry' = [id |-> id, since |-> since, old |-> old]
      BY DEF Note
<1>4. id \in Ids /\ (id = video.id \/ id = FreshId)
      BY <1>2
<1>5. since \in Releases
      BY <1>2 DEF Typed, TypeOK, Entries
<1>6. (entry # None /\ entry.id = pass.id /\ since = entry.since) \/ since = video.release
      OBVIOUS
<1>7. old \in BOOLEAN
      OBVIOUS
<1> HIDE DEF same, id, since, old
<1>8. video' \in Videos /\ entry' \in Entries
      BY <1>1, <1>3, <1>4, <1>5, <1>7 DEF Videos, Entries
<1>9. /\ video'.noted /\ video'.release = video.release /\ video'.tag = video.tag
      /\ video'.dual = video.dual /\ video'.dub = video.dub /\ video'.id = id
      /\ entry'.id = id /\ entry'.since = since
      BY <1>1, <1>3 DEF Videos
<1>10. UNCHANGED <<run, memo>> /\ pass' = NoPass /\ pass.pc = "note" /\ video # None
       BY DEF Note
<1>11. video' # None /\ entry' # None
       BY <1>8, NoneAssumption
<1> QED BY <1>4, <1>6, <1>9, <1>10, <1>11, FreshIsFresh

-----------------------------------------------------------------------------
(* Every step preserves the inductive invariant. *)

(* What going to the next place leaves alone. *)
LEMMA GotoMoves ==
    ASSUME Typed, NEW place, Goto(place)
    PROVE  /\ run'.pc = place
           /\ run'.mode = run.mode /\ run'.seen = run.seen /\ run'.walk = run.walk
           /\ run'.id = run.id /\ run'.release = run.release /\ run'.outcome = run.outcome
<1>1. run \in Runs
      BY DEF Typed
<1>2. run' = [run EXCEPT !.pc = place]
      BY DEF Goto
<1> QED BY <1>1, <1>2 DEF Runs

(* The places that a run's step leads to. *)
LEMMA RunMoves ==
    ASSUME Typed
    PROVE  /\ Stop \/ PipelineTimeout \/ RunKilled \/ Drop \/ Settle => run' = NoRun
           /\ LoadTracker => run'.pc = "judge"
           /\ Judge => run'.pc = "drop" \/ run'.pc = "revalidate" \/ run' = NoRun
           /\ Revalidate => run'.pc = "compare" \/ run' = NoRun
           /\ Compare => run'.pc = "identify" \/ run' = NoRun
           /\ TakeIdentity => run'.pc = "probe" \/ run' = NoRun
           /\ ProbeFirst => run'.pc = "work" \/ run' = NoRun
           /\ Walk => run'.pc = "identify" \/ run' = run
           /\ ProbeDub => run'.pc = "save" \/ run'.pc = "work" \/ run' = NoRun
           /\ Work => run'.pc = "reprobe" \/ run' = NoRun
           /\ Reprobe => run'.pc = "relook" \/ run' = NoRun
           /\ Relook => run'.pc = "recompare" \/ run' = NoRun
           /\ Recompare => run'.pc = "link" \/ run' = NoRun
           /\ Link => run'.pc = "wait" \/ run' = NoRun
           /\ SeeTag \/ SeeGone => run'.pc = "lock"
           /\ Report \/ ReportDub => run'.pc = "wait" \/ run'.pc = "idle"
<1>1. Stop \/ PipelineTimeout \/ RunKilled \/ Drop \/ Settle => run' = NoRun
      BY DEF Stop, PipelineTimeout, RunKilled, Drop, Settle
<1>2. LoadTracker => run'.pc = "judge"
      BY DEF LoadTracker, NoRun
<1>3. ASSUME NEW place, Goto(place) PROVE run'.pc = place
      BY <1>3, GotoMoves
<1>4. run \in Runs
      BY DEF Typed
<1>5. Judge => run'.pc = "drop" \/ run'.pc = "revalidate" \/ run' = NoRun
      BY <1>1, <1>3 DEF Judge
<1>6. Revalidate => run'.pc = "compare" \/ run' = NoRun
      BY <1>1, <1>4 DEF Revalidate, Runs
<1>7. Compare => run'.pc = "identify" \/ run' = NoRun
      BY <1>1, <1>3 DEF Compare
<1>8. TakeIdentity => run'.pc = "probe" \/ run' = NoRun
      BY <1>1, <1>4 DEF TakeIdentity, Runs
<1>9. ProbeFirst => run'.pc = "work" \/ run' = NoRun
      BY <1>1, <1>3 DEF ProbeFirst
<1>10. Walk => run'.pc = "identify" \/ run' = run
       BY DEF Walk, NoRun
<1>11. ProbeDub => run'.pc = "save" \/ run'.pc = "work" \/ run' = NoRun
  <2>1. run' = [run EXCEPT !.pc = "work", !.walk = 0] => run'.pc = "work"
        BY <1>4 DEF Runs
  <2> QED BY <1>1, <1>3, <2>1 DEF ProbeDub
<1>12. Work => run'.pc = "reprobe" \/ run' = NoRun
       BY <1>1, <1>4 DEF Work, Runs
<1>13. Reprobe => run'.pc = "relook" \/ run' = NoRun
       BY <1>1, <1>3 DEF Reprobe
<1>14. Relook => run'.pc = "recompare" \/ run' = NoRun
       BY <1>1, <1>3 DEF Relook
<1>15. Recompare => run'.pc = "link" \/ run' = NoRun
       BY <1>1, <1>3 DEF Recompare
<1>16. Link => run'.pc = "wait" \/ run' = NoRun
       BY <1>1 DEF Link, NoRun
<1>17. SeeTag \/ SeeGone => run'.pc = "lock"
       BY <1>3 DEF SeeTag, SeeGone
<1>18. Report \/ ReportDub => run'.pc = "wait" \/ run'.pc = "idle"
       BY <1>1, <1>3 DEF Report, ReportDub, NoRun
<1> QED BY <1>1, <1>2, <1>5, <1>6, <1>7, <1>8, <1>9, <1>10, <1>11, <1>12, <1>13, <1>14, <1>15,
           <1>16, <1>17, <1>18

(* The steps that lead to a place of the run. *)
LEMMA ComesFrom ==
    ASSUME Typed, Next, run' # run
    PROVE  /\ run'.pc = "drop" => Judge
           /\ run'.pc = "compare" => Revalidate
           /\ run'.pc = "identify" => Compare \/ Walk
           /\ run'.pc = "probe" => TakeIdentity
           /\ run'.pc = "work" => ProbeFirst \/ ProbeDub
           /\ run'.pc = "save" => ProbeDub
           /\ run'.pc = "reprobe" => Work
           /\ run'.pc = "relook" => Reprobe
           /\ run'.pc = "recompare" => Relook
           /\ run'.pc = "link" => Recompare
           /\ run'.pc = "lock" => SeeTag \/ SeeGone
<1>1. NoRun.pc = "idle"
      BY DEF NoRun
<1> QED BY <1>1, RunMoves, WhoTouchesWhat DEF RunStep

(* The places that a pass's step leads to. *)
LEMMA PassMoves ==
    ASSUME Typed
    PROVE  /\ PassBegin => pass'.pc = "note" \/ pass'.pc = "swap"
           /\ LateBegin => pass'.pc = "late" \/ pass'.pc = "idle"
           /\ Note \/ PassClear \/ LateUnlink \/ PassFails => pass'.pc = "idle"
           /\ PassSwap => pass'.pc = "tag"
           /\ PassTag => pass'.pc = "delete"
           /\ PassDelete => pass'.pc = "record"
           /\ PassRecord => pass'.pc = "clear"
           /\ LateSwap => pass'.pc = "unlink" \/ pass'.pc = "idle"
           /\ Bazarr => pass'.pc = pass.pc /\ pass'.id = pass.id
<1>1. pass \in Passes
      BY DEF Typed
<1>2. PassBegin => pass'.pc = "note" \/ pass'.pc = "swap"
  <2>1. ASSUME NEW took PROVE [NoPass EXCEPT !.pc = "swap", !.took = took, !.same = took].pc = "swap"
        BY DEF NoPass
  <2>2. ASSUME NEW i PROVE [NoPass EXCEPT !.pc = "note", !.id = i].pc = "note"
        BY DEF NoPass
  <2> QED BY <2>1, <2>2 DEF PassBegin
<1>3. LateBegin => pass'.pc = "late" \/ pass'.pc = "idle"
      BY DEF LateBegin, NoPass
<1>4. Note \/ PassClear \/ LateUnlink \/ PassFails => pass'.pc = "idle"
      BY DEF Note, PassClear, LateUnlink, PassFails, NoPass
<1>5. PassSwap => pass'.pc = "tag"
      BY <1>1 DEF PassSwap, Passes
<1>6. PassTag => pass'.pc = "delete"
      BY <1>1 DEF PassTag, Passes
<1>7. PassDelete => pass'.pc = "record"
      BY <1>1 DEF PassDelete, Passes
<1>10. PassRecord => pass'.pc = "clear"
       BY <1>1 DEF PassRecord, Passes
<1>8. LateSwap => pass'.pc = "unlink" \/ pass'.pc = "idle"
      BY <1>1 DEF LateSwap, Passes, NoPass
<1>9. Bazarr => pass'.pc = pass.pc /\ pass'.id = pass.id
      BY <1>1 DEF Bazarr, Passes
<1> QED BY <1>2, <1>3, <1>4, <1>5, <1>6, <1>7, <1>8, <1>9, <1>10

(* Only a report makes an entry. *)
LEMMA EntryStep ==
    ASSUME Typed, Next
    PROVE  \/ entry' = entry \/ entry' = None \/ Note
           \/ /\ entry # None /\ entry' # None
              /\ entry'.id = entry.id /\ entry'.since = entry.since
<1>1. CASE Drop \/ PassClear
      BY <1>1 DEF Drop, PassClear
<1>2. CASE Age
  <2>1. entry \in Entries
        BY <1>2 DEF Age, Typed, TypeOK
  <2>2. entry' \in Entries /\ entry'.id = entry.id /\ entry'.since = entry.since
        BY <1>2, <2>1 DEF Age, Entries
  <2> QED BY <1>2, <2>2, NoneAssumption DEF Age
<1> QED BY <1>1, <1>2, WhoTouchesWhat

LEMMA NotedStep == ASSUME IInv, Next PROVE NotedStaysListed'
<1>1. CASE Note
      BY <1>1, NoteStep DEF IInv, NotedStaysListed
<1>2. CASE Replaced
      BY <1>2 DEF Replaced, IInv, NotedStaysListed
<1>3. CASE video' = video
  <2>1. SUFFICES ASSUME video # None, video.noted, ~video.tag PROVE entry' # None
        BY <1>3 DEF NotedStaysListed
  <2>2. entry # None
        BY <2>1 DEF IInv, NotedStaysListed
  <2>3. CASE Drop
        BY <2>1, <2>2, <2>3 DEF Drop, IInv, DroppedIsStale
  <2>4. CASE PassClear
        BY <2>1, <2>2, <2>4 DEF PassClear, IInv, SwappedIsUnnoted
  <2>5. CASE Age
    <3>1. entry' \in Entries
          BY <2>5 DEF Age, IInv, Typed, TypeOK, Entries
    <3> QED BY <3>1, NoneAssumption
  <2>6. CASE Note
        BY <2>6, NoteStep DEF IInv
  <2> QED BY <2>2, <2>3, <2>4, <2>5, <2>6, WhoTouchesWhat
<1> QED BY <1>1, <1>2, <1>3, VideoStep DEF IInv

LEMMA MemoStep == ASSUME IInv, Next PROVE MemoHidesNone'
<1>1. CASE Note
      BY <1>1, NoteStep DEF IInv, MemoHidesNone
<1>2. CASE Replaced
      BY <1>2 DEF Replaced, MemoHidesNone
<1>3. CASE video' = video
  <2>1. CASE memo' = memo
        BY <1>3, <2>1 DEF IInv, MemoHidesNone
  <2>2. CASE Walk
        BY <1>3, <2>1, <2>2 DEF Walk, MemoHidesNone
  <2>3. CASE Settle
        BY <1>3, <2>3 DEF Settle, IInv, SavedIsSettled, MemoHidesNone
  <2> QED BY <2>1, <2>2, <2>3, WhoTouchesWhat
<1> QED BY <1>1, <1>2, <1>3, VideoStep DEF IInv

LEMMA SavedStep == ASSUME IInv, Next PROVE SavedIsSettled'
<1>1. CASE Note
      BY <1>1, NoteStep DEF IInv, SavedIsSettled, At
<1>2. CASE Replaced
      BY <1>2 DEF Replaced, SavedIsSettled, At
<1>3. CASE UNCHANGED <<video, run>>
      BY <1>3 DEF IInv, SavedIsSettled, At
<1>4. CASE video' = video /\ run' # run
  <2>1. SUFFICES ASSUME run'.pc = "save", video # None
                 PROVE  ~video.tag \/ ~video.dual \/ video.dub
        BY <1>4 DEF SavedIsSettled, At
  <2>2. ProbeDub
        BY <1>4, <2>1, ComesFrom DEF IInv
  <2>3. Stop => run'.pc = "idle"
        BY DEF Stop, NoRun
  <2>4. run' = [run EXCEPT !.pc = "work", !.walk = 0] => run'.pc = "work"
        BY DEF IInv, Typed, Runs
  <2> QED BY <2>1, <2>2, <2>3, <2>4 DEF ProbeDub
<1> QED BY <1>1, <1>2, <1>3, <1>4, VideoStep DEF IInv

LEMMA DroppedStep == ASSUME IInv, Next PROVE DroppedIsStale'
<1>1. SUFFICES ASSUME run'.pc = "drop", video' # None, ~video'.tag
               PROVE  /\ video'.id # run'.seen.id
                      /\ video'.noted /\ entry' # None => entry'.id # run'.seen.id
      BY DEF DroppedIsStale, At
<1>2. CASE run' # run
  <2>1. Judge
        BY <1>1, <1>2, ComesFrom DEF IInv
  <2>2. ~Stop /\ ~Goto("revalidate")
        BY <1>1, GotoMoves DEF Stop, NoRun, IInv
  <2> QED BY <1>1, <2>1, <2>2 DEF Judge, Private
<1>3. CASE run' = run
  <2>1. run.pc = "drop" /\ run.seen # None
        BY <1>1, <1>3 DEF IInv, Typed, TypeOK
  <2>2. CASE Note
        BY <1>1, <1>3, <2>1, <2>2, NoteStep DEF IInv, DroppedIsStale, At
  <2>3. CASE Replaced
        BY <1>1, <1>3, <2>1, <2>3 DEF Replaced, IInv, DroppedIsStale, At
  <2>4. CASE video' = video /\ ~Note
    <3>1. /\ video.id # run.seen.id
          /\ video.noted /\ entry # None => entry.id # run.seen.id
          BY <1>1, <2>1, <2>4 DEF IInv, DroppedIsStale, At
    <3>2. entry' = entry \/ entry' = None \/ (entry # None /\ entry'.id = entry.id)
          BY <2>4, EntryStep DEF IInv
    <3> QED BY <1>3, <2>4, <3>1, <3>2
  <2> QED BY <2>2, <2>3, <2>4, VideoStep DEF IInv
<1> QED BY <1>2, <1>3

LEMMA SwappedStep == ASSUME IInv, Next PROVE SwappedIsUnnoted'
<1>1. SUFFICES ASSUME pass'.pc \in {"tag", "delete", "record", "clear"}, video' # None
               PROVE  ~video'.noted
      BY DEF SwappedIsUnnoted
<1>2. CASE PassSwap
  <2>1. video \in Videos
        BY <1>2 DEF PassSwap, IInv, Typed, TypeOK
  <2> QED BY <1>2, <2>1 DEF PassSwap, Videos
<1>3. CASE ~PassSwap
  <2>1. pass.pc \in {"tag", "delete", "record", "clear"}
    <3>1. /\ PassTag => pass.pc = "tag"
          /\ PassDelete => pass.pc = "delete"
          /\ PassRecord => pass.pc = "record"
          BY DEF PassTag, PassDelete, PassRecord
    <3> QED BY <1>1, <1>3, <3>1, PassMoves, WhoTouchesWhat DEF PassStep, IInv
  <2>2. CASE video' = video
        BY <1>1, <2>1, <2>2 DEF IInv, SwappedIsUnnoted
  <2>3. CASE Note
        BY <2>1, <2>3 DEF Note
  <2>4. CASE Replaced
        BY <1>1, <2>1, <2>4 DEF Replaced, IInv, SwappedIsUnnoted
  <2> QED BY <2>2, <2>3, <2>4, VideoStep DEF IInv
<1> QED BY <1>2, <1>3

LEMMA PassedStep == ASSUME IInv, Next PROVE PassedIsUntagged'
<1>1. SUFFICES ASSUME pass'.pc \in {"note", "swap", "tag"}, video' # None PROVE ~video'.tag
      BY DEF PassedIsUntagged
<1>2. CASE PassBegin
      BY <1>1, <1>2 DEF PassBegin, Unsettled
<1>3. CASE PassSwap
  <2>1. video \in Videos /\ pass.pc = "swap"
        BY <1>3 DEF PassSwap, IInv, Typed, TypeOK
  <2>2. ~video.tag
        BY <1>3, <2>1 DEF PassSwap, IInv, PassedIsUntagged
  <2> QED BY <1>3, <2>1, <2>2 DEF PassSwap, Videos
<1>4. CASE ~PassBegin /\ ~PassSwap
  <2>1. pass.pc \in {"note", "swap", "tag"} /\ ~Note /\ ~PassTag
    <3>1. pass' = pass \/ Bazarr
          BY <1>1, <1>4, PassMoves, WhoTouchesWhat DEF PassStep, IInv
    <3>2. pass.pc \in {"note", "swap", "tag"}
          BY <1>1, <3>1, PassMoves DEF IInv
    <3> QED BY <1>1, <3>2, PassMoves DEF IInv
  <2>2. CASE video' = video
        BY <1>1, <2>1, <2>2 DEF IInv, PassedIsUntagged
  <2>3. CASE LateSwap
        BY <2>1, <2>3 DEF LateSwap
  <2>4. CASE PassForced
        BY <2>1, <2>4 DEF PassForced, Unsettled
  <2>5. CASE Import \/ Remove
        BY <1>1, <2>5 DEF Import, Remove
  <2> QED BY <1>4, <2>1, <2>2, <2>3, <2>4, <2>5, WhoTouchesWhat
<1> QED BY <1>2, <1>3, <1>4

LEMMA TextStep == ASSUME IInv, Next PROVE TextIsOfRelease'
<1>1. SUFFICES ASSUME run'.pc \in {"reprobe", "relook", "recompare"},
                      video' # None, video'.id = run'.id
               PROVE  run'.release = video'.release
      BY DEF TextIsOfRelease
<1>2. CASE run' # run
  <2>1. Work \/ Reprobe \/ Relook
        BY <1>1, <1>2, ComesFrom DEF IInv
  <2>2. CASE Work
    <3>1. NoRun.pc = "idle"
          BY DEF NoRun
    <3> QED BY <1>1, <2>2, <3>1 DEF Work, Stop, Private, IInv, Typed, Runs
  <2>3. CASE Reprobe
    <3>1. Goto("relook")
          BY <1>1, <2>3 DEF Reprobe, Stop, NoRun
    <3> QED BY <1>1, <2>3, <3>1, GotoMoves DEF Reprobe, Private, At, IInv, TextIsOfRelease
  <2>4. CASE Relook
    <3>1. Goto("recompare")
          BY <1>1, <2>4 DEF Relook, Stop, NoRun
    <3> QED BY <1>1, <2>4, <3>1, GotoMoves DEF Relook, Private, At, IInv, TextIsOfRelease
  <2> QED BY <2>1, <2>2, <2>3, <2>4
<1>3. CASE run' = run
  <2>1. CASE Note
        BY <1>1, <1>3, <2>1, NoteStep DEF IInv, TextIsOfRelease
  <2>2. CASE Replaced
        BY <1>1, <1>3, <2>2 DEF Replaced
  <2>3. CASE video' = video
        BY <1>1, <1>3, <2>3 DEF IInv, TextIsOfRelease
  <2> QED BY <2>1, <2>2, <2>3, VideoStep DEF IInv
<1> QED BY <1>2, <1>3

(* Only the swap adds to what has gone into the video, and what is written *)
(* again is no longer of it.                                               *)
LEMMA SpentStep ==
    ASSUME Typed, Next, ~PassSwap
    PROVE  /\ spent' \subseteq spent
           /\ \A s \in spent' : sidecar'[s] = sidecar[s] \/ sidecar'[s] = None
<1>1. sidecar \in [Slots -> Texts \cup {None}] /\ spent \subseteq Slots
      BY DEF Typed, TypeOK
<1>2. CASE Link
      BY <1>1, <1>2 DEF Link
<1>3. CASE Bazarr
      BY <1>1, <1>3 DEF Bazarr
<1>4. CASE Import
      BY <1>4 DEF Import
<1>5. CASE UNCHANGED spent
  <2>1. CASE PassBegin \/ LateBegin \/ PassDelete \/ LateUnlink
        BY <1>1, <1>5, <2>1 DEF PassBegin, LateBegin, PassDelete, LateUnlink, Quarantine
  <2> QED BY <1>2, <1>3, <1>5, <2>1, WhoTouchesWhat
<1> QED BY <1>2, <1>3, <1>4, <1>5, WhoTouchesWhat

(* What was gone stays so. *)
LEMMA GoneStays ==
    ASSUME Typed, Next, ~PassSwap, Gone(spent)
    PROVE  Gone(spent)'
<1> QED BY SpentStep DEF Gone

LEMMA SameStep == ASSUME IInv, Next PROVE SpentIsSame'
<1>1. SUFFICES ASSUME pass'.pc \in {"tag", "delete"} PROVE spent' \subseteq pass'.same
      BY DEF SpentIsSame
<1>2. pass \in Passes
      BY DEF IInv, Typed
<1>3. CASE PassSwap
      BY <1>2, <1>3 DEF PassSwap, Passes
<1>4. CASE PassTag
  <2>1. pass'.same = pass.same /\ pass.pc = "tag"
        BY <1>2, <1>4 DEF PassTag, Passes
  <2>2. spent' = spent
        BY <1>4 DEF PassTag, ghosts
  <2> QED BY <2>1, <2>2 DEF IInv, SpentIsSame
<1>5. CASE ~PassSwap /\ ~PassTag
  <2>1. pass' = pass \/ Bazarr
        BY <1>1, <1>5, PassMoves, WhoTouchesWhat DEF PassStep, IInv
  <2>2. pass.pc \in {"tag", "delete"}
        BY <1>1, <2>1, PassMoves DEF IInv
  <2>3. spent \subseteq pass.same
        BY <2>2 DEF IInv, SpentIsSame
  <2>4. CASE Bazarr
        BY <1>2, <2>3, <2>4 DEF Bazarr, Passes
  <2>5. CASE pass' = pass
        BY <1>5, <2>3, <2>5, SpentStep DEF IInv
  <2> QED BY <2>1, <2>4, <2>5
<1> QED BY <1>3, <1>4, <1>5

LEMMA GoneStep == ASSUME IInv, Next PROVE SpentIsGone'
<1>1. SUFFICES ASSUME pass'.pc \in {"record", "clear"}, ~marred' PROVE Gone(spent)'
      BY DEF SpentIsGone
<1>2. ~PassSwap /\ ~PassTag
      BY <1>1, PassMoves DEF IInv
<1>3. CASE PassDelete
  <2>1. /\ sidecar' = [s \in Slots |-> IF s \in pass.same THEN None ELSE sidecar[s]]
        /\ spent' = spent /\ pass.pc = "delete"
        BY <1>1, <1>3 DEF PassDelete, Quarantine
  <2>2. spent \subseteq pass.same /\ spent \subseteq Slots
        BY <2>1 DEF IInv, SpentIsSame, Typed, TypeOK
  <2> QED BY <2>1, <2>2 DEF Gone
<1>4. CASE ~PassDelete
  <2>1. CASE Import
        BY <2>1 DEF Import, Gone
  <2>2. CASE ~Import
    <3>1. ~PassClear /\ ~PassFails
          BY <1>1, PassMoves DEF IInv
    <3>2. marred' = marred
          BY <1>2, <1>4, <2>2, <3>1, WhoTouchesWhat
    <3>3. pass.pc \in {"record", "clear"}
      <4>1. PassRecord => pass.pc = "record"
            BY DEF PassRecord
      <4> QED BY <1>1, <1>2, <1>4, <4>1, PassMoves, WhoTouchesWhat DEF PassStep, IInv
    <3> QED BY <1>1, <1>2, <3>2, <3>3, GoneStays DEF IInv, SpentIsGone
  <2> QED BY <2>1, <2>2
<1> QED BY <1>3, <1>4

LEMMA DoneStep == ASSUME IInv, Next PROVE TaggedIsDone'
<1>1. SUFFICES ASSUME video' # None, video'.tag, ~marred',
                      pass'.pc \notin {"delete", "record", "clear"}
               PROVE  entry' = None /\ Gone(spent)'
      BY DEF TaggedIsDone
<1>2. ~Import /\ ~Remove
      BY <1>1 DEF Import, Remove
<1>3. ~PassTag /\ ~PassDelete /\ ~PassRecord
      BY <1>1, PassMoves DEF IInv
<1>4. ~Note
      BY <1>1, NoteStep DEF IInv, PassedIsUntagged
<1>5. ~PassSwap
      BY <1>1, PassMoves, PassedStep DEF IInv, PassedIsUntagged
<1>6. video # None /\ video.tag
  <2>1. CASE LateSwap
    <3>1. video # None => video \in Videos
          BY DEF IInv, Typed, TypeOK
    <3> QED BY <1>1, <2>1, <3>1 DEF LateSwap, Videos
  <2>2. CASE PassForced
    <3>1. video \in Videos
          BY <2>2 DEF PassForced, Unsettled, IInv, Typed, TypeOK
    <3> QED BY <1>1, <2>2, <3>1 DEF PassForced, Unsettled, Videos
  <2> QED BY <1>1, <1>2, <1>3, <1>4, <1>5, <2>1, <2>2, WhoTouchesWhat
<1>7. CASE PassClear
  <2>1. /\ entry' = None /\ marred' = marred /\ pass.pc = "clear"
        BY <1>1, <1>7 DEF PassClear
  <2> QED BY <1>1, <1>5, <2>1, GoneStays DEF IInv, SpentIsGone
<1>8. CASE ~PassClear
  <2>1. ~marred /\ pass.pc \notin {"delete", "record", "clear"}
    <3>1. CASE PassFails
          BY <1>1, <3>1 DEF PassFails
    <3>2. CASE ~PassFails
      <4>1. marred' = marred
            BY <1>2, <1>3, <1>5, <1>8, <3>2, WhoTouchesWhat
      <4>2. pass.pc \notin {"delete", "record", "clear"}
        <5>1. /\ PassBegin \/ LateBegin => pass.pc = "idle"
              /\ LateSwap => pass.pc = "late"
              /\ LateUnlink => pass.pc = "unlink"
              BY DEF PassBegin, Unsettled, LateBegin, LateSwap, LateUnlink
        <5> QED BY <1>1, <1>3, <1>4, <1>5, <1>8, <3>2, <5>1, PassMoves, WhoTouchesWhat
                DEF PassStep, IInv
      <4> QED BY <1>1, <4>1, <4>2
    <3> QED BY <3>1, <3>2
  <2>2. entry = None /\ Gone(spent)
        BY <1>6, <2>1 DEF IInv, TaggedIsDone
  <2>3. entry' = None
        BY <1>4, <2>2, EntryStep DEF IInv
  <2> QED BY <1>5, <2>2, <2>3, GoneStays DEF IInv
<1> QED BY <1>7, <1>8

LEMMA StepInv == IInv /\ [Next]_vars => IInv'
<1>1. ASSUME IInv, Next PROVE IInv'
      BY <1>1, TypeStep, NotedStep, MemoStep, SavedStep, DroppedStep, SwappedStep, PassedStep,
         SameStep, GoneStep, DoneStep, TextStep DEF IInv
<1>2. ASSUME IInv, UNCHANGED vars PROVE IInv'
      BY <1>2 DEF vars, IInv, Typed, TypeOK, Runs, Passes, NoRun, At, NotedStaysListed, MemoHidesNone,
         SavedIsSettled, DroppedIsStale, SwappedIsUnnoted, PassedIsUntagged, SpentIsSame, SpentIsGone,
         TaggedIsDone, Gone, TextIsOfRelease
<1> QED BY <1>1, <1>2

LEMMA Invariant == Spec => []IInv
<1> QED BY InitInv, StepInv, PTL DEF Spec

(* The values of the variables, in every state. *)
THEOREM TypeCorrect == Spec => []TypeOK
<1>1. IInv => TypeOK
      BY DEF IInv, Typed
<1> QED BY <1>1, Invariant, PTL

(* A file that a pass has just reported is not taken off the list by a run  *)
(* that judged the entry before it (drop_stale_entries), nor by a pass that *)
(* clears the entry of the release before it.                               *)
THEOREM NotedListed == Spec => []NotedStaysListed
<1>1. IInv => NotedStaysListed
      BY DEF IInv
<1> QED BY <1>1, Invariant, PTL

(* What run_dub remembers is never a file without a dub subtitle. *)
THEOREM MemoRight == Spec => []MemoHidesNone
<1>1. IInv => MemoHidesNone
      BY DEF IInv
<1> QED BY <1>1, Invariant, PTL

-----------------------------------------------------------------------------
(* What is placed and reported. *)

(* Only an import changes the release or takes the tag off, and only it or  *)
(* a removal takes the file away.                                           *)
LEMMA OnlyImports ==
    ASSUME Typed, Next, ~MayImport
    PROVE  \/ video' = video
           \/ /\ video # None /\ video' # None
              /\ video'.release = video.release
              /\ video.tag => video'.tag
<1>1. ~Import /\ ~Remove
      BY DEF Import, Remove
<1>2. CASE Note
      BY <1>2, NoteStep
<1>3. CASE PassSwap
  <2>1. video \in Videos
        BY <1>3 DEF PassSwap, Typed, TypeOK
  <2>2. PICK sub, dub :
            video' = [video EXCEPT !.id = FreshId, !.sub = sub, !.dub = dub, !.noted = FALSE]
        BY <1>3 DEF PassSwap
  <2>3. video'.release = video.release /\ video'.tag = video.tag
        BY <2>1, <2>2 DEF Videos
  <2> QED BY <1>3, <2>1, <2>3, VideoType, NoneAssumption
<1>4. CASE PassTag /\ video' # video
  <2>1. video \in Videos
        BY <1>4 DEF PassTag, Typed, TypeOK
  <2>2. video'.release = video.release /\ (video.tag => video'.tag)
        BY <1>4, <2>1 DEF PassTag, Videos
  <2> QED BY <1>4, <2>1, <2>2, VideoType, NoneAssumption
<1>5. CASE LateSwap /\ video' # video
  <2>1. video \in Videos /\ video' = [video EXCEPT !.id = FreshId, !.dub = TRUE]
        BY <1>5 DEF LateSwap, Typed, TypeOK
  <2>2. video'.release = video.release /\ video'.tag = video.tag
        BY <2>1 DEF Videos
  <2> QED BY <1>5, <2>1, <2>2, VideoType, NoneAssumption
<1>6. CASE PassForced
  <2>1. video \in Videos
        BY <1>6 DEF PassForced, Unsettled, Typed, TypeOK
  <2>2. video'.release = video.release /\ video'.tag = video.tag
        BY <1>6, <2>1 DEF PassForced, Videos
  <2> QED BY <1>6, <2>1, <2>2, VideoType, NoneAssumption
<1> QED BY <1>1, <1>2, <1>3, <1>4, <1>5, <1>6, WhoTouchesWhat

(* The run's copy of the entry is always one that it has read. *)
LEMMA SeenStep ==
    ASSUME Typed, Next, run' # run
    PROVE  run'.seen = run.seen \/ run'.seen = None \/ run'.seen = entry
<1> DEFINE Same == run'.seen = run.seen \/ run'.seen = None \/ run'.seen = entry
<1>1. NoRun.seen = None
      BY DEF NoRun
<1>2. ASSUME NEW place, Goto(place) PROVE run'.seen = run.seen
      BY <1>2, GotoMoves
<1>3. run \in Runs
      BY DEF Typed
<1>4. Stop \/ (\E place : Goto(place)) => Same
      BY <1>1, <1>2 DEF Stop
<1>5. LoadTracker => Same
      BY DEF LoadTracker, NoRun
<1>6. Judge \/ Drop \/ Compare \/ ProbeFirst \/ Settle \/ Reprobe \/ Relook \/ Recompare => Same
      BY <1>4 DEF Judge, Drop, Compare, ProbeFirst, Settle, Reprobe, Relook, Recompare
<1>7. Revalidate => Same
      BY <1>3, <1>4 DEF Revalidate, Runs
<1>8. TakeIdentity => Same
      BY <1>3, <1>4 DEF TakeIdentity, Runs
<1>9. ProbeDub => Same
  <2>1. run' = [run EXCEPT !.pc = "work", !.walk = 0] => Same
        BY <1>3 DEF Runs
  <2> QED BY <1>4, <2>1 DEF ProbeDub
<1>10. Walk \/ Link => Same
       BY <1>4 DEF Walk, Link, NoRun
<1>11. Work => Same
       BY <1>3, <1>4 DEF Work, Runs
<1>12. Report \/ ReportDub => Same
       BY <1>1, <1>4 DEF Report, ReportDub, NoRun
<1>13. SeeTag \/ SeeGone \/ PipelineTimeout \/ RunKilled => Same
       BY <1>4 DEF SeeTag, SeeGone, PipelineTimeout, RunKilled
<1> QED BY <1>5, <1>6, <1>7, <1>8, <1>9, <1>10, <1>11, <1>12, <1>13, WhoTouchesWhat DEF RunStep

(* Only a report's end changes the outcome. *)
LEMMA OutcomeStep ==
    ASSUME Typed, Next, run'.outcome = "fixed", run.outcome # "fixed"
    PROVE  Report \/ ReportDub
<1>1. NoRun.outcome = "none"
      BY DEF NoRun
<1>2. ASSUME NEW place, Goto(place) PROVE run'.outcome = run.outcome
      BY <1>2, GotoMoves
<1>3. run \in Runs
      BY DEF Typed
<1>4. ~Stop /\ ~(\E place : Goto(place)) /\ run' # run
      BY <1>1, <1>2 DEF Stop
<1>5. ~LoadTracker /\ ~Judge /\ ~Drop /\ ~Compare /\ ~ProbeFirst
      BY <1>1, <1>4 DEF LoadTracker, Judge, Drop, Compare, ProbeFirst, NoRun
<1>6. ~Revalidate
      BY <1>3, <1>4 DEF Revalidate, Runs
<1>7. ~TakeIdentity
      BY <1>3, <1>4 DEF TakeIdentity, Runs
<1>8. ~ProbeDub
  <2>1. run' # [run EXCEPT !.pc = "work", !.walk = 0]
        BY <1>3 DEF Runs
  <2> QED BY <1>4, <2>1 DEF ProbeDub
<1>9. ~Walk /\ ~Link
      BY <1>4 DEF Walk, Link, NoRun
<1>10. ~Work
       BY <1>3, <1>4 DEF Work, Runs
<1>11. ~Settle /\ ~Reprobe /\ ~Relook /\ ~Recompare /\ ~SeeTag /\ ~SeeGone
       BY <1>4 DEF Settle, Reprobe, Relook, Recompare, SeeTag, SeeGone
<1>12. ~PipelineTimeout /\ ~RunKilled
       BY <1>4 DEF PipelineTimeout, RunKilled
<1> QED BY <1>4, <1>5, <1>6, <1>7, <1>8, <1>9, <1>10, <1>11, <1>12, WhoTouchesWhat DEF RunStep

(* If no import falls between the look at the identity and os.link, the     *)
(* text that is placed is of the release beside which it is placed.         *)
THEOREM TextIsRight ==
    ASSUME <<"main", "link">> \notin ImportInRun, <<"dub", "link">> \notin ImportInRun
    PROVE  Spec => TextBelongs
<1>1. Init => LinkedIsOfRelease
      BY DEF Init, NoRun, LinkedIsOfRelease, At
<1>2. ASSUME IInv, LinkedIsOfRelease, Next PROVE LinkedIsOfRelease'
  <2>1. SUFFICES ASSUME run'.pc = "link" PROVE video' # None /\ run'.release = video'.release
        BY DEF LinkedIsOfRelease, At
  <2>2. CASE run' # run
    <3>1. Recompare
          BY <1>2, <2>1, <2>2, ComesFrom DEF IInv
    <3>2. Goto("link") /\ video # None /\ video.id = run.id
          BY <2>1, <3>1 DEF Recompare, Stop, NoRun
    <3> QED BY <1>2, <3>1, <3>2, GotoMoves DEF Recompare, At, Private, IInv, TextIsOfRelease
  <2>3. CASE run' = run
    <3>1. run.mode \in {"main", "dub"} /\ run.pc = "link"
          BY <1>2, <2>1, <2>3 DEF IInv, Typed, Runs
    <3>2. ~MayImport
          BY <3>1 DEF MayImport
    <3>3. video # None /\ run.release = video.release
          BY <1>2, <3>1 DEF LinkedIsOfRelease, At
    <3> QED BY <1>2, <2>3, <3>2, <3>3, OnlyImports DEF IInv
  <2> QED BY <2>2, <2>3
<1>3. LinkedIsOfRelease /\ UNCHANGED vars => LinkedIsOfRelease'
      BY DEF LinkedIsOfRelease, vars, At
<1>4. LinkedIsOfRelease => [Placing => video # None /\ run.release = video.release]_vars
      BY DEF LinkedIsOfRelease, Placing
<1> QED BY <1>1, <1>2, <1>3, <1>4, Invariant, PTL DEF Spec, TextBelongs

(* If no import falls between the tag and the look at the lock, a file that *)
(* is reported FIXED has the tag, and unless a kill or a failure after the  *)
(* swap has kept the pass from it, what went into it is gone from beside it *)
(* and the tracker has forgotten it.                                        *)
THEOREM FixedIsRight ==
    ASSUME <<"main", "lock">> \notin ImportInRun
    PROVE  Spec => FixedIsFinished
<1> DEFINE Finished ==
               run'.outcome = "fixed" /\ run.outcome # "fixed" /\ run.mode = "main" =>
                   video # None /\ video.tag
                     /\ (marred \/ (entry = None /\ \A s \in spent : sidecar[s] = None))
<1>1. Init => SeenIsTagged
      BY DEF Init, NoRun, SeenIsTagged, At
<1>2. ASSUME IInv, SeenIsTagged, Next PROVE SeenIsTagged'
  <2>1. SUFFICES ASSUME run'.pc = "lock", run'.mode = "main" PROVE video' # None /\ video'.tag
        BY DEF SeenIsTagged, At
  <2>2. CASE run' # run
    <3>1. SeeTag \/ SeeGone
          BY <1>2, <2>1, <2>2, ComesFrom DEF IInv
    <3>2. run'.mode = run.mode
          BY <1>2, <3>1, GotoMoves DEF SeeTag, SeeGone, IInv
    <3> QED BY <2>1, <3>1, <3>2 DEF SeeTag, SeeGone, Private
  <2>3. CASE run' = run
    <3>1. run.mode = "main" /\ run.pc = "lock"
          BY <2>1, <2>3
    <3>2. ~MayImport
          BY <3>1 DEF MayImport
    <3>3. video # None /\ video.tag
          BY <1>2, <3>1 DEF SeenIsTagged, At
    <3> QED BY <1>2, <3>2, <3>3, OnlyImports DEF IInv
  <2> QED BY <2>2, <2>3
<1>3. SeenIsTagged /\ UNCHANGED vars => SeenIsTagged'
      BY DEF SeenIsTagged, vars, At
<1>4. ASSUME IInv, SeenIsTagged, [Next]_vars PROVE [Finished]_vars
  <2>1. SUFFICES ASSUME Next, run'.outcome = "fixed", run.outcome # "fixed", run.mode = "main"
                 PROVE  video # None /\ video.tag
                          /\ (marred \/ (entry = None /\ \A s \in spent : sidecar[s] = None))
        BY <1>4
  <2>2. Report
    <3>1. Report \/ ReportDub
          BY <1>4, <2>1, OutcomeStep DEF IInv
    <3> QED BY <2>1, <3>1 DEF ReportDub
  <2>3. ~Goto("wait")
        BY <1>4, <2>1, GotoMoves DEF IInv
  <2> QED BY <1>4, <2>1, <2>2, <2>3 DEF Report, SeenIsTagged, IInv, TaggedIsDone, Gone
<1>5. FixedIsFinished <=> [][Finished]_vars
      BY DEF FixedIsFinished
<1> HIDE DEF Finished
<1> QED BY <1>1, <1>2, <1>3, <1>4, <1>5, Invariant, PTL DEF Spec

-----------------------------------------------------------------------------
(* What an entry says of its file stays true, if no import falls between a  *)
(* pass's look at the file and its report.                                  *)
LEMMA SinceStep ==
    ASSUME "note" \notin ImportInPass, IInv, SinceIsOfRelease, Next
    PROVE  SinceIsOfRelease'
<1>1. pass'.pc = "note" /\ video' # None => video'.id = pass'.id
  <2>1. SUFFICES ASSUME pass'.pc = "note", video' # None PROVE video'.id = pass'.id
        OBVIOUS
  <2>2. CASE PassBegin
    <3>1. pass' = [NoPass EXCEPT !.pc = "note", !.id = video.id] => pass'.id = video.id
          BY DEF NoPass
    <3>2. ASSUME NEW took PROVE [NoPass EXCEPT !.pc = "swap", !.took = took, !.same = took].pc = "swap"
          BY DEF NoPass
    <3> QED BY <2>1, <2>2, <3>1, <3>2 DEF PassBegin
  <2>3. CASE ~PassBegin
    <3>1. /\ PassSwap => pass.pc = "swap"
          /\ PassTag => pass.pc = "tag"
          /\ PassForced => pass.pc = "idle"
          /\ LateSwap => pass.pc = "late"
          BY DEF PassSwap, PassTag, PassForced, Unsettled, LateSwap
    <3>2. pass' = pass \/ Bazarr
          BY <2>1, <2>3, PassMoves, WhoTouchesWhat DEF PassStep, IInv
    <3>3. pass.pc = "note" /\ pass'.id = pass.id
          BY <2>1, <3>2, PassMoves DEF IInv
    <3>4. ~Note
          BY <2>1, PassMoves DEF IInv
    <3>5. ~Import /\ ~Remove
          BY <3>3 DEF Import, Remove, MayImport
    <3>6. video' = video
          BY <3>1, <3>3, <3>4, <3>5, WhoTouchesWhat
    <3> QED BY <2>1, <3>3, <3>6 DEF SinceIsOfRelease
  <2> QED BY <2>2, <2>3
<1>2. entry' # None /\ video' # None /\ entry'.id = video'.id => entry'.since = video'.release
  <2>1. CASE Note
        BY <2>1, NoteStep DEF IInv, SinceIsOfRelease
  <2>2. CASE Replaced
        BY <2>2 DEF Replaced
  <2>3. CASE video' = video /\ ~Note
        BY <2>3, EntryStep DEF IInv, SinceIsOfRelease
  <2> QED BY <2>1, <2>2, <2>3, VideoStep DEF IInv
<1>3. run'.seen # None /\ video' # None /\ run'.seen.id = video'.id
        => run'.seen.since = video'.release
  <2>1. CASE run' = run
    <3>1. CASE Note
          BY <2>1, <3>1, NoteStep DEF IInv, SinceIsOfRelease
    <3>2. CASE Replaced
          BY <2>1, <3>2 DEF Replaced
    <3>3. CASE video' = video
          BY <2>1, <3>3 DEF SinceIsOfRelease
    <3> QED BY <3>1, <3>2, <3>3, VideoStep DEF IInv
  <2>2. CASE run' # run
    <3>1. video' = video
          BY <2>2, WhoTouchesWhat DEF Note, PassForced, PassSwap, PassTag, LateSwap, Import, Remove
    <3>2. run'.seen = run.seen \/ run'.seen = None \/ run'.seen = entry
          BY <2>2, SeenStep DEF IInv
    <3> QED BY <3>1, <3>2 DEF SinceIsOfRelease
  <2> QED BY <2>1, <2>2
<1> QED BY <1>1, <1>2, <1>3 DEF SinceIsOfRelease

(* The run goes by a file that has waited, if no import falls between the   *)
(* look at the entry and the identity, and between the last look at the     *)
(* identity and os.link.                                                    *)
LEMMA WaitedStep ==
    ASSUME <<"main", "identify">> \notin ImportInRun, <<"main", "link">> \notin ImportInRun,
           IInv, SinceIsOfRelease, WaitedIsOfRelease, Next
    PROVE  WaitedIsOfRelease'
<1> DEFINE Working == {"probe", "work", "reprobe", "relook", "recompare"}
<1>1. SUFFICES ASSUME run'.mode = "main"
      PROVE  /\ run'.pc \in {"compare", "identify", "link"} \cup Working => run'.seen.old
             /\ run'.pc = "identify" /\ video' # None => run'.seen.since = video'.release
             /\ run'.pc = "link" => video' # None /\ run'.seen.since = video'.release
             /\ run'.pc \in Working /\ video' # None /\ video'.id = run'.id
                  => run'.seen.since = video'.release
      BY DEF WaitedIsOfRelease
<1>2. CASE run' = run
  <2>1. run.pc \in {"identify", "link"} => ~MayImport
        BY <1>1, <1>2 DEF MayImport
  <2>2. run.pc \in {"identify", "link"} =>
            video' = video \/ (video # None /\ video' # None /\ video'.release = video.release)
        BY <2>1, OnlyImports DEF IInv
  <2>3. video' # None /\ video'.id = run.id =>
            video # None /\ video.id = run.id /\ video'.release = video.release
    <3>1. CASE Note
          BY <3>1, NoteStep DEF IInv
    <3>2. CASE Replaced
          BY <3>2 DEF Replaced
    <3> QED BY <3>1, <3>2, VideoStep DEF IInv
  <2> QED BY <1>1, <1>2, <2>2, <2>3 DEF WaitedIsOfRelease
<1>3. CASE run' # run
  <2>1. video' = video
        BY <1>3, WhoTouchesWhat DEF Note, PassForced, PassSwap, PassTag, LateSwap, Import, Remove
  <2>2. CASE run'.pc = "compare"
    <3>1. Revalidate
          BY <1>3, <2>2, ComesFrom DEF IInv
    <3>2. run' = [run EXCEPT !.seen = entry, !.pc = "compare"] /\ entry.old
          BY <2>2, <3>1 DEF Revalidate, Stop, NoRun
    <3> QED BY <2>2, <3>2 DEF IInv, Typed, Runs
  <2>3. CASE run'.pc = "identify"
    <3>1. Compare
      <4>1. Compare \/ Walk
            BY <1>3, <2>3, ComesFrom DEF IInv
      <4>2. ~Walk
            BY <1>1, <1>3 DEF Walk, NoRun
      <4> QED BY <4>1, <4>2
    <3>2. Goto("identify") /\ video # None /\ video.id = run.seen.id
          BY <2>3, <3>1 DEF Compare, Stop, NoRun
    <3>3. run.pc = "compare" /\ run.mode = "main" /\ run.seen # None /\ run'.seen = run.seen
          BY <3>1, <3>2, GotoMoves DEF Compare, At, IInv, Typed, TypeOK
    <3> QED BY <2>1, <2>3, <3>2, <3>3 DEF WaitedIsOfRelease, SinceIsOfRelease
  <2>4. CASE run'.pc = "probe"
    <3>1. TakeIdentity
          BY <1>3, <2>4, ComesFrom DEF IInv
    <3>2. video # None /\ run' = [run EXCEPT !.id = video.id, !.pc = "probe"]
          BY <2>4, <3>1 DEF TakeIdentity, Stop, NoRun
    <3>3. run'.seen = run.seen /\ run.mode = "main" /\ run.pc = "identify"
          BY <1>1, <3>1, <3>2 DEF TakeIdentity, At, IInv, Typed, Runs
    <3> QED BY <2>1, <2>4, <3>2, <3>3 DEF WaitedIsOfRelease
  <2>5. CASE run'.pc = "work"
    <3>1. ProbeFirst
      <4>1. ProbeFirst \/ ProbeDub
            BY <1>3, <2>5, ComesFrom DEF IInv
      <4>2. ~ProbeDub
        <5>1. ASSUME ProbeDub PROVE FALSE
          <6>1. run.mode = "dub" /\ run.pc = "probe"
                BY <5>1 DEF ProbeDub, At
          <6>2. run'.mode = run.mode
            <7>1. ~Stop
                  BY <2>5 DEF Stop, NoRun
            <7>2. CASE Goto("save")
                  BY <7>2, GotoMoves DEF IInv
            <7>3. CASE run' = [run EXCEPT !.pc = "work", !.walk = 0]
                  BY <7>3 DEF IInv, Typed, Runs
            <7> QED BY <5>1, <7>1, <7>2, <7>3 DEF ProbeDub
          <6> QED BY <1>1, <6>1, <6>2
        <5> QED BY <5>1
      <4> QED BY <4>1, <4>2
    <3>2. Goto("work")
          BY <2>5, <3>1 DEF ProbeFirst, Stop, NoRun
    <3> QED BY <2>1, <2>5, <3>1, <3>2, GotoMoves DEF ProbeFirst, At, IInv, WaitedIsOfRelease
  <2>6. CASE run'.pc = "reprobe"
    <3>1. Work
          BY <1>3, <2>6, ComesFrom DEF IInv
    <3>2. ~Stop
          BY <2>6 DEF Stop, NoRun
    <3>3. /\ run'.seen = run.seen /\ run'.id = run.id /\ run'.mode = run.mode
          /\ run.pc = "work"
          BY <3>1, <3>2 DEF Work, At, IInv, Typed, Runs
    <3> QED BY <1>1, <2>1, <2>6, <3>3 DEF WaitedIsOfRelease
  <2>7. CASE run'.pc = "relook"
    <3>1. Reprobe
          BY <1>3, <2>7, ComesFrom DEF IInv
    <3>2. Goto("relook") /\ run.pc = "reprobe"
          BY <2>7, <3>1 DEF Reprobe, At, Stop, NoRun
    <3> QED BY <1>1, <2>1, <2>7, <3>2, GotoMoves DEF IInv, WaitedIsOfRelease
  <2>8. CASE run'.pc = "recompare"
    <3>1. Relook
          BY <1>3, <2>8, ComesFrom DEF IInv
    <3>2. Goto("recompare") /\ run.pc = "relook"
          BY <2>8, <3>1 DEF Relook, At, Stop, NoRun
    <3> QED BY <1>1, <2>1, <2>8, <3>2, GotoMoves DEF IInv, WaitedIsOfRelease
  <2>9. CASE run'.pc = "link"
    <3>1. Recompare
          BY <1>3, <2>9, ComesFrom DEF IInv
    <3>2. Goto("link") /\ run.pc = "recompare" /\ video # None /\ video.id = run.id
          BY <2>9, <3>1 DEF Recompare, At, Stop, NoRun
    <3> QED BY <1>1, <2>1, <2>9, <3>2, GotoMoves DEF IInv, WaitedIsOfRelease
  <2> QED BY <2>2, <2>3, <2>4, <2>5, <2>6, <2>7, <2>8, <2>9
<1> QED BY <1>2, <1>3

(* With those gaps closed, only a release that has itself waited gets a     *)
(* subtitle that Bazarr has not found.                                      *)
THEOREM GraceIsRight ==
    ASSUME <<"main", "identify">> \notin ImportInRun, <<"main", "link">> \notin ImportInRun,
           "note" \notin ImportInPass
    PROVE  Spec => GraceRespected
<1> DEFINE Waited == Placing /\ run.mode = "main" => run.seen.old /\ run.seen.since = video.release
<1>1. Init => SinceIsOfRelease /\ WaitedIsOfRelease
      BY DEF Init, NoRun, NoPass, SinceIsOfRelease, WaitedIsOfRelease
<1>2. IInv /\ SinceIsOfRelease /\ WaitedIsOfRelease /\ [Next]_vars
        => (SinceIsOfRelease /\ WaitedIsOfRelease)'
  <2>1. CASE UNCHANGED vars
        BY <2>1 DEF vars, SinceIsOfRelease, WaitedIsOfRelease
  <2> QED BY <2>1, SinceStep, WaitedStep
<1>3. WaitedIsOfRelease => [Waited]_vars
      BY DEF WaitedIsOfRelease, Placing, At
<1>4. GraceRespected <=> [][Waited]_vars
      BY DEF GraceRespected
<1> HIDE DEF Waited
<1> QED BY <1>1, <1>2, <1>3, <1>4, Invariant, PTL DEF Spec
=============================================================================
