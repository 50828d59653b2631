----------------------------- MODULE SubFallback ----------------------------
(***************************************************************************)
(* sub-fallback.py and needs-english.json on one title: a run takes a file *)
(* that consolidate-subs.py has reported without English for long enough   *)
(* (mode "main"), or a consolidated one with Japanese and English audio    *)
(* but no subtitle for the latter (mode "dub", --dub), makes it one in an  *)
(* hour's work, and places it beside the file without the file's lock,     *)
(* while passes (module Consolidate, seen here only by what they do to the *)
(* tag, the tracks, the sidecars and the tracker), imports and Bazarr go   *)
(* on.  The two modes have a cron line and a singleton lock each; one      *)
(* stops at a tag and the other without one, and neither reads what the    *)
(* other writes, so there is one run at a time here.                       *)
(***************************************************************************)
EXTENDS Naturals, FiniteSets

CONSTANTS
    Releases,       \* 1..n: the releases that get imported, in this order
    Kinds,          \* Kinds[r]: what release r can be like
    Ids,            \* bound: file identities in use at one time
    ImportInRun,    \* the places of a run, by mode, at which an import may fall
    ImportInPass,   \* the places of a pass at which an import may fall
    MaxFaults,      \* bound: tools that fail, runs and passes that are killed
    None

ASSUME ReleasesAssumption == Releases \subseteq Nat \ {0}
(* One more than a state can mention. *)
ASSUME IdsAssumption ==
    Ids \subseteq Nat \ {0} /\ (IsFiniteSet(Ids) => Cardinality(Ids) >= 9)
ASSUME FaultsAssumption == MaxFaults \in Nat

VARIABLES
    video,      \* the media file, or None
    sidecar,    \* the text in .en.srt ("real"), .en.generated.srt ("gen"),
                \* .en.dub.srt ("dub"), .en.forced.srt ("forced"), or None
    entry,      \* its entry in needs-english.json, or None
    cached,     \* the id its "fixed" entry in consolidate-subs.py's state has, or 0
    memo,       \* the id its entry in the file of checked files (--dub) has, or 0
    run,        \* the local variables of the sub-fallback.py run
    pass,       \* what the running consolidation holds
    imported,   \* the releases imported so far
    faults,     \* the faults so far
    spent,      \* sidecars that went into the video and were not written again since
    marred      \* the last pass over it has not done all that comes after its swap
                \* (spent and marred are not in the code; a property speaks of them)

vars == <<video, sidecar, entry, cached, memo, run, pass, imported, faults, spent, marred>>
ghosts == <<spent, marred>>

MainSlots == {"real", "gen"}
Slots == MainSlots \cup {"dub", "forced"}
Subs == {"none", "gen", "main"}

(* What a transcript of the English audio is: the content gate may think    *)
(* that it is not English, cleaning may leave no dialogue, and there may be *)
(* none at all: no such audio, a language that cannot be verified, or too   *)
(* few cues.  Nothing is fetched either then, for it is verified against    *)
(* the audio.                                                               *)
Texts == {"good", "foreign", "empty"}
Speech == Texts \cup {"none"}

(* dual: anime with Japanese and English audio.  clean: the clean-up has    *)
(* nothing to remux.  sibling: a video of the same stem lies beside it.     *)
AllKinds == [sub : {"none", "main"}, dual : BOOLEAN, clean : BOOLEAN,
             speech : Speech, sibling : BOOLEAN]
ASSUME KindsAssumption == Kinds \in [Releases -> SUBSET AllKinds]

(* dub: it has a subtitle for the English of two audio languages (a        *)
(* release's own CC track is not told from its main one).                   *)
(* noted: the last pass over this file put it on the list (not in the code; *)
(* a property speaks of it).                                                *)
Videos == [release : Releases, id : Ids, sub : Subs, tag : BOOLEAN, dual : BOOLEAN,
           dub : BOOLEAN, clean : BOOLEAN, speech : Speech, sibling : BOOLEAN,
           noted : BOOLEAN]

(* since: the release at which first_seen was set; old: age_hours ago. *)
Entries == [id : Ids, since : Releases, old : BOOLEAN]

ASSUME NoneAssumption == None \notin Videos \cup Entries \cup Texts

RunPlaces == {"idle", "judge", "drop", "revalidate", "compare", "identify", "probe",
              "save", "work", "reprobe", "relook", "recompare", "link", "wait", "lock"}
PassPlaces == {"idle", "note", "swap", "tag", "delete", "record", "clear",
               "late", "unlink"}

NoRun == [pc |-> "idle", mode |-> "main", seen |-> None, walk |-> 0, id |-> 0, release |-> 0,
          text |-> "good", slot |-> "gen", outcome |-> "none"]

(* took: the sidecars it consumes; same: those of them not replaced since.  *)
NoPass == [pc |-> "idle", id |-> 0, took |-> {}, same |-> {}]

Init ==
    /\ video = None
    /\ sidecar = [s \in Slots |-> None]
    /\ entry = None
    /\ cached = 0
    /\ memo = 0
    /\ run = NoRun
    /\ pass = NoPass
    /\ imported = {}
    /\ faults = 0
    /\ spent = {}
    /\ marred = FALSE

EntryIds(e) == IF e = None THEN {} ELSE {e.id}
FreshId ==
    CHOOSE i \in Ids :
        i \notin {run.id, run.walk, pass.id, memo, cached} \cup EntryIds(entry) \cup EntryIds(run.seen)
                  \cup (IF video = None THEN {} ELSE {video.id})

(* _main_sidecars *)
Present == {s \in MainSlots : sidecar[s] # None}

-----------------------------------------------------------------------------
(* The run. *)
At(place) == run.pc = place
Goto(place) == run' = [run EXCEPT !.pc = place]
Stop == run' = NoRun
Private == UNCHANGED <<video, sidecar, entry, cached, memo, pass, imported, spent, marred>>
Fault == faults < MaxFaults /\ faults' = faults + 1
NoFault == UNCHANGED faults

(* load_needs_english: one unlocked look at the tracker. *)
LoadTracker ==
    /\ At("idle")
    /\ entry # None
    /\ run' = [NoRun EXCEPT !.pc = "judge", !.seen = entry]
    /\ Private /\ NoFault

(* select_candidates: a file that is gone or consolidated is stale; others *)
(* are due once the entry that was read is old enough.                     *)
Judge ==
    /\ At("judge")
    /\ CASE video = None \/ (video # None /\ video.tag) -> Goto("drop")
         [] run.seen.old -> Goto("revalidate")
         [] OTHER -> Stop
    /\ Private /\ NoFault

(* Stale entries go, whatever has become of them. *)
DropAnyway ==
    /\ At("drop")
    /\ entry' = None
    /\ Stop
    /\ UNCHANGED <<video, sidecar, cached, memo, pass, imported, faults, ghosts>>

(* drop_stale_entries: under the lock, and only the very entry judged. *)
Drop ==
    /\ At("drop")
    /\ entry' = IF entry = run.seen THEN None ELSE entry
    /\ Stop
    /\ UNCHANGED <<video, sidecar, cached, memo, pass, imported, faults, ghosts>>

(* A run that does not expect the entry to have gone. *)
RevalidateUnlisted ==
    /\ At("revalidate")
    /\ run' = [run EXCEPT !.seen = entry, !.pc = "compare"]
    /\ Private /\ NoFault

(* _revalidate_candidate reads the entry again, under the lock ... *)
Revalidate ==
    /\ At("revalidate")
    /\ IF entry # None /\ entry.old
       THEN run' = [run EXCEPT !.seen = entry, !.pc = "compare"]
       ELSE Stop
    /\ Private /\ NoFault

(* ... and the file against it. *)
Compare ==
    /\ At("compare")
    /\ IF video # None /\ ~video.tag /\ video.id = run.seen.id
       THEN Goto("identify") ELSE Stop
    /\ Private /\ NoFault

(* _sibling_video_collision, and the identity, "before the wait".  (Another *)
(* look before the link finds what this one did while the identity stands.) *)
TakeIdentity ==
    /\ At("identify")
    /\ IF video = None \/ (video # None /\ video.sibling) THEN Stop
       ELSE run' = [run EXCEPT !.id = video.id, !.pc = "probe"]
    /\ Private /\ NoFault

ProbeFirst ==
    /\ At("probe") /\ run.mode = "main"
    /\ IF video # None /\ ~video.tag /\ Present = {} /\ sidecar["forced"] = None
       THEN Goto("work") ELSE Stop
    /\ Private /\ NoFault

(* run_dub walks the library: a file is looked into unless it was settled   *)
(* under the identity it has at the walk.  A file that is gone is forgotten. *)
Walk ==
    /\ At("idle")
    /\ \/ /\ video # None /\ memo # video.id
          /\ run' = [NoRun EXCEPT !.pc = "identify", !.mode = "dub", !.walk = video.id]
          /\ UNCHANGED memo
       \/ /\ video = None /\ memo # 0
          /\ memo' = 0
          /\ UNCHANGED run
    /\ UNCHANGED <<video, sidecar, entry, cached, pass, imported, faults, ghosts>>

(* _dub_skip_reason: what the file itself settles is remembered. *)
ProbeDub ==
    /\ At("probe") /\ run.mode = "dub"
    /\ CASE video = None -> Stop
         [] video # None /\ (~video.tag \/ ~video.dual \/ video.dub) -> Goto("save")
         [] OTHER -> IF sidecar["dub"] = None
                     THEN run' = [run EXCEPT !.pc = "work", !.walk = 0] ELSE Stop
    /\ Private /\ NoFault

(* The file is remembered as it is by the end of the run. *)
SettleNow ==
    /\ At("save")
    /\ memo' = IF video = None THEN 0 ELSE video.id
    /\ Stop
    /\ UNCHANGED <<video, sidecar, entry, cached, pass, imported, faults, ghosts>>

(* The end of run_dub: the file is remembered as it was at the walk. *)
Settle ==
    /\ At("save")
    /\ memo' = run.walk
    /\ Stop
    /\ UNCHANGED <<video, sidecar, entry, cached, pass, imported, faults, ghosts>>

(* Subliminal's subtitle, verified against the audio, or a transcript of it: *)
(* either is what it is by the audio of the file that is read.               *)
Work ==
    /\ At("work")
    /\ \/ /\ video # None /\ video.speech # "none"
          /\ \E slot \in IF run.mode = "dub" THEN {"dub"}
                        ELSE {"gen"} \cup {s \in {"real"} : video.speech = "good"} :
                run' = [run EXCEPT !.release = video.release, !.text = video.speech,
                                   !.slot = slot, !.pc = "reprobe"]
          /\ NoFault
       \/ (video = None \/ (video # None /\ video.speech = "none")) /\ Stop /\ NoFault
       \/ Stop /\ Fault
    /\ Private

(* _place_sidecar, right before the link: the tag (without it, or with it   *)
(* and without a dub subtitle), ...                                         *)
Reprobe ==
    /\ At("reprobe")
    /\ IF video # None /\ (IF run.mode = "dub" THEN video.tag /\ ~video.dub ELSE ~video.tag)
       THEN Goto("relook") ELSE Stop
    /\ Private /\ NoFault

(* ... the sidecars, ... *)
Relook ==
    /\ At("relook")
    /\ IF (IF run.mode = "dub" THEN sidecar["dub"] = None
           ELSE Present = {} /\ sidecar["forced"] = None)
       THEN Goto("recompare") ELSE Stop
    /\ Private /\ NoFault

RecompareNever ==
    /\ At("recompare")
    /\ Goto("link")
    /\ Private /\ NoFault

(* ... and the identity. *)
Recompare ==
    /\ At("recompare")
    /\ IF video # None /\ video.id = run.id THEN Goto("link") ELSE Stop
    /\ Private /\ NoFault

(* os.link: fails if the name exists. *)
Link ==
    /\ At("link")
    /\ IF sidecar[run.slot] = None
       THEN /\ sidecar' = [sidecar EXCEPT ![run.slot] = run.text]
            /\ spent' = spent \ {run.slot}
            /\ run' = [NoRun EXCEPT !.pc = "wait", !.mode = run.mode]
       ELSE Stop /\ UNCHANGED <<sidecar, spent>>
    /\ UNCHANGED <<video, entry, cached, memo, pass, imported, faults, marred>>

(* wait_for_pipeline: the tag is there, ... *)
SeeTag ==
    /\ At("wait") /\ run.mode = "main"
    /\ video # None /\ video.tag
    /\ Goto("lock")
    /\ Private /\ NoFault

(* ... and so FIXED, whoever still works on the file. *)
ReportAtTag ==
    /\ At("lock") /\ run.mode = "main"
    /\ run' = [NoRun EXCEPT !.outcome = "fixed"]
    /\ Private /\ NoFault

(* ... and the lock is free: FIXED.  Otherwise it keeps polling. *)
Report ==
    /\ At("lock") /\ run.mode = "main"
    /\ IF pass.pc = "idle" THEN run' = [NoRun EXCEPT !.outcome = "fixed"] ELSE Goto("wait")
    /\ Private /\ NoFault

(* wait_for_dub: the sidecar is gone, ... *)
SeeGone ==
    /\ At("wait") /\ run.mode = "dub"
    /\ sidecar["dub"] = None
    /\ Goto("lock")
    /\ Private /\ NoFault

(* ... and the lock is free; a last probe tells FIXED from DUB_NOT_ADDED. *)
ReportDub ==
    /\ At("lock") /\ run.mode = "dub"
    /\ CASE pass.pc # "idle" -> Goto("wait")
         [] pass.pc = "idle" /\ video # None /\ video.dub ->
                run' = [NoRun EXCEPT !.outcome = "fixed"]
         [] OTHER -> Stop
    /\ Private /\ NoFault

PipelineTimeout ==
    /\ At("wait")
    /\ Stop
    /\ Private /\ NoFault

-----------------------------------------------------------------------------
(* _dub_from_sidecar on a file with two audio languages: what the gate and  *)
(* the cleaning make of the sidecar.                                        *)
DubText == IF video.dual /\ sidecar["dub"] # None THEN sidecar["dub"] ELSE "empty"

(* _quarantine_sidecar. *)
Quarantine(slots) == sidecar' = [s \in Slots |-> IF s \in slots THEN None ELSE sidecar[s]]

Foreign(slots) == {s \in slots : sidecar[s] = "foreign"}
Usable == Present \ Foreign(Present)

(* A consolidation, under the lock, of a file that has no tag and is not    *)
(* recorded as fixed: with something English it gets it inside, without it  *)
(* goes on the list.                                                        *)
Unsettled == pass.pc = "idle" /\ video # None /\ ~video.tag /\ cached # video.id
OnlyForced == video.sub = "none" /\ Present = {} /\ sidecar["forced"] # None

PassBegin ==
    /\ Unsettled
    /\ ~OnlyForced
    /\ IF video.sub = "none" /\ Usable = {}
       THEN /\ pass' = [NoPass EXCEPT !.pc = "note", !.id = video.id]
            /\ Quarantine(Foreign(Present))
       ELSE LET took == Usable \cup {s \in {"forced"} : sidecar[s] # None}
                            \cup {s \in {"dub"} : DubText = "good"}
            IN  /\ pass' = [NoPass EXCEPT !.pc = "swap", !.took = took, !.same = took]
                /\ Quarantine(Foreign(Present) \cup {s \in {"dub"} : DubText = "foreign"})
    /\ UNCHANGED <<video, entry, cached, memo, run, imported, faults, ghosts>>

(* FAIL, "only forced English": no place on the list, but its clean-up. *)
PassForced ==
    /\ Unsettled
    /\ OnlyForced /\ ~video.clean
    /\ video' = [video EXCEPT !.id = FreshId, !.clean = TRUE]
    /\ UNCHANGED <<sidecar, entry, cached, memo, run, pass, imported, faults, ghosts>>

(* _apply_cleanup_needs_english_update that never starts the wait again. *)
NoteKeeping ==
    /\ pass.pc = "note"
    /\ video # None
    /\ entry' = [id |-> video.id,
                 since |-> IF entry = None THEN video.release ELSE entry.since,
                 old |-> entry # None /\ entry.old]
    /\ video' = [video EXCEPT !.noted = TRUE]
    /\ pass' = NoPass
    /\ UNCHANGED <<sidecar, cached, memo, run, imported, faults, ghosts>>

(* One that takes every report for the first. *)
NoteRenewing ==
    /\ pass.pc = "note"
    /\ video # None
    /\ entry' = [id |-> video.id, since |-> video.release, old |-> FALSE]
    /\ video' = [video EXCEPT !.noted = TRUE]
    /\ pass' = NoPass
    /\ UNCHANGED <<sidecar, cached, memo, run, imported, faults, ghosts>>

(* _apply_cleanup_needs_english_update: first_seen stays only if the entry  *)
(* was made for the file this pass began with.  The clean-up's remux has    *)
(* given the file another identity.                                         *)
Note ==
    /\ pass.pc = "note"
    /\ video # None
    /\ LET same == entry # None /\ entry.id = pass.id
           id == IF video.clean THEN video.id ELSE FreshId
       IN  /\ entry' = [id |-> id,
                        since |-> IF same THEN entry.since ELSE video.release,
                        old |-> same /\ entry.old]
           /\ video' = [video EXCEPT !.noted = TRUE, !.id = id, !.clean = TRUE]
    /\ pass' = NoPass
    /\ UNCHANGED <<sidecar, cached, memo, run, imported, faults, ghosts>>

(* The swap: a dub track that was embedded is kept as one ... *)
PassSwap ==
    /\ pass.pc = "swap"
    /\ video # None
    /\ video' = [video EXCEPT
                   !.id = FreshId,
                   !.sub = IF "real" \in pass.took \/ @ = "main" THEN "main" ELSE "gen",
                   !.dub = "dub" \in pass.took \/ (video.dual /\ @),
                   !.noted = FALSE]
    /\ pass' = [pass EXCEPT !.pc = "tag", !.took = {}]
    /\ spent' = pass.same
    /\ marred' = FALSE
    /\ UNCHANGED <<sidecar, entry, cached, memo, run, imported, faults>>

(* ... and the tag, written into the file, or not: a failure is only        *)
(* logged.  The inline normalization may replace the file once more, still  *)
(* under the lock.                                                          *)
PassTag ==
    /\ pass.pc = "tag"
    /\ IF video = None THEN UNCHANGED video /\ NoFault
       ELSE \/ video' = [video EXCEPT !.id = FreshId, !.tag = TRUE] /\ NoFault
            \/ (\E id \in {video.id, FreshId} : video' = [video EXCEPT !.id = id]) /\ Fault
    /\ pass' = [pass EXCEPT !.pc = "delete"]
    /\ UNCHANGED <<sidecar, entry, cached, memo, run, imported, ghosts>>

(* The consumed sidecars go, unless they were replaced since they were      *)
(* read; one that cannot be unlinked stays, unnoticed.                      *)
PassDelete ==
    /\ pass.pc = "delete"
    /\ \/ Quarantine(pass.same) /\ NoFault /\ UNCHANGED marred
       \/ UNCHANGED sidecar /\ Fault /\ marred' = TRUE
    /\ pass' = [pass EXCEPT !.pc = "record", !.same = {}]
    /\ UNCHANGED <<video, entry, cached, memo, run, imported, spent>>

(* "fixed" goes into the state, tagged or not. *)
PassRecord ==
    /\ pass.pc = "record"
    /\ video # None
    /\ cached' = video.id
    /\ pass' = [pass EXCEPT !.pc = "clear"]
    /\ UNCHANGED <<video, sidecar, entry, memo, run, imported, faults, ghosts>>

(* _clear_needs_english: what goes wrong is logged. *)
PassClear ==
    /\ pass.pc = "clear"
    /\ \/ entry' = None /\ NoFault /\ UNCHANGED marred
       \/ UNCHANGED entry /\ Fault /\ marred' = TRUE
    /\ pass' = NoPass
    /\ UNCHANGED <<video, sidecar, cached, memo, run, imported, spent>>

(* _add_late_dub, on a file with the tag or recorded as fixed that has two  *)
(* audio languages and no dub subtitle: a good sidecar is taken, a foreign  *)
(* one quarantined.  (That a tagged file is recorded too changes nothing.)  *)
LateBegin ==
    /\ pass.pc = "idle"
    /\ video # None /\ (video.tag \/ cached = video.id) /\ video.dual /\ ~video.dub
    /\ DubText # "empty"
    /\ pass' = IF DubText = "good"
               THEN [NoPass EXCEPT !.pc = "late", !.id = video.id, !.same = {"dub"}]
               ELSE NoPass
    /\ Quarantine({s \in {"dub"} : DubText = "foreign"})
    /\ UNCHANGED <<video, entry, cached, memo, run, imported, faults, ghosts>>

(* After the remux: if the file is still the one that was probed, the swap. *)
LateSwap ==
    /\ pass.pc = "late"
    /\ IF video # None /\ video.id = pass.id
       THEN /\ video' = [video EXCEPT !.id = FreshId, !.dub = TRUE]
            /\ pass' = [pass EXCEPT !.pc = "unlink"]
       ELSE pass' = NoPass /\ UNCHANGED video
    /\ UNCHANGED <<sidecar, entry, cached, memo, run, imported, faults, ghosts>>

LateUnlink ==
    /\ pass.pc = "unlink"
    /\ Quarantine(pass.same)
    /\ cached' = IF video = None THEN cached ELSE video.id
    /\ pass' = NoPass
    /\ UNCHANGED <<video, entry, memo, run, imported, faults, ghosts>>

(* A pass whose file is gone fails; any may, and be killed anywhere. *)
PassFails ==
    /\ \/ pass.pc \in {"note", "swap", "record"} /\ video = None /\ NoFault
       \/ pass.pc # "idle" /\ Fault
    /\ pass' = NoPass
    /\ marred' = (marred \/ pass.pc \in {"tag", "delete", "record", "clear"})
    /\ UNCHANGED <<video, sidecar, entry, cached, memo, run, imported, spent>>

-----------------------------------------------------------------------------
(* SUB_FALLBACK_AGE_HOURS pass. *)
Age ==
    /\ entry # None /\ ~entry.old
    /\ entry' = [entry EXCEPT !.old = TRUE]
    /\ UNCHANGED <<video, sidecar, cached, memo, run, pass, imported, faults, ghosts>>

MayImport == <<run.mode, run.pc>> \in ImportInRun /\ pass.pc \in ImportInPass

(* Sonarr or Radarr imports the next release, over the old file or not. *)
Import ==
    /\ MayImport
    /\ imported # Releases
    /\ \E release \in Releases, kind \in AllKinds :
          /\ release = Cardinality(imported) + 1
          /\ kind \in Kinds[release]
          /\ video' = [release |-> release, id |-> FreshId, sub |-> kind.sub, tag |-> FALSE,
                       dual |-> kind.dual, dub |-> FALSE, clean |-> kind.clean,
                       speech |-> kind.speech, sibling |-> kind.sibling, noted |-> FALSE]
          /\ imported' = imported \cup {release}
    /\ spent' = {}
    /\ marred' = FALSE
    /\ UNCHANGED <<sidecar, entry, cached, memo, run, pass, faults>>

Remove ==
    /\ MayImport
    /\ video # None
    /\ imported # Releases
    /\ video' = None
    /\ UNCHANGED <<sidecar, entry, cached, memo, run, pass, imported, faults, ghosts>>

(* Bazarr writes a subtitle, or a forced one, over what there is. *)
Bazarr ==
    /\ video # None
    /\ \E slot \in {"real", "forced"} :
          /\ sidecar' = [sidecar EXCEPT ![slot] = "good"]
          /\ pass' = [pass EXCEPT !.same = @ \ {slot}]
          /\ spent' = spent \ {slot}
    /\ UNCHANGED <<video, entry, cached, memo, run, imported, faults, marred>>

RunKilled ==
    /\ ~At("idle")
    /\ Stop
    /\ Fault
    /\ Private

RunStep ==
    \/ LoadTracker \/ Judge \/ Drop \/ Revalidate \/ Compare \/ TakeIdentity \/ ProbeFirst
    \/ Walk \/ ProbeDub \/ Settle
    \/ Work \/ Reprobe \/ Relook \/ Recompare \/ Link
    \/ SeeTag \/ Report \/ SeeGone \/ ReportDub
PassStep ==
    \/ Note \/ PassSwap \/ PassTag \/ PassDelete \/ PassRecord \/ PassClear
    \/ LateSwap \/ LateUnlink \/ PassFails

Next ==
    \/ RunStep \/ PipelineTimeout \/ RunKilled
    \/ PassBegin \/ PassForced \/ LateBegin \/ PassStep
    \/ Age \/ Import \/ Remove \/ Bazarr

Spec == Init /\ [][Next]_vars

(* Fairness: the hourly runs and the daily scan come, and go on; a run that *)
(* waits for the pipeline polls up to its deadline; time passes.            *)
FairSpec ==
    /\ Spec
    /\ WF_vars(RunStep) /\ SF_vars(PipelineTimeout) /\ WF_vars(Walk)
    /\ WF_vars(PassBegin) /\ WF_vars(LateBegin) /\ WF_vars(PassStep) /\ WF_vars(Age)

-----------------------------------------------------------------------------
TypeOK ==
    /\ video \in Videos \cup {None}
    /\ \A s \in Slots : sidecar[s] \in Texts \cup {None}
    /\ entry \in Entries \cup {None}
    /\ DOMAIN run = DOMAIN NoRun
    /\ run.pc \in RunPlaces
    /\ run.outcome \in {"none", "fixed"}
    /\ run.seen \in Entries \cup {None}
    /\ run.mode = "main" /\ run.pc \notin {"idle", "wait", "lock"} => run.seen # None
    /\ cached \in Ids \cup {0}
    /\ memo \in Ids \cup {0}
    /\ pass.pc \in PassPlaces
    /\ pass.same \cup pass.took \subseteq Slots
    /\ imported \subseteq Releases
    /\ spent \subseteq Slots
    /\ marred \in BOOLEAN

Placing == At("link") /\ sidecar' # sidecar /\ run'.pc = "wait"

(* "Verified to belong to THIS file": the subtitle that is placed is made   *)
(* from the release beside which it is placed, however long it took.        *)
TextBelongs == [][Placing => video # None /\ run.release = video.release]_vars

(* "Waiting too long on Bazarr": the release that gets a subtitle has       *)
(* itself waited for age_hours since a pass first found it without English. *)
GraceRespected ==
    [][Placing /\ run.mode = "main" => run.seen.old /\ run.seen.since = video.release]_vars

(* "May have upserted a FRESH one": a file that the last pass over it put   *)
(* on the list, and that is not consolidated, stays on the list.            *)
NotedStaysListed ==
    video # None /\ video.noted /\ ~video.tag => entry # None

(* "Settled by the file's own contents, so remembered per identity": what   *)
(* run_dub remembers, and skips from then on, is never a file that still    *)
(* lacks the subtitle for its English audio, whatever became of the file    *)
(* between the walk and the end of the run.                                 *)
MemoHidesNone ==
    video # None /\ memo = video.id => ~video.tag \/ ~video.dual \/ video.dub

(* "Pipeline FINISHED, not merely STARTED": when FIXED is reported the file *)
(* has its tag, no sidecar that went into it is left beside it and the      *)
(* tracker has forgotten it, unless the pass that swapped it was killed, or *)
(* an unlink or the tracker failed it, after the swap: the tag and the free *)
(* lock do not tell, and the report is early then for good.                 *)
FixedIsFinished ==
    [][run'.outcome = "fixed" /\ run.outcome # "fixed" /\ run.mode = "main" =>
          video # None /\ video.tag
            /\ (marred \/ (entry = None /\ \A s \in spent : sidecar[s] = None))]_vars

(* Between them the daily passes and the hourly runs leave no title without *)
(* an English subtitle once imports stop and tools work, but one beside     *)
(* which a forced subtitle lies, and one of which no transcript can be      *)
(* placed and used: that one stays on the list.  (A file recorded as fixed  *)
(* whose tag could not be written has the subtitle too.)  A tagged one with *)
(* two audio languages and a usable transcript has a subtitle for each, or  *)
(* a dub sidecar beside it of which nothing is left, in the way of a better *)
(* one; without the tag no run makes it one.                                *)
Hopeless == video.sibling \/ video.speech \in {"none", "foreign"}
EndsConsolidated ==
    <>[](video # None =>
            /\ \/ video.tag \/ cached = video.id
               \/ sidecar["forced"] # None
               \/ Hopeless /\ entry # None /\ entry.id = video.id
            /\ video.tag /\ video.dual /\ ~video.sibling /\ video.speech = "good" =>
                  video.dub \/ sidecar["dub"] = "empty")
=============================================================================
