----------------------------- MODULE Consolidate ----------------------------
(***************************************************************************)
(* consolidate-subs.py on one .mkv title: the passes of the daily scan and *)
(* of the watcher, against the imports of Radarr/Sonarr and the sidecars   *)
(* Bazarr, sub-fallback.py and people drop beside the file, none of which  *)
(* take the file's lock.  The lock (module FileLock) makes passes on one   *)
(* title take turns, so there is one pass at a time here.                  *)
(*                                                                         *)
(* A file's identity (inode, size, mtime, ctime) is a number that changes  *)
(* whenever the file does; a number is used again once nothing remembers   *)
(* it.  The text of a sidecar is one of:                                   *)
(*   "right"    this episode's English subtitle                            *)
(*   "wrong"    English, but of something else                             *)
(*   "foreign"  named English, but scored as another language              *)
(*   "unread"   over the size bound, changing, or not text                 *)
(***************************************************************************)
EXTENDS Naturals, FiniteSets

CONSTANTS
    Slots,      \* sidecars: "real" (.en.srt), "gen" (.en.generated.srt), "forced"
    Texts,      \* Texts[s]: the texts that turn up in slot s
    Releases,   \* the [sub, forced, alien] of the files that get imported
    VideoIds, SidecarIds,   \* bounds: identities in use at one time
    ImportAt,   \* the windows of a pass an import may fall into (see Window)
    MayRace,    \* may a sidecar be replaced between its last check and unlink?
    MayFail,    \* may tools fail, and may a pass be killed?
    None

ASSUME SlotsAssumption == "real" \in Slots /\ Slots \subseteq {"real", "gen", "forced"}
ASSUME IdsAssumption ==
    /\ VideoIds \subseteq Nat \ {0} /\ 1 \in VideoIds
    /\ IsFiniteSet(VideoIds) => Cardinality(VideoIds) >= 11
    /\ SidecarIds \subseteq Nat
    /\ IsFiniteSet(SidecarIds) => Cardinality(SidecarIds) >= 6
ASSUME SwitchAssumption == MayRace \in BOOLEAN /\ MayFail \in BOOLEAN

VARIABLES
    video,      \* the media file: identity and what it contains
    sidecar,    \* sidecar[s]: the file in slot s, or None
    entry,      \* its entry in the state file (consolidate-subs.py's cache)
    wanted,     \* it is listed in needs-english.json
    pass        \* the local variables of the running pass

vars == <<video, sidecar, entry, wanted, pass>>

(* sub: the main English text track ("fake": tagged English, other text);  *)
(* alien: there is a foreign track or flag the no-English cleanup removes. *)
Subs == {"none", "gen", "main", "fake"}
Videos == [id : VideoIds, sub : Subs, forced : BOOLEAN, alien : BOOLEAN, tag : BOOLEAN]
AllTexts == {"right", "wrong", "foreign", "unread"}
Sidecars == [id : SidecarIds, text : AllTexts]

(* upgrade_rejected: which video and sidecar were judged, and whether the  *)
(* judgement was a verdict ("reasons") or merely undecided.                *)
Rejections == [video : VideoIds, side : SidecarIds, verdict : BOOLEAN]
Entries == [key : VideoIds, status : {"fixed", "skip-tag"}, rejected : Rejections \cup {None}]

ASSUME ReleasesAssumption == Releases \subseteq [sub : Subs, forced : BOOLEAN, alien : BOOLEAN]
ASSUME TextsAssumption == Texts \in [Slots -> SUBSET AllTexts]

English(text) == text \in {"right", "wrong"}

Places == {"idle", "snap", "identify", "probe", "judge", "late", "sweepread", "sweep",
           "recheck", "copy", "verify", "unlink", "gather", "sync", "cleanup", "muxed",
           "swap", "tag", "normalize", "normalizing", "delete", "drop", "record",
           "clear", "track"}

NoPass ==
    [pc |-> "idle", mode |-> "full", cur |-> 0, prev |-> None, uid |-> 0,
     info |-> None, rejected |-> None, held |-> "none", snaps |-> [s \in Slots |-> None],
     todo |-> {}, target |-> None, why |-> "none", copy |-> None, consumed |-> {},
     failed |-> FALSE, drop |-> FALSE, out |-> None, base |-> 0, needs |-> FALSE]

Modes == {"full", "upgrade", "sweep", "cleanup"}
Holds == {"none", "held", "rejected"}
Reasons == {"none", "foreign", "rejected", "redundant"}

Passes ==
    [pc : Places, mode : Modes,
     cur : VideoIds \cup {0}, uid : VideoIds \cup {0}, base : VideoIds \cup {0},
     prev : Entries \cup {None}, info : Videos \cup {None}, rejected : Rejections \cup {None},
     held : Holds, snaps : [Slots -> Sidecars \cup {None}],
     copy : Sidecars \cup {None}, todo : SUBSET Slots, consumed : SUBSET Slots,
     target : Slots \cup {None}, why : Reasons,
     out : Subs \cup {None}, failed : BOOLEAN, drop : BOOLEAN, needs : BOOLEAN]

ASSUME NoneAssumption ==
    None \notin Videos \cup Sidecars \cup Entries \cup Rejections \cup Passes \cup Slots \cup Subs

(* Where the pass is, as far as the safety of an import goes: it has not   *)
(* probed the video yet ("looking"), or has and decides what to do         *)
(* ("judging"); a sweep up to its re-check of the video ("sweeping"), and  *)
(* the move to quarantine that follows ("moving"); an upgrade, and its     *)
(* stretch between the last re-check and the rename ("swapping"); a full   *)
(* pass or cleanup up to its rename; after a rename ("committing").        *)
Window ==
    CASE pass.pc = "idle" -> "idle"
      [] pass.pc \in {"snap", "identify", "probe", "late"} /\ pass.info = None -> "looking"
      [] pass.pc \in {"judge", "late"} -> "judging"
      [] pass.pc \in {"sweepread", "sweep", "recheck"} -> "sweeping"
      [] pass.pc \in {"copy", "verify", "unlink"} /\ pass.mode = "sweep" -> "moving"
      [] pass.pc \in {"sync", "muxed"} /\ pass.mode = "upgrade" -> "upgrading"
      [] pass.pc = "swap" /\ pass.mode = "upgrade" -> "swapping"
      [] pass.pc \in {"tag", "normalize", "normalizing", "delete", "drop", "record",
                      "clear", "track"} -> "committing"
      [] OTHER -> "full"

(* A newly imported file; or one that an earlier pass gave a generated      *)
(* transcript, whose tag write may have failed.                             *)
Init ==
    /\ \/ /\ \E r \in Releases :
                video = [id |-> 1, sub |-> r.sub, forced |-> r.forced, alien |-> r.alien,
                         tag |-> FALSE]
          /\ entry = None
       \/ /\ \E tagged \in BOOLEAN :
                video = [id |-> 1, sub |-> "gen", forced |-> FALSE, alien |-> FALSE,
                         tag |-> tagged]
          /\ entry = [key |-> 1, status |-> "fixed", rejected |-> None]
    /\ sidecar = [s \in Slots |-> None]
    /\ wanted = FALSE
    /\ pass = NoPass

-----------------------------------------------------------------------------
(* The identities something remembers; a changed file gets another. *)
EntryRefs(e) ==
    IF e = None THEN {}
    ELSE {e.key} \cup (IF e.rejected = None THEN {} ELSE {e.rejected.video})

VideoRefs ==
    {video.id, pass.cur, pass.uid, pass.base}
        \cup EntryRefs(entry) \cup EntryRefs(pass.prev)
        \cup (IF pass.info = None THEN {} ELSE {pass.info.id})
        \cup (IF pass.rejected = None THEN {} ELSE {pass.rejected.video})

RejectedSides(e) ==
    IF e = None \/ e.rejected = None THEN {} ELSE {e.rejected.side}

SidecarRefs(s) ==
    {side.id : side \in {sidecar[s], pass.snaps[s]} \ {None}}
        \cup (IF s # "real" THEN {}
              ELSE RejectedSides(entry) \cup RejectedSides(pass.prev) \cup RejectedSides(pass))

FreshVideo == CHOOSE i \in VideoIds : i \notin VideoRefs
FreshSidecar(s) == CHOOSE i \in SidecarIds : i \notin SidecarRefs(s)

Changed(v) == [v EXCEPT !.id = FreshVideo]

(* Steps of the pass. *)
At(place) == pass.pc = place
Goto(place) == pass' = [pass EXCEPT !.pc = place]
End == pass' = NoPass
Private == UNCHANGED <<video, sidecar, entry, wanted>>

CacheHit == pass.prev # None /\ pass.prev.key = pass.cur

-----------------------------------------------------------------------------
(* _process_locked: the state entry, the cache key and the identity. *)
Begin ==
    /\ At("idle")
    /\ pass' = [NoPass EXCEPT !.pc = "snap", !.cur = video.id, !.prev = entry]
    /\ Private

(* The upgrade check reads each real sidecar once; without a readable one *)
(* there is nothing to check.                                             *)
UpgradeSnap ==
    /\ At("snap")
    /\ LET real == sidecar["real"]
       IN  IF real # None /\ real.text # "unread"
           THEN pass' = [pass EXCEPT !.snaps["real"] = real, !.pc = "identify"]
           ELSE Goto("late")
    /\ Private

(* A record applies to the video and the sidecar it was made for. *)
Applies(record, videoId) == record # None /\ record.video = videoId

(* A record that is matched by the video alone. *)
CoversAnySide(record, videoId, side) == Applies(record, videoId)

Covers(record, videoId, side) == Applies(record, videoId) /\ record.side = side.id

UpgradeIdentify ==
    /\ At("identify")
    /\ LET remembered == pass.prev # None
                           /\ Covers(pass.prev.rejected, video.id, pass.snaps["real"])
       IN  pass' = [pass EXCEPT !.uid = video.id,
                                !.pc = IF remembered THEN "late" ELSE "probe"]
    /\ Private

Consolidated(info) == info.tag \/ (CacheHit /\ pass.prev.status = "fixed")

UpgradeProbe ==
    /\ At("probe")
    /\ \/ pass' = [pass EXCEPT !.info = video,
                               !.pc = IF Consolidated(video) /\ video.sub = "gen"
                                      THEN "judge" ELSE "late"]
       \/ MayFail /\ Goto("late")
    /\ Private

(* The verdict on the real sidecar, from its text and, in English, from the *)
(* windows of the generated track, which are read from the file as it is    *)
(* now: another file than the one probed may give any answer.               *)
JudgementsOf(side) ==
    LET windows == IF video.id = pass.uid THEN {side.text} ELSE {"right", "wrong"}
    IN  CASE side.text = "foreign" -> {"undecided"}
          [] windows = {"right"} -> {"verified"}
          [] windows = {"wrong"} -> {"rejected", "undecided"}
          [] OTHER -> {"verified", "rejected", "undecided", "transient"}

UpgradeJudge ==
    /\ At("judge")
    /\ LET side == pass.snaps["real"]
           Rejected(verdict) ==
               [video |-> pass.uid, side |-> side.id, verdict |-> verdict]
       IN  \E j \in JudgementsOf(side) \cup (IF MayFail THEN {"transient"} ELSE {}) :
             pass' = CASE j = "verified" ->
                            [NoPass EXCEPT !.pc = "sync", !.mode = "upgrade",
                                           !.uid = pass.uid, !.info = pass.info,
                                           !.snaps = pass.snaps, !.consumed = {"real"}]
                       [] j = "rejected" ->
                            [pass EXCEPT !.rejected = Rejected(TRUE), !.pc = "late"]
                       [] j = "undecided" ->
                            [pass EXCEPT !.rejected = Rejected(FALSE), !.pc = "late"]
                       [] OTHER -> [pass EXCEPT !.pc = "late"]
    /\ Private

-----------------------------------------------------------------------------
(* What the sweep goes by: this check's rejection, or the one on record. *)
Remembered ==
    IF pass.rejected # None \/ pass.prev = None THEN pass.rejected ELSE pass.prev.rejected

ToSweep(info) ==
    pass' = [NoPass EXCEPT !.pc = "sweepread", !.mode = "sweep", !.cur = pass.cur,
                           !.info = info, !.rejected = Remembered]

(* No upgrade, and the state cache knows the file: remember a rejection. *)
SkipCached ==
    /\ At("late")
    /\ CacheHit
    /\ entry' = IF pass.rejected = None THEN entry
                ELSE [pass.prev EXCEPT !.rejected = pass.rejected]
    /\ ToSweep(pass.info)
    /\ UNCHANGED <<video, sidecar, wanted>>

Probed == IF pass.info = None THEN video ELSE pass.info

(* No upgrade, no cache entry, but the file carries the tag: a new entry, *)
(* for the file as it was when the pass began.                            *)
SkipTagged ==
    /\ At("late")
    /\ ~CacheHit
    /\ Probed.tag
    /\ entry' = [key |-> pass.cur, status |-> "skip-tag", rejected |-> pass.rejected]
    /\ ToSweep(Probed)
    /\ UNCHANGED <<video, sidecar, wanted>>

(* Neither: a full pass over the sidecars that are there. *)
FullPass ==
    /\ At("late")
    /\ ~CacheHit
    /\ ~Probed.tag
    /\ pass' = [NoPass EXCEPT !.pc = "gather", !.info = Probed,
                              !.todo = {s \in Slots : sidecar[s] # None}]
    /\ Private

ProbeFails ==
    /\ MayFail
    /\ At("late")
    /\ ~CacheHit
    /\ pass.info = None
    /\ End
    /\ Private

-----------------------------------------------------------------------------
(* The late-sidecar sweep: read every sidecar, and see what the upgrade    *)
(* check's record says of the real one, if it was made for this video.     *)
SweepRead ==
    /\ At("sweepread")
    /\ LET Readable(s) == sidecar[s] # None /\ sidecar[s].text # "unread"
           record == pass.rejected
           held == IF ~Applies(record, video.id) THEN "none"
                   ELSE IF /\ Readable("real")
                           /\ Covers(record, video.id, sidecar["real"])
                           /\ record.verdict
                        THEN "rejected" ELSE "held"
       IN  pass' = [pass EXCEPT
                      !.snaps = [s \in Slots |-> IF Readable(s) THEN sidecar[s] ELSE None],
                      !.todo = {s \in Slots : Readable(s)},
                      !.rejected = None, !.held = held, !.pc = "sweep"]
    /\ Private

(* A sweep to which a generated track is as good as any. *)
RetiresAny(s, info) == IF s = "forced" THEN info.forced ELSE info.sub # "none"

(* A main sidecar is retired only by a main track, a forced one by a forced *)
(* track; a real one beside a generated track is a possible upgrade.        *)
Retires(s, info) ==
    IF s = "forced" THEN info.forced
    ELSE info.sub # "none" /\ ~(s = "real" /\ info.sub = "gen")

(* The embedded text is sampled from the file as it is now. *)
Sampled(s) == IF s = "forced" THEN video.forced ELSE video.sub \in {"gen", "main"}

SweepVerdict(s) ==
    LET text == pass.snaps[s].text
        judged == English(text) /\ s = "real" /\ pass.held # "none"
    IN  CASE text = "foreign" -> "foreign"
          [] judged -> IF pass.held = "rejected" THEN "rejected" ELSE "keep"
          [] OTHER -> IF Retires(s, Probed) /\ Sampled(s) THEN "redundant" ELSE "keep"

SweepJudge(s) ==
    /\ At("sweep")
    /\ s \in pass.todo
    /\ \/ SweepVerdict(s) # "keep"
          /\ pass' = [pass EXCEPT !.info = Probed, !.target = s, !.why = SweepVerdict(s),
                                  !.pc = "recheck"]
       \/ (SweepVerdict(s) = "keep" \/ MayFail)
          /\ pass' = [pass EXCEPT !.info = Probed, !.todo = @ \ {s}]
    /\ Private

(* A sweep that trusts its first look at the video. *)
SweepRecheckNever ==
    /\ At("recheck")
    /\ Goto("copy")
    /\ Private

(* "Re-checked before EACH move: on change the sweep stops." *)
SweepRecheck ==
    /\ At("recheck")
    /\ IF video.id = pass.cur THEN Goto("copy") ELSE End
    /\ Private

SweepEnd ==
    /\ At("sweep")
    /\ pass.todo = {}
    /\ End
    /\ Private

-----------------------------------------------------------------------------
(* _quarantine_sidecar, for the sweep and for the gates of a full pass. *)
Resume == IF pass.mode = "sweep" THEN "sweep" ELSE "gather"
NextTarget == [pass EXCEPT !.pc = Resume, !.todo = @ \ {pass.target}, !.copy = None]

(* The copy of what was classified: written, synced, its directories too. *)
QuarantineCopy ==
    /\ At("copy")
    /\ \/ pass' = [pass EXCEPT !.copy = pass.snaps[pass.target], !.pc = "verify"]
       \/ MayFail /\ pass' = NextTarget
    /\ Private

(* Is the sidecar still what was copied?  If not, the copy goes. *)
QuarantineVerify ==
    /\ At("verify")
    /\ IF sidecar[pass.target] = pass.copy THEN Goto("unlink") ELSE pass' = NextTarget
    /\ Private

QuarantineUnlink ==
    /\ At("unlink")
    /\ sidecar' = [sidecar EXCEPT ![pass.target] = None]
    /\ pass' = NextTarget
    /\ UNCHANGED <<video, entry, wanted>>

-----------------------------------------------------------------------------
(* A full pass that lists a sidecar for removal without having read it. *)
GatherBlind(s) ==
    /\ At("gather")
    /\ s \in pass.todo
    /\ pass' = [pass EXCEPT !.todo = @ \ {s}, !.consumed = @ \cup {s}]
    /\ Private

(* The full pass reads each sidecar once, the forced one first: a foreign   *)
(* one goes to quarantine, an English one becomes a candidate and may be    *)
(* removed at the end; a forced one only if it will be embedded.            *)
Gather(s) ==
    /\ At("gather")
    /\ s \in pass.todo
    /\ "forced" \in pass.todo => s = "forced"
    /\ LET side == sidecar[s]
           Skip(failed) == [pass EXCEPT !.todo = @ \ {s}, !.failed = @ \/ failed]
       IN  IF side = None \/ side.text = "unread" THEN pass' = Skip(TRUE)
           ELSE IF side.text = "foreign"
                THEN pass' = [pass EXCEPT !.snaps[s] = side, !.target = s,
                                          !.why = "foreign", !.pc = "copy"]
                ELSE \/ pass' = [Skip(FALSE) EXCEPT
                           !.snaps[s] = side,
                           !.consumed = IF s = "forced" /\ pass.info.forced
                                        THEN @ ELSE @ \cup {s}]
                     \/ MayFail /\ pass' = Skip(TRUE)
    /\ Private

(* What the new file's main subtitle can come from; a real one wins over a  *)
(* generated one.  The embedded track is extracted from the file as it is.  *)
Mains == pass.consumed \ {"forced"}
HasEnglish == video.sub \in {"gen", "main"}
Embedded ==
    IF pass.info.sub = "none" \/ ~HasEnglish THEN {}
    ELSE {IF pass.info.sub = "gen" THEN "gen" ELSE "main"}
FromSidecars == {IF s = "gen" THEN "gen" ELSE "main" : s \in Mains}
Candidates == Embedded \cup FromSidecars

BestGenerated(candidates) == IF "gen" \in candidates THEN "gen" ELSE "main"

Best(candidates) == IF "main" \in candidates THEN "main" ELSE "gen"

Pick ==
    /\ At("gather")
    /\ pass.todo = {}
    /\ \E candidates \in {Candidates} \cup (IF MayFail THEN {FromSidecars} ELSE {}) :
          /\ candidates # {}
          /\ pass' = [pass EXCEPT !.out = Best(candidates), !.pc = "sync"]
    /\ Private

(* Nothing usable: the clean-up of foreign tracks, and needs-english.json   *)
(* unless a tool failed or there is only a forced subtitle.  A track tagged *)
(* English that was extracted and is not English is dropped.                *)
NoEnglish ==
    /\ At("gather")
    /\ pass.todo = {}
    /\ Mains = {}
    /\ \E extracted \in {TRUE} \cup (IF MayFail THEN {FALSE} ELSE {}) :
          /\ ~extracted \/ Embedded = {}
          /\ LET tagged == pass.info.sub # "none"
                 foreign == tagged /\ extracted /\ video.sub = "fake"
                 onlyForced ==
                     /\ ~tagged
                     /\ \A s \in Slots \ {"forced"} : pass.snaps[s] = None
                     /\ pass.info.forced \/ "forced" \in pass.consumed
             IN  pass' = [pass EXCEPT
                            !.needs = ~(pass.failed \/ (tagged /\ ~foreign) \/ onlyForced),
                            !.drop = foreign, !.consumed = {}, !.pc = "cleanup"]
    /\ Private

Unclean == pass.info.alien \/ pass.drop

(* A pass that remembers files without English, to be done with them. *)
CleanupNothingCached ==
    /\ At("cleanup")
    /\ ~Unclean
    /\ entry' = [key |-> video.id, status |-> "fixed", rejected |-> None]
    /\ End
    /\ UNCHANGED <<video, sidecar, wanted>>

CleanupNothing ==
    /\ At("cleanup")
    /\ ~Unclean
    /\ IF pass.needs THEN Goto("track") ELSE End
    /\ Private

(* Foreign tracks go, and with them a track whose text was not English. *)
CleanupRemux ==
    /\ At("cleanup")
    /\ Unclean
    /\ \/ pass' = [pass EXCEPT !.out = IF pass.drop THEN "none" ELSE video.sub,
                               !.base = video.id, !.mode = "cleanup", !.pc = "swap"]
       \/ MayFail /\ End
    /\ Private

-----------------------------------------------------------------------------
(* ffsubsync is over.  An upgrade looks at the video again, then mkvmerge   *)
(* opens it.                                                                *)
Remux ==
    /\ At("sync")
    /\ IF pass.mode = "upgrade" /\ video.id # pass.uid THEN End
       ELSE \/ pass' = [pass EXCEPT
                          !.out = IF pass.mode = "upgrade" THEN "main" ELSE @,
                          !.base = video.id, !.pc = "muxed"]
            \/ MayFail /\ End
    /\ Private

SwapCheck ==
    /\ At("muxed")
    /\ IF pass.mode = "upgrade" /\ video.id # pass.uid THEN End ELSE Goto("swap")
    /\ Private

(* os.replace, after a comparison of the durations that another release, or *)
(* a bad remux, may not pass.                                               *)
Swap ==
    /\ At("swap")
    /\ \/ /\ video' = [Changed(video) EXCEPT
                         !.sub = pass.out,
                         !.forced = pass.info.forced \/ "forced" \in pass.consumed,
                         !.alien = FALSE,
                         !.tag = pass.mode # "full" /\ pass.info.tag]
          /\ pass' = IF pass.mode = "cleanup"
                      THEN [NoPass EXCEPT !.pc = IF pass.needs THEN "track" ELSE "idle"]
                      ELSE [NoPass EXCEPT !.pc = "tag", !.mode = pass.mode,
                                          !.snaps = pass.snaps, !.consumed = pass.consumed]
       \/ (MayFail \/ video.id # pass.base) /\ End /\ UNCHANGED video
    /\ UNCHANGED <<sidecar, entry, wanted>>

(* mkvpropedit on whatever the path names; a failure is only logged. *)
Tag ==
    /\ At("tag")
    /\ \/ video' = [Changed(video) EXCEPT !.tag = TRUE]
       \/ MayFail /\ UNCHANGED video
    /\ IF pass.mode = "upgrade"
       THEN pass' = [pass EXCEPT !.pc = "delete", !.todo = pass.consumed]
       ELSE Goto("normalize")
    /\ UNCHANGED <<sidecar, entry, wanted>>

(* normalize-audio.py, inline: it reads the file, for hours, and then swaps *)
(* its own result in, or gives up.                                          *)
NormalizeStart ==
    /\ At("normalize")
    /\ pass' = [pass EXCEPT !.info = video, !.pc = "normalizing"]
    /\ Private

NormalizeEnd ==
    /\ At("normalizing")
    /\ video' \in {video, Changed(pass.info)}
    /\ pass' = [pass EXCEPT !.pc = "delete", !.info = None, !.todo = pass.consumed]
    /\ UNCHANGED <<sidecar, entry, wanted>>

(* Consumed sidecars go without another look. *)
DeleteUnchecked(s) ==
    /\ At("delete")
    /\ s \in pass.todo
    /\ pass' = [pass EXCEPT !.target = s, !.pc = "drop"]
    /\ Private

(* A consumed sidecar that changed since it was read stays. *)
DeleteCheck(s) ==
    /\ At("delete")
    /\ s \in pass.todo
    /\ pass' = IF sidecar[s] = pass.snaps[s]
               THEN [pass EXCEPT !.target = s, !.pc = "drop"]
               ELSE [pass EXCEPT !.todo = @ \ {s}]
    /\ Private

DeleteUnlink ==
    /\ At("drop")
    /\ sidecar' = [sidecar EXCEPT ![pass.target] = None]
    /\ pass' = [pass EXCEPT !.pc = "delete", !.todo = @ \ {pass.target}]
    /\ UNCHANGED <<video, entry, wanted>>

(* The entry is for the file as it is at the end. *)
Record ==
    /\ At("delete")
    /\ pass.todo = {}
    /\ entry' = [key |-> video.id, status |-> "fixed", rejected |-> None]
    /\ Goto("clear")
    /\ UNCHANGED <<video, sidecar, wanted>>

ClearWanted ==
    /\ At("clear")
    /\ wanted' = FALSE
    /\ End
    /\ UNCHANGED <<video, sidecar, entry>>

TrackWanted ==
    /\ At("track")
    /\ wanted' = TRUE
    /\ End
    /\ UNCHANGED <<video, sidecar, entry>>

-----------------------------------------------------------------------------
(* The pass is killed; its scratch files do not matter here. *)
Crash ==
    /\ MayFail
    /\ ~At("idle")
    /\ End
    /\ Private

(* Radarr or Sonarr replaces the file. *)
Import(r) ==
    /\ Window \in ImportAt
    /\ video' = [id |-> FreshVideo, sub |-> r.sub, forced |-> r.forced, alien |-> r.alien,
                 tag |-> FALSE]
    /\ UNCHANGED <<sidecar, entry, wanted, pass>>

(* Bazarr or a person writes a sidecar; sub-fallback.py writes a generated *)
(* one, but over no other.  Between the last look at a sidecar and its      *)
(* unlink ("ACCEPTED RACE", microseconds) only if MayRace.                  *)
WriteSidecar(s, text) ==
    /\ s = "gen" => sidecar[s] = None
    /\ MayRace \/ ~(pass.pc \in {"unlink", "drop"} /\ pass.target = s)
    /\ sidecar' = [sidecar EXCEPT ![s] = [id |-> FreshSidecar(s), text |-> text]]
    /\ UNCHANGED <<video, entry, wanted, pass>>

Step ==
    \/ UpgradeSnap \/ UpgradeIdentify \/ UpgradeProbe \/ UpgradeJudge
    \/ SkipCached \/ SkipTagged \/ FullPass \/ ProbeFails
    \/ SweepRead \/ (\E s \in Slots : SweepJudge(s)) \/ SweepRecheck \/ SweepEnd
    \/ QuarantineCopy \/ QuarantineVerify \/ QuarantineUnlink
    \/ (\E s \in Slots : Gather(s)) \/ Pick \/ NoEnglish
    \/ CleanupNothing \/ CleanupRemux \/ Remux \/ SwapCheck \/ Swap \/ Tag
    \/ NormalizeStart \/ NormalizeEnd
    \/ (\E s \in Slots : DeleteCheck(s)) \/ DeleteUnlink
    \/ Record \/ ClearWanted \/ TrackWanted

Environment ==
    \/ \E r \in Releases : Import(r)
    \/ \E s \in Slots : \E text \in Texts[s] : WriteSidecar(s, text)

Next == Begin \/ Step \/ Crash \/ Environment

Spec == Init /\ [][Next]_vars

-----------------------------------------------------------------------------
TypeOK ==
    /\ video \in Videos
    /\ sidecar \in [Slots -> Sidecars \cup {None}]
    /\ entry \in Entries \cup {None}
    /\ wanted \in BOOLEAN
    /\ pass \in Passes
    /\ \A s \in pass.consumed : pass.snaps[s] # None

Removed(s) == sidecar[s] # None /\ sidecar'[s] = None

(* "The only sidecars FIXED may remove, and only while this identity still *)
(* holds": a sidecar that disappears was either copied to quarantine as it *)
(* was, or read by this pass as English and is no longer needed, because   *)
(* the video beside it now has the subtitle (the forced one, for a forced  *)
(* sidecar) inside.                                                        *)
SidecarsAccountedFor ==
    [][\A s \in Slots : Removed(s) =>
          \/ pass.copy = sidecar[s]
          \/ /\ s \in pass.consumed
             /\ pass.snaps[s] = sidecar[s]
             /\ English(sidecar[s].text)
             /\ IF s = "forced" THEN video.forced ELSE HasEnglish
      ]_vars

(* Fairness: the daily scan and the watcher come back to every title, and  *)
(* a pass that has begun goes on.                                          *)
FairSpec == Spec /\ WF_vars(Begin \/ Step)

(* The promise behind "English (generated)": the right real sidecar is not *)
(* moved or deleted before the video carries a real subtitle, whatever was *)
(* remembered about earlier sidecars and earlier videos.                   *)
RightSidecarSurvives ==
    [][Removed("real") /\ sidecar["real"].text = "right" => video.sub = "main"]_vars

(* "Upgrade check": a generated subtitle does not stay for ever beside the *)
(* right real sidecar, whatever was decided about the sidecars, and the    *)
(* files, that were there before.                                          *)
RightBesideGenerated ==
    video.sub = "gen" /\ sidecar["real"] # None /\ sidecar["real"].text = "right"
RightIsTakenUp == []<>~RightBesideGenerated

(* The late sweep retires a sidecar as redundant only beside a video whose *)
(* own text is English, and not because of what an earlier file at this    *)
(* path held.                                                              *)
RedundantIsCovered ==
    [][\A s \in Slots :
          Removed(s) /\ pass.mode = "sweep" /\ pass.why = "redundant" =>
             IF s = "forced" THEN video.forced ELSE HasEnglish
      ]_vars

(* A pass never turns a file with a real English subtitle into one with a  *)
(* generated one or none ("real beats generated").                         *)
NoDowngrade ==
    [][pass.pc # "idle" /\ pass' # pass /\ video.sub = "main" => video'.sub = "main"]_vars

(* What makes every later scan pass over the file, the tag or a state entry *)
(* for the file as it is, is only there when the file is consolidated: it   *)
(* has an English text subtitle inside.                                     *)
Skipped == video.tag \/ (entry # None /\ entry.key = video.id)
SkipIsEarned == Skipped => HasEnglish

(* The consolidation's own words: a `fixed` entry for the current file says *)
(* that the file is consolidated.                                          *)
FixedMeansConsolidated ==
    entry # None /\ entry.key = video.id /\ entry.status = "fixed" => HasEnglish
=============================================================================
