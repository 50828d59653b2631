# A TLA+ model of wangflix

wangflix keeps a self-hosted media library in order: Python scripts under cron and a
shell watcher consolidate subtitles, make missing ones with Whisper, normalize loudness,
check audio languages, remove duplicates, and watch a few TV boxes. They share files, not
a process: the library itself, lock files beside the media, and JSON state files. Nothing
else tells one script what another is doing, and Radarr, Sonarr, Bazarr and people write
to the library without any lock. The models are about that: who may touch what when, and
what is still true after an import, a crash, a failed tool or a lost message at the wrong
moment.

## Inventory

| part | state | operations | interacts through | hard |
|---|---|---|---|---|
| `media_stack/locking.py` | lock file per media path (an inode and its flock) | `acquire_file_lock`, `acquire_singleton_lock` | every pipeline; children inherit | open and flock are two steps; unlink; kills |
| `media_stack/state.py` | one JSON file per script | `load_state`, `update_state_entry`, `save_state`, `load_state_locked`, `mutate_state` | all scripts | lost updates, torn or lost files, readers that never stop |
| `consolidate-subs.py` | state file (cache, remembered verdicts), `needs-english.json`, the video, its sidecars, quarantine | `process_file`: upgrade check, skips, sweep, late dub track, full pass, clean-up | lock; starts `normalize-audio.py`; sidecars | hours between a look and a step; imports; late sidecars; kills |
| `sub-fallback.py` | reads the tracker, writes a sidecar; `--dub` remembers the files it has settled | hourly run; hourly `--dub` run | tracker, sidecars, tag, lock (polled) | an hour's work on a file nobody holds; what is remembered of a file that changes meanwhile |
| `normalize-audio.py` | the video, `.pre-norm.bak`, `.normalize-tmp`, tag | one file; scan | lock, inherited or own; sweep | two renames and a tag; `.mp4` beside `.mkv`; kills |
| `media_stack/sweeps.py` | none | `sweep_orphans` | intermediates of live workers | whose process is it? |
| `movie-dedupe.py`, `tv-dedupe.py`, `media_stack/dedupe.py` | manifest, `.dupe-recycle` | read the tracking, scan, choose, check again and move under the locks, clean up Sonarr's rows, unlink lock files | lock, Sonarr, Radarr, renaming pipelines | tracking and folder change between reading and moving; episodes that share a file; lock files that come back |
| `audio-lang-check.py` | state file: conclusion, failures, alert mark | hourly run | Radarr/Sonarr, Jellyfin, Telegram | files replaced while heard; alerts once and true |
| `shield-check.py` | state file: findings and outage count | daily run, `--device` | adb, Telegram | failed and unacknowledged sends |
| `consolidate-watch.sh` | debounce files | inotify trigger | `consolidate-subs.py` | dropped events |
| `nuke_stalled.py`, `unaired-guard.py`, `clients/arr.py` | none | read the queues page by page, delete downloads from a queue or from qBittorrent | Sonarr's and Radarr's queues, qBittorrent | queues that move while they are read; answers that get lost |
| `malware-guard.sh`, `search-missing.py`, `sync-forwarded-port.py` | none | one pass over a service | qBittorrent, Sonarr, Radarr, gluetun | inside the services |
| `media_stack/` text, audio, mux, probe modules | none | pure functions and tool calls | called by the above | scores and wording, not order |
| health, status, installation, clients | none | read, report, install | HTTP | none that a model checker reaches |

What makes each part correct is listed with its module below; what can go wrong where is
in `PROJECT.json` under `hazards`, each with the property that would notice, or the reason
why none does.

## Modules

```
StateContents <- StateMap (abstract)      Consolidate  <- ConsolidateProofs
      ^             ^ refined by          SubFallback  <- SubFallbackProofs
      +-------- StateFile   FileLock      Normalize    <- NormalizeProofs
                    ^         ^           Dedupe       <- DedupeProofs
                    +----+----+           AudioCheck   <- AudioCheckProofs
                         |                ShieldCheck  <- ShieldCheckProofs
                  SharedFileProofs        Downloads    <- DownloadsProofs
MC<module> instantiates <module> for TLC; <module>Proofs has its theorems
```

The modules do not share state, and each abstracts what the others guarantee: mutual
exclusion per path (FileLock) makes passes take turns in Consolidate, SubFallback and
Normalize; atomic operations on a state file (StateFile) make a tracker or cache update
one step everywhere else; SubFallback sees consolidation only by what it does to tag,
sidecars and tracker, in the order Consolidate has.

**FileLock** (`locking.py`, `movie-dedupe.py`, the child of `_normalize_audio_inline`).
`lockFile` is the inode the lock path names, `fd[p]` the one a process has open: flock
locks inodes, so `OpenLockFile` and `Flock` are separate steps. `Finish` and `Interrupt`
are the ways out of the `with`, `Killed` is a process's end without them, `Move`,
`ReleaseMoved` and `UnlinkLockFile` are movie-dedupe's. `Reimport` puts a file back at a
path that dedupe emptied. Correct if: one worker per file (`WorkExclusion`), on the lock
that newcomers will see (`HolderOwnsThePath`), and no child without the lock
(`ChildUnderLock`).

**StateContents, StateMap, StateFile** (`state.py`). StateMap is what callers may assume:
a map changed by atomic requests, of which what was changed since it was last safe (`saved`,
`synced`) may be lost or become unreadable in a power loss. StateFile is the code: flock shared
or exclusive, lenient or strict parse, temporary file, rename without fsync, exceptions.
`saved` is the content the disk surely holds: `Sync`, the kernel's write-back, makes it the
current one, and `PowerLoss` brings it back, or keeps the newer content, or leaves the name with
a file without its text. `Linearizable` is the refinement; the mapping takes the path's content
as the map and the rename (or the read) as the moment of effect. `Calls` says which calls a
process makes.

**Consolidate** (`consolidate-subs.py`, one `.mkv`). One action per stretch of the code
between two looks at the shared files; `pass` holds the local variables that live across
them (probe result, snapshots, `consumed`, remembered verdicts). The order is that of
`_process_locked`. A file's identity is a number; texts and tracks are the few kinds the
code tells apart (right, wrong episode, foreign, unreadable; none, generated, real, falsely
tagged). Every tool's verdict is an input, restricted to what it can say about such a text.

**SubFallback** (`sub-fallback.py` with the tracker and the file of checked files, the late
dub track of `consolidate-subs.py`). `run` is the hourly run on one title, in mode `main` or
`dub`; `pass` what a consolidation does meanwhile. `since` in a tracker entry is the release
at which `first_seen` was set, `memo` the identity under which `run_dub` has settled the file.
Both modes go through `_place_sidecar`, so `Work` to `Link` are actions of both. They have a
singleton lock each and could run at once, but one stops at the tag and the other without
it, and neither reads what the other writes, so the module has one run at a time. `LateBegin`,
`LateSwap` and `LateUnlink` are `_add_late_dub`.
A release's kind says what is permanent about it: the English audio has dialogue, or none, or
sounds foreign to the content gate, or is missing, unverifiable or too short (`speech`); a video
of the same stem lies beside it (`sibling`); the clean-up has something to remux (`clean`). A
forced sidecar is Bazarr's to write; with nothing else English a pass only cleans up
(`PassForced`), and no run makes a subtitle. From the swap on each step may fail by itself, as
in the code: the tag (only logged, and `PassRecord` still writes "fixed", after which no later
pass touches the file and no `--dub` run looks at it), an unlink, the update of the tracker.
`spent` and `marred` are ghosts for `FixedIsFinished`: the sidecars that went into the video,
and that something went wrong after the swap.

**Normalize** (`normalize-audio.py`, `.normalize-tmp` in `sweeps.py`). Two names of one
title, two workers. `Dest`, `Backup`, `Replace`, `Tag`, `RollBack`, `DropBackup` are
`_replace_and_tag`
line by line; every failure leads where its `except` leads; `Kill` leaves what the disk has. A
rename of the rollback that fails itself leaves the disk as a kill there does, and is not told
apart from one. `fit` is permanent: a file without audio to measure is skipped, and one whose
remux would lack a track or time is refused, every time. Nothing starts a worker for certain: no
cron line runs `normalize-audio.py --scan`, and `consolidate-subs.py` starts it once, after a
full pass that fixed the file. So `BegunIsNormalized` speaks of what a worker has begun on and no
tool fails; what fails or is killed is not taken up again.

**AudioCheck** (`audio-lang-check.py`). `entry[f]` is the file's state entry with the
failure record inside; `run` the loop and `send_alerts`. A version number is the identity;
a failure of the send is not told apart from its success, because the code does not either.
The order in which pending findings fill messages (oldest first) is left open, and how many
fit into one: from one, which always does, to `MaxItems`. Two things are left out: a rename
that keeps the inode and with it the identity, after which the code hears the file anew and
sends its finding under the new path; and a state file that stays unreadable, which ends every
run with exit code 1 as a kill ends one, until someone repairs it.

**ShieldCheck** (`shield-check.py`). `stored` against `told`, what the operator has read:
a ghost the code does not have and its comments speak of. `unsaved` marks the boxes of which
the two may differ, for a reason the code cannot know: an alert that arrived although its send
was reported as failed, a run that died between its message and its save, a lost state file
(every box). A box leaves it when what is stored is what was read. All three properties exempt
these boxes: a notice may be repeated to them, and a drift that was read and not stored is never
taken back if the box falls back in line before the next run.

**Dedupe** (`tv-dedupe.py`, `movie-dedupe.py`, `media_stack/dedupe.py`; one folder, which
script chosen at `Init`). `row` and `link` are what Sonarr or Radarr has on record: the path
of a row, and the row of an episode; `disk` the folder, `run` the script. tv-dedupe reads rows
and episodes by two requests, twice (`Begin`, `ReadEpisodes`; `RereadFiles`, `Decide`), and
each is an action. There are two episodes, since a file that holds two is what makes a removal
dangerous. `code` is the exit code, and with it whether the operator has been told. Imports
take no lock; pipelines do, and rename an `.mp4` without telling Sonarr. Correct if: nothing
is moved that Sonarr has on record (`TrackedStays`), a readable copy stays (`CopyRemains`),
moves are only moves (`NothingDestroyed`), and duplicates are resolved or reported
(`EndsResolvedOrTold`).

**Downloads** (`nuke_stalled.py`, `unaired-guard.py`, `ArrClient.get_queue`,
`remove_by_download_id`, `delete_from_queue`). A queue is a sequence of rows, one per episode
of a download; `Read` takes one page by its number, as the service counts at that moment.
`shifted` is a ghost: a row that had been read left before the reading was complete.
Correct if: nothing that an Arr still claims is deleted behind its back
(`DirectIsUnclaimed`), no pack with an aired episode goes (`ReapedIsUnaired`), stalled
downloads do (`StalledGoes`).

## Runs

All bounds are constants of the modules, given in the `.cfg` files and named in the
`CONSTANTS` of each module.

| run | question | bounds |
|---|---|---|
| `file_lock` | do two ever work on one file? | 2 pipelines, 1 deduper, 3 inodes |
| `file_lock_unlink` (violation) | ... if a file reappears before the unlink | same |
| `state_file` | is `state.py` an atomic map? do its calls end? | 3 callers (one makes every call), 2 keys, 1 value |
| `consolidate` | is any subtitle lost, or made worse, by a pass? does a right sidecar get in? | 3 sidecar slots, tools work |
| `consolidate_fail` | ... if tools fail and passes are killed? is a skip earned? | 1 slot, every text, lying tags |
| `consolidate_import` (violation) | does a fixed entry mean consolidated? | imports after the swap |
| `sub_fallback` | does the text belong to the file, did it wait, is nothing unfinished settled or reported, does it end? | 2 releases, the second of 5 kinds, 1 fault |
| `normalize` | is a file lost or encoded twice? is what was begun ended? | 2 workers, 3 releases, 3 faults |
| `audio_check` | are alerts true and sent once, are all files heard? | 2 files, 3 versions, 2 faults, 2 attempts, up to 2 items per message |
| `shield_check` | does the operator know what the state says? | 2 boxes, 1 finding, 4 changes, 2 faults |
| `dedupe` | is the right copy moved, and only moved? is the rest reported? | 4 names (one that `episode_key` cannot place), 3 rows, 3 imports, 1 fault; both scripts |
| `downloads` | does a download go only when it may, and then for good? | a pack of 2 episodes, a release grabbed twice, pages of 2, 1 fault |

Why they are enough. Every race here is between two actors about one path, so two
pipelines (three callers for `state.py`, where a reader and two writers differ) and one
title exercise it; a third import or fault lets every recovery be interrupted once more.
Identities are reused once nothing remembers them, so Consolidate's runs bound the
identities in use at one time (11 of a video, 6 of a sidecar, one more than a state can
mention, which its `IdsAssumption` asks of any instance) and not the number of imports: there
is no step limit. Its
`VIEW`, and SubFallback's, renumber identities in the order the state mentions them; the
actions compare them for equality only, and choose new ones by being new, so states with the
same view behave alike, for liveness too. A message of up to two items may hold both findings, or one of
them, so that two need two messages; with two attempts both counting and giving up happen.
AudioCheck's `MAX_FAILED_ATTEMPTS` is 3 and its `MAX_ALERT_ITEMS` 15 in the code; the rules
do not depend on the number. `UNREACHABLE_ALERT_AT` is 3 as in the code, and ShieldCheck's
counter stops one past it, since the code compares with that number only. Dedupe's names are
the least with an `.mp4` that becomes an existing `.mkv`, a better copy and a double episode;
its third import lets a tracked file change after a double one. Two pages of two rows are the
least in which a row can slip between pages; the code asks for pages of 1000, which the server
may cap.

`CHECK_DEADLOCK FALSE` is set in `FileLock*` and `Normalize`: once a title is moved away,
or lies under its backup name only, and the bound on imports is reached, there is nothing
left to do.

SubFallback's second release is of any of the kinds a file can come to (`FirstAndSecond`), and
meets what the first, which gets its subtitle, has left: sidecars, an entry, a run at work. Of
`state_file`'s callers one makes every call and the other two record and forget, which pairs
each kind of call with a write of another key and of the same.

**Import windows.** An import may fall at any step except where the code demonstrably does
not look again, which would only repeat the same known loss under every property. They are
constants (`ImportAt`, `ImportInRun`, `ImportIn`, `SiblingIn`), and each gap is a hazard:

- Consolidate: after a rename, where `consolidate_import` puts the imports on purpose, and
  between a sweep's re-check and the end of its move. `consolidate_fail` has imports
  everywhere else; `consolidate` leaves out also a full pass or clean-up between its probe and
  its rename, where the code compares nothing and `NoDowngrade` is false.
- Consolidate: a sidecar replaced between its last check and its unlink, which a comment in
  the code accepts (`MayRace`).
- SubFallback: between the last comparison and the link, between the tracker's check and
  the identity a run goes by, between the sight of the tag and the report (a `--dub` run has
  the first gap only); and inside a pass, but for the remux of a late dub track.
- Normalize: over a name from the start of its rendering to the end of its swap. The code would
  make the new release the backup and delete it. The run also has no import between the
  measurement of an `.mkv` and its tag: the tag would say of the new release what was measured
  of the old one.
- Dedupe: under the locks except at tv-dedupe's second reading, which is there for imports. With
  `--force`, and for files that cannot be read, also not there, since nothing would notice
  (finding 4). Under a name that a pipeline renames, not after the scan: it would rename an
  import that Sonarr's rows have not caught up with onto a name that a move has vacated, whose
  old row the clean-up then deletes with the file. movie-dedupe reads nothing twice, so a
  movie is imported between its runs only (finding 3).
- Downloads has no such window; instead its two safety properties exempt the readings that
  `shifted` marks (finding 5).

**Fairness.** Weak fairness of a running script's steps: it is a process that goes on. Weak
(where a lock may be busy now and then, strong) fairness of its start: cron starts the daily
scan, the hourly and the daily checks for ever. Not of `Begin` in Normalize, which no schedule
repeats; of its sweep, which the daily scan does. Weak fairness of time passing (`Age`,
`Settle`). Imports, removals, failures, kills and sends by hand are never fair; failures and
kills are bounded where a liveness property needs them to stop, and its comment says so.
A wait for the pipeline (`PipelineTimeout`) polls and has a deadline, hence strong fairness.
Steps of a dedupe run, the end of a pipeline and the steps of `nuke_stalled.py` are weakly fair;
the guard against unaired episodes has no liveness property, and no fairness.
`CallsEnd` has a premise of its own: there are moments without a reader again and again.
Without it TLC refutes the property with two overlapping readers and a writer.

## Findings

1. `movie-dedupe.py` unlinks lock files although `locking.py` says that they never are, on
   the ground that no file will reappear. `file_lock_unlink` shows two workers on a file
   that did.
2. `consolidate-subs.py` takes the key of its `fixed` entry after everything else, so a
   release imported during the inline normalization is recorded as done and skipped from
   then on, untouched (`consolidate_import`).
3. `movie-dedupe.py` reads what Radarr tracks once, when it starts, and locks the leftovers
   only. A pipeline that renames the keeper meanwhile, and a rescan that takes up the leftover
   instead, make it move a tracked file without `--force`, against its docstring.
   `TrackedStays` is about tv-dedupe.py for this reason.
4. `tv-dedupe.py` re-reads the tracking by two requests; with `--force`, a release imported
   between them looks untracked, and is moved away. `TrackedStays` is refuted when `ImportAt`
   lets such an import in.
5. `get_queue` pages by position and believes the reading complete when a row has slipped
   between two pages. `DirectIsUnclaimed` and `ReapedIsUnaired` are refuted without the
   exemption of `shifted`.
6. A comment in `tv-dedupe.py` says that `probed` keeps an unreadable file from outranking a
   healthy one; `rank_key` never looks at it.
7. `movie-dedupe.py` moves into `.dupe-recycle` under the plain name and overwrites what was
   recycled there before, which `tv-dedupe.py` guards against: `NothingDestroyed` is about the
   latter only.

Findings 3 to 7 have no run of their own. Nor have these, which are in the hazards:

- A release imported while `normalize-audio.py` renders is lost.
- Two kills at the wrong moments make one stranded `.pre-norm.bak` overwrite another (TLC found
  it for `NothingLost`, which allows one kill).
- When the real track inside the video cannot be extracted, `consolidate-subs.py` chooses
  among the sidecars alone, and a generated one can take the place of a real subtitle. The
  proof of `NoDowngrade` stopped here: the model had left such a pass without any candidate,
  and it now goes on, as the code does. The property is about passes in which no tool fails.
- A `sub-fallback.py` run that dies of its oldest file every hour never reaches the others.
- A `shield-check.py` run that dies between message and save, or whose message arrives although
  its send fails, leaves a notice nothing takes back.
- A tag write that fails is only logged; the state says "fixed", so no later pass writes the tag,
  and a `--dub` run never takes the file up.
- A pass that dies after its swap leaves tag and free lock, which `sub-fallback.py` takes for the
  end of the pipeline: `wait_for_pipeline` says "FINISHED, not merely STARTED", and reports FIXED
  with a sidecar or a tracker entry left. `FixedIsFinished` exempts such a pass.

## Proofs

TLAPS checks the theorems about nine components, in eight modules, for any number of
processes, files, names, releases and identities, and any limits. For each of the nine the type
invariant is proved and every safety property that its runs check; some more are only in the
proof modules (the type invariants of FileLock and StateFile, `HolderOwnsThePath`, that keys
change on request only). A proof module starts with its inductive invariant, has one lemma per
action or group of actions, and ends with the theorems. The invariants were checked by TLC
before they were proved.

No theorem assumes more about the constants than the modules do, except where a bullet says
so; what is assumed there are the import windows above, or switches of the model (`MayRace`,
`MayFail`, ...), and the passing runs satisfy it too.

- **FileLock.** `WorkExclusion` is not inductive: it needs that every lock file anyone has
  open is the one at the path (`OpenOwnsThePath`, whence `HolderOwnsThePath`), that an inode
  has one holder, and that pipelines work only on a file that is there; the three and `TypeOK`
  are `IInv`. The assumption is `ReappearEarly = FALSE`: nothing comes back to the path while
  an old lock file is about to be unlinked. `ChildUnderLock` assumes `MayOrphan = FALSE`, no
  SIGKILL of a parent.
- **StateFile.** `IInv`: a writer is alone; a call that writes holds the exclusive lock; what
  it parsed is still the content of the path; its temporary file is the abstract effect of its
  request on that content; and what is synced is saved (`SyncedIsSaved`). With it every step is a
  step of `StateMap` or a stutter (`StepRefines`), hence `Implements`; `ChangesRequested` follows
  from the same invariant, with the one exception it names: a power loss may put the whole file
  back to what was last written to disk, and ends every call.
- **ShieldCheck.** What is on file and what has been told differ while a run is between a
  message and its save, so `ToldIsStored` needs what the run holds: told is what it has loaded
  (`ToldIsLoaded`), or, after the message, what it is about to store (`ToldIsUpdated`), no
  send of the run having failed before (`DeliveredSoFar`); and told is still stored for
  every box the message was not about (`OthersAreStored`), so that a kill leaves only those
  it was about behind. `NoticesAlternate` follows, for every message that is tried, since a
  run decides on what it has loaded, and that is what the operator has read of every box that is
  not in `unsaved`.
- **AudioCheck.** Conclusions are kept by path and are about a release. The invariant says
  which one: a release belongs to one path (`OnePath`), what is on record is no newer than the
  file (`RecordsAreOlder`, `UnrecordedIsNew`), failures are counted on one release
  (`CountedFairly`), what a run took from the disk or the state is still so or noticed before
  use (`ScannedIsOpen`, `NewsIsTrue`), and sent, marked and on record agree but for a run that
  was killed (`SentIsRecorded`, `UnmarkedIsUnsent`).
- **SubFallback.** `NotedStaysListed` and `MemoHidesNone` hold wherever imports fall: whatever
  a run drops, a pass clears or `--dub` settles goes by the identity it has looked at
  (`DroppedIsStale`, `ClearedIsTagged`, `NotingIsUntagged`, `TaggedIsUnlisted`,
  `SavedIsSettled`), and a transcript is of the release it was made from (`TextIsOfRelease`).
  `TextBelongs`, `FixedIsFinished` and `GraceRespected` name in their hypotheses the few
  windows in which no release may arrive; no others are needed. `FixedIsFinished` needs what a pass
  still has to do at each of its places after the swap, unless it is `marred`: the sidecars it
  spends are those it has taken (`SpentIsSame`), gone once it has deleted them (`SpentIsGone`),
  and with a tag, no pass and no mark there is neither sidecar nor entry left (`TaggedIsDone`;
  `SwappedIsUnnoted` and `PassedIsUntagged` carry it over the tag). `IdsAssumption` gives a new
  file an identity that nothing remembers, by counting what a state can mention.
- **Normalize.** `EncodedOnce` holds wherever imports fall: a rendered file has been encoded
  once more than its source (`Rendered`), and a file without the tag was never encoded, but
  for kills (`UntaggedIsOld`). `NothingLost` needs what the swap relies on, step by step, in name and
  backup (`Swapping`), and that a backup left by the one kill is not the only copy of a wanted release
  where a swap may still overwrite it (`LeftoverIsSafe`, `Spared`). It assumes `NoImportInSwap`: nothing is
  imported over a file between the start of its rendering and the end of its swap, and no `.mkv`
  appears beside an `.mp4` after the last look for one. Imports during the inspection are
  covered: a worker renders what is there when it begins.
- **Dedupe.** The invariant carries the answers of the two readings to the moves: no two rows
  have one path (`PathsUnique`), a row that was read has the path that was read or is gone
  (`SeenStays`), a copy is chosen on an answer only (`Answered`), the choice and its keeper
  stand until the last move (`ChoiceStands`, `KeeperStands`), a copy of the other episode is seen to be one
  (`OtherIsSeen`), and what was moved stays away until the clean-up (`MovedIsGone`). That a free place is found in the recycle folder is a
  pigeonhole argument (`FreeSpot`). `ImportsKeepAway` in the module names the windows. The
  type invariant holds for both scripts and all windows, the rest is about tv-dedupe.py. The
  attempt found the window under renamed files: it takes five imports, TLC's runs have three.
- **Consolidate.** A pass relies on looks that are hours old. The invariant says what each
  look is worth later: a snapshot is the sidecar of that identity, if it is still there
  (`SnapsHold`); no remembered rejection is of the right sidecar of this video
  (`RecordsHold`); the probe is of the video the pass began with, if that is still there
  (`InfoHolds`); a sweep's verdict fits the copy it moves (`SweepHolds`); what was muxed contains what was consumed (`OutHolds`); and
  what is deleted in the end is inside (`SettleHolds`). Identities are reused, but only
  when nothing remembers them; `OneMore` and the lemmas after it count what a state can remember.
  `IInv` is invariant wherever imports fall; its parts say for themselves which gap they need
  closed, and each theorem names its own: none for `TypeOK`; after a rename (`SettlesAlone`)
  for `SkipIsEarned` and `SidecarsAccountedFor`; a sweep's move (`MovesAlone`) for
  `RedundantIsCovered`; both for `RightSidecarSurvives`; after a rename and from the probe to
  the rename of a full pass or clean-up (`BuildsAlone`) for `NoDowngrade`. None can be dropped:
  with imports in any one of them TLC refutes the property. `SidecarsAccountedFor` and
  `RightSidecarSurvives` also assume that nobody races the last check of a sidecar (`~MayRace`),
  and `NoDowngrade` that no tool fails (`~MayFail`).
- **Downloads.** `nuke_stalled.py` puts its two answers together long after it read the
  queues. The invariant says what they are worth then: an answer "not_found" from readings
  that missed nothing means that no row of the torrent is in the queue, as long as the client
  has it (`NotFoundIsUnclaimed`), for a release is grabbed only when the client has it no more,
  and what has left the client before its turn is blocklisted (`ListedStays`). For
  `ReapedIsUnaired`: a queue has all rows of a download or none (`Whole`), so that a reading
  that missed nothing shows all its episodes. Underneath is a lemma about paging: rows that
  were read from a queue in pages (`Aligned`) to its end, none of them having left, are all its
  rows (`ReadOf`). The library's `SelectSeq` is opaque to the provers and its properties would
  need induction over sequences; `Without` defines the filtered queue by the rank of the rows
  that stay instead, and `WithoutOf` shows that it holds just those, each once. Nothing is
  assumed but the constants' assumptions; the readings during which a row left are exempted by
  the properties themselves.

Only model-checked:

- Every liveness property, since TLAPS proves nothing from fairness, nor about ENABLED:
  `CallsEnd` (of one caller: `CallsEndOne`), `RightIsTakenUp`, `EndsConsolidated`,
  `BegunIsNormalized`, `AllIsHeard`, `AllIsKnown`, `EndsResolvedOrTold`, `StalledGoes`.

## Not modelled

- The text and audio analysis (scores, thresholds, floating point), mux plans, probes and
  formatting: functions of their input. The models take their outcomes by what the code does
  next: outcomes after which it does the same are one, and those that are permanent for a file
  (no audio, no usable transcript, a sibling) are told from those another run may not meet.
- `malware-guard.sh`, `search-missing.py`, `sync-forwarded-port.py`, health checks, reports and
  installation: single requests, or nothing that another part reads.
- Manifests, dry runs, notices' wording, and dub-like tracks that a release already has.
- The watcher, and the order and budget of several fallback candidates: planned. A dropped event
  costs a day, until the daily scan that the fairness stands for.
- `.tmp.mkv` files and work directories in the sweep: nothing reads them.

## Plan

1. Done: FileLock, StateFile with its abstract map, Consolidate, SubFallback with `--dub`,
   Normalize, AudioCheck, ShieldCheck, Dedupe, Downloads; the safety theorems of all of them.
2. Prove more: `NothingLost` for kills that do not fall into one swap; the sides of the
   modules' borders that one module assumes of another.
3. Extend the model: `FallbackQueue` (several candidates, budget, oldest or newest first);
   `Watch` (events, debounce, cooldown, daily scan: every import is consolidated);
   `malware-guard.sh` and its restart.
