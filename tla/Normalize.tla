------------------------------ MODULE Normalize -----------------------------
(***************************************************************************)
(* normalize-audio.py on one title that may have an .mp4 and an .mkv side  *)
(* by side: the workers of a scan, or of consolidate-subs.py, measure and  *)
(* render a file for hours, swap the result in behind a backup, and tag    *)
(* it, while tools fail, workers are killed, and releases are imported.    *)
(* sweep_orphans (media_stack/sweeps.py) removes what killed workers left. *)
(***************************************************************************)
EXTENDS Naturals, FiniteSets

CONSTANTS
    Workers,
    Releases,       \* 1..n: the releases that get imported, in this order
    ImportIn,       \* the places of a worker at which its file may be replaced
    SiblingIn,      \* those at which an .mkv may appear next to its .mp4
    MaxFaults,      \* bound: tools that fail and workers that are killed
    None

ASSUME ReleasesAssumption == Releases \subseteq Nat \ {0}
ASSUME FaultsAssumption == MaxFaults \in Nat

VARIABLES
    disk,       \* disk[n]: the file under a name, or None
    bak,        \* bak[n]: its .pre-norm.bak, or None
    lock,       \* lock[n]: the worker that holds the lock of a name, or None
    w,          \* w[p]: the local variables of a worker
    tmp,        \* workers with files in .normalize-tmp, by process id
    wanted,     \* the imported releases that nothing has replaced
    imported, faults, kills

vars == <<disk, bak, lock, w, tmp, wanted, imported, faults, kills>>

Names == {"mkv", "mp4"}
Places == {"idle", "inspect", "tagonly", "render", "collide", "dest", "backup", "replace",
           "tag", "rollback", "drop"}

(* encodes: how often its audio has been encoded anew.  fit: it has audio   *)
(* whose loudness can be measured, and what is rendered from it loses no    *)
(* track and no time.                                                       *)
Media == [release : Releases, encodes : Nat, tagged : BOOLEAN, fit : BOOLEAN]

ASSUME NoneAssumption == None \notin Workers \cup Media

Idle == [pc |-> "idle", src |-> "mkv", out |-> None]

Init ==
    /\ disk = [n \in Names |-> None]
    /\ bak = [n \in Names |-> None]
    /\ lock = [n \in Names |-> None]
    /\ w = [p \in Workers |-> Idle]
    /\ tmp = {}
    /\ wanted = {}
    /\ imported = {}
    /\ faults = 0
    /\ kills = 0

At(p, place) == w[p].pc = place
Goto(p, place) == w' = [w EXCEPT ![p].pc = place]
NoFault == UNCHANGED <<faults, kills>>
Fault == faults < MaxFaults /\ faults' = faults + 1 /\ UNCHANGED kills
World == UNCHANGED <<wanted, imported>>

(* The end of process_file: intermediates and locks go. *)
Freed(p) == [n \in Names |-> IF lock[n] = p THEN None ELSE lock[n]]
FinishKeepingLock(p) ==
    /\ w' = [w EXCEPT ![p] = Idle]
    /\ tmp' = tmp \ {p}
    /\ UNCHANGED lock
Finish(p) ==
    /\ w' = [w EXCEPT ![p] = Idle]
    /\ tmp' = tmp \ {p}
    /\ lock' = Freed(p)

-----------------------------------------------------------------------------
(* _process_file_inner: a file that is there, and its lock; a busy one is   *)
(* skipped.  A process id is not used again while files carry it.           *)
Begin(p, n) ==
    /\ At(p, "idle")
    /\ p \notin tmp
    /\ disk[n] # None
    /\ lock[n] = None
    /\ lock' = [lock EXCEPT ![n] = p]
    /\ w' = [w EXCEPT ![p] = [Idle EXCEPT !.pc = "inspect", !.src = n]]
    /\ World /\ NoFault /\ UNCHANGED <<disk, bak, tmp>>

(* The probe and the measurement; an .mkv on target needs its tag only, and *)
(* one without audio nothing.                                               *)
Inspect(p) ==
    /\ At(p, "inspect")
    /\ LET n == w[p].src IN
       IF disk[n] = None \/ (disk[n] # None /\ disk[n].tagged)
       THEN Finish(p) /\ NoFault
       ELSE /\ \/ n = "mkv" /\ Goto(p, "tagonly") /\ UNCHANGED <<tmp, lock>> /\ NoFault
               \/ Goto(p, "render") /\ UNCHANGED <<tmp, lock>> /\ NoFault
               \/ Finish(p) /\ ((~disk[n].fit /\ NoFault) \/ Fault)
    /\ World /\ UNCHANGED <<disk, bak>>

(* set_normalized_tag on the file itself. *)
TagOnly(p) ==
    /\ At(p, "tagonly")
    /\ LET n == w[p].src IN
       \/ /\ disk[n] # None
          /\ disk' = [disk EXCEPT ![n].tagged = TRUE]
          /\ NoFault
       \/ disk[n] = None /\ NoFault /\ UNCHANGED disk
       \/ Fault /\ UNCHANGED disk
    /\ Finish(p)
    /\ World /\ UNCHANGED bak

(* render_normalized and mkvmerge_remux, into .normalize-tmp. *)
Render(p) ==
    /\ At(p, "render")
    /\ LET n == w[p].src IN
       \/ /\ disk[n] # None
          /\ w' = [w EXCEPT ![p].pc = "collide",
                     ![p].out = [disk[n] EXCEPT !.encodes = @ + 1, !.tagged = FALSE]]
          /\ tmp' = tmp \cup {p}
          /\ UNCHANGED lock
          /\ NoFault
       \/ disk[n] = None /\ Finish(p) /\ NoFault
       \/ Finish(p) /\ Fault
    /\ World /\ UNCHANGED <<disk, bak>>

(* A sibling .mkv is not overwritten; a remux that lacks what its source    *)
(* had is refused.                                                          *)
Collide(p) ==
    /\ At(p, "collide")
    /\ \/ IF (w[p].src = "mp4" /\ disk["mkv"] # None) \/ ~w[p].out.fit
          THEN Finish(p) /\ NoFault
          ELSE /\ Goto(p, IF w[p].src = "mp4" THEN "dest" ELSE "backup")
               /\ UNCHANGED <<tmp, lock>> /\ NoFault
       \/ Finish(p) /\ Fault
    /\ World /\ UNCHANGED <<disk, bak>>

(* A worker that relies on its first look for a sibling. *)
DestUnchecked(p) ==
    /\ At(p, "dest")
    /\ IF lock["mkv"] # None THEN Finish(p)
       ELSE /\ lock' = [lock EXCEPT !["mkv"] = p]
            /\ Goto(p, "backup")
            /\ UNCHANGED tmp
    /\ World /\ NoFault /\ UNCHANGED <<disk, bak>>

(* _replace_and_tag: the destination's lock, and "re-check under the lock". *)
Dest(p) ==
    /\ At(p, "dest")
    /\ IF lock["mkv"] # None \/ disk["mkv"] # None THEN Finish(p)
       ELSE /\ lock' = [lock EXCEPT !["mkv"] = p]
            /\ Goto(p, "backup")
            /\ UNCHANGED tmp
    /\ World /\ NoFault /\ UNCHANGED <<disk, bak>>

(* os.replace(src, backup_path). *)
Backup(p) ==
    /\ At(p, "backup")
    /\ LET n == w[p].src IN
       \/ /\ disk[n] # None
          /\ bak' = [bak EXCEPT ![n] = disk[n]]
          /\ disk' = [disk EXCEPT ![n] = None]
          /\ Goto(p, "replace")
          /\ UNCHANGED <<tmp, lock>>
          /\ NoFault
       \/ disk[n] = None /\ Finish(p) /\ NoFault /\ UNCHANGED <<disk, bak>>
       \/ Fault /\ Finish(p) /\ UNCHANGED <<disk, bak>>
    /\ World

(* os.replace(backup_path, src). *)
Restored(n) == [disk EXCEPT ![n] = bak[n]]

(* os.replace(remux_out, final_path), or the source comes back. *)
Replace(p) ==
    /\ At(p, "replace")
    /\ LET n == w[p].src IN
       \/ /\ p \in tmp
          /\ disk' = [disk EXCEPT !["mkv"] = w[p].out]
          /\ tmp' = tmp \ {p}
          /\ Goto(p, "tag")
          /\ UNCHANGED <<bak, lock>>
          /\ NoFault
       \/ /\ (p \notin tmp /\ NoFault) \/ Fault
          /\ disk' = Restored(n)
          /\ bak' = [bak EXCEPT ![n] = None]
          /\ Finish(p)
    /\ World

(* A failed tag that leaves the swap as it is. *)
TagOrLeave(p) ==
    /\ At(p, "tag")
    /\ \/ disk' = [disk EXCEPT !["mkv"].tagged = TRUE] /\ NoFault
       \/ Fault /\ UNCHANGED disk
    /\ Goto(p, "drop")
    /\ World /\ UNCHANGED <<bak, lock, tmp>>

(* The tag, or the first half of the rollback. *)
Tag(p) ==
    /\ At(p, "tag")
    /\ \/ /\ disk' = [disk EXCEPT !["mkv"].tagged = TRUE]
          /\ Goto(p, "drop")
          /\ NoFault
          /\ UNCHANGED <<bak, lock, tmp>>
       \/ /\ Fault
          /\ disk' = Restored(w[p].src)
          /\ bak' = [bak EXCEPT ![w[p].src] = None]
          /\ IF w[p].src = "mkv" THEN Finish(p)
             ELSE Goto(p, "rollback") /\ UNCHANGED <<lock, tmp>>
    /\ World

(* The other half, "dropping the orphan output when the suffix changed".    *)
RollBack(p) ==
    /\ At(p, "rollback")
    /\ disk' = [disk EXCEPT !["mkv"] = None]
    /\ Finish(p)
    /\ World /\ NoFault /\ UNCHANGED bak

DropBackup(p) ==
    /\ At(p, "drop")
    /\ bak' = [bak EXCEPT ![w[p].src] = None]
    /\ Finish(p)
    /\ World /\ NoFault /\ UNCHANGED disk

(* Killed: the locks are free, the intermediates and the backup stay.       *)
Kill(p) ==
    /\ ~At(p, "idle")
    /\ faults < MaxFaults
    /\ faults' = faults + 1
    /\ kills' = kills + 1
    /\ w' = [w EXCEPT ![p] = Idle]
    /\ lock' = Freed(p)
    /\ World /\ UNCHANGED <<disk, bak, tmp>>

-----------------------------------------------------------------------------
(* A sweep that takes every worker but its own script's for dead. *)
SweepOfOthers(p) ==
    /\ p \in tmp
    /\ tmp' = tmp \ {p}
    /\ World /\ NoFault /\ UNCHANGED <<disk, bak, lock, w>>

(* sweep_orphans: the intermediates of a worker that is not there any more. *)
Sweep(p) ==
    /\ p \in tmp
    /\ At(p, "idle")
    /\ tmp' = tmp \ {p}
    /\ World /\ NoFault /\ UNCHANGED <<disk, bak, lock, w>>

(* Radarr or Sonarr imports the next release, over what is under the name,  *)
(* and in place of what is nowhere but in a backup of that name, or in one  *)
(* nobody is at work on.                                                    *)
Stranded(n) == {m \in Names : bak[m] # None /\ (m = n \/ lock[m] = None)
                   /\ \A o \in Names : disk[o] # None => disk[o].release # bak[m].release}
Gone(n) == {bak[m].release : m \in Stranded(n)}
             \cup (IF disk[n] = None THEN {} ELSE {disk[n].release})

MayImport(n) ==
    \A p \in Workers :
        /\ w[p].src = n => w[p].pc \in ImportIn
        /\ w[p].src = "mp4" /\ n = "mkv" => w[p].pc \in SiblingIn

Import(n) ==
    /\ MayImport(n)
    /\ imported # Releases
    /\ \E r \in Releases, fit \in BOOLEAN :
       /\ r = Cardinality(imported) + 1
       /\ disk' = [disk EXCEPT ![n] = [release |-> r, encodes |-> 0, tagged |-> FALSE,
                                       fit |-> fit]]
       /\ imported' = imported \cup {r}
       /\ wanted' = (wanted \ Gone(n)) \cup {r}
    /\ NoFault /\ UNCHANGED <<bak, lock, w, tmp>>

Step(p) ==
    \/ Inspect(p) \/ TagOnly(p) \/ Render(p) \/ Collide(p) \/ Dest(p) \/ Backup(p)
    \/ Replace(p) \/ Tag(p) \/ RollBack(p) \/ DropBackup(p)

Next ==
    \/ \E p \in Workers : (\E n \in Names : Begin(p, n)) \/ Step(p) \/ Kill(p) \/ Sweep(p)
    \/ \E n \in Names : Import(n)

(* Fairness: a worker goes on, and the daily scan of consolidate-subs.py    *)
(* sweeps.  Nothing makes a worker begin: no cron line runs                 *)
(* normalize-audio.py, and consolidate-subs.py starts it once for a file.   *)
Spec ==
    /\ Init /\ [][Next]_vars
    /\ \A p \in Workers : WF_vars(Step(p)) /\ WF_vars(Sweep(p))

-----------------------------------------------------------------------------
TypeOK ==
    /\ disk \in [Names -> Media \cup {None}]
    /\ bak \in [Names -> Media \cup {None}]
    /\ lock \in [Names -> Workers \cup {None}]
    /\ \A p \in Workers :
          /\ DOMAIN w[p] = DOMAIN Idle
          /\ w[p].pc \in Places
          /\ w[p].src \in Names
          /\ w[p].out \in Media \cup {None}
          /\ {n \in Names : lock[n] = p} =
                IF At(p, "idle") THEN {}
                ELSE IF w[p].pc \in {"inspect", "tagonly", "render", "collide", "dest"}
                     THEN {w[p].src} ELSE {w[p].src, "mkv"}
    /\ tmp \subseteq Workers
    /\ wanted \subseteq imported /\ imported \subseteq Releases

(* Whatever fails, and wherever a worker is killed, a release that was      *)
(* imported is there, under a name or as a backup, until another replaces   *)
(* it: neither the swap nor the rollback ever has the only copy.  A second  *)
(* kill may do harm: os.replace overwrites the backup the first one left.   *)
Copies == {disk[n] : n \in Names} \cup {bak[n] : n \in Names}
NothingLost ==
    kills <= 1 => \A r \in wanted : \E c \in Copies : c # None /\ c.release = r

(* "A replaced-but-untagged file would be re-normalized (lossy) every       *)
(* sweep": each kill costs a file at most one encoding more, and a failed   *)
(* tag none.                                                                *)
EncodedOnce == \A n \in Names : disk[n] # None => disk[n].encodes <= 1 + kills

(* What a worker has begun on, and no tool fails, is normalized, unless it  *)
(* is not fit for it, another release replaces it, or an .mkv lies beside   *)
(* it: no worker is in the way of another, and no sweep takes what a live   *)
(* one has made.  What dead ones have left goes.                            *)
Working(r) ==
    \E p \in Workers :
       LET n == w[p].src IN
       At(p, "inspect") /\ disk[n] # None /\ disk[n].release = r /\ disk[n].fit
Normalized(r) == \E n \in Names : disk[n] # None /\ disk[n].release = r /\ disk[n].tagged
Beside(r) == disk["mp4"] # None /\ disk["mp4"].release = r /\ disk["mkv"] # None
BegunIsNormalized ==
    /\ \A r \in Releases, f \in 0..MaxFaults :
          Working(r) /\ faults = f
            ~> Normalized(r) \/ faults # f \/ r \notin wanted \/ Beside(r)
    /\ <>[](\A p \in tmp : ~At(p, "idle"))
=============================================================================
