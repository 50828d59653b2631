------------------------------ MODULE FileLock ------------------------------
(***************************************************************************)
(* The per-file advisory lock of media_stack/locking.py, as its users      *)
(* really take it: the lock file beside the media file is opened first and *)
(* flock'ed second, so what a process locks is an inode, not a path.       *)
(*                                                                         *)
(*   Pipelines  consolidate-subs.py and normalize-audio.py runs on one     *)
(*              media file; a consolidation may run normalize-audio.py as  *)
(*              a child that works under its parent's lock.                *)
(*   Dedupers   movie-dedupe.py runs, which move the media file away under *)
(*              the lock and then unlink the lock file.                    *)
(*                                                                         *)
(* One media path is modelled; the locks of different paths never meet.    *)
(* Names begin with Lock where StateFile, with which this module is        *)
(* extended for the proofs, has one of its own.                            *)
(***************************************************************************)
EXTENDS Naturals

CONSTANTS
    Pipelines, Dedupers,
    NoInode,        \* "the path names no lock file" / "no descriptor open"
    MaxInode,       \* bound: lock-file inodes ever created at the path
    ReappearEarly,  \* may an import put a file back at a path emptied by dedupe
                    \* while someone still has, or will unlink, the old lock file?
    MayOrphan       \* may SIGKILL (OOM killer, kill -9) hit the parent of a child?

Scripts == Pipelines \cup Dedupers

ASSUME ScriptsAssumption == Pipelines \cap Dedupers = {}
ASSUME InodeAssumption == MaxInode \in Nat /\ NoInode \notin Nat
ASSUME SwitchAssumption == ReappearEarly \in BOOLEAN /\ MayOrphan \in BOOLEAN

VARIABLES
    present,    \* the media file is at its path
    lockFile,   \* the inode the lock path names now, or NoInode
    fresh,      \* the inode the next created lock file gets
    fd,         \* fd[p]: the lock-file inode p has open, or NoInode
    at,         \* where p is
    child       \* child[p]: a normalize-audio.py child started by p is running

lockVars == <<present, lockFile, fresh, fd, at, child>>

(* Where a process is: it saw the media file and is about to open the lock *)
(* file; opened it; flock'ed it; works on the media file; (dedupe) has     *)
(* moved the file, has released and is about to unlink the lock file.      *)
LockPlaces == {"idle", "seen", "opened", "locked", "working", "moved", "unlinking"}
Holding == {"locked", "working", "moved"}

Inodes == 1..MaxInode

(* The ranges of the variables; and a process has a descriptor open exactly *)
(* from its open() until it closes it: the BlockingIOError loser of          *)
(* acquire_file_lock leaks none.                                            *)
LockTypeOK ==
    /\ present \in BOOLEAN
    /\ lockFile \in Inodes \cup {NoInode}
    /\ fresh \in 1..(MaxInode + 1)
    /\ fd \in [Scripts -> Inodes \cup {NoInode}]
    /\ at \in [Scripts -> LockPlaces]
    /\ child \in [Pipelines -> BOOLEAN]
    /\ \A p \in Scripts : fd[p] # NoInode <=> at[p] \in {"opened"} \cup Holding

LockInit ==
    /\ present = TRUE
    /\ lockFile = NoInode
    /\ fresh = 1
    /\ fd = [p \in Scripts |-> NoInode]
    /\ at = [p \in Scripts |-> "idle"]
    /\ child = [p \in Pipelines |-> FALSE]

Reach(p, place) == at' = [at EXCEPT ![p] = place]

(* Closing the descriptor drops the flock that came with it. *)
Close(p, place) ==
    /\ fd' = [fd EXCEPT ![p] = NoInode]
    /\ Reach(p, place)

-----------------------------------------------------------------------------
(* path.is_file() at the entry points, before the lock file is touched. *)
See(p) ==
    /\ at[p] = "idle"
    /\ present
    /\ Reach(p, "seen")
    /\ UNCHANGED <<present, lockFile, fresh, fd, child>>

(* open(lp, "w"): creates the lock file if the path names none. *)
OpenLockFile(p) ==
    /\ at[p] = "seen"
    /\ \/ /\ lockFile # NoInode
          /\ fd' = [fd EXCEPT ![p] = lockFile]
          /\ UNCHANGED <<lockFile, fresh>>
       \/ /\ lockFile = NoInode
          /\ fresh <= MaxInode
          /\ lockFile' = fresh
          /\ fresh' = fresh + 1
          /\ fd' = [fd EXCEPT ![p] = fresh]
    /\ Reach(p, "opened")
    /\ UNCHANGED <<present, child>>

Held(inode) == \E q \in Scripts : fd[q] = inode /\ at[q] \in Holding

(* flock(LOCK_SH) would let everyone in. *)
FlockShared(p) ==
    /\ at[p] = "opened"
    /\ Reach(p, "locked")
    /\ UNCHANGED <<present, lockFile, fresh, fd, child>>

(* flock(LOCK_EX | LOCK_NB) succeeds. *)
Flock(p) ==
    /\ at[p] = "opened"
    /\ ~Held(fd[p])
    /\ Reach(p, "locked")
    /\ UNCHANGED <<present, lockFile, fresh, fd, child>>

(* A loser that returns without closing its descriptor. *)
FlockBusyLeaking(p) ==
    /\ at[p] = "opened"
    /\ Held(fd[p])
    /\ Reach(p, "idle")
    /\ UNCHANGED <<present, lockFile, fresh, fd, child>>

(* BlockingIOError: the loser closes its descriptor and skips the file. *)
FlockBusy(p) ==
    /\ at[p] = "opened"
    /\ Held(fd[p])
    /\ Close(p, "idle")
    /\ UNCHANGED <<present, lockFile, fresh, child>>

(* "file gone after lock": under the lock the pipeline looks again. *)
CheckFile(p) ==
    /\ p \in Pipelines
    /\ at[p] = "locked"
    /\ \/ /\ present
          /\ Reach(p, "working")
          /\ UNCHANGED fd
       \/ /\ ~present
          /\ Close(p, "idle")
    /\ UNCHANGED <<present, lockFile, fresh, child>>

(* _normalize_audio_inline starts the child with the inherited lock path ... *)
SpawnChild(p) ==
    /\ p \in Pipelines
    /\ at[p] = "working"
    /\ ~child[p]
    /\ child' = [child EXCEPT ![p] = TRUE]
    /\ UNCHANGED <<present, lockFile, fresh, fd, at>>

(* ... which ends on its own, its parent waiting or (after SIGKILL) gone. *)
ChildEnds(p) ==
    /\ p \in Pipelines
    /\ child[p]
    /\ child' = [child EXCEPT ![p] = FALSE]
    /\ UNCHANGED <<present, lockFile, fresh, fd, at>>

(* The pass is over: LOCK_UN and close. "Deliberately NOT unlinking". *)
Finish(p) ==
    /\ p \in Pipelines
    /\ at[p] = "working"
    /\ ~child[p]
    /\ Close(p, "idle")
    /\ UNCHANGED <<present, lockFile, fresh, child>>

(* An interrupt that leaves the child's process group alone. *)
InterruptParentOnly(p) ==
    /\ p \in Pipelines
    /\ at[p] = "working"
    /\ Close(p, "idle")
    /\ UNCHANGED <<present, lockFile, fresh, child>>

(* SIGTERM, ^C or the time budget: the child's whole group is killed before *)
(* the exception unwinds and the lock goes.                                 *)
Interrupt(p) ==
    /\ p \in Pipelines
    /\ at[p] = "working"
    /\ child' = [child EXCEPT ![p] = FALSE]
    /\ Close(p, "idle")
    /\ UNCHANGED <<present, lockFile, fresh>>

(* SIGKILL: the kernel closes the descriptor; the child has its own session *)
(* and lives on.                                                            *)
Killed(p) ==
    /\ at[p] # "idle"
    /\ p \in Pipelines /\ child[p] => MayOrphan
    /\ Close(p, "idle")
    /\ UNCHANGED <<present, lockFile, fresh, child>>

(* movie-dedupe moves the extra copy into the recycle directory; a file that *)
(* is gone makes shutil.move raise, which releases the lock and unlinks      *)
(* nothing.                                                                  *)
Move(p) ==
    /\ p \in Dedupers
    /\ at[p] = "locked"
    /\ \/ /\ present
          /\ present' = FALSE
          /\ Reach(p, "moved")
          /\ UNCHANGED fd
       \/ /\ ~present
          /\ Close(p, "idle")
          /\ UNCHANGED present
    /\ UNCHANGED <<lockFile, fresh, child>>

(* Leaving the ExitStack releases the lock ... *)
ReleaseMoved(p) ==
    /\ p \in Dedupers
    /\ at[p] = "moved"
    /\ Close(p, "unlinking")
    /\ UNCHANGED <<present, lockFile, fresh, child>>

(* ... and only then is the lock file of the moved media unlinked. *)
UnlinkLockFile(p) ==
    /\ p \in Dedupers
    /\ at[p] = "unlinking"
    /\ lockFile' = NoInode
    /\ Reach(p, "idle")
    /\ UNCHANGED <<present, fresh, fd, child>>

(* Radarr imports a file under the old name. *)
Reimport ==
    /\ ReappearEarly \/ \A p \in Scripts : at[p] \in {"idle", "seen"}
    /\ ~present
    /\ present' = TRUE
    /\ UNCHANGED <<lockFile, fresh, fd, at, child>>

LockNext ==
    \/ \E p \in Scripts :
          \/ See(p) \/ OpenLockFile(p) \/ Flock(p) \/ FlockBusy(p)
          \/ CheckFile(p) \/ SpawnChild(p) \/ ChildEnds(p)
          \/ Finish(p) \/ Interrupt(p) \/ Killed(p)
          \/ Move(p) \/ ReleaseMoved(p) \/ UnlinkLockFile(p)
    \/ Reimport

LockSpec == LockInit /\ [][LockNext]_lockVars

-----------------------------------------------------------------------------
(* Working on the media file itself: a pipeline past its check, or a dedupe *)
(* about to move a file that is there.                                      *)
Busy(p) ==
    \/ at[p] = "working"
    \/ p \in Dedupers /\ at[p] = "locked" /\ present

(* At most one process rewrites or moves the media file at a time, although *)
(* movie-dedupe unlinks lock files others may still have open.              *)
WorkExclusion == \A p, q \in Scripts : Busy(p) /\ Busy(q) => p = q

(* Whoever holds the lock of a file that is there holds the inode the path  *)
(* names, the one every newcomer will try: the reason locking.py gives for  *)
(* never unlinking ("a fresh file at the same path could flock on a         *)
(* different inode").                                                       *)
HolderOwnsThePath ==
    present => \A p \in Scripts : at[p] \in Holding => fd[p] = lockFile

(* A child that works under its parent's lock never outlives that lock, as  *)
(* _normalize_audio_inline's kill of the child's group is meant to ensure.  *)
ChildUnderLock == \A p \in Pipelines : child[p] => at[p] = "working"

=============================================================================
