----------------------------- MODULE StateFile ------------------------------
(***************************************************************************)
(* media_stack/state.py: a JSON file rewritten as a whole, through a       *)
(* temporary file and a rename, by processes that lock a companion file    *)
(* that is never unlinked (so "the lock" is one lock).                     *)
(***************************************************************************)
EXTENDS StateContents

VARIABLES
    file,       \* what the path holds, one of Files
    saved,      \* the content the disk surely holds: the last one written back
    synced,     \* FALSE from a rename until the kernel wrote it to disk
    lock,       \* lock[p]: "none", "SH" or "EX"
    pc,         \* where p is in its call
    request,    \* request[p]: the call p is making
    loaded,     \* loaded[p]: the object p parsed
    temp,       \* temp[p]: what p's temporary file holds
    reply       \* reply[p]: what p's call is about to give back

vars == <<file, saved, synced, lock, pc, request, loaded, temp, reply>>

Places == {"idle", "waiting", "locked", "loaded", "written", "done"}
Writers == {"upsert", "drop", "save"}

(* Ranges; and a lock is held exactly from flock() until the with block of *)
(* the call is left, however it is left.                                   *)
TypeOK ==
    /\ file \in Files
    /\ saved \in Files
    /\ synced \in BOOLEAN
    /\ lock \in [Procs -> {"none", "SH", "EX"}]
    /\ pc \in [Procs -> Places]
    /\ request \in [Procs -> Requests \cup {NoRequest}]
    /\ loaded \in [Procs -> Maps \cup {Odd}]
    /\ temp \in [Procs -> Maps]
    /\ reply \in [Procs -> Maps \cup {Odd, NoVal}]
    /\ \A p \in Procs :
          /\ pc[p] # "idle" <=> request[p] \in Requests
          /\ lock[p] # "none" <=> /\ pc[p] \notin {"idle", "waiting"}
                                  /\ request[p].kind # "peek"

Init ==
    /\ file \in {Missing, Empty, Bad, Odd}
    /\ saved = file
    /\ synced = TRUE
    /\ lock = [p \in Procs |-> "none"]
    /\ pc = [p \in Procs |-> "idle"]
    /\ request = [p \in Procs |-> NoRequest]
    /\ loaded = [p \in Procs |-> Empty]
    /\ temp = [p \in Procs |-> Empty]
    /\ reply = [p \in Procs |-> NoVal]

Goto(p, place) == pc' = [pc EXCEPT ![p] = place]

Call(p, req) ==
    /\ pc[p] = "idle"
    /\ request' = [request EXCEPT ![p] = req]
    /\ Goto(p, "waiting")
    /\ UNCHANGED <<file, saved, synced, lock, loaded, temp, reply>>

(* A writer that locks like a reader. *)
LockAlwaysShared(p) ==
    /\ pc[p] = "waiting"
    /\ request[p].kind # "peek"
    /\ \A q \in Procs : lock[q] # "EX"
    /\ lock' = [lock EXCEPT ![p] = "SH"]
    /\ Goto(p, "locked")
    /\ UNCHANGED <<file, saved, synced, request, loaded, temp, reply>>

(* flock(LOCK_EX), for load_state_locked flock(LOCK_SH); both wait. *)
Lock(p) ==
    /\ pc[p] = "waiting"
    /\ request[p].kind # "peek"
    /\ \/ /\ request[p].kind \in Writers
          /\ \A q \in Procs : lock[q] = "none"
          /\ lock' = [lock EXCEPT ![p] = "EX"]
       \/ /\ request[p].kind = "read"
          /\ \A q \in Procs : lock[q] # "EX"
          /\ lock' = [lock EXCEPT ![p] = "SH"]
    /\ Goto(p, "locked")
    /\ UNCHANGED <<file, saved, synced, request, loaded, temp, reply>>

Forget(p) ==
    /\ request' = [request EXCEPT ![p] = NoRequest]
    /\ loaded' = [loaded EXCEPT ![p] = Empty]
    /\ temp' = [temp EXCEPT ![p] = Empty]
    /\ reply' = [reply EXCEPT ![p] = NoVal]
    /\ Goto(p, "idle")

(* Leaving the call: the with block closes the lock file. *)
Unlock(p) ==
    /\ lock' = [lock EXCEPT ![p] = "none"]
    /\ Forget(p)

(* load_state, which takes anything unreadable for empty ... *)
Lenient(content) == IF content \in Maps \cup {Odd} THEN content ELSE Empty

(* load_state() on its own, without the lock. *)
Peek(p) ==
    /\ pc[p] = "waiting"
    /\ request[p].kind = "peek"
    /\ reply' = [reply EXCEPT ![p] = Lenient(file)]
    /\ Goto(p, "done")
    /\ UNCHANGED <<file, saved, synced, lock, request, loaded, temp>>

(* ... and is what update_state_entry reads with, under the lock. *)
LoadUpsert(p) ==
    /\ pc[p] = "locked"
    /\ request[p].kind = "upsert"
    /\ loaded' = [loaded EXCEPT ![p] = Lenient(file)]
    /\ Goto(p, "loaded")
    /\ UNCHANGED <<file, saved, synced, lock, request, temp, reply>>

(* mutate_state: a wrong shape is reset, an unreadable file is not. *)
LoadDrop(p) ==
    /\ pc[p] = "locked"
    /\ request[p].kind = "drop"
    /\ file # Bad
    /\ loaded' = [loaded EXCEPT ![p] = Entries(file)]
    /\ Goto(p, "loaded")
    /\ UNCHANGED <<file, saved, synced, lock, request, temp, reply>>

(* load_state_locked: the answer of a reader. *)
LoadRead(p) ==
    /\ pc[p] = "locked"
    /\ request[p].kind = "read"
    /\ file # Bad
    /\ reply' = [reply EXCEPT ![p] = Entries(file)]
    /\ Goto(p, "done")
    /\ UNCHANGED <<file, saved, synced, lock, request, loaded, temp>>

(* An error path that forgets the lock. *)
RaiseHolding(p) ==
    /\ \/ pc[p] = "locked" /\ request[p].kind \in {"drop", "read"} /\ file = Bad
       \/ pc[p] = "loaded" /\ request[p].kind = "upsert" /\ loaded[p] = Odd
    /\ Forget(p)
    /\ UNCHANGED <<file, saved, synced, lock>>

(* OSError "state file unreadable", or the TypeError of state[key] = value *)
(* on something that is not a dict.                                        *)
Raise(p) ==
    /\ \/ pc[p] = "locked" /\ request[p].kind \in {"drop", "read"} /\ file = Bad
       \/ pc[p] = "loaded" /\ request[p].kind = "upsert" /\ loaded[p] = Odd
    /\ Unlock(p)
    /\ UNCHANGED <<file, saved, synced>>

(* _atomic_write, first half: the new text goes to the temporary file. *)
WriteTemp(p) ==
    /\ \/ /\ pc[p] = "loaded"
          /\ request[p].kind = "upsert"
          /\ loaded[p] # Odd
          /\ temp' = [temp EXCEPT ![p] =
                        [loaded[p] EXCEPT ![request[p].key] = request[p].val]]
       \/ /\ pc[p] = "loaded"
          /\ request[p].kind = "drop"
          /\ temp' = [temp EXCEPT ![p] =
                        [loaded[p] EXCEPT ![request[p].key] = NoVal]]
       \/ /\ pc[p] = "locked"
          /\ request[p].kind = "save"
          /\ temp' = [temp EXCEPT ![p] = request[p].map]
    /\ Goto(p, "written")
    /\ UNCHANGED <<file, saved, synced, lock, request, loaded, reply>>

(* _atomic_write, second half: the rename. *)
Rename(p) ==
    /\ pc[p] = "written"
    /\ file' = temp[p]
    /\ synced' = FALSE
    /\ reply' = [reply EXCEPT ![p] =
                   IF request[p].kind = "drop" THEN temp[p] ELSE NoVal]
    /\ Goto(p, "done")
    /\ UNCHANGED <<saved, lock, request, loaded, temp>>

Return(p) ==
    /\ pc[p] = "done"
    /\ Unlock(p)
    /\ UNCHANGED <<file, saved, synced>>

(* The process is killed, or a write fails: its lock goes with it. *)
Crash(p) ==
    /\ pc[p] # "idle"
    /\ Unlock(p)
    /\ UNCHANGED <<file, saved, synced>>

Sync ==
    /\ ~synced
    /\ saved' = file
    /\ synced' = TRUE
    /\ UNCHANGED <<file, lock, pc, request, loaded, temp, reply>>

(* The machine goes down.  _atomic_write does not fsync: of what was renamed *)
(* since the last write-back nothing need be on disk, so the older content  *)
(* may be back, or the new name may stand for a file without its text.      *)
PowerLoss ==
    /\ \/ file' = saved
       \/ ~synced /\ file' \in {file, Bad}
    /\ saved' = file'
    /\ synced' = TRUE
    /\ lock' = [p \in Procs |-> "none"]
    /\ pc' = [p \in Procs |-> "idle"]
    /\ request' = [p \in Procs |-> NoRequest]
    /\ loaded' = [p \in Procs |-> Empty]
    /\ temp' = [p \in Procs |-> Empty]
    /\ reply' = [p \in Procs |-> NoVal]

Step(p) ==
    \/ Lock(p) \/ Peek(p) \/ LoadUpsert(p) \/ LoadDrop(p) \/ LoadRead(p)
    \/ Raise(p) \/ WriteTemp(p) \/ Rename(p) \/ Return(p)

Next ==
    \/ \E p \in Procs :
          \/ \E req \in Calls[p] : Call(p, req)
          \/ Step(p) \/ Crash(p)
    \/ Sync \/ PowerLoss

(* A process that can go on does; flock() hands the lock to waiters in turn. *)
Fairness == \A p \in Procs : WF_vars(Step(p)) /\ SF_vars(Lock(p))

Spec == Init /\ [][Next]_vars
FairSpec == Spec /\ Fairness

-----------------------------------------------------------------------------
(* Each process's call is one atomic operation on the map: the lock, the   *)
(* read inside it and the rename give what StateMap promises.              *)
Promise == INSTANCE StateMap WITH
    map <- file,
    phase <- [p \in Procs |-> IF pc[p] \in {"idle", "done"} THEN pc[p] ELSE "asked"]

Linearizable == Promise!Spec

(* "parallel workers would lose-update each other's keys", "a stale        *)
(* snapshot cannot resurrect a deleted key": an entry of a readable file   *)
(* changes only if the process whose rename it is was asked to change that *)
(* very entry, or with a power loss, which ends every call and leaves the  *)
(* whole file as it was last written back.                                 *)
KeysChangeOnRequest ==
    [][\A k \in Keys :
          file \in Maps /\ file' \in Maps /\ file'[k] # file[k] =>
             \/ \E p \in Procs :
                   /\ pc[p] = "written"
                   /\ \/ request[p].kind = "save"
                      \/ request[p].kind \in {"upsert", "drop"} /\ request[p].key = k
             \/ /\ ~synced /\ file' = saved
                /\ \A p \in Procs : pc'[p] = "idle"
      ]_vars

(* load_state_locked reads under a shared lock, and a shared flock() is     *)
(* granted beside others however long a writer waits.                       *)
NoReader == \A p \in Procs : lock[p] # "SH"

(* Every call of a process comes to an end, whoever crashes and whatever   *)
(* the file holds, unless readers overlap for ever.                         *)
CallsOfEnd(p) == []<>NoReader => (pc[p] = "waiting" ~> pc[p] = "idle")
CallsEnd == \A p \in Procs : CallsOfEnd(p)
=============================================================================
