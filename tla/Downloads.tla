------------------------------ MODULE Downloads ------------------------------
(***************************************************************************)
(* nuke_stalled.py (every minute) and unaired-guard.py (every five) at     *)
(* work on the queues of Sonarr and Radarr and on the torrents of          *)
(* qBittorrent, while releases are grabbed, stall, resume, are imported    *)
(* and are taken out of a queue by hand.  Both read a queue page by page   *)
(* (ArrClient.get_queue), and decide on what they have read.               *)
(*                                                                         *)
(* Left out: rows without a downloadId, which both scripts pass over.      *)
(***************************************************************************)
EXTENDS Naturals, Sequences, FiniteSets, SequencesExt

CONSTANTS
    Downloads,  \* torrents, by their hash
    Takers,     \* Takers[d]: the Arrs that may grab d
    Covers,     \* Covers[d]: the episodes of d, or its movie: a queue row each
    PageSize,   \* the rows of a page, as capped by the server
    MaxGrabs,   \* bound: how often d is grabbed
    MaxFaults,  \* bound: failing requests
    None

Arrs == {"radarr", "sonarr"}
Items == UNION {Covers[d] : d \in Downloads}

ASSUME TakersAssumption == Takers \in [Downloads -> SUBSET Arrs]
ASSUME CoversAssumption == \A d \in Downloads : Covers[d] # {} /\ IsFiniteSet(Covers[d])
ASSUME BoundsAssumption == PageSize \in Nat \ {0} /\ MaxGrabs \in [Downloads -> Nat] /\ MaxFaults \in Nat

VARIABLES
    queue,      \* queue[a]: the rows of Arr a, in its order
    client,     \* client[d]: the state of torrent d in qBittorrent
    blocked,    \* the releases on a blocklist
    unaired,    \* the episodes that provably air after the cutoff
    nuke,       \* the run of nuke_stalled.py
    guard,      \* the run of unaired-guard.py
    grabs,      \* grabs[d]: how often d has been grabbed
    faults

vars == <<queue, client, blocked, unaired, nuke, guard, grabs, faults>>

(* A row has an id of its own: by the grab it stems from, and its item.     *)
Row(d, i) == [grab |-> grabs[d], download |-> d, item |-> i]
Rows == [grab : Nat, download : Downloads, item : Items]
Claims(a, d) == \E row \in ToSet(queue[a]) : row.download = d
Claimed(d) == \E a \in Arrs : Claims(a, d)
ASSUME NoneAssumption == None \notin Downloads \cup Rows

(* "stalled": stalledDL or metaDL for longer than STALL_THRESHOLD_SEC.      *)
ClientStates == {"absent", "downloading", "stalled"}

(* get_queue at work: the rows read, the page to read next, and, for the    *)
(* properties, whether a row it had read was gone before it came to the end.*)
NoReading == [out |-> <<>>, page |-> 1, shifted |-> FALSE]
NoNuke ==
    [pc |-> "idle", todo |-> {}, hash |-> None, arr |-> "radarr", reading |-> NoReading,
     row |-> None, answers |-> {}, shifted |-> FALSE]
NoGuard == [pc |-> "idle", reading |-> NoReading, reap |-> {}, shifted |-> FALSE]

Init ==
    /\ queue = [a \in Arrs |-> <<>>]
    /\ client = [d \in Downloads |-> "absent"]
    /\ blocked = {}
    /\ unaired \in SUBSET Items
    /\ nuke = NoNuke
    /\ guard = NoGuard
    /\ grabs = [d \in Downloads |-> 0]
    /\ faults = 0

-----------------------------------------------------------------------------
(* ArrClient *)

NoFault == UNCHANGED faults
Fault == faults < MaxFaults /\ faults' = faults + 1

(* One request of get_queue.  Rows come at the end of a queue only, so an   *)
(* empty page never says that rows are missing.                             *)
Page(q, r) == SubSeq(q, (r.page - 1) * PageSize + 1, Min({r.page * PageSize, Len(q)}))
Read(q, r) ==
    [out |-> r.out \o Page(q, r), page |-> r.page + 1,
     shifted |-> r.shifted \/ ~IsPrefix(r.out, q)]

(* What was read is as much as the queue holds by the last answer. *)
Complete(q, r) == Len(r.out) + Len(Page(q, r)) >= Len(q)

(* Where the rows of a download are, and the first of them. *)
PlacesOf(r, d) == {i \in DOMAIN r.out : r.out[i].download = d}
FirstRow(r, d) == r.out[Min(PlacesOf(r, d))]

(* What stays of a queue, in its order, when a download leaves it.          *)
Staying(q, d) == {i \in DOMAIN q : q[i].download # d}
Rank(i, K) == Cardinality({j \in K : j <= i})
Without(q, d) ==
    [k \in 1..Cardinality(Staying(q, d)) |->
        q[CHOOSE i \in Staying(q, d) : Rank(i, Staying(q, d)) = k]]

(* DELETE of a row, with removeFromClient and blocklist: the whole download *)
(* goes, its other rows too.                                                *)
TakeOut(a, row) ==
    /\ queue' = [queue EXCEPT ![a] = Without(@, row.download)]
    /\ client' = [client EXCEPT ![row.download] = "absent"]
    /\ blocked' = blocked \cup {row.download}

Untouched == UNCHANGED <<queue, client, blocked>>

(* delete_from_queue: done, answered with an error, or done with the answer *)
(* lost; a row that is gone is an error (404).                              *)
DeleteDone(a, row) == row \in ToSet(queue[a]) /\ TakeOut(a, row) /\ NoFault
DeleteMissed(a, row) == row \notin ToSet(queue[a]) /\ Untouched /\ NoFault
DeleteFails(a, row) == row \in ToSet(queue[a]) /\ (Untouched \/ TakeOut(a, row)) /\ Fault

-----------------------------------------------------------------------------
(* nuke_stalled.py *)

(* The torrent at hand stays on the list. *)
NextTargetKept(todo) ==
    IF todo = {} THEN {NoNuke}
    ELSE {[NoNuke EXCEPT !.pc = "read", !.hash = d, !.todo = todo] : d \in todo}

(* The next torrent of the list, or the end of the run. *)
NextTarget(todo) ==
    IF todo = {} THEN {NoNuke}
    ELSE {[NoNuke EXCEPT !.pc = "read", !.hash = d, !.todo = todo \ {d}] : d \in todo}

NukeList ==
    /\ nuke.pc = "idle"
    /\ LET stalled == {d \in Downloads : client[d] = "stalled"}
       IN  stalled # {} /\ nuke' \in NextTarget(stalled)
    /\ NoFault /\ Untouched
    /\ UNCHANGED <<unaired, guard, grabs>>

(* remove_by_download_id has its answer; Radarr is asked first. *)
Answered(answer) ==
    [nuke EXCEPT !.answers = @ \cup {answer},
                 !.reading = NoReading,
                 !.row = None,
                 !.arr = "sonarr",
                 !.pc = IF nuke.arr = "radarr" THEN "read" ELSE "decide"]

NukeRead ==
    /\ nuke.pc = "read"
    /\ LET q == queue[nuke.arr]
           now == Read(q, nuke.reading)
       IN  nuke' = IF ~Complete(q, nuke.reading) THEN [nuke EXCEPT !.reading = now]
                   ELSE IF PlacesOf(now, nuke.hash) # {}
                   THEN [nuke EXCEPT !.pc = "remove", !.reading = NoReading,
                                     !.row = FirstRow(now, nuke.hash)]
                   ELSE [Answered("not_found") EXCEPT !.shifted = @ \/ now.shifted]
    /\ NoFault /\ Untouched
    /\ UNCHANGED <<unaired, guard, grabs>>

NukeReadFails ==
    /\ nuke.pc = "read"
    /\ nuke' = Answered("queue_error")
    /\ Fault /\ Untouched
    /\ UNCHANGED <<unaired, guard, grabs>>

(* A failed DELETE is answered like a missing row. *)
NukeRemoveLenient ==
    /\ nuke.pc = "remove"
    /\ \/ DeleteDone(nuke.arr, nuke.row) /\ nuke' = Answered("removed")
       \/ /\ DeleteMissed(nuke.arr, nuke.row) \/ DeleteFails(nuke.arr, nuke.row)
          /\ nuke' = Answered("not_found")
    /\ UNCHANGED <<unaired, guard, grabs>>

(* The first row that matches. *)
NukeRemove ==
    /\ nuke.pc = "remove"
    /\ \/ DeleteDone(nuke.arr, nuke.row) /\ nuke' = Answered("removed")
       \/ /\ DeleteMissed(nuke.arr, nuke.row) \/ DeleteFails(nuke.arr, nuke.row)
          /\ nuke' = Answered("delete_failed")
    /\ UNCHANGED <<unaired, guard, grabs>>

(* What neither Arr claims is left to the next run as well. *)
NukeDecideNever ==
    /\ nuke.pc = "decide"
    /\ NoFault /\ Untouched
    /\ nuke' \in NextTarget(nuke.todo)
    /\ UNCHANGED <<unaired, guard, grabs>>

(* Only what neither Arr claims is deleted from qBittorrent directly.       *)
NukeDecide ==
    /\ nuke.pc = "decide"
    /\ \/ nuke.answers # {"not_found"} /\ NoFault /\ UNCHANGED client
       \/ /\ nuke.answers = {"not_found"}
          /\ client' = [client EXCEPT ![nuke.hash] = "absent"]
          /\ NoFault
       \/ nuke.answers = {"not_found"} /\ Fault /\ UNCHANGED client
    /\ nuke' \in NextTarget(nuke.todo)
    /\ UNCHANGED <<queue, blocked, unaired, guard, grabs>>

-----------------------------------------------------------------------------
(* unaired-guard.py *)

GuardStart ==
    /\ guard.pc = "idle"
    /\ guard' = [NoGuard EXCEPT !.pc = "read"]
    /\ NoFault /\ Untouched
    /\ UNCHANGED <<unaired, nuke, grabs>>

GuardRead ==
    /\ guard.pc = "read"
    /\ LET q == queue["sonarr"]
           now == Read(q, guard.reading)
       IN  guard' = IF ~Complete(q, guard.reading) THEN [guard EXCEPT !.reading = now]
                    ELSE IF now.out = <<>> THEN NoGuard
                    ELSE [guard EXCEPT !.pc = "fetch", !.reading = now]
    /\ NoFault /\ Untouched
    /\ UNCHANGED <<unaired, nuke, grabs>>

(* One unaired episode is enough. *)
ReapableAny(rows) == \E row \in rows : row.item \in unaired

(* is_unaired of every row of a download. *)
Reapable(rows) == \A row \in rows : row.item \in unaired

(* episodes_for every series; then, the groups by downloadId: the first row *)
(* of each that is to go.                                                   *)
GuardFetch ==
    /\ guard.pc = "fetch"
    /\ LET rows(d) == {row \in ToSet(guard.reading.out) : row.download = d}
           found == {row.download : row \in ToSet(guard.reading.out)}
           reap == {FirstRow(guard.reading, d) : d \in {e \in found : Reapable(rows(e))}}
       IN  guard' = IF reap = {} THEN NoGuard
                    ELSE [NoGuard EXCEPT !.pc = "reap", !.reap = reap,
                                         !.shifted = guard.reading.shifted]
    /\ NoFault /\ Untouched
    /\ UNCHANGED <<unaired, nuke, grabs>>

(* The queue or the air dates cannot be read: nothing is reaped. *)
GuardFails ==
    /\ guard.pc \in {"read", "fetch"}
    /\ guard' = NoGuard
    /\ Fault /\ Untouched
    /\ UNCHANGED <<unaired, nuke, grabs>>

GuardReap ==
    /\ guard.pc = "reap"
    /\ \E row \in guard.reap :
          /\ \/ DeleteDone("sonarr", row)
             \/ DeleteMissed("sonarr", row)
             \/ DeleteFails("sonarr", row)
          /\ guard' = IF guard.reap = {row} THEN NoGuard ELSE [guard EXCEPT !.reap = @ \ {row}]
    /\ UNCHANGED <<unaired, nuke, grabs>>

-----------------------------------------------------------------------------
(* Sonarr, Radarr, qBittorrent and the operator *)

(* A release is grabbed, if it is not on a blocklist. *)
Grab(a, d) ==
    /\ d \notin blocked /\ ~Claimed(d) /\ client[d] = "absent"
    /\ grabs[d] < MaxGrabs[d]
    /\ a \in Takers[d]
    /\ queue' = [queue EXCEPT ![a] = @ \o SetToSeq({Row(d, i) : i \in Covers[d]})]
    /\ client' = [client EXCEPT ![d] = "downloading"]
    /\ grabs' = [grabs EXCEPT ![d] = @ + 1]
    /\ UNCHANGED <<blocked, unaired, nuke, guard, faults>>

(* A download stalls, and resumes. *)
ClientMoves(d) ==
    /\ \/ client[d] = "downloading" /\ client' = [client EXCEPT ![d] = "stalled"]
       \/ client[d] = "stalled" /\ client' = [client EXCEPT ![d] = "downloading"]
    /\ UNCHANGED <<queue, blocked, unaired, nuke, guard, grabs, faults>>

(* Its rows leave the queue when it has been imported, or by hand. *)
RowsLeave(a, d) ==
    /\ Claims(a, d)
    /\ queue' = [queue EXCEPT ![a] = Without(@, d)]
    /\ UNCHANGED <<client, blocked, unaired, nuke, guard, grabs, faults>>

NukeStep == NukeList \/ NukeRead \/ NukeReadFails \/ NukeRemove \/ NukeDecide
GuardStep == GuardStart \/ GuardRead \/ GuardFetch \/ GuardFails \/ GuardReap

Next ==
    \/ NukeStep
    \/ GuardStep
    \/ \E d \in Downloads : ClientMoves(d) \/ \E a \in Arrs : Grab(a, d) \/ RowsLeave(a, d)

Spec == Init /\ [][Next]_vars

(* cron starts nuke_stalled.py every minute, and its requests end, by their *)
(* timeout if need be.                                                      *)
FairSpec == Spec /\ WF_vars(NukeStep)

-----------------------------------------------------------------------------
(* Types; a run is at a torrent from its list, and reaps from what it read. *)
TypeOK ==
    /\ queue \in [Arrs -> Seq(Rows)]
    /\ \A a \in Arrs : IsInjective(queue[a])
    /\ client \in [Downloads -> ClientStates]
    /\ blocked \subseteq Downloads
    /\ unaired \in SUBSET Items
    /\ nuke.pc \in {"idle", "read", "remove", "decide"}
    /\ nuke.pc # "idle" => nuke.hash \in Downloads \ nuke.todo
    /\ nuke.pc = "remove" <=> nuke.row # None
    /\ nuke.pc = "decide" => nuke.answers # {}
    /\ nuke.answers \subseteq {"removed", "not_found", "queue_error", "delete_failed"}
    /\ guard.pc \in {"idle", "read", "fetch", "reap"}
    /\ guard.pc = "reap" <=> guard.reap # {}
    /\ guard.reap \subseteq Rows
    /\ grabs \in [Downloads -> Nat] /\ faults \in 0..MaxFaults

(* nuke_stalled.py deletes nothing behind the back of an Arr that has it in *)
(* its queue, where it would not be blocklisted and be grabbed again: at    *)
(* least if no row that was read went while the queue was read.             *)
DirectIsUnclaimed ==
    [][\A d \in Downloads :
          client[d] # "absent" /\ client'[d] = "absent" /\ Claimed(d) =>
             d \in blocked' \/ nuke.shifted
      ]_vars

(* unaired-guard.py takes a download only if every episode of it is         *)
(* provably unaired, those it did not get to see included, under the same   *)
(* condition.                                                               *)
ReapedIsUnaired ==
    [][guard' # guard =>
          \A d \in Downloads \ blocked :
             d \in blocked' =>
                guard.shifted \/ Covers[d] \subseteq unaired
      ]_vars

(* A stalled torrent goes, or resumes. *)
StalledGoes == \A d \in Downloads : client[d] = "stalled" ~> client[d] # "stalled"
=============================================================================
