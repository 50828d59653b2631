---------------------------- MODULE MCStateFile ----------------------------
(* StateFile with three processes and two media files. *)
EXTENDS StateFile

CONSTANTS w1, w2, w3, k1, k2, v

Three == {w1, w2, w3}
TwoKeys == {k1, k2}
MCVals == {v}
MCSnapshots == {[k \in Keys |-> v]}

(* One process makes every kind of call; beside it are one that records and *)
(* one that forgets, and both look with the lock.                           *)
MCCalls ==
    [p \in Three |->
        CASE p = w1 -> Requests
          [] p = w2 -> Upserts \cup Saves \cup Reads
          [] p = w3 -> Drops \cup Reads]

(* The calls of the one that makes every kind. *)
CallsEndOne == CallsOfEnd(w1)
=============================================================================
