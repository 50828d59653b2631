---------------------------- MODULE StateContents ----------------------------
(***************************************************************************)
(* What a JSON state file of media_stack/state.py can hold, and the calls  *)
(* the pipeline scripts make on it: the vocabulary StateMap (the promise)  *)
(* and StateFile (the code) share.                                         *)
(***************************************************************************)
CONSTANTS
    Procs,      \* processes (or worker threads) that use one state file
    Keys, Vals, \* file paths and the entries recorded for them
    NoVal,      \* "no entry"
    Missing,    \* there is no state file
    Bad,        \* it does not parse as JSON
    Odd,        \* it parses, but is not an object
    Snapshots,  \* the whole states save_state is called with
    Calls,      \* Calls[p]: the calls process p makes
    NoRequest

Maps == [Keys -> Vals \cup {NoVal}]
Empty == [k \in Keys |-> NoVal]
Files == Maps \cup {Missing, Bad, Odd}

ASSUME KeysAssumption == Keys # {} /\ NoVal \notin Vals
ASSUME SnapshotsAssumption == Snapshots \subseteq Maps
ASSUME FilesAssumption ==
    /\ {Missing, Bad, Odd} \cap Maps = {}
    /\ Missing # Bad /\ Missing # Odd /\ Bad # Odd

(* update_state_entry(key, val); mutate_state with a function that deletes a *)
(* key (needs-english, audio-lang-check and sub-fallback clear entries so);  *)
(* save_state(map); load_state_locked(); load_state().                       *)
Upserts == [kind : {"upsert"}, key : Keys, val : Vals]
Drops == [kind : {"drop"}, key : Keys]
Saves == [kind : {"save"}, map : Snapshots]
Reads == [kind : {"read"}]
Peeks == [kind : {"peek"}]
Requests == Upserts \cup Drops \cup Saves \cup Reads \cup Peeks

ASSUME NoRequestAssumption == NoRequest \notin Requests
ASSUME CallsAssumption == \A p \in Procs : Calls[p] \subseteq Requests

(* The entries a file holds: none, unless it is a JSON object. *)
Entries(file) == IF file \in Maps THEN file ELSE Empty

=============================================================================
