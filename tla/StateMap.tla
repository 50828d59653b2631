------------------------------ MODULE StateMap ------------------------------
(***************************************************************************)
(* What the state file promises its users: one map, on which every call    *)
(* takes effect at a single moment between its start and its return, on    *)
(* the map as it is at that moment, or not at all.  A call that has        *)
(* returned is not yet safe from a power loss.                             *)
(***************************************************************************)
EXTENDS StateContents

VARIABLES
    map,        \* the contents, one of Files
    saved,      \* the contents a power loss may bring back
    synced,     \* FALSE while map has changes that may be lost
    phase,      \* phase[p]: "idle", "asked" (not yet effective) or "done"
    request,    \* request[p]: the call p is making
    reply       \* reply[p]: what p's effective call is about to give back

vars == <<map, saved, synced, phase, request, reply>>

Init ==
    /\ map \in {Missing, Empty, Bad, Odd}
    /\ saved = map
    /\ synced = TRUE
    /\ phase = [p \in Procs |-> "idle"]
    /\ request = [p \in Procs |-> NoRequest]
    /\ reply = [p \in Procs |-> NoVal]

Ask(p, req) ==
    /\ phase[p] = "idle"
    /\ phase' = [phase EXCEPT ![p] = "asked"]
    /\ request' = [request EXCEPT ![p] = req]
    /\ UNCHANGED <<map, saved, synced, reply>>

(* A mutator refuses a file it cannot read, and so does a careful reader; *)
(* an upsert into something that is not an object raises.                 *)
Refuses(req, file) ==
    \/ req.kind \in {"drop", "read"} /\ file = Bad
    \/ req.kind = "upsert" /\ file = Odd

Effect(req, file) ==
    CASE req.kind = "upsert" -> [Entries(file) EXCEPT ![req.key] = req.val]
      [] req.kind = "drop" -> [Entries(file) EXCEPT ![req.key] = NoVal]
      [] req.kind = "save" -> req.map
      [] OTHER -> file

Answer(req, file) ==
    CASE req.kind = "drop" -> Effect(req, file)
      [] req.kind = "read" -> Entries(file)
      [] req.kind = "peek" -> IF file = Odd THEN Odd ELSE Entries(file)
      [] OTHER -> NoVal

Apply(p) ==
    /\ phase[p] = "asked"
    /\ ~Refuses(request[p], map)
    /\ map' = Effect(request[p], map)
    /\ reply' = [reply EXCEPT ![p] = Answer(request[p], map)]
    /\ phase' = [phase EXCEPT ![p] = "done"]
    /\ synced' = (synced /\ request[p].kind \in {"read", "peek"})
    /\ UNCHANGED <<saved, request>>

(* The call returns, raises without effect, or its process dies. *)
Leave(p) ==
    /\ phase[p] # "idle"
    /\ phase' = [phase EXCEPT ![p] = "idle"]
    /\ request' = [request EXCEPT ![p] = NoRequest]
    /\ reply' = [reply EXCEPT ![p] = NoVal]
    /\ UNCHANGED <<map, saved, synced>>

(* In its own time, what was written becomes safe. *)
Settle ==
    /\ ~synced
    /\ saved' = map
    /\ synced' = TRUE
    /\ UNCHANGED <<map, phase, request, reply>>

(* The machine goes down: the map is as it was last safe, or, if it was     *)
(* changed since, as it is or unreadable.                                   *)
PowerLoss ==
    /\ map' \in IF synced THEN {saved} ELSE {saved, map, Bad}
    /\ saved' = map'
    /\ synced' = TRUE
    /\ phase' = [p \in Procs |-> "idle"]
    /\ request' = [p \in Procs |-> NoRequest]
    /\ reply' = [p \in Procs |-> NoVal]

Next ==
    \/ \E p \in Procs :
          \/ \E req \in Calls[p] : Ask(p, req)
          \/ Apply(p) \/ Leave(p)
    \/ Settle \/ PowerLoss

Spec == Init /\ [][Next]_vars
=============================================================================
