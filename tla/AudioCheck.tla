----------------------------- MODULE AudioCheck -----------------------------
(***************************************************************************)
(* audio-lang-check.py: the hourly run that listens to every new version   *)
(* of a file, writes its conclusion or its failure into one state file,    *)
(* and sends each finding to the operator once, while files are replaced   *)
(* under it, sends and writes fail, and runs are terminated or killed.     *)
(* One run at a time: acquire_singleton_lock.                              *)
(***************************************************************************)
EXTENDS Naturals, FiniteSets

CONSTANTS
    Files,          \* paths under movies/ and tv/
    None,
    MaxAttempts,    \* MAX_FAILED_ATTEMPTS
    MaxItems,       \* MAX_ALERT_ITEMS
    MaxVersions,    \* bound: imports
    MaxFaults       \* bound: outages, failed writes, failed sends, ended runs

ASSUME NumbersAssumption ==
    /\ MaxAttempts \in Nat \ {0} /\ MaxItems \in Nat \ {0}
    /\ MaxVersions \in Nat /\ MaxFaults \in Nat

VARIABLES
    file,       \* file[f]: the version at the path, or None
    entry,      \* entry[f]: its entry in the state file, or None
    run,        \* the local variables of the run
    tried,      \* versions whose findings were put into a message
    unmarked,   \* those of them whose mark was lost
    failures,   \* failures[v]: analyses of v recorded as failed
    versions, faults

vars == <<file, entry, run, tried, unmarked, failures, versions, faults>>
ghosts == <<tried, unmarked, failures>>

(* A version's number is its inode, size and mtime: numbers are not reused, *)
(* and a greater one is newer.  ill: every analysis of it fails.            *)
Ids == 1..MaxVersions
Kinds == {"fine", "bad", "ill"}
FileVersions == [id : Ids, kind : Kinds, old : BOOLEAN]

(* of = 0: no conclusion yet; failedOf = 0: no failure record. *)
Entries ==
    [of : Ids \cup {0}, found : BOOLEAN, alerted : BOOLEAN,
     failedOf : Ids \cup {0}, attempts : 0..MaxAttempts]
NoEntry == [of |-> 0, found |-> FALSE, alerted |-> FALSE, failedOf |-> 0, attempts |-> 0]
Existing(f) == IF entry[f] = None THEN NoEntry ELSE entry[f]

ASSUME NoneAssumption == None \notin FileVersions \cup Entries

Places == {"idle", "next", "analyse", "compare", "write", "alert", "send", "mark"}
NoRun ==
    [pc |-> "idle", todo |-> {}, started |-> FALSE, cur |-> None, before |-> 0,
     result |-> "none", rest |-> {}, sent |-> {}]

Init ==
    /\ file = [f \in Files |-> None]
    /\ entry = [f \in Files |-> None]
    /\ run = NoRun
    /\ tried = {}
    /\ unmarked = {}
    /\ failures = [v \in Ids |-> 0]
    /\ versions = 0
    /\ faults = 0

Goto(place) == run' = [run EXCEPT !.pc = place]
World == UNCHANGED <<file, versions>>
NoFault == UNCHANGED faults
Fault == faults < MaxFaults /\ faults' = faults + 1

-----------------------------------------------------------------------------
(* _identity, without and with the settle window of MIN_FILE_AGE_S. *)
Identity(f) == IF file[f] = None THEN 0 ELSE file[f].id
SettledIdentity(f) == IF file[f] # None /\ file[f].old THEN file[f].id ELSE 0

(* _failed_attempts: those of exactly this version. *)
FailedAttempts(e, v) == IF e.failedOf = v THEN e.attempts ELSE 0

(* A selection that takes a file however often it failed. *)
CandidatesFailing ==
    {f \in Files : SettledIdentity(f) \notin {0, Existing(f).of}}

(* select_candidates: settled files that are neither concluded nor given up. *)
Candidates ==
    {f \in Files :
        LET v == SettledIdentity(f) IN
        /\ v # 0
        /\ Existing(f).of # v
        /\ FailedAttempts(Existing(f), v) < MaxAttempts}

Start ==
    /\ run.pc = "idle"
    /\ run' = [NoRun EXCEPT !.pc = "next",
                            !.todo = {<<f, Identity(f)>> : f \in Candidates}]
    /\ World /\ NoFault /\ UNCHANGED <<entry, ghosts>>

(* The newest candidate of the scan that is left: its identity again.       *)
NextCandidate ==
    /\ run.pc = "next"
    /\ run.todo # {}
    /\ LET first == CHOOSE c \in run.todo : \A d \in run.todo : c[2] >= d[2]
           left == [run EXCEPT !.todo = @ \ {first}]
           v == SettledIdentity(first[1])
       IN  run' = IF v = 0 THEN left
                  ELSE [left EXCEPT !.pc = "analyse", !.started = TRUE,
                                    !.cur = first[1], !.before = v]
    /\ World /\ NoFault /\ UNCHANGED <<entry, ghosts>>

(* No candidate left, or the budget is reached: the finally of main. *)
EndLoop ==
    /\ run.pc = "next"
    /\ run.todo = {} \/ run.started
    /\ Goto("alert")
    /\ World /\ NoFault /\ UNCHANGED <<entry, ghosts>>

(* process_candidate: what is at the path now is looked up, read and heard. *)
Analyse ==
    /\ run.pc = "analyse"
    /\ \/ /\ run' = [run EXCEPT !.pc = "compare",
                       !.result = IF file[run.cur] = None \/ file[run.cur].kind = "ill"
                                  THEN "failed" ELSE file[run.cur].kind]
          /\ NoFault
       \/ /\ \E trouble \in {"failed", "arr_unavailable"} :
                run' = [run EXCEPT !.pc = "compare", !.result = trouble]
          /\ Fault
       \/ Goto("alert") /\ Fault    \* the playback wait times out, or no whisper
    /\ World /\ UNCHANGED <<entry, ghosts>>

(* DISCARDED if it changed; nothing is recorded when Radarr was not asked. *)
Compare ==
    /\ run.pc = "compare"
    /\ Goto(IF SettledIdentity(run.cur) = run.before /\ run.result # "arr_unavailable"
            THEN "write" ELSE "next")
    /\ World /\ NoFault /\ UNCHANGED <<entry, ghosts>>

(* A changed file that keeps the flag of the findings it had. *)
ConclusionFlagKept(e) ==
    [of |-> run.before, found |-> run.result = "bad",
     alerted |-> run.result = "bad" /\ e.found /\ e.alerted,
     failedOf |-> 0, attempts |-> 0]

(* _conclusion_entry: a conclusion supersedes all that the entry held, but  *)
(* for the flag of the same findings in the same file.                      *)
Conclusion(e) ==
    [of |-> run.before, found |-> run.result = "bad",
     alerted |-> /\ run.result = "bad"
                 /\ e.of = run.before /\ e.found /\ e.alerted,
     failedOf |-> 0, attempts |-> 0]

(* A counter that no new version starts again. *)
FailureOfAny(e) ==
    [e EXCEPT !.failedOf = run.before,
              !.attempts = IF @ < MaxAttempts THEN @ + 1 ELSE @]

(* _record_failure: the rest of the entry stays. *)
Failure(e) ==
    [e EXCEPT !.failedOf = run.before, !.attempts = FailedAttempts(e, run.before) + 1]

(* _record_result or _record_failure, one locked update; it may fail. *)
Write ==
    /\ run.pc = "write"
    /\ \/ /\ entry' = [entry EXCEPT ![run.cur] = IF run.result = "failed"
                                                 THEN Failure(Existing(run.cur))
                                                 ELSE Conclusion(Existing(run.cur))]
          /\ failures' = IF run.result = "failed"
                         THEN [failures EXCEPT ![run.before] = @ + 1] ELSE failures
          /\ NoFault
       \/ Fault /\ UNCHANGED <<entry, failures>>
    /\ Goto("next")
    /\ World /\ UNCHANGED <<tried, unmarked>>

-----------------------------------------------------------------------------
(* send_alerts: the entries that have findings and no mark ... *)
LoadPending ==
    /\ run.pc = "alert"
    /\ run' = [run EXCEPT !.pc = "send",
                 !.rest = {<<f, entry[f].of>> : f \in {g \in Files :
                             entry[g] # None /\ entry[g].found /\ ~entry[g].alerted}}]
    /\ World /\ NoFault /\ UNCHANGED <<entry, ghosts>>

(* A loop that looks at the files before its first message only. *)
CurrentAtFirst(pending) ==
    IF run.sent = {} THEN {p \in pending : Identity(p[1]) = p[2]} ELSE pending

(* The findings whose file is still at the identity they were made on.      *)
Current(pending) == {p \in pending : Identity(p[1]) = p[2]}

(* A loop that remembers its last message only. *)
MessageForgetting ==
    /\ run.pc = "send"
    /\ LET rest == Current(run.rest) IN
       /\ rest # {}
       /\ \E named \in SUBSET rest :
             /\ named # {} /\ Cardinality(named) <= MaxItems
             /\ run' = [run EXCEPT !.rest = rest \ named, !.sent = named]
             /\ tried' = tried \cup {p[2] : p \in named}
    /\ World /\ NoFault /\ UNCHANGED <<entry, unmarked, failures>>

(* ... go out in messages of up to MaxItems, as many as fit their length    *)
(* (the first always does), those whose file is still the same as each      *)
(* message is built; a message that fails counts as sent.                   *)
Message ==
    /\ run.pc = "send"
    /\ LET rest == Current(run.rest) IN
       /\ rest # {}
       /\ \E named \in SUBSET rest :
             /\ named # {} /\ Cardinality(named) <= MaxItems
             /\ run' = [run EXCEPT !.rest = rest \ named, !.sent = @ \cup named]
             /\ tried' = tried \cup {p[2] : p \in named}
    /\ World /\ NoFault /\ UNCHANGED <<entry, unmarked, failures>>

NoMessage ==
    /\ run.pc = "send"
    /\ Current(run.rest) = {}
    /\ run' = IF run.sent = {} THEN NoRun ELSE [run EXCEPT !.pc = "mark"]
    /\ World /\ NoFault /\ UNCHANGED <<entry, ghosts>>

(* The mark, on entries that are as they were sent. *)
Marked == {p[1] : p \in {q \in run.sent :
              entry[q[1]] # None /\ entry[q[1]].of = q[2] /\ entry[q[1]].found}}

Mark ==
    /\ run.pc = "mark"
    /\ entry' = [f \in Files |-> IF f \in Marked THEN [entry[f] EXCEPT !.alerted = TRUE]
                                 ELSE entry[f]]
    /\ run' = NoRun
    /\ World /\ NoFault /\ UNCHANGED ghosts

(* SIGTERM in the loop: main's finally sends all the same. *)
Terminate ==
    /\ run.pc \in {"next", "analyse", "compare", "write"}
    /\ Goto("alert")
    /\ Fault
    /\ World /\ UNCHANGED <<entry, ghosts>>

(* The run is killed, or the mark cannot be written. *)
Die ==
    /\ run.pc # "idle"
    /\ run' = NoRun
    /\ unmarked' = unmarked \cup {p[2] : p \in run.sent}
    /\ Fault
    /\ World /\ UNCHANGED <<entry, tried, failures>>

-----------------------------------------------------------------------------
(* Sonarr or Radarr imports, upgrades or touches a file, or removes it. *)
Import(f) ==
    /\ versions < MaxVersions
    /\ versions' = versions + 1
    /\ \E kind \in Kinds :
          file' = [file EXCEPT ![f] = [id |-> versions + 1, kind |-> kind, old |-> FALSE]]
    /\ NoFault /\ UNCHANGED <<entry, run, ghosts>>

Remove(f) ==
    /\ file[f] # None
    /\ versions < MaxVersions
    /\ file' = [file EXCEPT ![f] = None]
    /\ NoFault /\ UNCHANGED <<entry, run, ghosts, versions>>

(* MIN_FILE_AGE_S pass. *)
Settle(f) ==
    /\ file[f] # None /\ ~file[f].old
    /\ file' = [file EXCEPT ![f].old = TRUE]
    /\ NoFault /\ UNCHANGED <<entry, run, ghosts, versions>>

RunStep ==
    \/ Start \/ NextCandidate \/ EndLoop \/ Analyse \/ Compare \/ Write
    \/ LoadPending \/ Message \/ NoMessage \/ Mark

Next ==
    \/ RunStep \/ Terminate \/ Die
    \/ \E f \in Files : Import(f) \/ Remove(f) \/ Settle(f)

(* Fairness: cron starts a run every hour, and it goes on; time passes.     *)
Spec ==
    /\ Init /\ [][Next]_vars
    /\ WF_vars(RunStep)
    /\ \A f \in Files : WF_vars(Settle(f))

-----------------------------------------------------------------------------
TypeOK ==
    /\ file \in [Files -> FileVersions \cup {None}]
    /\ entry \in [Files -> Entries \cup {None}]
    /\ DOMAIN run = DOMAIN NoRun
    /\ run.pc \in Places
    /\ run.todo \subseteq Files \X Ids
    /\ run.pc \in {"analyse", "compare", "write"} => run.cur \in Files /\ run.before \in Ids
    /\ run.rest \subseteq Files \X Ids
    /\ run.sent \subseteq Files \X Ids
    /\ tried \subseteq Ids /\ unmarked \subseteq Ids
    /\ failures \in [Ids -> 0..MaxAttempts]

(* "A gone or replaced file's findings are never sent": what a message says *)
(* of a file is so of the file that is there when the message is built.     *)
MessageIsTrue ==
    [][\A v \in tried' \ tried :
         \E f \in Files : file[f] # None /\ file[f].id = v /\ file[f].kind = "bad"]_vars

(* "One send attempt per new finding": no version is in two messages, but   *)
(* for one whose mark was lost with its run.                                *)
SentOnce ==
    [][run'.sent # run.sent /\ run'.pc = "send" =>
         \A p \in run'.sent \ run.sent : p[2] \in tried => p[2] \in unmarked]_vars

(* A version is given up only for failures of its own, never for those of   *)
(* the file it replaced or for an outage of Radarr.                         *)
GivenUp(f) == FailedAttempts(Existing(f), Identity(f)) = MaxAttempts
GivesUpFairly ==
    \A f \in Files : file[f] # None /\ GivenUp(f) => failures[Identity(f)] = MaxAttempts

(* Once imports and outages stop, every file is concluded on or given up,   *)
(* and every finding has been put into a message.                           *)
Done(f) ==
    \/ file[f] = None
    \/ GivenUp(f)
    \/ /\ Existing(f).of = Identity(f)
       /\ file[f].kind = "bad" => Identity(f) \in tried
AllIsHeard == <>[](\A f \in Files : Done(f))
=============================================================================
