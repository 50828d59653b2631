----------------------------- MODULE ShieldCheck ----------------------------
(***************************************************************************)
(* shield-check.py: the daily drift check of the TV boxes, whose alerts    *)
(* and stored state must agree although sends fail, runs are killed and    *)
(* the state file is lost.  One run at a time: acquire_singleton_lock.     *)
(***************************************************************************)
EXTENDS Naturals, FiniteSets

CONSTANTS
    Devices,
    Findings,       \* the finding sets a device can show, None for no findings
    None,
    AlertAt,        \* UNREACHABLE_ALERT_AT
    MaxChanges,     \* bound: changes of the devices
    MaxFaults       \* bound: failed sends and saves, killed runs, lost files

ASSUME FindingsAssumption == None \in Findings
ASSUME AlertAtAssumption == AlertAt \in Nat \ {0}
ASSUME BoundsAssumption == MaxChanges \in Nat /\ MaxFaults \in Nat

VARIABLES
    device,     \* device[d]: does it answer, and what would be found?
    stored,     \* stored[d]: its entry in shield-check.json
    told,       \* told[d]: what the operator has last read about it
    unsaved,    \* devices of which the operator has read what is not stored
    run,        \* the local variables of the run
    changes, faults

vars == <<device, stored, told, unsaved, run, changes, faults>>

(* The counter only matters up to the threshold, so it stops right after it. *)
Counts == 0..(AlertAt + 1)
States == [findings : Findings, unreachable : Counts]
Default == [findings |-> None, unreachable |-> 0]
Reports == [up : BOOLEAN, findings : Findings]
Pictures == [down : BOOLEAN, findings : Findings]

NoRun ==
    [pc |-> "idle", selected |-> {}, todo |-> {}, delivered |-> TRUE,
     loaded |-> [d \in Devices |-> Default],
     report |-> [d \in Devices |-> [up |-> TRUE, findings |-> None]]]

Init ==
    /\ device = [d \in Devices |-> [up |-> TRUE, findings |-> None]]
    /\ stored = [d \in Devices |-> Default]
    /\ told = [d \in Devices |-> [down |-> FALSE, findings |-> None]]
    /\ unsaved = {}
    /\ run = NoRun
    /\ changes = 0
    /\ faults = 0

-----------------------------------------------------------------------------
(* advance: the state to store once delivered, and the lines to send. *)
Counted(count) == IF count > AlertAt THEN count ELSE count + 1

Advanced(d) ==
    LET prev == run.loaded[d]
        rep == run.report[d]
    IN  IF rep.up THEN [findings |-> rep.findings, unreachable |-> 0]
        ELSE [prev EXCEPT !.unreachable = Counted(@)]

(* An alert on every run of an outage that has lasted long enough. *)
OutageAnyRun(d) ==
    ~run.report[d].up /\ Counted(run.loaded[d].unreachable) >= AlertAt

Outage(d) == ~run.report[d].up /\ Counted(run.loaded[d].unreachable) = AlertAt

(* Recovery from an outage that was alerted on in the very last run only. *)
RecoveryExactly(d) == run.report[d].up /\ run.loaded[d].unreachable = AlertAt

Recovery(d) == run.report[d].up /\ run.loaded[d].unreachable >= AlertAt
Drift(d) == run.report[d].up /\ run.report[d].findings # run.loaded[d].findings

Alerts == {d \in run.selected : Outage(d) \/ Recovery(d) \/ Drift(d)}

(* What the operator knows once the message has been read. *)
Read(d) ==
    IF d \notin Alerts THEN told[d]
    ELSE [down |-> IF Outage(d) THEN TRUE ELSE IF Recovery(d) THEN FALSE ELSE told[d].down,
          findings |-> IF Drift(d) THEN run.report[d].findings ELSE told[d].findings]

-----------------------------------------------------------------------------
(* A run by hand that checks more than it was asked to. *)
StartChecksAll(selected) ==
    /\ run.pc = "idle"
    /\ run' = [NoRun EXCEPT !.pc = "check", !.selected = selected, !.todo = Devices,
                            !.loaded = stored]
    /\ UNCHANGED <<device, stored, told, unsaved, changes, faults>>

(* The daily run, or one by hand with --device: the lock, the stored state. *)
Start(selected) ==
    /\ run.pc = "idle"
    /\ run' = [NoRun EXCEPT !.pc = "check", !.selected = selected, !.todo = selected,
                            !.loaded = stored]
    /\ UNCHANGED <<device, stored, told, unsaved, changes, faults>>

(* check_device: unreachable, or its findings. *)
Check(d) ==
    /\ run.pc = "check"
    /\ d \in run.todo
    /\ run' = [run EXCEPT !.report[d] = device[d], !.todo = @ \ {d}]
    /\ UNCHANGED <<device, stored, told, unsaved, changes, faults>>

(* One message for all devices, if there is anything to say.  It may fail,  *)
(* or arrive although it is reported as failed.                             *)
Send ==
    /\ run.pc = "check"
    /\ run.todo = {}
    /\ \/ /\ told' = [d \in Devices |-> Read(d)]
          /\ run' = [run EXCEPT !.pc = "save"]
          /\ UNCHANGED <<faults, unsaved>>
       \/ /\ Alerts # {}
          /\ faults < MaxFaults
          /\ faults' = faults + 1
          /\ run' = [run EXCEPT !.pc = "save", !.delivered = FALSE]
          /\ \/ UNCHANGED <<told, unsaved>>
             \/ /\ told' = [d \in Devices |-> Read(d)]
                /\ unsaved' = unsaved \cup Alerts
    /\ UNCHANGED <<device, stored, changes>>

(* What the operator knows who has read all that the state stands for. *)
Picture(state) ==
    [down |-> state.unreachable >= AlertAt, findings |-> state.findings]

(* Every device's state advances, whether or not its alert got out. *)
UpdatedAlways(d) == IF d \in run.selected THEN Advanced(d) ELSE run.loaded[d]

(* "A failed send keeps the old state", of the devices it was about. *)
Updated(d) ==
    IF d \in run.selected /\ (run.delivered \/ d \notin Alerts)
    THEN Advanced(d) ELSE run.loaded[d]

Delivered == IF run.delivered THEN Alerts ELSE {}

Save ==
    /\ run.pc = "save"
    /\ stored' = [d \in Devices |-> Updated(d)]
    /\ unsaved' = {d \in unsaved : told[d] # Picture(Updated(d))}
    /\ run' = NoRun
    /\ UNCHANGED <<device, told, changes, faults>>

(* The save fails, or the run is killed at any time before it. *)
Die ==
    /\ run.pc # "idle"
    /\ faults < MaxFaults
    /\ faults' = faults + 1
    /\ unsaved' = IF run.pc = "save" THEN unsaved \cup Delivered ELSE unsaved
    /\ run' = NoRun
    /\ UNCHANGED <<device, stored, told, changes>>

(* The state file does not parse: "treated as empty". *)
LoseFile ==
    /\ run.pc = "idle"
    /\ faults < MaxFaults
    /\ faults' = faults + 1
    /\ stored' = [d \in Devices |-> Default]
    /\ unsaved' = Devices
    /\ UNCHANGED <<device, told, run, changes>>

(* A device goes away, comes back, or drifts. *)
Change(d) ==
    /\ changes < MaxChanges
    /\ changes' = changes + 1
    /\ \E r \in Reports : r # device[d] /\ device' = [device EXCEPT ![d] = r]
    /\ UNCHANGED <<stored, told, unsaved, run, faults>>

RunStep == (\E d \in Devices : Check(d)) \/ Send \/ Save

Next ==
    \/ Start(Devices) \/ (\E d \in Devices : Start({d}))
    \/ RunStep \/ Die \/ LoseFile
    \/ \E d \in Devices : Change(d)

(* Fairness: a run comes to its end; cron starts the daily one, and not at  *)
(* a moment when someone's run by hand holds the lock every single day.     *)
Spec == Init /\ [][Next]_vars /\ SF_vars(Start(Devices)) /\ WF_vars(RunStep)

-----------------------------------------------------------------------------
TypeOK ==
    /\ device \in [Devices -> Reports]
    /\ stored \in [Devices -> States]
    /\ told \in [Devices -> Pictures]
    /\ unsaved \subseteq Devices
    /\ DOMAIN run = DOMAIN NoRun
    /\ run.pc \in {"idle", "check", "save"}
    /\ run.todo \subseteq run.selected
    /\ run.loaded \in [Devices -> States]
    /\ run.report \in [Devices -> Reports]
    /\ run.pc # "idle" => run.loaded = stored

(* "State advances only after the alert was delivered": between runs the    *)
(* stored state is what the operator has read, however many sends failed.   *)
(* Exempt are the devices in unsaved: one whose alert arrived although the  *)
(* send was reported as failed, one whose alert was read and whose run died *)
(* before the save, and every device once the state file has been lost, all *)
(* of them until what is stored is again what the operator has read.        *)
ToldIsStored ==
    run.pc = "idle" => \A d \in Devices \ unsaved : told[d] = Picture(stored[d])

(* A message is built and the send of it is tried, whatever becomes of it. *)
SendTried == run.pc = "check" /\ run'.pc = "save"

(* "Alert once when the consecutive count reaches 3, and once on recovery   *)
(* after such an alert": no message says of a device that it is down to an  *)
(* operator who has read so already, or that it is back to one who believes *)
(* it up.  The devices in unsaved are exempt: after an alert that arrived   *)
(* unacknowledged, a run that died before its save or a lost state file,    *)
(* the same notice may be sent again.                                       *)
NoticesAlternate ==
    [][SendTried =>
         \A d \in Alerts \ unsaved :
            (Outage(d) => ~told[d].down) /\ (Recovery(d) => told[d].down)]_vars

(* The operator ends up knowing what is the case, once it stays so, however *)
(* many sends failed.  The devices in unsaved are exempt, and may stay so   *)
(* for ever: if the operator has read of a drift that was not stored (the   *)
(* alert arrived unacknowledged, the run died before its save, or the state *)
(* file was lost) and the box falls back in line before the next run, then  *)
(* the stored state has nothing to correct and no message is sent.          *)
Known(d) ==
    IF device[d].up THEN told[d] = [down |-> FALSE, findings |-> device[d].findings]
    ELSE told[d].down
AllIsKnown == <>[](\A d \in Devices : Known(d) \/ d \in unsaved)
=============================================================================
