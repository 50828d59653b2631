-------------------------- MODULE ShieldCheckProofs -------------------------
(***************************************************************************)
(* What the operator has read and what shield-check.json says of a box     *)
(* agree between runs, for any set of boxes, any findings, any alert       *)
(* threshold and any number of failed sends, killed runs and lost files.   *)
(* No assumption is needed beyond those of ShieldCheck itself.             *)
(***************************************************************************)
EXTENDS ShieldCheck, TLAPS

Runs ==
    [pc : {"idle", "check", "save"},
     selected : SUBSET Devices, todo : SUBSET Devices, delivered : BOOLEAN,
     loaded : [Devices -> States], report : [Devices -> Reports]]

(* Until the message is sent, the operator's picture of every box that     *)
(* nothing went wrong for is the stored one.                               *)
ToldIsLoaded ==
    run.pc # "save" => \A d \in Devices \ unsaved : told[d] = Picture(stored[d])

(* Between the message and the save it is the one about to be stored ...   *)
ToldIsUpdated ==
    run.pc = "save" => \A d \in Devices \ unsaved : told[d] = Picture(Updated(d))

(* ... and still the stored one of every box the message was not about, so *)
(* that a run killed here leaves only the others behind.                   *)
OthersAreStored ==
    run.pc = "save" =>
        \A d \in Devices \ (unsaved \cup Delivered) : told[d] = Picture(stored[d])

(* No send has failed before the one send of a run. *)
DeliveredSoFar == run.pc # "save" => run.delivered

IInv ==
    /\ TypeOK
    /\ run \in Runs
    /\ DeliveredSoFar
    /\ ToldIsLoaded
    /\ ToldIsUpdated
    /\ OthersAreStored

-----------------------------------------------------------------------------
(* advance keeps the counter within its range. *)
LEMMA AdvancedType ==
    ASSUME run \in Runs, NEW d \in Devices
    PROVE  Advanced(d) \in States
  BY AlertAtAssumption DEF Runs, States, Counts, Reports, Advanced, Counted

(* What Save stores is a state, for a selected box or another. *)
LEMMA UpdatedType ==
    ASSUME run \in Runs, NEW d \in Devices
    PROVE  Updated(d) \in States
  BY AdvancedType DEF Runs, Updated

(* What the operator knows after a message is a picture. *)
LEMMA ReadType ==
    ASSUME run \in Runs, told \in [Devices -> Pictures], NEW d \in Devices
    PROVE  Read(d) \in Pictures
  BY DEF Runs, Pictures, Reports, Read

(* Nothing to say of a selected box means that its picture stays the same. *)
LEMMA SilentIsUnchanged ==
    ASSUME run \in Runs, NEW d \in run.selected, d \notin Alerts
    PROVE  Picture(Advanced(d)) = Picture(run.loaded[d])
  BY AlertAtAssumption
     DEF Runs, States, Counts, Reports, Advanced, Counted, Picture, Alerts,
         Outage, Recovery, Drift

(* The lines of a message say exactly what the advanced state differs in,  *)
(* to an operator who knows what was stored.                               *)
LEMMA ReadIsAdvanced ==
    ASSUME run \in Runs, NEW d \in run.selected, told[d] = Picture(run.loaded[d])
    PROVE  Read(d) = Picture(Advanced(d))
<1>1. CASE d \in Alerts
  <2> DEFINE prev == run.loaded[d]
             rep == run.report[d]
  <2>1. prev \in States /\ rep \in Reports
        BY DEF Runs
  <2>2. told[d] = [down |-> prev.unreachable >= AlertAt, findings |-> prev.findings]
        BY DEF Picture
  <2> DEFINE outage == Outage(d)
             recovery == Recovery(d)
             drift == Drift(d)
             heard == [down |-> IF outage THEN TRUE ELSE IF recovery THEN FALSE ELSE told[d].down,
                       findings |-> IF drift THEN rep.findings ELSE told[d].findings]
             advanced == Advanced(d)
  <2>3. Read(d) = heard
        BY <1>1 DEF Read
  <2>4. heard.findings = advanced.findings
        BY <2>1, <2>2 DEF States, Reports, Advanced, Drift
  <2>5. (IF outage THEN TRUE ELSE IF recovery THEN FALSE ELSE prev.unreachable >= AlertAt)
            = (advanced.unreachable >= AlertAt)
    <3>0. (prev.unreachable >= AlertAt) \in BOOLEAN /\ (advanced.unreachable >= AlertAt) \in BOOLEAN
          OBVIOUS
    <3>1. CASE rep.up
      <4>1. ~outage /\ (recovery <=> prev.unreachable >= AlertAt)
            BY <3>1 DEF Outage, Recovery
      <4>2. ~(advanced.unreachable >= AlertAt)
            BY <3>1, AlertAtAssumption DEF Advanced
      <4> HIDE DEF outage, recovery, advanced, prev
      <4> QED BY <3>0, <4>1, <4>2, Zenon
    <3>2. CASE ~rep.up
      <4>1. ~recovery
            BY <3>2 DEF Recovery
      <4>2. advanced.unreachable = Counted(prev.unreachable)
            BY <2>1, <3>2 DEF Advanced, States
      <4>3. outage <=> Counted(prev.unreachable) = AlertAt
            BY <3>2 DEF Outage
      <4>4. (advanced.unreachable >= AlertAt) <=> outage \/ prev.unreachable >= AlertAt
        <5>1. prev.unreachable \in Counts
              BY <2>1 DEF States
        <5> HIDE DEF prev, advanced, outage
        <5> QED BY <5>1, <4>2, <4>3, AlertAtAssumption DEF Counted, Counts
      <4> HIDE DEF outage, recovery, advanced, prev
      <4> QED BY <3>0, <4>1, <4>4, Zenon
    <3> QED BY <3>1, <3>2
  <2>6. told[d].down = (prev.unreachable >= AlertAt)
        BY <2>2, SMT
  <2> HIDE DEF outage, recovery, drift, advanced, prev, rep
  <2>7. heard.down = (advanced.unreachable >= AlertAt)
        BY <2>5, <2>6, Zenon
  <2> QED BY <2>3, <2>4, <2>7, Zenon DEF Picture, advanced
<1>2. CASE d \notin Alerts
      BY <1>2, SilentIsUnchanged DEF Read
<1> QED BY <1>1, <1>2

-----------------------------------------------------------------------------
(* The initial state satisfies the inductive invariant. *)
LEMMA InitInv == Init => IInv
<1> SUFFICES ASSUME Init PROVE IInv
    OBVIOUS
<1> USE FindingsAssumption, AlertAtAssumption
        DEF Init, NoRun, Default, States, Counts, Reports, Pictures
<1>1. TypeOK
      BY DEF TypeOK
<1>2. run \in Runs
      BY DEF Runs
<1>3. (0 >= AlertAt) = FALSE
      OBVIOUS
<1>4. Picture(Default) = [down |-> FALSE, findings |-> None]
      BY <1>3, Zenon DEF Picture, Default
<1>5. DeliveredSoFar /\ ToldIsLoaded /\ ToldIsUpdated /\ OthersAreStored
      BY <1>4 DEF DeliveredSoFar, ToldIsLoaded, ToldIsUpdated, OthersAreStored
<1> QED BY <1>1, <1>2, <1>5 DEF IInv

(* The run's local variables keep their ranges. *)
LEMMA RunStepType == TypeOK /\ run \in Runs /\ [Next]_vars => run' \in Runs
<1> SUFFICES ASSUME TypeOK, run \in Runs, [Next]_vars PROVE run' \in Runs
    OBVIOUS
<1>0. NoRun \in Runs
      BY FindingsAssumption, AlertAtAssumption
         DEF NoRun, Runs, Default, States, Counts, Reports
<1>1. ASSUME NEW selected \in SUBSET Devices, Start(selected) PROVE run' \in Runs
      BY <1>0, <1>1 DEF Start, Runs, TypeOK
<1>2. ASSUME NEW d \in Devices, Check(d) PROVE run' \in Runs
      BY <1>2 DEF Check, Runs, TypeOK
<1>3. CASE Send
      BY <1>3 DEF Send, Runs
<1>4. CASE Save \/ Die
      BY <1>0, <1>4 DEF Save, Die
<1>5. CASE LoseFile \/ (\E d \in Devices : Change(d)) \/ UNCHANGED vars
      BY <1>5 DEF LoseFile, Change, vars
<1> QED BY <1>1, <1>2, <1>3, <1>4, <1>5 DEF Next, RunStep

(* The ranges of the variables under every step. *)
LEMMA TypeStep == TypeOK /\ run \in Runs /\ [Next]_vars => TypeOK'
<1> SUFFICES ASSUME TypeOK, run \in Runs, [Next]_vars PROVE TypeOK'
    OBVIOUS
<1>0. run' \in Runs /\ NoRun \in Runs
      BY RunStepType, FindingsAssumption, AlertAtAssumption
         DEF NoRun, Runs, Default, States, Counts, Reports
<1>1. ASSUME NEW selected \in SUBSET Devices, Start(selected) PROVE TypeOK'
      BY <1>0, <1>1 DEF Start, TypeOK, NoRun, Runs
<1>2. ASSUME NEW d \in Devices, Check(d) PROVE TypeOK'
      BY <1>0, <1>2 DEF Check, TypeOK, NoRun, Runs
<1>3. CASE Send
  <2>1. told' \in [Devices -> Pictures]
        BY <1>3, ReadType DEF Send, TypeOK
  <2>2. unsaved' \subseteq Devices
        BY <1>3 DEF Send, TypeOK, Runs, Alerts
  <2> QED BY <1>0, <1>3, <2>1, <2>2 DEF Send, TypeOK, NoRun, Runs
<1>4. CASE Save
  <2>1. stored' \in [Devices -> States]
        BY <1>4, UpdatedType DEF Save
  <2> QED BY <1>0, <1>4, <2>1 DEF Save, TypeOK, NoRun, Runs
<1>5. CASE Die
  <2>1. unsaved' \subseteq Devices
        BY <1>5 DEF Die, TypeOK, Runs, Delivered, Alerts
  <2> QED BY <1>0, <1>5, <2>1 DEF Die, TypeOK, NoRun, Runs
<1>6. CASE LoseFile
      BY <1>6, FindingsAssumption, AlertAtAssumption
         DEF LoseFile, TypeOK, NoRun, Default, States, Counts
<1>7. CASE (\E d \in Devices : Change(d)) \/ UNCHANGED vars
      BY <1>7 DEF Change, vars, TypeOK, NoRun
<1> QED BY <1>1, <1>2, <1>3, <1>4, <1>5, <1>6, <1>7 DEF Next, RunStep

(* The message tells the operator what the save is about to store. *)
LEMMA SendInv == IInv /\ Send => ToldIsUpdated' /\ OthersAreStored'
<1> SUFFICES ASSUME IInv, Send PROVE ToldIsUpdated' /\ OthersAreStored'
    OBVIOUS
<1>1. \A d \in Devices : Advanced(d)' = Advanced(d)
      BY DEF Send, Advanced, Counted, IInv, Runs
<1>2. Alerts' = Alerts
      BY DEF Send, Alerts, Outage, Recovery, Drift, Counted, IInv, Runs
<1>3. /\ run.loaded = stored /\ run.selected \subseteq Devices
      /\ stored' = stored /\ run'.loaded = run.loaded /\ run'.selected = run.selected
      /\ run'.pc = "save"
      BY DEF Send, IInv, TypeOK, Runs
<1>4. \A d \in Devices \ unsaved : told[d] = Picture(run.loaded[d])
      BY <1>3 DEF Send, IInv, ToldIsLoaded
<1>5. CASE /\ told' = [d \in Devices |-> Read(d)]
           /\ run' = [run EXCEPT !.pc = "save"]
           /\ UNCHANGED unsaved
  <2>1. run.delivered /\ run'.delivered = run.delivered
        BY <1>5 DEF Send, IInv, Runs, DeliveredSoFar
  <2>2. ASSUME NEW d \in Devices \ unsaved PROVE told'[d] = Picture(Updated(d))'
    <3>1. CASE d \in run.selected
      <4>1. Updated(d)' = Advanced(d)
            BY <1>1, <1>3, <2>1, <3>1 DEF Updated
      <4>2. Read(d) = Picture(Advanced(d))
            BY <1>4, <3>1, ReadIsAdvanced DEF IInv
      <4> QED BY <1>5, <4>1, <4>2 DEF Picture
    <3>2. CASE d \notin run.selected
      <4>1. Updated(d)' = run.loaded[d]
            BY <1>3, <3>2 DEF Updated
      <4>2. Read(d) = told[d]
            BY <3>2 DEF Read, Alerts
      <4> QED BY <1>4, <1>5, <4>1, <4>2 DEF Picture
    <3> QED BY <3>1, <3>2
  <2>3. ASSUME NEW d \in Devices \ (unsaved \cup Alerts) PROVE told'[d] = Picture(stored[d])
        BY <1>3, <1>4, <1>5, <2>3 DEF Read
  <2>4. Delivered' = Alerts
        BY <1>2, <2>1 DEF Delivered
  <2> QED BY <1>3, <1>5, <2>2, <2>3, <2>4 DEF ToldIsUpdated, OthersAreStored, Picture
<1>6. CASE /\ run' = [run EXCEPT !.pc = "save", !.delivered = FALSE]
           /\ \/ UNCHANGED <<told, unsaved>>
              \/ /\ told' = [d \in Devices |-> Read(d)]
                 /\ unsaved' = unsaved \cup Alerts
  <2>1. run'.delivered = FALSE
        BY <1>6 DEF IInv, Runs
  <2>2. ASSUME NEW d \in Devices \ unsaved' PROVE told'[d] = told[d] /\ d \notin unsaved
        BY <1>6 DEF Read
  <2>3. ASSUME NEW d \in Devices \ unsaved PROVE Picture(Updated(d))' = Picture(stored[d])
    <3>1. CASE d \in run.selected /\ d \notin Alerts
      <4>1. Updated(d)' = Advanced(d)
            BY <1>1, <1>2, <1>3, <3>1 DEF Updated
      <4> QED BY <1>3, <3>1, <4>1, SilentIsUnchanged DEF Picture, IInv
    <3>2. CASE ~(d \in run.selected /\ d \notin Alerts)
      <4>1. Updated(d)' = run.loaded[d]
            BY <1>2, <1>3, <2>1, <3>2 DEF Updated
      <4> QED BY <1>3, <4>1 DEF Picture
    <3> QED BY <3>1, <3>2
  <2>4. Delivered' = {}
        BY <2>1 DEF Delivered
  <2> QED BY <1>3, <1>4, <2>2, <2>3, <2>4 DEF ToldIsUpdated, OthersAreStored, Picture
<1> QED BY <1>5, <1>6 DEF Send

(* Every step preserves the inductive invariant. *)
LEMMA StepInv == IInv /\ [Next]_vars => IInv'
<1> SUFFICES ASSUME IInv, [Next]_vars PROVE IInv'
    OBVIOUS
<1>0. TypeOK' /\ run' \in Runs'
      BY TypeStep, RunStepType DEF IInv, Runs, States, Counts, Reports
<1> USE DEF DeliveredSoFar, ToldIsLoaded, ToldIsUpdated, OthersAreStored
<1>1. ASSUME NEW selected \in SUBSET Devices, Start(selected) PROVE IInv'
  <2>1. run'.pc = "check" /\ run'.delivered /\ stored' = stored /\ told' = told /\ unsaved' = unsaved
        BY <1>1 DEF Start, NoRun
  <2>2. run.pc # "save"
        BY <1>1 DEF Start
  <2> QED BY <1>0, <2>1, <2>2 DEF IInv, Picture
<1>2. ASSUME NEW d \in Devices, Check(d) PROVE IInv'
  <2>1. run.pc = "check" /\ run'.pc = "check" /\ run'.delivered = run.delivered
        BY <1>2 DEF Check, IInv, Runs
  <2> QED BY <1>0, <1>2, <2>1 DEF Check, IInv, Picture
<1>3. CASE Send
  <2>1. run'.pc = "save"
        BY <1>3 DEF Send, IInv, Runs
  <2> QED BY <1>0, <1>3, <2>1, SendInv DEF IInv
<1>4. CASE Save
  <2>1. run'.pc = "idle" /\ run'.delivered
        BY <1>4 DEF Save, NoRun
  <2>2. ASSUME NEW d \in Devices \ unsaved' PROVE told'[d] = Picture(stored[d])'
        BY <1>4, <2>2 DEF Save, IInv, Picture
  <2> QED BY <1>0, <2>1, <2>2 DEF IInv
<1>5. CASE Die
  <2>1. run'.pc = "idle" /\ run'.delivered /\ told' = told /\ stored' = stored
        BY <1>5 DEF Die, NoRun
  <2>2. ASSUME NEW d \in Devices \ unsaved' PROVE told[d] = Picture(stored[d])
        BY <1>5, <2>2 DEF Die, IInv
  <2> QED BY <1>0, <2>1, <2>2 DEF IInv, Picture
<1>6. CASE LoseFile
      BY <1>0, <1>6 DEF LoseFile, IInv
<1>7. CASE (\E d \in Devices : Change(d)) \/ UNCHANGED vars
  <2>1. /\ run' = run /\ stored' = stored /\ told' = told /\ unsaved' = unsaved
        BY <1>7 DEF Change, vars
  <2>2. Alerts' = Alerts /\ \A d \in Devices : Updated(d)' = Updated(d)
        BY <2>1 DEF Alerts, Outage, Recovery, Drift, Updated, Advanced, Counted
  <2> QED BY <1>0, <2>1, <2>2 DEF IInv, Picture, Delivered
<1> QED BY <1>1, <1>2, <1>3, <1>4, <1>5, <1>6, <1>7 DEF Next, RunStep

-----------------------------------------------------------------------------
(* The variables keep their ranges: the counter never passes its cap, and  *)
(* during a run the loaded state is the stored one.                        *)
THEOREM TypeCorrect == Spec => []TypeOK
<1>1. IInv => TypeOK
      BY DEF IInv
<1> QED BY InitInv, StepInv, <1>1, PTL DEF Spec

(* Between runs the stored state of a box is what the operator has read of *)
(* it, unless its alert got out and was not known to, or not saved, or the *)
(* state file was lost.                                                    *)
THEOREM StateFollowsDelivery == Spec => []ToldIsStored
<1>1. IInv => ToldIsStored
      BY DEF IInv, ToldIsLoaded, ToldIsStored
<1> QED BY InitInv, StepInv, <1>1, PTL DEF Spec

(* Every message that is tried, a mere repetition included, says that a    *)
(* box is down to an operator who believes it up, and that it is back to   *)
(* one who believes it down, but for the boxes whose alert got out and was *)
(* not known to, or not saved, and for all of them after a lost file.      *)
THEOREM OneNoticePerOutage == Spec => NoticesAlternate
<1> DEFINE Alternate ==
        SendTried =>
            \A d \in Alerts \ unsaved :
                (Outage(d) => ~told[d].down) /\ (Recovery(d) => told[d].down)
<1>1. IInv /\ [Next]_vars => [Alternate]_vars
  <2> SUFFICES ASSUME IInv, [Next]_vars, SendTried, NEW d \in Alerts \ unsaved
               PROVE  (Outage(d) => ~told[d].down) /\ (Recovery(d) => told[d].down)
      OBVIOUS
  <2>1. Send
    <3>1. run.pc = "check" /\ run'.pc = "save"
          BY DEF SendTried
    <3>2. ~\E chosen \in SUBSET Devices : Start(chosen)
          BY <3>1 DEF Start
    <3>3. \A e \in Devices : ~Check(e)
          BY <3>1 DEF Check, IInv, Runs
    <3>4. ~Save /\ ~Die /\ ~LoseFile
          BY <3>1 DEF Save, Die, LoseFile, NoRun
    <3>5. (\A e \in Devices : ~Change(e)) /\ ~UNCHANGED vars
          BY <3>1 DEF Change, vars
    <3> QED BY <3>2, <3>3, <3>4, <3>5 DEF Next, RunStep
  <2>2. told[d] = Picture(run.loaded[d]) /\ run.loaded[d].unreachable \in Counts
        BY <2>1 DEF Send, IInv, TypeOK, ToldIsLoaded, Runs, Alerts, States
  <2>3. told[d].down = (run.loaded[d].unreachable >= AlertAt)
        BY <2>2 DEF Picture
  <2>4. Outage(d) => ~(run.loaded[d].unreachable >= AlertAt)
        BY <2>2, AlertAtAssumption DEF Outage, Counted, Counts
  <2>5. Recovery(d) => run.loaded[d].unreachable >= AlertAt
        BY DEF Recovery
  <2> QED BY <2>3, <2>4, <2>5, Zenon
<1> QED BY InitInv, StepInv, <1>1, PTL DEF Spec, NoticesAlternate
=============================================================================
