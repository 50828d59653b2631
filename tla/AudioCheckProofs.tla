--------------------------- MODULE AudioCheckProofs -------------------------
(***************************************************************************)
(* The audio check gives a version up only for its own failures, says of a *)
(* file only what is so of the file that is there, and says it once, for   *)
(* any set of files and any number of imports, outages, lost sends and     *)
(* killed runs.                                                            *)
(*                                                                         *)
(* The state file is keyed by path while the conclusions are about         *)
(* versions, so the invariant ties the two: which path a version belongs   *)
(* to, and how the versions a run holds on to compare with the recorded    *)
(* ones.                                                                   *)
(***************************************************************************)
EXTENDS AudioCheck, Integers, WellFoundedInduction, TLAPS

Runs ==
    [pc : Places, todo : SUBSET (Files \X Ids), started : BOOLEAN,
     cur : Files \cup {None}, before : Ids \cup {0},
     result : Kinds \cup {"none", "failed", "arr_unavailable"},
     rest : SUBSET (Files \X Ids), sent : SUBSET (Files \X Ids)]

(* A candidate is being worked on; messages are being sent. *)
InHand == run.pc \in {"analyse", "compare", "write"}
Sending == run.pc \in {"send", "mark"}

Of(f) == Existing(f).of
FailedOf(f) == Existing(f).failedOf

(* Version v is at path f, recorded there, or in hand. *)
Known(f, v) ==
    \/ file[f] # None /\ file[f].id = v
    \/ v # 0 /\ v \in {Of(f), FailedOf(f)}
    \/ InHand /\ run.cur = f /\ run.before = v

Typed ==
    /\ TypeOK
    /\ run \in Runs
    /\ InHand => run.cur \in Files /\ run.before \in Ids
    /\ versions \in 0..MaxVersions
    /\ \A f \in Files : Existing(f).found => Of(f) # 0

(* A version belongs to one path, and none is known before its import. *)
OnePath ==
    /\ \A v \in Ids : \A f, g \in Files : Known(f, v) /\ Known(g, v) => f = g
    /\ \A v \in Ids : \A f \in Files : Known(f, v) => v <= versions
    /\ \A v \in Ids : v > versions => failures[v] = 0 /\ v \notin tried

(* What is recorded of a path is never newer than the file that is there. *)
RecordsAreOlder ==
    /\ \A f \in Files :
          file[f] # None => Of(f) <= file[f].id /\ FailedOf(f) <= file[f].id
    /\ \A f \in Files : FailedOf(f) # 0 => Of(f) < FailedOf(f)

(* A version newer than all that is recorded of its path has not failed,   *)
(* and one that no conclusion is about has not been in a message.          *)
UnrecordedIsNew ==
    \A f \in Files : \A v \in Ids :
        Known(f, v) /\ Of(f) < v =>
            /\ v \notin tried
            /\ FailedOf(f) < v => failures[v] = 0

(* The recorded number of failures is that of exactly the recorded version. *)
CountedFairly ==
    \A f \in Files :
        FailedOf(f) # 0 => Existing(f).attempts = failures[FailedOf(f)]

(* Version v may still be tried: not concluded on, and not given up. *)
Open(f, v) ==
    /\ Of(f) < v
    /\ FailedOf(f) <= v
    /\ FailedAttempts(Existing(f), v) < MaxAttempts
    /\ file[f] # None => file[f].id >= v

(* What the run has scanned or has in hand is still open, one at a time. *)
ScannedIsOpen ==
    /\ \A c \in run.todo : Open(c[1], c[2]) /\ c[2] <= versions
    /\ \A c, d \in run.todo : c[1] = d[1] => c = d
    /\ InHand => /\ Open(run.cur, run.before)
                 /\ \A c \in run.todo : c[1] # run.cur

(* Bad news is about what the path holds, if it still holds that version. *)
NewsIsTrue ==
    /\ run.pc \in {"compare", "write"} /\ run.result = "bad" =>
          (file[run.cur] # None /\ file[run.cur].id = run.before
             => file[run.cur].kind = "bad")
    /\ \A f \in Files :
          Existing(f).found /\ file[f] # None /\ file[f].id = Of(f)
             => file[f].kind = "bad"

(* What is being sent is what the entries say. *)
SentIsRecorded ==
    /\ ~Sending => run.sent = {}
    /\ Sending => \A p \in run.rest \cup run.sent :
                     Existing(p[1]).found /\ Of(p[1]) = p[2]

(* A finding without a mark has not been in a message of an earlier run,   *)
(* unless the mark was lost; what is left to send was in none at all.      *)
UnmarkedIsUnsent ==
    /\ \A f \in Files :
          Existing(f).found /\ ~Existing(f).alerted /\ Of(f) \in tried =>
              Of(f) \in unmarked \/ <<f, Of(f)>> \in run.sent
    /\ run.pc = "send" => \A p \in run.rest : p[2] \in tried => p[2] \in unmarked

IInv ==
    /\ Typed
    /\ OnePath
    /\ RecordsAreOlder
    /\ UnrecordedIsNew
    /\ CountedFairly
    /\ ScannedIsOpen
    /\ NewsIsTrue
    /\ SentIsRecorded
    /\ UnmarkedIsUnsent

-----------------------------------------------------------------------------
(* A set of natural numbers has a least element. *)
LEMMA LeastNat == ASSUME NEW T \in SUBSET Nat, T # {} PROVE \E x \in T : \A y \in T : x <= y
<1> DEFINE R == OpToRel(<, Nat)
<1>1. \A x, y \in Nat : x < y => <<x, y>> \in R
      BY DEF OpToRel
<1>2. IsWellFoundedOn(R, Nat)
      BY NatLessThanWellFounded
<1> HIDE DEF R
<1>3. PICK x \in T : \A y \in T : ~(<<y, x>> \in R)
      BY <1>2, WFMin, Zenon
<1>4. ASSUME NEW y \in T PROVE x <= y
  <2>1. x \in Nat /\ y \in Nat /\ ~(y < x)
        BY <1>1, <1>3
  <2> QED BY <2>1
<1> QED BY <1>4

(* A bounded one has a greatest. *)
LEMMA GreatestNat ==
    ASSUME NEW N \in Nat, NEW T \in SUBSET (0..N), T # {}
    PROVE  \E x \in T : \A y \in T : x >= y
<1> DEFINE U == {N - t : t \in T}
<1>1. U \in SUBSET Nat /\ U # {}
  <2>1. \A t \in T : N - t \in Nat
        OBVIOUS
  <2> QED BY <2>1
<1>2. PICK x \in U : \A y \in U : x <= y
      BY <1>1, LeastNat
<1>3. PICK t \in T : x = N - t
      OBVIOUS
<1>4. ASSUME NEW y \in T PROVE t >= y
  <2>1. x <= N - y
        BY <1>2
  <2>2. t \in 0..N /\ y \in 0..N
        OBVIOUS
  <2> QED BY <1>3, <2>1, <2>2
<1> QED BY <1>4

(* There is a newest candidate, so the run takes one of those it scanned. *)
LEMMA NewestExists ==
    ASSUME run.todo \in SUBSET (Files \X Ids), run.todo # {}
    PROVE  \E c \in run.todo : \A d \in run.todo : c[2] >= d[2]
<1> DEFINE T == {c[2] : c \in run.todo}
<1>1. T \in SUBSET (0..MaxVersions) /\ T # {} /\ MaxVersions \in Nat
      BY NumbersAssumption DEF Ids
<1>2. PICK x \in T : \A y \in T : x >= y
      BY <1>1, GreatestNat
<1>3. PICK c \in run.todo : x = c[2]
      OBVIOUS
<1>4. ASSUME NEW d \in run.todo PROVE c[2] >= d[2]
      BY <1>2, <1>3
<1> QED BY <1>4

(* An entry, or what stands for none. *)
LEMMA ExistingType ==
    ASSUME Typed, NEW f \in Files
    PROVE  Existing(f) \in Entries /\ Of(f) \in Ids \cup {0} /\ FailedOf(f) \in Ids \cup {0}
  BY NumbersAssumption DEF Typed, TypeOK, Existing, NoEntry, Entries, Of, FailedOf

(* The initial state satisfies the inductive invariant. *)
LEMMA InitInv == Init => IInv
<1> SUFFICES ASSUME Init PROVE IInv
    OBVIOUS
<1> USE NumbersAssumption DEF Init, NoRun, Ids
<1>1. \A f \in Files : Existing(f) = NoEntry
      BY DEF Existing
<1>2. Typed
      BY <1>1 DEF Typed, TypeOK, Runs, Places, InHand, NoEntry
<1>3. \A f \in Files : \A v \in Ids : ~Known(f, v)
      BY <1>1 DEF Known, InHand, Of, FailedOf, NoEntry
<1>4. OnePath /\ RecordsAreOlder /\ UnrecordedIsNew
      BY <1>1, <1>3 DEF OnePath, RecordsAreOlder, UnrecordedIsNew, Of, FailedOf, NoEntry
<1>5. CountedFairly /\ ScannedIsOpen /\ NewsIsTrue
      BY <1>1 DEF CountedFairly, ScannedIsOpen, NewsIsTrue, InHand, FailedOf, NoEntry
<1>6. SentIsRecorded /\ UnmarkedIsUnsent
      BY <1>1 DEF SentIsRecorded, UnmarkedIsUnsent, Sending, Of, NoEntry
<1> QED BY <1>2, <1>4, <1>5, <1>6 DEF IInv

-----------------------------------------------------------------------------
(* What a step that only moves the run leaves as it was. *)
RunOnly == UNCHANGED <<file, entry, versions, tried, failures>>

(* A step that moves the run without learning of a version keeps the facts *)
(* about the recorded versions.                                            *)
LEMMA RunOnlyInv ==
    ASSUME IInv, RunOnly, \A f \in Files : \A v \in Ids : Known(f, v)' => Known(f, v)
    PROVE  OnePath' /\ RecordsAreOlder' /\ UnrecordedIsNew' /\ CountedFairly'
<1>1. \A f : Existing(f)' = Existing(f) /\ Of(f)' = Of(f) /\ FailedOf(f)' = FailedOf(f)
      BY DEF RunOnly, Existing, Of, FailedOf
<1>2. OnePath'
      BY DEF RunOnly, IInv, OnePath
<1>3. RecordsAreOlder' /\ CountedFairly'
      BY <1>1 DEF RunOnly, IInv, RecordsAreOlder, CountedFairly
<1>4. UnrecordedIsNew'
      BY <1>1 DEF RunOnly, IInv, UnrecordedIsNew
<1> QED BY <1>2, <1>3, <1>4

(* The newest candidate is taken. *)
LEMMA NextCandidateTakes ==
    ASSUME IInv, NextCandidate
    PROVE  \E c \in run.todo :
               \/ run' = [run EXCEPT !.todo = @ \ {c}]
               \/ /\ SettledIdentity(c[1]) # 0
                  /\ run' = [run EXCEPT !.todo = @ \ {c}, !.pc = "analyse", !.started = TRUE,
                                        !.cur = c[1], !.before = SettledIdentity(c[1])]
<1> DEFINE first == CHOOSE c \in run.todo : \A d \in run.todo : c[2] >= d[2]
<1>1. first \in run.todo
      BY NewestExists DEF NextCandidate, IInv, Typed, Runs
<1>2. \/ run' = [run EXCEPT !.todo = @ \ {first}]
      \/ /\ SettledIdentity(first[1]) # 0
         /\ run' = [run EXCEPT !.todo = @ \ {first}, !.pc = "analyse", !.started = TRUE,
                               !.cur = first[1], !.before = SettledIdentity(first[1])]
      BY DEF NextCandidate
<1> HIDE DEF first
<1> QED BY <1>1, <1>2

(* The run's local variables keep their ranges until messages are sent. *)
LEMMA ListenType ==
    ASSUME IInv, Start \/ NextCandidate \/ EndLoop \/ Analyse \/ Compare \/ Terminate
    PROVE  /\ run' \in Runs
           /\ InHand' => run'.cur \in Files /\ run'.before \in Ids
           /\ RunOnly /\ UNCHANGED unmarked
           /\ run.pc \in {"idle", "next", "analyse", "compare", "write"}
           /\ run'.pc \in {"next", "analyse", "compare", "write", "alert"}
           /\ run.sent = {} /\ run'.sent = {}
<1> USE DEF IInv, Typed, Runs, Places, InHand, Goto
<1>0. /\ RunOnly /\ UNCHANGED unmarked
      /\ run.pc \in {"idle", "next", "analyse", "compare", "write"}
      BY DEF Start, NextCandidate, EndLoop, Analyse, Compare, Terminate, World, ghosts, RunOnly
<1>1. run.sent = {}
      BY <1>0 DEF SentIsRecorded, Sending
<1>2. CASE Start
  <2>1. {<<f, Identity(f)>> : f \in Candidates} \subseteq Files \X Ids
        BY DEF Candidates, SettledIdentity, Identity, TypeOK, FileVersions
  <2> QED BY <1>0, <1>1, <1>2, <2>1 DEF Start, NoRun
<1>3. CASE NextCandidate
  <2>1. \A c \in run.todo : SettledIdentity(c[1]) # 0 => SettledIdentity(c[1]) \in Ids
        BY DEF SettledIdentity, TypeOK, FileVersions
  <2>2. run.pc = "next"
        BY <1>3 DEF NextCandidate
  <2>3. PICK c \in run.todo :
            \/ run' = [run EXCEPT !.todo = @ \ {c}]
            \/ /\ SettledIdentity(c[1]) # 0
               /\ run' = [run EXCEPT !.todo = @ \ {c}, !.pc = "analyse", !.started = TRUE,
                                     !.cur = c[1], !.before = SettledIdentity(c[1])]
        BY <1>3, NextCandidateTakes
  <2>4. c[1] \in Files
        OBVIOUS
  <2>5. CASE run' = [run EXCEPT !.todo = @ \ {c}]
        BY <1>0, <1>1, <2>2, <2>5
  <2>6. CASE /\ SettledIdentity(c[1]) # 0
             /\ run' = [run EXCEPT !.todo = @ \ {c}, !.pc = "analyse", !.started = TRUE,
                                   !.cur = c[1], !.before = SettledIdentity(c[1])]
    <3>1. SettledIdentity(c[1]) \in Ids
          BY <2>1, <2>6
    <3>2. run.todo \ {c} \in SUBSET (Files \X Ids)
          OBVIOUS
    <3> QED BY <1>0, <1>1, <2>4, <2>6, <3>1, <3>2
  <2> QED BY <2>3, <2>5, <2>6
<1>4. CASE EndLoop \/ Compare \/ Terminate
      BY <1>0, <1>1, <1>4 DEF EndLoop, Compare, Terminate
<1>5. CASE Analyse
  <2>1. file[run.cur] # None => file[run.cur].kind \in Kinds
        BY <1>5 DEF Analyse, TypeOK, FileVersions
  <2> QED BY <1>0, <1>1, <1>5, <2>1 DEF Analyse
<1> QED BY <1>2, <1>3, <1>4, <1>5

(* What is scanned or in hand is still open after such a step: nothing is   *)
(* recorded meanwhile, and the scan only takes what may be tried.           *)
LEMMA ListenOpen ==
    ASSUME IInv, Start \/ NextCandidate \/ EndLoop \/ Analyse \/ Compare \/ Terminate
    PROVE  /\ ScannedIsOpen'
           /\ \A f \in Files : \A v \in Ids : Known(f, v)' => Known(f, v)
<1> USE NumbersAssumption
<1>0. /\ RunOnly /\ run \in Runs /\ run' \in Runs
      BY ListenType DEF IInv, Typed
<1>1. \A f : Of(f)' = Of(f) /\ FailedOf(f)' = FailedOf(f)
      BY <1>0 DEF RunOnly, Existing, Of, FailedOf
<1>2. \A f, v : Open(f, v)' = Open(f, v)
      BY <1>0, <1>1 DEF RunOnly, Open, FailedAttempts, Existing
<1>3. CASE Start
  <2>1. run'.pc = "next" /\ run'.todo = {<<f, Identity(f)>> : f \in Candidates}
        BY <1>3 DEF Start, NoRun
  <2>2. ASSUME NEW f \in Candidates PROVE Open(f, Identity(f)) /\ Identity(f) <= versions
    <3>1. /\ f \in Files /\ file[f] # None /\ Identity(f) = file[f].id
          /\ Of(f) # file[f].id
          /\ FailedAttempts(Existing(f), file[f].id) < MaxAttempts
          BY DEF Candidates, SettledIdentity, Identity, Of
    <3>2. /\ file[f].id \in Ids /\ Of(f) \in Ids \cup {0} /\ FailedOf(f) \in Ids \cup {0}
          /\ Of(f) <= file[f].id /\ FailedOf(f) <= file[f].id
          BY <3>1, ExistingType DEF IInv, Typed, TypeOK, FileVersions, RecordsAreOlder
    <3>3. file[f].id <= versions
          BY <3>1, <3>2 DEF IInv, OnePath, Known
    <3> QED BY <3>1, <3>2, <3>3 DEF Open, Ids
  <2>3. ScannedIsOpen'
    <3>1. \A c \in run'.todo : \E f \in Candidates : c = <<f, Identity(f)>>
          BY <2>1
    <3>2. \A c \in run'.todo : Open(c[1], c[2]) /\ c[2] <= versions
          BY <2>2, <3>1
    <3>3. \A c, d \in run'.todo : c[1] = d[1] => c = d
          BY <3>1
    <3> QED BY <1>0, <1>2, <2>1, <3>2, <3>3 DEF ScannedIsOpen, InHand, RunOnly
  <2> QED BY <1>0, <1>1, <2>1, <2>3 DEF Known, InHand, RunOnly
<1>4. CASE NextCandidate
  <2>1. run.pc = "next"
        BY <1>4 DEF NextCandidate
  <2>2. PICK c \in run.todo :
            \/ run' = [run EXCEPT !.todo = @ \ {c}]
            \/ /\ SettledIdentity(c[1]) # 0
               /\ run' = [run EXCEPT !.todo = @ \ {c}, !.pc = "analyse", !.started = TRUE,
                                     !.cur = c[1], !.before = SettledIdentity(c[1])]
        BY <1>4, NextCandidateTakes
  <2>3. c[1] \in Files /\ c[2] \in Ids /\ Open(c[1], c[2])
        BY <1>0 DEF Runs, IInv, ScannedIsOpen
  <2>4. run'.todo = run.todo \ {c}
        BY <1>0, <2>2 DEF Runs
  <2>5. /\ \A d \in run'.todo : Open(d[1], d[2]) /\ d[2] <= versions /\ d[1] # c[1]
        /\ \A d, e \in run'.todo : d[1] = e[1] => d = e
        BY <2>4 DEF IInv, ScannedIsOpen
  <2>6. CASE run' = [run EXCEPT !.todo = @ \ {c}]
    <3>1. run'.pc = "next"
          BY <1>0, <2>1, <2>6 DEF Runs
    <3> QED BY <1>0, <1>1, <1>2, <2>5, <3>1 DEF ScannedIsOpen, Known, InHand, RunOnly
  <2>7. CASE /\ SettledIdentity(c[1]) # 0
             /\ run' = [run EXCEPT !.todo = @ \ {c}, !.pc = "analyse", !.started = TRUE,
                                   !.cur = c[1], !.before = SettledIdentity(c[1])]
    <3>1. run'.cur = c[1] /\ run'.before = file[c[1]].id /\ file[c[1]] # None
          BY <1>0, <2>7 DEF Runs, SettledIdentity
    <3>2. Open(c[1], file[c[1]].id)
      <4>1. /\ file[c[1]].id \in Ids /\ Of(c[1]) \in Ids \cup {0} /\ FailedOf(c[1]) \in Ids \cup {0}
            BY <2>3, <3>1, ExistingType DEF IInv, Typed, TypeOK, FileVersions
      <4>2. c[2] <= file[c[1]].id
            BY <2>3, <3>1 DEF Open
      <4>3. CASE c[2] = file[c[1]].id
            BY <2>3, <4>3
      <4>4. CASE c[2] < file[c[1]].id
            BY <2>3, <4>1, <4>4 DEF Open, FailedAttempts, FailedOf, Ids
      <4> QED BY <2>3, <4>1, <4>2, <4>3, <4>4 DEF Ids
    <3> QED BY <1>0, <1>1, <1>2, <2>5, <3>1, <3>2 DEF ScannedIsOpen, Known, RunOnly
  <2> QED BY <2>2, <2>6, <2>7
<1>5. CASE EndLoop \/ Analyse \/ Compare \/ Terminate
  <2>1. /\ run'.todo = run.todo /\ run'.cur = run.cur /\ run'.before = run.before
        /\ InHand' => InHand
        BY <1>0, <1>5 DEF EndLoop, Analyse, Compare, Terminate, Goto, Runs, InHand
  <2> QED BY <1>0, <1>1, <1>2, <2>1 DEF IInv, ScannedIsOpen, Known, RunOnly
<1> QED BY <1>3, <1>4, <1>5

(* Scanning, looking again, listening and comparing preserve the invariant. *)
LEMMA ListenInv ==
    ASSUME IInv, Start \/ NextCandidate \/ EndLoop \/ Analyse \/ Compare \/ Terminate
    PROVE  IInv'
<1>0. /\ run \in Runs /\ run' \in Runs
      /\ InHand' => run'.cur \in Files /\ run'.before \in Ids
      /\ RunOnly /\ UNCHANGED unmarked
      /\ run.pc \in {"idle", "next", "analyse", "compare", "write"}
      /\ run'.pc \in {"next", "analyse", "compare", "write", "alert"}
      /\ run.sent = {} /\ run'.sent = {}
      BY ListenType DEF IInv, Typed
<1>1. \A f : Existing(f)' = Existing(f) /\ Of(f)' = Of(f) /\ FailedOf(f)' = FailedOf(f)
      BY <1>0 DEF RunOnly, Existing, Of, FailedOf
<1>2. Typed'
      BY <1>0, <1>1 DEF IInv, Typed, TypeOK, RunOnly, Runs, NoRun, InHand
<1>3. OnePath' /\ RecordsAreOlder' /\ UnrecordedIsNew' /\ CountedFairly' /\ ScannedIsOpen'
      BY <1>0, RunOnlyInv, ListenOpen
<1>4. NewsIsTrue'
  <2>1. \A f \in Files : Existing(f)'.found /\ file'[f] # None /\ file'[f].id = Of(f)'
                             => file'[f].kind = "bad"
        BY <1>0, <1>1 DEF IInv, NewsIsTrue, RunOnly
  <2>2. CASE Analyse
    <3>1. run'.pc = "compare" =>
              run'.cur = run.cur /\ run'.before = run.before
              /\ (run'.result = "bad" => file[run.cur].kind = "bad")
          BY <1>0, <2>2 DEF Analyse, Runs, Goto
    <3>2. run'.pc # "write"
          BY <1>0, <2>2 DEF Analyse, Runs, Goto
    <3> QED BY <1>0, <2>1, <3>1, <3>2 DEF NewsIsTrue, RunOnly
  <2>3. CASE Compare
        BY <1>0, <2>1, <2>3 DEF Compare, Goto, Runs, IInv, NewsIsTrue, RunOnly
  <2>4. CASE Start \/ EndLoop \/ Terminate
        BY <1>0, <2>1, <2>4 DEF Start, EndLoop, Terminate, Goto, Runs, NoRun, NewsIsTrue
  <2>5. CASE NextCandidate
    <3>1. run'.pc \in {"next", "analyse"}
          BY <1>0, <2>5, NextCandidateTakes DEF NextCandidate, Runs
    <3> QED BY <2>1, <3>1 DEF NewsIsTrue
  <2> QED BY <2>2, <2>3, <2>4, <2>5
<1>5. SentIsRecorded' /\ UnmarkedIsUnsent'
      BY <1>0, <1>1 DEF IInv, UnmarkedIsUnsent, SentIsRecorded, Sending, RunOnly
<1> QED BY <1>2, <1>3, <1>4, <1>5 DEF IInv

-----------------------------------------------------------------------------
(* The state file takes a failure or a conclusion of the version in hand. *)
LEMMA WriteInv == IInv /\ Write => IInv'
<1> SUFFICES ASSUME IInv, Write PROVE IInv'
    OBVIOUS
<1> USE NumbersAssumption
<1>f. PICK f \in Files : f = run.cur
      BY DEF Write, IInv, Typed, InHand
<1>v. PICK v \in Ids : v = run.before
      BY DEF Write, IInv, Typed, InHand
<1> USE <1>f, <1>v
<1> DEFINE e == Existing(f)
<1>0. /\ run.pc = "write" /\ run'.pc = "next" /\ run' = [run EXCEPT !.pc = "next"]
      /\ run \in Runs /\ run' \in Runs /\ InHand /\ ~InHand'
      /\ f \in Files /\ v \in Ids /\ run'.sent = {} /\ run.sent = {}
      /\ run'.todo = run.todo
      /\ file' = file /\ versions' = versions /\ tried' = tried /\ unmarked' = unmarked
      BY DEF Write, Goto, World, IInv, Typed, Runs, Places, InHand, SentIsRecorded, Sending
<1>1. CASE entry' = entry /\ failures' = failures
  <2>1. \A g : Existing(g)' = Existing(g) /\ Of(g)' = Of(g) /\ FailedOf(g)' = FailedOf(g)
        BY <1>1 DEF Existing, Of, FailedOf
  <2>2. OnePath' /\ RecordsAreOlder' /\ UnrecordedIsNew' /\ CountedFairly'
        BY <1>0, <1>1, <2>1, RunOnlyInv DEF RunOnly, Known
  <2>3. Typed'
        BY <1>0, <1>1, <2>1 DEF IInv, Typed, TypeOK, Runs, NoRun
  <2>4. ScannedIsOpen'
        BY <1>0, <2>1 DEF IInv, ScannedIsOpen, Open, FailedAttempts
  <2>5. NewsIsTrue' /\ SentIsRecorded' /\ UnmarkedIsUnsent'
        BY <1>0, <2>1 DEF IInv, NewsIsTrue, SentIsRecorded, UnmarkedIsUnsent, Sending
  <2> QED BY <2>2, <2>3, <2>4, <2>5 DEF IInv
<1>2. /\ Open(f, v) /\ Known(f, v) /\ v \notin tried
      /\ \A g \in Files : Known(g, v) => g = f
      /\ e \in Entries /\ e # None
      /\ failures[v] = FailedAttempts(e, v) /\ FailedAttempts(e, v) \in 0..(MaxAttempts - 1)
  <2>1. /\ Open(f, v) /\ Known(f, v) /\ Of(f) < v /\ FailedOf(f) <= v
        /\ FailedAttempts(e, v) < MaxAttempts
        BY <1>0 DEF IInv, ScannedIsOpen, Known, Open
  <2>2. v \notin tried /\ (FailedOf(f) < v => failures[v] = 0)
        BY <1>0, <2>1 DEF IInv, UnrecordedIsNew
  <2>3. e \in Entries /\ FailedOf(f) \in Ids \cup {0}
        BY <1>0, ExistingType DEF IInv
  <2>4. failures[v] = FailedAttempts(e, v) /\ FailedAttempts(e, v) \in 0..(MaxAttempts - 1)
    <3>1. CASE FailedOf(f) = v
          BY <1>0, <2>1, <2>3, <3>1 DEF IInv, CountedFairly, FailedAttempts, FailedOf, Entries, Ids
    <3>2. CASE FailedOf(f) < v
          BY <2>2, <2>3, <3>2 DEF FailedAttempts, FailedOf, Ids
    <3> QED BY <1>0, <2>1, <2>3, <3>1, <3>2 DEF Ids
  <2> QED BY <1>0, <2>1, <2>2, <2>3, <2>4, NoneAssumption DEF IInv, OnePath
<1>3. ASSUME NEW w \in Entries, entry' = [entry EXCEPT ![f] = w]
      PROVE  /\ entry' \in [Files -> Entries \cup {None}]
             /\ Existing(f)' = w /\ Of(f)' = w.of /\ FailedOf(f)' = w.failedOf
             /\ \A g \in Files \ {f} : /\ Existing(g)' = Existing(g)
                                      /\ Of(g)' = Of(g) /\ FailedOf(g)' = FailedOf(g)
      BY <1>0, <1>3, NoneAssumption DEF IInv, Typed, TypeOK, Existing, Of, FailedOf
<1>4. SentIsRecorded'
      BY <1>0 DEF SentIsRecorded, Sending
<1>5. CASE /\ run.result = "failed"
           /\ entry' = [entry EXCEPT ![f] = Failure(e)]
           /\ failures' = [failures EXCEPT ![v] = @ + 1]
  <2> DEFINE w == Failure(e)
  <2>1. /\ w \in Entries
        /\ w.of = e.of /\ w.found = e.found /\ w.alerted = e.alerted
        /\ w.failedOf = v /\ w.attempts = failures[v] + 1
    <3> DEFINE n == FailedAttempts(e, v) + 1
    <3>1. n \in 0..MaxAttempts /\ n = failures[v] + 1
          BY <1>2
    <3>2. w = [e EXCEPT !.failedOf = v, !.attempts = n]
          BY DEF Failure
    <3> HIDE DEF w, n, e
    <3>3. w.of = e.of /\ w.found = e.found /\ w.alerted = e.alerted
          BY <1>2, <3>2 DEF Entries
    <3>4. w.failedOf = v /\ w.attempts = n
          BY <1>2, <3>2 DEF Entries
    <3>5. w \in Entries
          BY <1>0, <1>2, <3>1, <3>2 DEF Entries
    <3> QED BY <3>1, <3>3, <3>4, <3>5
  <2>2. /\ entry' \in [Files -> Entries \cup {None}]
        /\ Existing(f)' = w /\ Of(f)' = Of(f) /\ FailedOf(f)' = v
        /\ \A g \in Files \ {f} : /\ Existing(g)' = Existing(g)
                                 /\ Of(g)' = Of(g) /\ FailedOf(g)' = FailedOf(g)
        BY <1>3, <1>5, <2>1 DEF Of
  <2>3. failures' \in [Ids -> 0..MaxAttempts] /\ failures'[v] = failures[v] + 1
        BY <1>0, <1>2, <1>5 DEF IInv, Typed, TypeOK
  <2> HIDE DEF w
  <2>4. Typed'
        BY <1>0, <2>1, <2>2, <2>3 DEF IInv, Typed, TypeOK, Runs, NoRun, Of
  <2>5. \A g \in Files : \A u \in Ids : Known(g, u)' => Known(g, u)
        BY <1>0, <1>2, <2>2 DEF Known
  <2>6. OnePath'
    <3>1. v <= versions
          BY <1>0, <1>2 DEF IInv, OnePath
    <3>2. \A u \in Ids : u # v => failures'[u] = failures[u]
          BY <1>0, <1>5 DEF IInv, Typed, TypeOK
    <3>3. \A u \in Ids : u > versions => u # v
          BY <3>1 DEF Ids, IInv, Typed
    <3> QED BY <1>0, <2>5, <3>2, <3>3 DEF IInv, OnePath
  <2>7. RecordsAreOlder'
        BY <1>0, <1>2, <2>2 DEF IInv, RecordsAreOlder, Open
  <2>8. UnrecordedIsNew'
    <3>1. ASSUME NEW g \in Files, NEW u \in Ids, Known(g, u)', Of(g)' < u
          PROVE  u \notin tried' /\ (FailedOf(g)' < u => failures'[u] = 0)
      <4>1. Known(g, u) /\ Of(g) < u
        <5>1. Known(g, u)
              BY <2>5, <3>1
        <5>2. Of(g)' = Of(g)
              BY <2>2
        <5> QED BY <3>1, <5>1, <5>2
      <4>2. u \notin tried /\ (FailedOf(g) < u => failures[u] = 0)
            BY <4>1 DEF IInv, UnrecordedIsNew
      <4>3. CASE g = f
        <5>1. FailedOf(f) \in Ids \cup {0} /\ FailedOf(f) <= v
              BY <1>0, <1>2, ExistingType DEF IInv, Open
        <5> QED BY <1>0, <1>5, <2>2, <4>2, <4>3, <5>1 DEF Ids, IInv, Typed, TypeOK
      <4>4. CASE g # f
            BY <1>0, <1>2, <1>5, <2>2, <4>1, <4>2, <4>4 DEF IInv, Typed, TypeOK
      <4> QED BY <4>3, <4>4
    <3> QED BY <3>1 DEF UnrecordedIsNew
  <2>9. CountedFairly'
    <3>1. ASSUME NEW g \in Files \ {f}, FailedOf(g) # 0
          PROVE  FailedOf(g) # v /\ FailedOf(g) \in Ids
          BY <1>0, <1>2, <3>1, ExistingType DEF IInv, Known
    <3> QED BY <1>0, <1>5, <2>1, <2>2, <2>3, <3>1 DEF IInv, CountedFairly, Typed, TypeOK
  <2>10. ScannedIsOpen'
    <3>1. \A c \in run.todo : c[1] \in Files \ {f} /\ Open(c[1], c[2])
          BY <1>0 DEF IInv, ScannedIsOpen, Runs
    <3>2. \A c \in run.todo : Open(c[1], c[2])'
          BY <1>0, <2>2, <3>1 DEF Open, FailedAttempts
    <3> QED BY <1>0, <3>2 DEF IInv, ScannedIsOpen
  <2>11. NewsIsTrue' /\ UnmarkedIsUnsent'
        BY <1>0, <2>1, <2>2 DEF IInv, NewsIsTrue, UnmarkedIsUnsent, Of
  <2> QED BY <1>4, <2>4, <2>6, <2>7, <2>8, <2>9, <2>10, <2>11 DEF IInv
<1>6. CASE /\ run.result # "failed"
           /\ entry' = [entry EXCEPT ![f] = Conclusion(e)]
           /\ failures' = failures
  <2> DEFINE w == Conclusion(e)
  <2>1. /\ w \in Entries
        /\ w.of = v /\ w.failedOf = 0 /\ w.found = (run.result = "bad") /\ w.alerted = FALSE
    <3>1. e.of # v /\ e.found \in BOOLEAN /\ e.alerted \in BOOLEAN
          BY <1>0, <1>2 DEF Open, Of, Entries, Ids
    <3> DEFINE bad == run.result = "bad"
    <3>2. w = [of |-> v, found |-> bad, alerted |-> bad /\ e.of = v /\ e.found /\ e.alerted,
               failedOf |-> 0, attempts |-> 0]
          BY DEF Conclusion
    <3>3. bad \in BOOLEAN
          OBVIOUS
    <3> HIDE DEF w, e, bad
    <3>4. w = [of |-> v, found |-> bad, alerted |-> FALSE, failedOf |-> 0, attempts |-> 0]
          BY <3>1, <3>2, <3>3, Zenon
    <3>5. w.of = v /\ w.failedOf = 0 /\ w.found = bad /\ w.alerted = FALSE
          BY <3>4
    <3>6. w \in Entries
          BY <1>0, <3>3, <3>4 DEF Entries
    <3> QED BY <3>5, <3>6 DEF bad
  <2>2. /\ entry' \in [Files -> Entries \cup {None}]
        /\ Existing(f)' = w /\ Of(f)' = v /\ FailedOf(f)' = 0
        /\ \A g \in Files \ {f} : /\ Existing(g)' = Existing(g)
                                 /\ Of(g)' = Of(g) /\ FailedOf(g)' = FailedOf(g)
        BY <1>3, <1>6, <2>1
  <2> HIDE DEF w
  <2>3. Typed'
    <3>1. v # 0
          BY DEF Ids
    <3>2. \A g \in Files : Existing(g)'.found => Of(g)' # 0
          BY <2>2, <3>1 DEF IInv, Typed
    <3> QED BY <1>0, <1>6, <2>2, <3>2 DEF IInv, Typed, TypeOK, Runs, NoRun
  <2>4. \A g \in Files : \A u \in Ids : Known(g, u)' => Known(g, u)
        BY <1>0, <1>2, <2>2 DEF Known
  <2>5. OnePath'
        BY <1>0, <1>6, <2>4 DEF IInv, OnePath
  <2>6. RecordsAreOlder'
    <3>1. file[f] # None => file[f].id \in Nat /\ file[f].id >= v
          BY <1>2 DEF Open, IInv, Typed, TypeOK, FileVersions, Ids
    <3>2. file[f] # None => v <= file[f].id /\ 0 <= file[f].id
          BY <3>1 DEF Ids
    <3> QED BY <1>0, <2>2, <3>2 DEF IInv, RecordsAreOlder
  <2>7. UnrecordedIsNew'
    <3>1. ASSUME NEW g \in Files, NEW u \in Ids, Known(g, u)', Of(g)' < u
          PROVE  u \notin tried' /\ (FailedOf(g)' < u => failures'[u] = 0)
      <4>1. CASE g = f
        <5>1. FailedOf(f) \in Ids \cup {0} /\ FailedOf(f) <= v /\ Of(f) \in Ids \cup {0} /\ Of(f) < v
              BY <1>0, <1>2, ExistingType DEF IInv, Open
        <5>2. v < u
              BY <2>2, <3>1, <4>1
        <5>3. Known(f, u) /\ Of(f) < u /\ FailedOf(f) < u
              BY <1>0, <2>4, <3>1, <4>1, <5>1, <5>2 DEF Ids
        <5> QED BY <1>0, <1>6, <4>1, <5>3 DEF IInv, UnrecordedIsNew
      <4>2. CASE g # f
            BY <1>0, <1>6, <2>2, <2>4, <3>1, <4>2 DEF IInv, UnrecordedIsNew
      <4> QED BY <4>1, <4>2
    <3> QED BY <3>1 DEF UnrecordedIsNew
  <2>8. CountedFairly'
        BY <1>0, <1>6, <2>2 DEF IInv, CountedFairly
  <2>9. ScannedIsOpen'
    <3>1. \A c \in run.todo : c[1] \in Files \ {f} /\ Open(c[1], c[2])
          BY <1>0 DEF IInv, ScannedIsOpen, Runs
    <3>2. \A c \in run.todo : Open(c[1], c[2])'
          BY <1>0, <2>2, <3>1 DEF Open, FailedAttempts
    <3> QED BY <1>0, <3>2 DEF IInv, ScannedIsOpen
  <2>10. NewsIsTrue'
    <3>1. w.found => run.result = "bad"
          BY <2>1, Zenon
    <3>2. \A g \in Files : Existing(g)'.found /\ file[g] # None /\ file[g].id = Of(g)'
                             => file[g].kind = "bad"
          BY <1>0, <2>2, <3>1 DEF IInv, NewsIsTrue
    <3> QED BY <1>0, <3>2 DEF NewsIsTrue
  <2>11. UnmarkedIsUnsent'
        BY <1>0, <1>2, <2>2 DEF IInv, UnmarkedIsUnsent
  <2> QED BY <1>4, <2>3, <2>5, <2>6, <2>7, <2>8, <2>9, <2>10, <2>11 DEF IInv
<1> QED BY <1>1, <1>5, <1>6 DEF Write

-----------------------------------------------------------------------------
(* The first look at the entries for messages. *)
LEMMA LoadInv == IInv /\ LoadPending => IInv'
<1> SUFFICES ASSUME IInv, LoadPending PROVE IInv'
    OBVIOUS
<1> DEFINE pending ==
        {<<f, entry[f].of>> : f \in {g \in Files :
              entry[g] # None /\ entry[g].found /\ ~entry[g].alerted}}
<1>1. \A p \in pending : /\ p[1] \in Files /\ p[2] \in Ids /\ p = <<p[1], p[2]>>
                         /\ Existing(p[1]).found /\ ~Existing(p[1]).alerted
                         /\ Of(p[1]) = p[2]
  <2>1. ASSUME NEW f \in Files, entry[f] # None, entry[f].found, ~entry[f].alerted
        PROVE  /\ entry[f].of \in Ids /\ Existing(f) = entry[f] /\ Of(f) = entry[f].of
    <3>1. Existing(f) = entry[f] /\ Of(f) = entry[f].of
          BY <2>1 DEF Existing, Of
    <3> QED BY <2>1, <3>1, ExistingType DEF IInv, Typed
  <2> QED BY <2>1
<1> HIDE DEF pending
<1>0. /\ RunOnly /\ run.pc = "alert" /\ unmarked' = unmarked /\ run \in Runs
      /\ run' = [run EXCEPT !.pc = "send", !.rest = pending]
      BY DEF LoadPending, World, ghosts, RunOnly, IInv, Typed, pending
<1>2. /\ run'.pc = "send" /\ run'.rest = pending /\ run'.sent = {} /\ run.sent = {}
      /\ run'.todo = run.todo /\ ~InHand /\ ~InHand' /\ Sending'
      BY <1>0 DEF Runs, IInv, SentIsRecorded, Sending, InHand
<1>3. \A f : Existing(f)' = Existing(f) /\ Of(f)' = Of(f) /\ FailedOf(f)' = FailedOf(f)
      BY <1>0 DEF RunOnly, Existing, Of, FailedOf
<1>4. pending \subseteq Files \X Ids
      BY <1>1
<1>5. Typed'
  <2>1. run' \in Runs
        BY <1>0, <1>4 DEF Runs, Places
  <2> QED BY <1>0, <1>2, <1>3, <1>4, <2>1 DEF IInv, Typed, TypeOK, RunOnly, Runs, NoRun, InHand
<1>6. OnePath' /\ RecordsAreOlder' /\ UnrecordedIsNew' /\ CountedFairly'
      BY <1>0, <1>2, <1>3, RunOnlyInv DEF Known, RunOnly
<1>7. ScannedIsOpen'
      BY <1>0, <1>2, <1>3 DEF IInv, ScannedIsOpen, Open, FailedAttempts, RunOnly
<1>8. NewsIsTrue'
      BY <1>0, <1>2, <1>3 DEF IInv, NewsIsTrue, RunOnly
<1>9. SentIsRecorded'
      BY <1>1, <1>2, <1>3 DEF SentIsRecorded
<1>10. UnmarkedIsUnsent'
  <2>1. \A p \in pending : p[2] \in tried => p[2] \in unmarked
        BY <1>1, <1>2 DEF IInv, UnmarkedIsUnsent
  <2> QED BY <1>0, <1>2, <1>3, <2>1 DEF IInv, UnmarkedIsUnsent, RunOnly
<1> QED BY <1>5, <1>6, <1>7, <1>8, <1>9, <1>10 DEF IInv

(* A message names some of what is left and still so. *)
LEMMA MessageNames ==
    ASSUME Message
    PROVE  \E named \in SUBSET Current(run.rest) :
               /\ run' = [run EXCEPT !.rest = Current(run.rest) \ named, !.sent = @ \cup named]
               /\ tried' = tried \cup {p[2] : p \in named}
  BY DEF Message

(* Sending a message. *)
LEMMA MessageInv == IInv /\ Message => IInv'
<1> SUFFICES ASSUME IInv, Message PROVE IInv'
    OBVIOUS
<1>1. PICK named \in SUBSET Current(run.rest) :
          /\ run' = [run EXCEPT !.rest = Current(run.rest) \ named, !.sent = @ \cup named]
          /\ tried' = tried \cup {p[2] : p \in named}
      BY MessageNames
<1>2. /\ run.pc = "send" /\ Sending /\ run \in Runs /\ ~InHand
      /\ file' = file /\ versions' = versions /\ entry' = entry
      /\ unmarked' = unmarked /\ failures' = failures
      BY DEF Message, World, Sending, InHand, IInv, Typed
<1>3. /\ named \subseteq run.rest /\ run.rest \subseteq Files \X Ids /\ run.sent \subseteq Files \X Ids
      /\ run'.pc = "send" /\ run'.todo = run.todo /\ run'.sent = run.sent \cup named
      /\ run'.rest \subseteq run.rest \ named /\ ~InHand' /\ Sending'
      BY <1>1, <1>2 DEF Current, Runs, InHand, Sending
<1>4. \A f : Existing(f)' = Existing(f) /\ Of(f)' = Of(f) /\ FailedOf(f)' = FailedOf(f)
      BY <1>2 DEF Existing, Of, FailedOf
<1>5. \A p \in run.rest \cup run.sent :
          p[1] \in Files /\ p[2] \in Ids /\ p = <<p[1], p[2]>>
          /\ Existing(p[1]).found /\ Of(p[1]) = p[2] /\ Known(p[1], p[2])
      BY <1>2, <1>3 DEF IInv, SentIsRecorded, Known, Ids
<1>6. \A f \in Files : \A v \in Ids : Known(f, v)' <=> Known(f, v)
      BY <1>2, <1>3, <1>4 DEF Known
<1>7. \A v \in tried' \ tried : v \in Ids /\ \E p \in named : v = p[2]
      BY <1>1, <1>3
<1>8. Typed'
  <2>1. run' \in Runs
        BY <1>1, <1>2, <1>3 DEF Runs, Current
  <2>2. tried' \subseteq Ids
        BY <1>7 DEF IInv, Typed, TypeOK
  <2> QED BY <1>2, <1>3, <1>4, <2>1, <2>2 DEF IInv, Typed, TypeOK, Runs, NoRun
<1>9. OnePath'
  <2>1. \A v \in tried' \ tried : v <= versions
        BY <1>3, <1>5, <1>7 DEF IInv, OnePath
  <2>2. \A v \in Ids : v > versions => v \notin tried'
        BY <2>1 DEF IInv, OnePath, Typed, Ids
  <2> QED BY <1>2, <1>6, <2>2 DEF IInv, OnePath
<1>10. RecordsAreOlder' /\ CountedFairly' /\ ScannedIsOpen' /\ NewsIsTrue'
      BY <1>2, <1>3, <1>4
         DEF IInv, RecordsAreOlder, CountedFairly, ScannedIsOpen, Open, FailedAttempts, NewsIsTrue
<1>11. UnrecordedIsNew'
  <2>1. ASSUME NEW f \in Files, NEW v \in Ids, Known(f, v), Of(f) < v PROVE v \notin tried'
    <3>1. v \notin tried
          BY <2>1 DEF IInv, UnrecordedIsNew
    <3>2. ASSUME NEW p \in named, v = p[2] PROVE FALSE
      <4>1. Known(p[1], v) /\ p[1] \in Files /\ Of(p[1]) = v
            BY <1>3, <1>5, <3>2
      <4>2. p[1] = f
            BY <2>1, <4>1 DEF IInv, OnePath
      <4> QED BY <2>1, <4>1, <4>2 DEF Ids
    <3> QED BY <1>7, <3>1, <3>2
  <2> QED BY <1>2, <1>4, <1>6, <2>1 DEF IInv, UnrecordedIsNew
<1>12. SentIsRecorded'
      BY <1>3, <1>4, <1>5 DEF SentIsRecorded
<1>13. UnmarkedIsUnsent'
  <2>1. ASSUME NEW f \in Files, Existing(f).found, ~Existing(f).alerted, Of(f) \in tried'
        PROVE  Of(f) \in unmarked \/ <<f, Of(f)>> \in run'.sent
    <3>1. CASE Of(f) \in tried
          BY <1>3, <2>1, <3>1 DEF IInv, UnmarkedIsUnsent
    <3>2. CASE Of(f) \notin tried
      <4>1. PICK p \in named : Of(f) = p[2]
            BY <1>7, <2>1, <3>2
      <4>2. p[1] \in Files /\ p[2] \in Ids /\ p = <<p[1], p[2]>> /\ Known(p[1], p[2])
            BY <1>3, <1>5
      <4>3. Known(f, p[2])
            BY <4>1, <4>2 DEF Known, Ids
      <4> QED BY <1>3, <4>1, <4>2, <4>3 DEF IInv, OnePath
    <3> QED BY <3>1, <3>2
  <2>2. ASSUME NEW p \in run'.rest, p[2] \in tried' PROVE p[2] \in unmarked
    <3>1. p \in run.rest /\ p \notin named
          BY <1>3
    <3>2. ASSUME NEW q \in named PROVE q[2] # p[2]
      <4>1. /\ p[1] \in Files /\ p[2] \in Ids /\ p = <<p[1], p[2]>> /\ Known(p[1], p[2])
            /\ q[1] \in Files /\ q[2] \in Ids /\ q = <<q[1], q[2]>> /\ Known(q[1], q[2])
            BY <1>3, <1>5, <3>1
      <4> QED BY <3>1, <4>1 DEF IInv, OnePath
    <3>3. p[2] \in tried
          BY <1>7, <2>2, <3>2
    <3> QED BY <1>2, <3>1, <3>3 DEF IInv, UnmarkedIsUnsent
  <2> QED BY <1>2, <1>4, <2>1, <2>2 DEF UnmarkedIsUnsent
<1> QED BY <1>8, <1>9, <1>10, <1>11, <1>12, <1>13 DEF IInv

(* The end of the messages, and of a run that is killed. *)
LEMMA NoMessageInv == IInv /\ (NoMessage \/ Die) => IInv'
<1> SUFFICES ASSUME IInv, NoMessage \/ Die PROVE IInv'
    OBVIOUS
<1>1. \/ run' = NoRun /\ run.sent = {} /\ unmarked' = unmarked
      \/ run' = [run EXCEPT !.pc = "mark"] /\ run.pc = "send" /\ unmarked' = unmarked
      \/ run' = NoRun /\ unmarked' = unmarked \cup {p[2] : p \in run.sent}
      BY DEF NoMessage, Die, ghosts
<1>2. RunOnly /\ run \in Runs
      BY DEF NoMessage, Die, World, ghosts, RunOnly, IInv, Typed
<1>3. \A f : Existing(f)' = Existing(f) /\ Of(f)' = Of(f) /\ FailedOf(f)' = FailedOf(f)
      BY <1>2 DEF RunOnly, Existing, Of, FailedOf
<1>4. run' \in Runs /\ run'.pc \in {"idle", "mark"} /\ ~InHand'
  <2>1. CASE run' = NoRun
        BY <2>1 DEF Runs, NoRun, Places, InHand
  <2>2. CASE run' = [run EXCEPT !.pc = "mark"]
        BY <1>2, <2>2 DEF Runs, Places, InHand
  <2> QED BY <1>1, <2>1, <2>2
<1>5. unmarked' \subseteq Ids
      BY <1>1, <1>2 DEF IInv, Typed, TypeOK, Runs
<1>6. Typed'
      BY <1>2, <1>3, <1>4, <1>5 DEF IInv, Typed, TypeOK, RunOnly, Runs, NoRun
<1>7. OnePath' /\ RecordsAreOlder' /\ UnrecordedIsNew' /\ CountedFairly'
      BY <1>2, <1>3, <1>4, RunOnlyInv DEF Known, RunOnly
<1>8. ScannedIsOpen' /\ NewsIsTrue'
  <2>1. run'.todo \subseteq run.todo
        BY <1>1, <1>2 DEF Runs, NoRun
  <2> QED BY <1>2, <1>3, <1>4, <2>1
         DEF IInv, ScannedIsOpen, Open, FailedAttempts, NewsIsTrue, RunOnly
<1>9. SentIsRecorded' /\ UnmarkedIsUnsent'
  <2>1. CASE run' = NoRun /\ run.sent = {} /\ unmarked' = unmarked
        BY <1>2, <1>3, <1>4, <2>1
           DEF IInv, SentIsRecorded, UnmarkedIsUnsent, Sending, NoRun, RunOnly
  <2>2. CASE run' = [run EXCEPT !.pc = "mark"] /\ run.pc = "send" /\ unmarked' = unmarked
    <3>1. run'.pc = "mark" /\ run'.rest = run.rest /\ run'.sent = run.sent
          BY <1>2, <2>2 DEF Runs
    <3> QED BY <1>2, <1>3, <2>2, <3>1
           DEF IInv, SentIsRecorded, UnmarkedIsUnsent, Sending, RunOnly
  <2>3. CASE run' = NoRun /\ unmarked' = unmarked \cup {p[2] : p \in run.sent}
    <3>1. run'.pc = "idle" /\ run'.sent = {}
          BY <2>3 DEF NoRun
    <3>2. \A f : <<f, Of(f)>> \in run.sent => Of(f) \in unmarked'
          BY <2>3
    <3> QED BY <1>2, <1>3, <2>3, <3>1, <3>2
           DEF IInv, SentIsRecorded, UnmarkedIsUnsent, Sending, RunOnly
  <2> QED BY <1>1, <2>1, <2>2, <2>3
<1> QED BY <1>6, <1>7, <1>8, <1>9 DEF IInv

(* The marks. *)
LEMMA MarkInv == IInv /\ Mark => IInv'
<1> SUFFICES ASSUME IInv, Mark PROVE IInv'
    OBVIOUS
<1>1. /\ run.pc = "mark" /\ run' = NoRun
      /\ entry' = [f \in Files |-> IF f \in Marked THEN [entry[f] EXCEPT !.alerted = TRUE]
                                   ELSE entry[f]]
      /\ UNCHANGED <<file, versions, tried, unmarked, failures>>
      BY DEF Mark, World, ghosts
<1>2. /\ run' \in Runs /\ run'.pc = "idle" /\ run'.sent = {} /\ run'.todo = {} /\ ~InHand' /\ ~Sending'
      BY <1>1 DEF NoRun, Runs, Places, InHand, Sending
<1>3. \A f \in Files : f \in Marked => entry[f] # None /\ entry[f] \in Entries
      BY DEF Marked, IInv, Typed, TypeOK
<1>4. ASSUME NEW f \in Files
      PROVE  /\ entry'[f] \in Entries \cup {None}
             /\ Existing(f)' = IF f \in Marked THEN [Existing(f) EXCEPT !.alerted = TRUE] ELSE Existing(f)
             /\ Of(f)' = Of(f) /\ FailedOf(f)' = FailedOf(f)
             /\ Existing(f)'.found = Existing(f).found
             /\ Existing(f)'.attempts = Existing(f).attempts
  <2>1. CASE f \in Marked
    <3>1. /\ entry'[f] = [entry[f] EXCEPT !.alerted = TRUE] /\ entry'[f] \in Entries
          /\ Existing(f) = entry[f]
          BY <1>1, <1>3, <2>1 DEF Entries, Existing
    <3>2. Existing(f)' = [Existing(f) EXCEPT !.alerted = TRUE]
          BY <3>1, NoneAssumption DEF Existing
    <3>3. Existing(f) \in Entries
          BY ExistingType DEF IInv
    <3> QED BY <2>1, <3>1, <3>2, <3>3 DEF Of, FailedOf, Entries
  <2>2. CASE f \notin Marked
        BY <1>1, <2>2 DEF IInv, Typed, TypeOK, Existing, Of, FailedOf
  <2> QED BY <2>1, <2>2
<1>5. Typed'
  <2>1. entry' \in [Files -> Entries \cup {None}]
        BY <1>1, <1>4
  <2> QED BY <1>1, <1>2, <1>4, <2>1 DEF IInv, Typed, TypeOK, Runs, NoRun
<1>6. \A f \in Files : \A v \in Ids : Known(f, v)' => Known(f, v)
      BY <1>1, <1>2, <1>4 DEF Known
<1>7. OnePath' /\ RecordsAreOlder' /\ UnrecordedIsNew' /\ CountedFairly'
  <2>1. OnePath'
        BY <1>1, <1>6 DEF IInv, OnePath
  <2>2. RecordsAreOlder' /\ CountedFairly'
        BY <1>1, <1>4 DEF IInv, RecordsAreOlder, CountedFairly
  <2>3. UnrecordedIsNew'
        BY <1>1, <1>4, <1>6 DEF IInv, UnrecordedIsNew
  <2> QED BY <2>1, <2>2, <2>3
<1>8. ScannedIsOpen' /\ NewsIsTrue' /\ SentIsRecorded'
      BY <1>1, <1>2, <1>4 DEF IInv, ScannedIsOpen, NewsIsTrue, SentIsRecorded
<1>9. UnmarkedIsUnsent'
  <2>1. ASSUME NEW f \in Files, Existing(f)'.found, ~Existing(f)'.alerted, Of(f)' \in tried
        PROVE  Of(f)' \in unmarked
    <3>1. Existing(f).found /\ Of(f)' = Of(f) /\ Existing(f) \in Entries
          BY <1>4, <2>1, ExistingType DEF IInv
    <3>2. f \notin Marked /\ ~Existing(f).alerted
          BY <1>4, <2>1, <3>1 DEF Entries
    <3>3. <<f, Of(f)>> \notin run.sent
      <4>1. entry[f] # None /\ Existing(f) = entry[f]
            BY <3>1 DEF Existing, NoEntry
      <4> QED BY <3>1, <3>2, <4>1 DEF Marked, Of
    <3> QED BY <2>1, <3>1, <3>2, <3>3 DEF IInv, UnmarkedIsUnsent
  <2> QED BY <1>1, <1>2, <2>1 DEF UnmarkedIsUnsent
<1> QED BY <1>5, <1>7, <1>8, <1>9 DEF IInv

(* Files are imported under the run, removed, and settle. *)
LEMMA WorldInv ==
    ASSUME IInv, NEW f \in Files, Import(f) \/ Remove(f) \/ Settle(f)
    PROVE  IInv'
<1> USE NumbersAssumption
<1>0. /\ entry' = entry /\ run' = run /\ tried' = tried /\ unmarked' = unmarked
      /\ failures' = failures
      BY DEF Import, Remove, Settle, ghosts
<1>1. \A g : Existing(g)' = Existing(g) /\ Of(g)' = Of(g) /\ FailedOf(g)' = FailedOf(g)
      BY <1>0 DEF Existing, Of, FailedOf
<1>2. InHand' = InHand /\ Sending' = Sending
      BY <1>0 DEF InHand, Sending
<1>3. CASE Import(f)
  <2>1. PICK kind \in Kinds :
            file' = [file EXCEPT ![f] = [id |-> versions + 1, kind |-> kind, old |-> FALSE]]
        BY <1>3 DEF Import
  <2> DEFINE v == versions + 1
  <2>2. /\ versions' = v /\ v \in Ids /\ v \in 0..MaxVersions /\ versions \in Nat
        /\ [id |-> v, kind |-> kind, old |-> FALSE] \in FileVersions
        BY <1>3 DEF Import, IInv, Typed, Ids, FileVersions
  <2>3. /\ file' \in [Files -> FileVersions \cup {None}]
        /\ file'[f] # None /\ file'[f].id = v
        /\ \A g \in Files \ {f} : file'[g] = file[g]
        BY <2>1, <2>2, NoneAssumption DEF IInv, Typed, TypeOK
  <2>4. \A g \in Files : \A u \in Ids : Known(g, u)' => Known(g, u) \/ (g = f /\ u = v)
        BY <1>0, <1>1, <1>2, <2>3 DEF Known
  <2>5. /\ \A g \in Files : \A u \in Ids : Known(g, u) => u < v
        /\ failures[v] = 0 /\ v \notin tried
        BY <2>2 DEF IInv, OnePath, Ids
  <2> HIDE DEF v
  <2>6. Typed'
        BY <1>0, <1>1, <1>2, <2>2, <2>3 DEF IInv, Typed, TypeOK, Runs, NoRun
  <2>7. OnePath'
    <3>1. \A u \in Ids : \A g, h \in Files : Known(g, u)' /\ Known(h, u)' => g = h
      <4>1. ASSUME NEW u \in Ids, NEW g \in Files, NEW h \in Files, Known(g, u)', Known(h, u)'
            PROVE  g = h
        <5>1. CASE u = v
          <6>1. ~Known(g, u) /\ ~Known(h, u)
                BY <2>2, <2>5, <5>1 DEF Ids
          <6> QED BY <2>4, <4>1, <6>1
        <5>2. CASE u # v
              BY <2>4, <4>1, <5>2 DEF IInv, OnePath
        <5> QED BY <5>1, <5>2
      <4> QED BY <4>1
    <3>2. \A u \in Ids : \A g \in Files : Known(g, u)' => u <= v
          BY <2>2, <2>4, <2>5 DEF Ids
    <3>3. \A u \in Ids : u > v => u > versions
          BY <2>2 DEF v, Ids
    <3> QED BY <1>0, <2>2, <3>1, <3>2, <3>3 DEF IInv, OnePath
  <2>8. RecordsAreOlder'
    <3>1. Of(f) <= v /\ FailedOf(f) <= v
      <4>1. Of(f) \in Ids \cup {0} /\ FailedOf(f) \in Ids \cup {0}
            BY ExistingType DEF IInv
      <4>2. (Of(f) # 0 => Known(f, Of(f))) /\ (FailedOf(f) # 0 => Known(f, FailedOf(f)))
            BY DEF Known
      <4> QED BY <2>2, <2>5, <4>1, <4>2 DEF Ids
    <3> QED BY <1>1, <2>3, <3>1 DEF IInv, RecordsAreOlder
  <2>9. UnrecordedIsNew'
        BY <1>0, <1>1, <2>4, <2>5 DEF IInv, UnrecordedIsNew
  <2>10. CountedFairly' /\ SentIsRecorded' /\ UnmarkedIsUnsent'
        BY <1>0, <1>1, <1>2 DEF IInv, CountedFairly, SentIsRecorded, UnmarkedIsUnsent
  <2>11. ScannedIsOpen'
    <3>1. ASSUME NEW g \in Files, NEW u \in Ids, u < v, Open(g, u) PROVE Open(g, u)'
          BY <1>1, <2>2, <2>3, <3>1 DEF Open, FailedAttempts, Ids
    <3>2. \A c \in run.todo : /\ c[1] \in Files /\ c[2] \in Ids /\ Open(c[1], c[2])
                             /\ c[2] < v /\ c[2] <= versions'
          BY <2>2 DEF IInv, ScannedIsOpen, Typed, Runs, v, Ids
    <3>3. InHand => run.cur \in Files /\ run.before \in Ids /\ run.before < v
                    /\ Open(run.cur, run.before)
          BY <2>5 DEF IInv, ScannedIsOpen, Typed, Known
    <3>4. InHand => Open(run.cur, run.before)'
          BY <1>0, <3>1, <3>3
    <3> QED BY <1>0, <1>2, <3>1, <3>2, <3>4 DEF IInv, ScannedIsOpen
  <2>12. NewsIsTrue'
    <3>1. InHand => run.before < v
          BY <2>5 DEF IInv, Typed, Known
    <3>2. \A g \in Files : Of(g) # v
          BY <2>2, <2>5 DEF Known, Ids
    <3>3. ASSUME run.pc \in {"compare", "write"}, run.result = "bad",
                 file'[run.cur] # None, file'[run.cur].id = run.before
          PROVE  file'[run.cur].kind = "bad"
      <4>1. run.cur \in Files /\ run.before \in Ids /\ run.before < v
            BY <3>1, <3>3 DEF IInv, Typed, InHand
      <4>2. run.cur # f
            BY <2>2, <2>3, <3>3, <4>1 DEF Ids
      <4> QED BY <2>3, <3>3, <4>1, <4>2 DEF IInv, NewsIsTrue
    <3>4. \A g \in Files : Existing(g).found /\ file'[g] # None /\ file'[g].id = Of(g)
                             => file'[g].kind = "bad"
          BY <2>3, <3>2 DEF IInv, NewsIsTrue
    <3> QED BY <1>0, <1>1, <3>3, <3>4 DEF NewsIsTrue
  <2> QED BY <2>6, <2>7, <2>8, <2>9, <2>10, <2>11, <2>12 DEF IInv
<1>4. CASE Remove(f) \/ Settle(f)
  <2>1. /\ file' \in [Files -> FileVersions \cup {None}]
        /\ \A g \in Files : file'[g] # None =>
              file[g] # None /\ file'[g].id = file[g].id /\ file'[g].kind = file[g].kind
    <3>1. CASE Remove(f)
          BY <3>1 DEF Remove, IInv, Typed, TypeOK
    <3>2. CASE Settle(f)
          BY <3>2 DEF Settle, IInv, Typed, TypeOK, FileVersions
    <3> QED BY <1>4, <3>1, <3>2
  <2>2. versions' = versions
        BY <1>4 DEF Remove, Settle
  <2>3. Typed'
        BY <1>0, <1>1, <1>2, <2>1, <2>2 DEF IInv, Typed, TypeOK, Runs, NoRun
  <2>4. \A g \in Files : \A u \in Ids : Known(g, u)' => Known(g, u)
        BY <1>0, <1>1, <1>2, <2>1 DEF Known
  <2>5. OnePath'
        BY <1>0, <2>2, <2>4 DEF IInv, OnePath
  <2>6. RecordsAreOlder' /\ CountedFairly'
        BY <1>0, <1>1, <2>1 DEF IInv, RecordsAreOlder, CountedFairly
  <2>7. UnrecordedIsNew'
        BY <1>0, <1>1, <2>4 DEF IInv, UnrecordedIsNew
  <2>8. ScannedIsOpen'
    <3>1. \A g \in Files : \A u : Open(g, u) => Open(g, u)'
          BY <1>1, <2>1 DEF Open, FailedAttempts
    <3> QED BY <1>0, <1>2, <2>2, <3>1 DEF IInv, ScannedIsOpen, Typed, Runs
  <2>9. NewsIsTrue'
    <3>1. run.pc \in {"compare", "write"} => run.cur \in Files
          BY DEF IInv, Typed, InHand
    <3> QED BY <1>0, <1>1, <2>1, <3>1 DEF IInv, NewsIsTrue
  <2>10. SentIsRecorded' /\ UnmarkedIsUnsent'
        BY <1>0, <1>1, <1>2 DEF IInv, SentIsRecorded, UnmarkedIsUnsent
  <2> QED BY <2>3, <2>5, <2>6, <2>7, <2>8, <2>9, <2>10 DEF IInv
<1> QED BY <1>3, <1>4

(* Every step preserves the inductive invariant. *)
LEMMA StepInv == IInv /\ [Next]_vars => IInv'
<1> SUFFICES ASSUME IInv, [Next]_vars PROVE IInv'
    OBVIOUS
<1>1. CASE Start \/ NextCandidate \/ EndLoop \/ Analyse \/ Compare \/ Terminate
      BY <1>1, ListenInv
<1>2. CASE Write \/ LoadPending \/ Message \/ NoMessage \/ Mark \/ Die
      BY <1>2, WriteInv, LoadInv, MessageInv, NoMessageInv, MarkInv
<1>3. ASSUME NEW f \in Files, Import(f) \/ Remove(f) \/ Settle(f) PROVE IInv'
      BY <1>3, WorldInv
<1>4. CASE UNCHANGED vars
      BY <1>4 DEF vars, IInv, Typed, TypeOK, OnePath, RecordsAreOlder, UnrecordedIsNew,
                  CountedFairly, ScannedIsOpen, NewsIsTrue, SentIsRecorded, UnmarkedIsUnsent,
                  InHand, Sending, Of, FailedOf, Existing, Known, Open, FailedAttempts,
                  Runs, NoRun
<1> QED BY <1>1, <1>2, <1>3, <1>4 DEF Next, RunStep

-----------------------------------------------------------------------------
(* The variables keep their ranges: no version is ever failed more often   *)
(* than MAX_FAILED_ATTEMPTS, whatever is replaced under the run.           *)
THEOREM TypeCorrect == Spec => []TypeOK
<1>1. IInv => TypeOK
      BY DEF IInv, Typed
<1> QED BY InitInv, StepInv, <1>1, PTL DEF Spec

(* A version is given up only for failures of its own. *)
THEOREM FairlyGivenUp == Spec => []GivesUpFairly
<1>1. IInv => GivesUpFairly
  <2> SUFFICES ASSUME IInv, NEW f \in Files, file[f] # None, GivenUp(f)
               PROVE  failures[Identity(f)] = MaxAttempts
      BY DEF GivesUpFairly
  <2>1. Identity(f) \in Ids /\ Identity(f) # 0
        BY DEF Identity, IInv, Typed, TypeOK, FileVersions, Ids
  <2>2. FailedOf(f) = Identity(f) /\ Existing(f).attempts = MaxAttempts
        BY NumbersAssumption DEF GivenUp, FailedAttempts, FailedOf
  <2> QED BY <2>1, <2>2 DEF IInv, CountedFairly
<1> QED BY InitInv, StepInv, <1>1, PTL DEF Spec

(* What a message says of a file is so of the file that is there. *)
THEOREM MessagesAreTrue == Spec => MessageIsTrue
<1> DEFINE True(v) == \E f \in Files : file[f] # None /\ file[f].id = v /\ file[f].kind = "bad"
           Told == \A v \in tried' \ tried : True(v)
<1>1. IInv /\ [Next]_vars => [Told]_vars
  <2> SUFFICES ASSUME IInv, [Next]_vars, NEW v \in tried' \ tried PROVE True(v)
      OBVIOUS
  <2>1. Message
        BY DEF Next, RunStep, Start, NextCandidate, EndLoop, Analyse, Compare, Terminate, Write,
               LoadPending, NoMessage, Mark, Die, Import, Remove, Settle, ghosts, vars
  <2>n. PICK named \in SUBSET Current(run.rest) : tried' = tried \cup {p[2] : p \in named}
        BY <2>1, MessageNames
  <2>2. PICK p \in Current(run.rest) : v = p[2]
        BY <2>n
  <2>3. /\ p \in run.rest /\ Identity(p[1]) = p[2] /\ p[1] \in Files /\ p[2] \in Ids
        /\ Existing(p[1]).found /\ Of(p[1]) = p[2]
        BY <2>1 DEF Message, Current, IInv, Typed, Runs, SentIsRecorded, Sending
  <2>4. file[p[1]] # None /\ file[p[1]].id = v
        BY <2>2, <2>3 DEF Identity, Ids
  <2> QED BY <2>2, <2>3, <2>4 DEF IInv, NewsIsTrue
<1> QED BY InitInv, StepInv, <1>1, PTL DEF Spec, MessageIsTrue

(* No finding is in two messages, but for one whose mark was lost with its *)
(* run.                                                                    *)
THEOREM SentAtMostOnce == Spec => SentOnce
<1> DEFINE Once == run'.sent # run.sent /\ run'.pc = "send" =>
                     \A p \in run'.sent \ run.sent : p[2] \in tried => p[2] \in unmarked
<1>1. IInv /\ [Next]_vars => [Once]_vars
  <2> SUFFICES ASSUME IInv, [Next]_vars, run'.sent # run.sent, run'.pc = "send",
                      NEW p \in run'.sent \ run.sent, p[2] \in tried
               PROVE  p[2] \in unmarked
      OBVIOUS
  <2>1. run \in Runs
        BY DEF IInv, Typed
  <2>2. ~NextCandidate
    <3>1. ASSUME NextCandidate PROVE FALSE
      <4>1. PICK c \in run.todo :
                \/ run' = [run EXCEPT !.todo = @ \ {c}]
                \/ run' = [run EXCEPT !.todo = @ \ {c}, !.pc = "analyse", !.started = TRUE,
                                      !.cur = c[1], !.before = SettledIdentity(c[1])]
            BY <3>1, NextCandidateTakes
      <4> QED BY <2>1, <4>1 DEF Runs
    <3> QED BY <3>1
  <2>3. Message
    <3>1. CASE Start \/ NoMessage \/ Mark \/ Die
      <4>1. ~Start
            BY DEF Start, NoRun
      <4>2. ~NoMessage
            BY <2>1 DEF NoMessage, NoRun, Runs
      <4>3. ~Mark /\ ~Die
            BY DEF Mark, Die, NoRun
      <4> QED BY <3>1, <4>1, <4>2, <4>3
    <3>4. CASE EndLoop \/ Compare \/ Terminate \/ Write
          BY <2>1, <3>4 DEF EndLoop, Compare, Terminate, Write, Goto, Runs
    <3>2. CASE Analyse \/ LoadPending
          BY <2>1, <3>2 DEF Analyse, LoadPending, Goto, Runs
    <3>3. CASE (\E f \in Files : Import(f) \/ Remove(f) \/ Settle(f)) \/ UNCHANGED vars
          BY <3>3 DEF Import, Remove, Settle, vars
    <3> QED BY <2>2, <3>1, <3>2, <3>3, <3>4 DEF Next, RunStep
  <2>n. PICK named \in SUBSET Current(run.rest) :
            run' = [run EXCEPT !.rest = Current(run.rest) \ named, !.sent = @ \cup named]
        BY <2>3, MessageNames
  <2>4. p \in run.rest /\ run.pc = "send"
        BY <2>1, <2>3, <2>n DEF Message, Runs, Current
  <2> QED BY <2>4 DEF IInv, UnmarkedIsUnsent
<1> QED BY InitInv, StepInv, <1>1, PTL DEF Spec, SentOnce
=============================================================================
