-------------------------- MODULE ConsolidateProofs -------------------------
(***************************************************************************)
(* The passes of consolidate-subs.py on one title, for any number of       *)
(* releases, sidecar texts and identities, any verdicts and failures of    *)
(* the tools, and any kills.  Type correctness holds wherever an import    *)
(* falls; each other theorem names the gaps, between the code's last look  *)
(* at a file and the step that relies on it, that an import must not fall  *)
(* into for that property.                                                 *)
(***************************************************************************)
EXTENDS Consolidate, FiniteSetTheorems, TLAPS

(* Nothing is imported between a rename and the entry that records it.     *)
SettlesAlone == "committing" \notin ImportAt

(* Nothing is imported between a sweep's re-check of the video and the end *)
(* of the move that follows.                                               *)
MovesAlone == "moving" \notin ImportAt

(* Nothing is imported between the probe and the rename of a full pass or  *)
(* of a clean-up.                                                          *)
BuildsAlone == "judging" \notin ImportAt /\ "full" \notin ImportAt

Reading == {"snap", "identify", "probe", "judge", "late"}
Moving == {"copy", "verify", "unlink"}
Settling == {"tag", "normalize", "normalizing", "delete", "drop"}

(* What the places of a pass have in common. *)
PassShape ==
    /\ pass.pc \in Reading =>
          pass.mode = "full" /\ pass.cur \in VideoIds /\ pass.prev = entry /\ pass.consumed = {}
    /\ pass.pc \in {"identify", "probe", "judge"} =>
          pass.snaps["real"] # None /\ pass.snaps["real"].text # "unread"
    /\ pass.pc \in {"probe", "judge"} => pass.uid \in VideoIds
    /\ pass.pc \in {"judge", "gather", "cleanup", "normalizing"} => pass.info # None
    /\ pass.pc \in {"sync", "muxed", "swap"} => pass.info # None
    /\ pass.pc \in {"sweepread", "sweep", "recheck"} => pass.mode = "sweep"
    /\ pass.pc \in Moving => pass.mode \in {"full", "sweep"}
    /\ pass.pc \in {"gather", "cleanup", "normalize", "normalizing"} => pass.mode = "full"
    /\ pass.pc \in {"sync", "muxed"} \cup Settling => pass.mode \in {"full", "upgrade"}
    /\ pass.pc = "swap" => pass.mode # "sweep"
    /\ pass.mode = "sweep" => pass.consumed = {}
    /\ pass.pc \in {"recheck", "drop"} \cup Moving => pass.target \in Slots
    /\ pass.pc = "recheck" => pass.info # None
    /\ pass.pc \in Moving => pass.info # None
    /\ pass.pc \in {"muxed", "swap"} => pass.out # None
    /\ pass.pc = "sync" /\ pass.mode = "full" => pass.out # None

Typed == TypeOK /\ PassShape

(* What was read of a sidecar is still there if the identity is. *)
SnapsHold ==
    \A s \in Slots :
        sidecar[s] # None /\ pass.snaps[s] # None /\ sidecar[s].id = pass.snaps[s].id
            => sidecar[s] = pass.snaps[s]

(* The right sidecar of this video is not one on record as rejected. *)
RightNotRejected(record) ==
    record # None /\ record.verdict /\ record.video = video.id
        /\ sidecar["real"] # None /\ sidecar["real"].id = record.side
        => sidecar["real"].text # "right"

RecordsHold ==
    /\ entry # None => RightNotRejected(entry.rejected)
    /\ RightNotRejected(pass.rejected)

(* A full pass or a clean-up, from its first look at the sidecars to the   *)
(* rename.                                                                 *)
Building ==
    \/ pass.pc \in {"gather", "cleanup"}
    \/ pass.pc \in Moving /\ pass.mode = "full"
    \/ pass.pc \in {"sync", "muxed", "swap"} /\ pass.mode \in {"full", "cleanup"}

(* What a pass knows of the video: what it probed is the video it began    *)
(* with, if that is still there; a full pass or a clean-up is only for     *)
(* files that were untagged then.                                          *)
InfoHolds ==
    /\ pass.pc \in {"snap", "identify", "probe"} => pass.info = None
    /\ /\ pass.pc \in {"judge", "late"}
       /\ pass.info # None
       /\ BuildsAlone \/ video.id = pass.cur
       => pass.info = video
    /\ Building => ~pass.info.tag /\ (BuildsAlone => pass.info = video)
    /\ pass.mode = "sweep" /\ pass.info # None /\ video.id = pass.cur => pass.info = video
    /\ pass.pc = "normalizing" /\ SettlesAlone => pass.info = video

(* The video has inside what the sidecar in slot s is retired for. *)
Within(s) ==
    /\ IF s = "forced" THEN video.forced ELSE HasEnglish
    /\ s = "real" => video.sub = "main"

(* Why a sidecar may be moved to quarantine. *)
SweepHolds ==
    /\ pass.held = "rejected" => pass.mode = "sweep"
    /\ pass.held = "rejected" /\ pass.snaps["real"] # None => pass.snaps["real"].text # "right"
    /\ pass.mode = "sweep" => \A s \in pass.todo : s \in Slots /\ pass.snaps[s] # None
    /\ pass.pc \in {"recheck"} \cup Moving => pass.snaps[pass.target] # None
    /\ pass.pc \in {"recheck"} \cup Moving /\ pass.target = "real" /\ pass.why # "redundant" =>
          pass.snaps["real"].text # "right"
    /\ pass.pc \in {"recheck"} \cup Moving /\ pass.mode = "sweep" /\ pass.why = "redundant"
          /\ video.id = pass.cur => Within(pass.target)
    /\ pass.pc \in Moving /\ pass.mode = "sweep" /\ MovesAlone => video.id = pass.cur
    /\ pass.pc \in Moving /\ pass.mode = "full" => pass.why = "foreign"
    /\ pass.pc \in {"verify", "unlink"} => pass.copy = pass.snaps[pass.target]
    /\ pass.pc = "unlink" => MayRace \/ sidecar[pass.target] = pass.copy

(* What a pass has taken up, and what it makes of it. *)
OutHolds ==
    /\ pass.pc \in {"gather"} \cup Moving => pass.consumed \cap pass.todo = {}
    /\ \A s \in pass.consumed : English(pass.snaps[s].text)
    /\ pass.pc \in {"sync", "muxed", "swap"} /\ pass.mode = "full" =>
          /\ pass.out \in {"gen", "main"}
          /\ "real" \in pass.consumed => pass.out = "main"
          /\ BuildsAlone /\ ~MayFail /\ video.sub = "main" => pass.out = "main"
    /\ pass.pc \in {"sync", "muxed", "swap"} /\ pass.mode = "upgrade" => pass.consumed = {"real"}
    /\ pass.pc \in {"muxed", "swap"} /\ pass.mode = "upgrade" => pass.out = "main"
    /\ pass.pc = "cleanup" =>
          pass.consumed = {} /\ (BuildsAlone /\ pass.drop => video.sub = "fake")
    /\ pass.pc = "swap" /\ pass.mode = "cleanup" =>
          pass.consumed = {} /\ (BuildsAlone => pass.out = video.sub \/ video.sub = "fake")

(* After the rename, the video has what the pass is about to remove. *)
SettleHolds ==
    /\ pass.pc \in Settling /\ SettlesAlone => HasEnglish /\ \A s \in pass.consumed : Within(s)
    /\ pass.pc \in {"delete", "drop"} => pass.todo \subseteq pass.consumed
    /\ pass.pc = "drop" => pass.target \in pass.todo
    /\ pass.pc = "drop" => MayRace \/ sidecar[pass.target] = pass.snaps[pass.target]

IInv ==
    /\ Typed
    /\ SnapsHold
    /\ RecordsHold
    /\ InfoHolds
    /\ SweepHolds
    /\ OutHolds
    /\ SettleHolds
    /\ SettlesAlone => SkipIsEarned

-----------------------------------------------------------------------------
(* Ten identities are never all of them, nor are five of a sidecar. *)
LEMMA OneMore ==
    ASSUME NEW S, IsFiniteSet(S), NEW n \in Nat, Cardinality(S) <= n, NEW x,
           NEW T, T = S \cup {x}
    PROVE  IsFiniteSet(T) /\ Cardinality(T) <= n + 1
<1>1. IsFiniteSet(S \cup {x}) /\ Cardinality(S \cup {x}) =
         IF x \in S THEN Cardinality(S) ELSE Cardinality(S) + 1
      BY FS_AddElement
<1>2. Cardinality(S) \in Nat
      BY FS_CardinalityType
<1> QED BY <1>1, <1>2

LEMMA FiveAreFew ==
    ASSUME NEW a, NEW b, NEW c, NEW d, NEW e
    PROVE  IsFiniteSet({a, b, c, d, e}) /\ Cardinality({a, b, c, d, e}) <= 5
<1> DEFINE A == {a}
           B == {a, b}
           C == {a, b, c}
           D == {a, b, c, d}
           E == {a, b, c, d, e}
<1>1. IsFiniteSet(A) /\ Cardinality(A) <= 1
  <2>1. IsFiniteSet(A) /\ Cardinality(A) = 1
        BY FS_Singleton, Zenon
  <2> QED BY <2>1
<1>2. B = A \cup {b} /\ C = B \cup {c} /\ D = C \cup {d} /\ E = D \cup {e}
      OBVIOUS
<1>3. 1 \in Nat /\ 1 + 1 \in Nat /\ 1 + 1 + 1 \in Nat /\ 1 + 1 + 1 + 1 \in Nat
      OBVIOUS
<1> HIDE DEF A, B, C, D, E
<1>4. IsFiniteSet(B) /\ Cardinality(B) <= 1 + 1
      BY <1>1, <1>2, <1>3, OneMore, Zenon
<1>5. IsFiniteSet(C) /\ Cardinality(C) <= 1 + 1 + 1
      BY <1>2, <1>3, <1>4, OneMore, Zenon
<1>6. IsFiniteSet(D) /\ Cardinality(D) <= 1 + 1 + 1 + 1
      BY <1>2, <1>3, <1>5, OneMore, Zenon
<1>7. IsFiniteSet(E) /\ Cardinality(E) <= 1 + 1 + 1 + 1 + 1
      BY <1>2, <1>3, <1>6, OneMore, Zenon
<1> QED BY <1>7 DEF E

LEMMA FewAreNotAll ==
    ASSUME NEW Ids, NEW S, IsFiniteSet(S), NEW n \in Nat, Cardinality(S) <= n,
           IsFiniteSet(Ids) => Cardinality(Ids) >= n + 1
    PROVE  \E i \in Ids : i \notin S
<1>1. ASSUME Ids \subseteq S PROVE FALSE
  <2>1. IsFiniteSet(Ids) /\ Cardinality(Ids) <= Cardinality(S)
        BY <1>1, FS_Subset
  <2>2. Cardinality(Ids) \in Nat /\ Cardinality(S) \in Nat
        BY <2>1, FS_CardinalityType
  <2> QED BY <2>1, <2>2
<1> QED BY <1>1

(* A changed file gets an identity that nothing remembers. *)
LEMMA FreshVideoIsFresh ==
    /\ FreshVideo \in VideoIds
    /\ FreshVideo \notin {video.id, pass.cur, pass.uid, pass.base}
    /\ entry # None => FreshVideo # entry.key
    /\ entry # None /\ entry.rejected # None => FreshVideo # entry.rejected.video
    /\ pass.rejected # None => FreshVideo # pass.rejected.video
<1> DEFINE A == {video.id, pass.cur, pass.uid, pass.base, entry.key}
           B == {entry.rejected.video, pass.prev.key, pass.prev.rejected.video, pass.info.id,
                 pass.rejected.video}
<1>1. IsFiniteSet(A) /\ Cardinality(A) <= 5 /\ IsFiniteSet(B) /\ Cardinality(B) <= 5
      BY FiveAreFew
<1>2. VideoRefs \subseteq A \cup B
      BY DEF VideoRefs, EntryRefs
<1> HIDE DEF A, B
<1>3. /\ IsFiniteSet(A \cup B) /\ Cardinality(A) \in Nat /\ Cardinality(B) \in Nat
      /\ Cardinality(A \cup B) <= Cardinality(A) + Cardinality(B)
  <2>1. IsFiniteSet(A \cup B)
        BY <1>1, FS_Union
  <2>2. /\ IsFiniteSet(A \cap B)
        /\ Cardinality(A \cup B) = Cardinality(A) + Cardinality(B) - Cardinality(A \cap B)
        BY <1>1, FS_Union, FS_Intersection
  <2>3. Cardinality(A) \in Nat /\ Cardinality(B) \in Nat /\ Cardinality(A \cap B) \in Nat
        BY <1>1, <2>2, FS_CardinalityType
  <2> QED BY <2>1, <2>2, <2>3
<1>4. IsFiniteSet(A \cup B) /\ Cardinality(A \cup B) <= 10 /\ Cardinality(A \cup B) \in Nat
      BY <1>1, <1>3, FS_CardinalityType
<1>5. \E i \in VideoIds : i \notin A \cup B
  <2>1. IsFiniteSet(VideoIds) => Cardinality(VideoIds) >= 10 + 1
        BY IdsAssumption
  <2> QED BY <1>4, <2>1, FewAreNotAll
<1>6. FreshVideo \in VideoIds /\ FreshVideo \notin VideoRefs
      BY <1>2, <1>5 DEF FreshVideo
<1> QED BY <1>6 DEF VideoRefs, EntryRefs

LEMMA FreshSidecarIsFresh ==
    ASSUME NEW s \in Slots, pass # None
    PROVE  /\ FreshSidecar(s) \in SidecarIds
           /\ sidecar[s] # None => FreshSidecar(s) # sidecar[s].id
           /\ pass.snaps[s] # None => FreshSidecar(s) # pass.snaps[s].id
           /\ s = "real" /\ entry # None /\ entry.rejected # None =>
                 FreshSidecar(s) # entry.rejected.side
           /\ s = "real" /\ pass.rejected # None => FreshSidecar(s) # pass.rejected.side
<1> DEFINE A == {sidecar[s].id, pass.snaps[s].id, entry.rejected.side,
                 pass.prev.rejected.side, pass.rejected.side}
<1>1. IsFiniteSet(A) /\ Cardinality(A) <= 5
      BY FiveAreFew
<1>2. SidecarRefs(s) \subseteq A
      BY DEF SidecarRefs, RejectedSides
<1> HIDE DEF A
<1>3. \E i \in SidecarIds : i \notin A
  <2>1. IsFiniteSet(SidecarIds) => Cardinality(SidecarIds) >= 5 + 1
        BY IdsAssumption
  <2> QED BY <1>1, <2>1, FewAreNotAll
<1>4. FreshSidecar(s) \in SidecarIds /\ FreshSidecar(s) \notin SidecarRefs(s)
      BY <1>2, <1>3 DEF FreshSidecar
<1> QED BY <1>4 DEF SidecarRefs, RejectedSides

-----------------------------------------------------------------------------
(* What the actions do, local variable by local variable: those that are   *)
(* not named stay as they are, or as in a pass that begins.                *)
Fields ==
    {"pc", "mode", "cur", "prev", "uid", "info", "rejected", "held", "snaps", "todo", "target",
     "why", "copy", "consumed", "failed", "drop", "out", "base", "needs"}

Keeps(others) == \A f \in Fields \ others : pass'[f] = pass[f]
Anew(others) == \A f \in Fields \ others : pass'[f] = NoPass[f]
Still == video' = video /\ sidecar' = sidecar /\ entry' = entry

LEMMA NoPassIs ==
    /\ NoPass.pc = "idle" /\ NoPass.mode = "full" /\ NoPass.prev = None /\ NoPass.info = None
    /\ NoPass.rejected = None /\ NoPass.held = "none" /\ NoPass.todo = {} /\ NoPass.consumed = {}
    /\ NoPass.target = None /\ NoPass.why = "none" /\ NoPass.copy = None /\ NoPass.out = None
    /\ NoPass.drop = FALSE /\ \A s \in Slots : NoPass.snaps[s] = None
BY DEF NoPass

LEMMA Given ==
    ASSUME TypeOK
    PROVE  /\ NoPass \in Passes /\ pass \in Passes /\ pass # None /\ "real" \in Slots
           /\ video \in Videos /\ video.id \in VideoIds /\ entry \in Entries \cup {None}
           /\ sidecar \in [Slots -> Sidecars \cup {None}]
           /\ DOMAIN NoPass = Fields /\ DOMAIN pass = Fields
<1>1. "idle" \in Places /\ "full" \in Modes /\ "none" \in Holds /\ "none" \in Reasons
      BY DEF Places, Modes, Holds, Reasons
<1>2. pass # None
      BY NoneAssumption DEF TypeOK
<1>3. DOMAIN NoPass = Fields /\ DOMAIN pass = Fields
      BY DEF NoPass, Passes, TypeOK, Fields
<1> QED BY <1>1, <1>2, <1>3, SlotsAssumption DEF NoPass, Passes, TypeOK, Videos

(* A pass of which one local variable is set within its range is a pass. *)
LEMMA Puts ==
    ASSUME NEW p \in Passes
    PROVE  /\ \A x \in Places : [p EXCEPT !.pc = x] \in Passes
           /\ \A x \in Modes : [p EXCEPT !.mode = x] \in Passes
           /\ \A x \in VideoIds \cup {0} : [p EXCEPT !.cur = x] \in Passes
           /\ \A x \in VideoIds \cup {0} : [p EXCEPT !.uid = x] \in Passes
           /\ \A x \in VideoIds \cup {0} : [p EXCEPT !.base = x] \in Passes
           /\ \A x \in Entries \cup {None} : [p EXCEPT !.prev = x] \in Passes
           /\ \A x \in Videos \cup {None} : [p EXCEPT !.info = x] \in Passes
           /\ \A x \in Rejections \cup {None} : [p EXCEPT !.rejected = x] \in Passes
           /\ \A x \in Holds : [p EXCEPT !.held = x] \in Passes
           /\ \A x \in [Slots -> Sidecars \cup {None}] : [p EXCEPT !.snaps = x] \in Passes
           /\ \A x \in Sidecars \cup {None} : [p EXCEPT !.copy = x] \in Passes
           /\ \A x \in SUBSET Slots : [p EXCEPT !.todo = x] \in Passes
           /\ \A x \in SUBSET Slots : [p EXCEPT !.consumed = x] \in Passes
           /\ \A x \in Slots \cup {None} : [p EXCEPT !.target = x] \in Passes
           /\ \A x \in Reasons : [p EXCEPT !.why = x] \in Passes
           /\ \A x \in Subs \cup {None} : [p EXCEPT !.out = x] \in Passes
           /\ \A x \in BOOLEAN : [p EXCEPT !.failed = x] \in Passes
           /\ \A x \in BOOLEAN : [p EXCEPT !.drop = x] \in Passes
           /\ \A x \in BOOLEAN : [p EXCEPT !.needs = x] \in Passes
<1>1. \A x \in Places : [p EXCEPT !.pc = x] \in Passes
      BY DEF Passes
<1>2. \A x \in Modes : [p EXCEPT !.mode = x] \in Passes
      BY DEF Passes
<1>3. \A x \in VideoIds \cup {0} : [p EXCEPT !.cur = x] \in Passes
      BY DEF Passes
<1>4. \A x \in VideoIds \cup {0} : [p EXCEPT !.uid = x] \in Passes
      BY DEF Passes
<1>5. \A x \in VideoIds \cup {0} : [p EXCEPT !.base = x] \in Passes
      BY DEF Passes
<1>6. \A x \in Entries \cup {None} : [p EXCEPT !.prev = x] \in Passes
      BY DEF Passes
<1>7. \A x \in Videos \cup {None} : [p EXCEPT !.info = x] \in Passes
      BY DEF Passes
<1>8. \A x \in Rejections \cup {None} : [p EXCEPT !.rejected = x] \in Passes
      BY DEF Passes
<1>9. \A x \in Holds : [p EXCEPT !.held = x] \in Passes
      BY DEF Passes
<1>10. \A x \in [Slots -> Sidecars \cup {None}] : [p EXCEPT !.snaps = x] \in Passes
      BY DEF Passes
<1>11. \A x \in Sidecars \cup {None} : [p EXCEPT !.copy = x] \in Passes
      BY DEF Passes
<1>12. \A x \in SUBSET Slots : [p EXCEPT !.todo = x] \in Passes
      BY DEF Passes
<1>13. \A x \in SUBSET Slots : [p EXCEPT !.consumed = x] \in Passes
      BY DEF Passes
<1>14. \A x \in Slots \cup {None} : [p EXCEPT !.target = x] \in Passes
      BY DEF Passes
<1>15. \A x \in Reasons : [p EXCEPT !.why = x] \in Passes
      BY DEF Passes
<1>16. \A x \in Subs \cup {None} : [p EXCEPT !.out = x] \in Passes
      BY DEF Passes
<1>17. \A x \in BOOLEAN : [p EXCEPT !.failed = x] \in Passes
      BY DEF Passes
<1>18. \A x \in BOOLEAN : [p EXCEPT !.drop = x] \in Passes
      BY DEF Passes
<1>19. \A x \in BOOLEAN : [p EXCEPT !.needs = x] \in Passes
      BY DEF Passes
<1> QED
      BY <1>1, <1>2, <1>3, <1>4, <1>5, <1>6, <1>7, <1>8, <1>9, <1>10,
         <1>11, <1>12, <1>13, <1>14, <1>15, <1>16, <1>17, <1>18, <1>19

(* The end of a pass, in whatever way, and a step to another place. *)
LEMMA EndDoes ==
    ASSUME TypeOK, End
    PROVE  pass' \in Passes /\ Anew({})
BY Given DEF End, Anew

LEMMA GotoDoes ==
    ASSUME TypeOK, NEW place \in Places, Goto(place)
    PROVE  pass' \in Passes /\ pass'.pc = place /\ Keeps({"pc"})
<1>1. pass' \in Passes /\ pass'.pc = place
      BY Given DEF Goto, Passes
<1>2. Keeps({"pc"})
      BY Given DEF Goto, Passes, Keeps, Fields
<1> QED BY <1>1, <1>2

LEMMA BeginDoes ==
    ASSUME TypeOK, Begin
    PROVE  /\ Still /\ pass.pc = "idle"
           /\ pass' \in Passes /\ pass'.pc = "snap" /\ pass'.cur = video.id /\ pass'.prev = entry
           /\ Anew({"pc", "cur", "prev"})
<1>1. /\ Still /\ pass.pc = "idle"
      /\ pass' = [NoPass EXCEPT !.pc = "snap", !.cur = video.id, !.prev = entry]
      BY DEF Begin, At, Private, Still
<1>2. "snap" \in Places
      BY DEF Places
<1>3. /\ pass' \in Passes /\ pass'.pc = "snap" /\ pass'.cur = video.id /\ pass'.prev = entry
      BY <1>1, <1>2, Given DEF Passes
<1>4. Anew({"pc", "cur", "prev"})
      BY <1>1, Given DEF Passes, Anew, Fields
<1> QED BY <1>1, <1>3, <1>4

LEMMA UpgradeSnapDoes ==
    ASSUME TypeOK, UpgradeSnap
    PROVE  /\ Still /\ pass.pc = "snap" /\ pass' \in Passes
           /\ \/ /\ sidecar["real"] # None /\ sidecar["real"].text # "unread"
                 /\ pass'.pc = "identify" /\ Keeps({"pc", "snaps"})
                 /\ pass'.snaps = [pass.snaps EXCEPT !["real"] = sidecar["real"]]
              \/ pass'.pc = "late" /\ Keeps({"pc"})
<1>1. Still /\ pass.pc = "snap" /\ "identify" \in Places /\ "late" \in Places
      BY DEF UpgradeSnap, At, Private, Still, Places
<1>2. CASE sidecar["real"] # None /\ sidecar["real"].text # "unread"
  <2>1. pass' = [pass EXCEPT !.snaps["real"] = sidecar["real"], !.pc = "identify"]
        BY <1>2 DEF UpgradeSnap
  <2>2. /\ pass' \in Passes /\ pass'.pc = "identify"
        /\ pass'.snaps = [pass.snaps EXCEPT !["real"] = sidecar["real"]]
        BY <1>1, <2>1, Given DEF Passes
  <2>3. Keeps({"pc", "snaps"})
        BY <2>1, Given DEF Passes, Keeps, Fields
  <2> QED BY <1>1, <1>2, <2>2, <2>3
<1>3. CASE ~(sidecar["real"] # None /\ sidecar["real"].text # "unread")
  <2>1. Goto("late")
        BY <1>3 DEF UpgradeSnap
  <2> QED BY <1>1, <2>1, GotoDoes
<1> QED BY <1>2, <1>3

LEMMA UpgradeIdentifyDoes ==
    ASSUME TypeOK, UpgradeIdentify
    PROVE  /\ Still /\ pass.pc = "identify" /\ pass' \in Passes
           /\ pass'.pc \in {"late", "probe"} /\ pass'.uid = video.id /\ Keeps({"pc", "uid"})
<1>1. Still /\ pass.pc = "identify" /\ "late" \in Places /\ "probe" \in Places
      BY DEF UpgradeIdentify, At, Private, Still, Places
<1>2. PICK place \in {"late", "probe"} : pass' = [pass EXCEPT !.uid = video.id, !.pc = place]
      BY DEF UpgradeIdentify
<1>3. pass' \in Passes /\ pass'.pc = place /\ pass'.uid = video.id
  <2>1. place \in Places /\ video.id \in VideoIds \cup {0}
        BY <1>1, Given
  <2>2. pass' \in Passes
        BY <1>2, <2>1, Given, Puts
  <2>3. pass'.pc = place /\ pass'.uid = video.id
        BY <1>2, Given DEF Passes
  <2> QED BY <2>2, <2>3
<1>4. Keeps({"pc", "uid"})
      BY <1>2, Given DEF Passes, Keeps, Fields
<1> QED BY <1>1, <1>3, <1>4

LEMMA UpgradeProbeDoes ==
    ASSUME TypeOK, UpgradeProbe
    PROVE  /\ Still /\ pass.pc = "probe" /\ pass' \in Passes
           /\ \/ pass'.pc \in {"judge", "late"} /\ pass'.info = video /\ Keeps({"pc", "info"})
              \/ pass'.pc = "late" /\ Keeps({"pc"})
<1>1. Still /\ pass.pc = "probe" /\ "judge" \in Places /\ "late" \in Places
      BY DEF UpgradeProbe, At, Private, Still, Places
<1>2. CASE Goto("late")
      BY <1>1, <1>2, GotoDoes
<1>3. CASE \E place \in {"judge", "late"} : pass' = [pass EXCEPT !.info = video, !.pc = place]
  <2>1. PICK place \in {"judge", "late"} : pass' = [pass EXCEPT !.info = video, !.pc = place]
        BY <1>3
  <2>2. pass' \in Passes /\ pass'.pc = place /\ pass'.info = video
        BY <1>1, <2>1, Given DEF Passes
  <2>3. Keeps({"pc", "info"})
        BY <2>1, Given DEF Passes, Keeps, Fields
  <2> QED BY <1>1, <2>2, <2>3
<1> QED BY <1>2, <1>3 DEF UpgradeProbe

(* A judgement of a sidecar as another text's is true of the video that it *)
(* names, if that is still there.                                          *)
LEMMA UpgradeJudgeDoes ==
    ASSUME TypeOK, PassShape, UpgradeJudge
    PROVE  /\ Still /\ pass.pc = "judge" /\ pass' \in Passes
           /\ \/ /\ English(pass.snaps["real"].text)
                 /\ pass'.pc = "sync" /\ pass'.mode = "upgrade" /\ pass'.uid = pass.uid
                 /\ pass'.info = pass.info /\ pass'.snaps = pass.snaps /\ pass'.consumed = {"real"}
                 /\ Anew({"pc", "mode", "uid", "info", "snaps", "consumed"})
              \/ /\ pass'.pc = "late" /\ pass'.rejected \in Rejections
                 /\ pass'.rejected.video = pass.uid
                 /\ pass'.rejected.side = pass.snaps["real"].id
                 /\ pass'.rejected.verdict /\ video.id = pass.uid =>
                       pass.snaps["real"].text # "right"
                 /\ Keeps({"pc", "rejected"})
              \/ pass'.pc = "late" /\ Keeps({"pc"})
<1> DEFINE side == pass.snaps["real"]
           record(verdict) == [video |-> pass.uid, side |-> side.id, verdict |-> verdict]
<1>1. /\ Still /\ pass.pc = "judge" /\ "sync" \in Places /\ "late" \in Places
      /\ "upgrade" \in Modes
      BY DEF UpgradeJudge, At, Private, Still, Places, Modes
<1>2. side \in Sidecars /\ side.text # "unread" /\ pass.uid \in VideoIds
      BY <1>1, Given DEF PassShape, Passes
<1>3. side.text \in {"right", "wrong", "foreign"} /\ side.id \in SidecarIds
      BY <1>2 DEF Sidecars, AllTexts
<1>4. PICK j \in JudgementsOf(side) \cup (IF MayFail THEN {"transient"} ELSE {}) :
         pass' = CASE j = "verified" ->
                        [NoPass EXCEPT !.pc = "sync", !.mode = "upgrade", !.uid = pass.uid,
                                       !.info = pass.info, !.snaps = pass.snaps,
                                       !.consumed = {"real"}]
                   [] j = "rejected" -> [pass EXCEPT !.rejected = record(TRUE), !.pc = "late"]
                   [] j = "undecided" -> [pass EXCEPT !.rejected = record(FALSE), !.pc = "late"]
                   [] OTHER -> [pass EXCEPT !.pc = "late"]
      BY Zenon DEF UpgradeJudge
<1>5. /\ j \in {"verified", "rejected", "undecided", "transient"}
      /\ j = "verified" => English(side.text)
      /\ j = "rejected" /\ video.id = pass.uid => side.text # "right"
      BY <1>3 DEF JudgementsOf, English
<1> HIDE DEF side
<1>6. CASE j = "verified"
  <2>1. pass' = [NoPass EXCEPT !.pc = "sync", !.mode = "upgrade", !.uid = pass.uid,
                               !.info = pass.info, !.snaps = pass.snaps, !.consumed = {"real"}]
        BY <1>4, <1>6
  <2>2. /\ pass.uid \in VideoIds \cup {0} /\ pass.info \in Videos \cup {None}
        /\ pass.snaps \in [Slots -> Sidecars \cup {None}] /\ {"real"} \in SUBSET Slots
        BY <1>2, Given DEF Passes
  <2>3. pass' \in Passes
        BY <1>1, <2>1, <2>2, Given, Puts
  <2>5. /\ pass'.pc = "sync" /\ pass'.mode = "upgrade" /\ pass'.uid = pass.uid
        /\ pass'.info = pass.info /\ pass'.snaps = pass.snaps /\ pass'.consumed = {"real"}
        BY <2>1, Given DEF Passes
  <2>6. Anew({"pc", "mode", "uid", "info", "snaps", "consumed"})
        BY <2>1, Given DEF Anew, Fields
  <2> QED BY <1>1, <1>5, <1>6, <2>3, <2>5, <2>6 DEF side
<1>7. CASE j \in {"rejected", "undecided"}
  <2>1. PICK verdict \in BOOLEAN :
            /\ pass' = [pass EXCEPT !.rejected = record(verdict), !.pc = "late"]
            /\ verdict => j = "rejected"
        BY <1>4, <1>7
  <2>2. /\ record(verdict) \in Rejections /\ record(verdict).video = pass.uid
        /\ record(verdict).side = side.id /\ record(verdict).verdict = verdict
        BY <1>2, <1>3 DEF Rejections
  <2>3. PICK r \in Rejections : r = record(verdict)
        BY <2>2
  <2> HIDE DEF record
  <2>4. pass' \in Passes /\ pass'.pc = "late" /\ pass'.rejected = r
        BY <1>1, <2>1, <2>3, Given DEF Passes
  <2>5. Keeps({"pc", "rejected"})
        BY <2>1, Given DEF Passes, Keeps, Fields
  <2> QED BY <1>1, <1>5, <2>1, <2>2, <2>3, <2>4, <2>5 DEF side
<1>8. CASE j = "transient"
  <2>1. Goto("late")
        BY <1>4, <1>8 DEF Goto
  <2> QED BY <1>1, <2>1, GotoDoes
<1> QED BY <1>5, <1>6, <1>7, <1>8

LEMMA ToSweepDoes ==
    ASSUME TypeOK, NEW info \in Videos \cup {None}, ToSweep(info)
    PROVE  /\ pass' \in Passes
           /\ pass'.pc = "sweepread" /\ pass'.mode = "sweep" /\ pass'.cur = pass.cur
           /\ pass'.info = info
           /\ \/ pass'.rejected = pass.rejected
              \/ pass.prev # None /\ pass'.rejected = pass.prev.rejected
           /\ Anew({"pc", "mode", "cur", "info", "rejected"})
<1>1. pass.prev # None => pass.prev.rejected \in Rejections \cup {None}
      BY Given DEF Passes, Entries
<1>2. PICK r \in Rejections \cup {None} : r = Remembered
      BY <1>1, Given DEF Remembered, Passes
<1>3. pass' = [NoPass EXCEPT !.pc = "sweepread", !.mode = "sweep", !.cur = pass.cur,
                             !.info = info, !.rejected = r]
      BY <1>2 DEF ToSweep
<1>4. "sweepread" \in Places /\ "sweep" \in Modes
      BY DEF Places, Modes
<1>5. pass.cur \in VideoIds \cup {0}
      BY Given DEF Passes
<1>6. pass' \in Passes
      BY <1>3, <1>4, <1>5, Given, Puts
<1>7. /\ pass'.pc = "sweepread" /\ pass'.mode = "sweep" /\ pass'.cur = pass.cur
      /\ pass'.info = info /\ pass'.rejected = r
      BY <1>3, Given DEF Passes
<1>8. Anew({"pc", "mode", "cur", "info", "rejected"})
      BY <1>3, Given DEF Passes, Anew, Fields
<1> QED BY <1>2, <1>6, <1>7, <1>8 DEF Remembered

(* An entry that a skip leaves is the one there was, with a rejection at   *)
(* most that this pass has come to.                                        *)
LEMMA SkipCachedDoes ==
    ASSUME TypeOK, SkipCached
    PROVE  /\ video' = video /\ sidecar' = sidecar /\ pass.pc = "late"
           /\ pass.prev # None /\ pass.prev.key = pass.cur
           /\ \/ entry' = entry
              \/ /\ entry' \in Entries /\ entry'.key = pass.prev.key
                 /\ pass.rejected # None /\ entry'.rejected = pass.rejected
           /\ pass' \in Passes
           /\ pass'.pc = "sweepread" /\ pass'.mode = "sweep" /\ pass'.cur = pass.cur
           /\ pass'.info = pass.info
           /\ \/ pass'.rejected = pass.rejected
              \/ pass.prev # None /\ pass'.rejected = pass.prev.rejected
           /\ Anew({"pc", "mode", "cur", "info", "rejected"})
<1>1. /\ video' = video /\ sidecar' = sidecar /\ pass.pc = "late" /\ ToSweep(pass.info)
      /\ pass.prev # None /\ pass.prev.key = pass.cur
      /\ entry' = IF pass.rejected = None THEN entry
                  ELSE [pass.prev EXCEPT !.rejected = pass.rejected]
      BY DEF SkipCached, At, CacheHit
<1>2. pass.info \in Videos \cup {None} /\ pass.prev \in Entries
      /\ pass.rejected \in Rejections \cup {None}
      BY <1>1, Given DEF Passes
<1>3. \/ entry' = entry
      \/ /\ entry' \in Entries /\ entry'.key = pass.prev.key
         /\ pass.rejected # None /\ entry'.rejected = pass.rejected
      BY <1>1, <1>2 DEF Entries
<1> QED BY <1>1, <1>2, <1>3, ToSweepDoes

LEMMA SkipTaggedDoes ==
    ASSUME TypeOK, PassShape, SkipTagged
    PROVE  /\ video' = video /\ sidecar' = sidecar /\ pass.pc = "late"
           /\ entry' \in Entries /\ entry'.key = pass.cur /\ entry'.rejected = pass.rejected
           /\ pass' \in Passes
           /\ pass'.pc = "sweepread" /\ pass'.mode = "sweep" /\ pass'.cur = pass.cur
           /\ pass'.info = Probed /\ Probed.tag
           /\ \/ pass'.rejected = pass.rejected
              \/ pass.prev # None /\ pass'.rejected = pass.prev.rejected
           /\ Anew({"pc", "mode", "cur", "info", "rejected"})
<1>1. /\ video' = video /\ sidecar' = sidecar /\ pass.pc = "late" /\ ToSweep(Probed) /\ Probed.tag
      /\ entry' = [key |-> pass.cur, status |-> "skip-tag", rejected |-> pass.rejected]
      BY DEF SkipTagged, At
<1>2. pass.cur \in VideoIds /\ pass.rejected \in Rejections \cup {None} /\ Probed \in Videos
      BY <1>1, Given DEF Passes, PassShape, Reading, Probed
<1>3. entry' \in Entries /\ entry'.key = pass.cur /\ entry'.rejected = pass.rejected
      BY <1>1, <1>2 DEF Entries
<1> QED BY <1>1, <1>2, <1>3, ToSweepDoes

LEMMA FullPassDoes ==
    ASSUME TypeOK, FullPass
    PROVE  /\ Still /\ pass.pc = "late" /\ ~Probed.tag
           /\ pass' \in Passes /\ pass'.pc = "gather" /\ pass'.info = Probed
           /\ pass'.info # None /\ Anew({"pc", "info", "todo"})
<1>1. /\ Still /\ pass.pc = "late" /\ ~Probed.tag
      /\ pass' = [NoPass EXCEPT !.pc = "gather", !.info = Probed,
                                !.todo = {s \in Slots : sidecar[s] # None}]
      BY DEF FullPass, At, Private, Still
<1>2. "gather" \in Places /\ Probed \in Videos /\ Probed # None
  <2>1. "gather" \in Places
        BY DEF Places
  <2>2. Probed \in Videos
        BY Given DEF Probed, Passes
  <2> QED BY <2>1, <2>2, NoneAssumption
<1>3. PICK todo \in SUBSET Slots :
          pass' = [NoPass EXCEPT !.pc = "gather", !.info = Probed, !.todo = todo]
      BY <1>1
<1>4. pass' \in Passes /\ pass'.pc = "gather" /\ pass'.info = Probed
      BY <1>2, <1>3, Given DEF Passes
<1>5. Anew({"pc", "info", "todo"})
      BY <1>3, Given DEF Passes, Anew, Fields
<1> QED BY <1>1, <1>2, <1>4, <1>5

LEMMA SweepReadDoes ==
    ASSUME TypeOK, SweepRead
    PROVE  /\ Still /\ pass.pc = "sweepread" /\ pass' \in Passes /\ pass'.pc = "sweep"
           /\ \A s \in Slots : pass'.snaps[s] \in {None, sidecar[s]}
           /\ \A s \in pass'.todo : s \in Slots /\ pass'.snaps[s] # None
           /\ pass'.rejected = None
           /\ pass'.held = "rejected" =>
                 /\ pass.rejected # None /\ pass.rejected.video = video.id /\ pass.rejected.verdict
                 /\ sidecar["real"] # None /\ pass.rejected.side = sidecar["real"].id
           /\ Keeps({"pc", "snaps", "todo", "rejected", "held"})
<1> DEFINE readable(s) == sidecar[s] # None /\ sidecar[s].text # "unread"
           record == pass.rejected
           held == IF ~Applies(record, video.id) THEN "none"
                   ELSE IF /\ readable("real") /\ Covers(record, video.id, sidecar["real"])
                           /\ record.verdict
                        THEN "rejected" ELSE "held"
           snaps == [s \in Slots |-> IF readable(s) THEN sidecar[s] ELSE None]
           todo == {s \in Slots : readable(s)}
<1>1. /\ Still /\ pass.pc = "sweepread"
      /\ pass' = [pass EXCEPT !.snaps = snaps, !.todo = todo, !.rejected = None, !.held = held,
                              !.pc = "sweep"]
      BY DEF SweepRead, At, Private, Still
<1>2. /\ snaps \in [Slots -> Sidecars \cup {None}] /\ todo \in SUBSET Slots
      /\ \A s \in Slots : snaps[s] \in {None, sidecar[s]}
      /\ \A s \in todo : s \in Slots /\ snaps[s] # None
      BY Given
<1>3. /\ held = "rejected" =>
            /\ pass.rejected # None /\ pass.rejected.video = video.id /\ pass.rejected.verdict
            /\ sidecar["real"] # None /\ pass.rejected.side = sidecar["real"].id
      /\ held \in Holds
      BY DEF Applies, Covers, Holds
<1>4. "sweep" \in Places
      BY DEF Places
<1> HIDE DEF readable, record, held, snaps, todo
<1>5. pass' \in Passes
      BY <1>1, <1>2, <1>3, <1>4, Given, Puts
<1>6. /\ pass'.pc = "sweep" /\ pass'.snaps = snaps /\ pass'.todo = todo /\ pass'.rejected = None
      /\ pass'.held = held
      BY <1>1, Given DEF Passes
<1>7. Keeps({"pc", "snaps", "todo", "rejected", "held"})
      BY <1>1, Given DEF Keeps, Fields
<1> QED BY <1>1, <1>2, <1>3, <1>5, <1>6, <1>7

LEMMA ProbedIs ==
    ASSUME TypeOK
    PROVE  Probed \in Videos /\ Probed # None
<1>1. Probed \in Videos
      BY Given DEF Probed, Passes
<1> QED BY <1>1, NoneAssumption

LEMMA SweepJudgeDoes ==
    ASSUME TypeOK, NEW s \in Slots, SweepJudge(s)
    PROVE  /\ Still /\ pass.pc = "sweep" /\ pass' \in Passes /\ pass'.info = Probed
           /\ \/ /\ pass'.pc = "recheck" /\ pass'.target = s /\ s \in pass.todo
                 /\ pass'.why = SweepVerdict(s) /\ pass'.why # "keep"
                 /\ Keeps({"pc", "info", "target", "why"})
              \/ pass'.todo \subseteq pass.todo /\ Keeps({"info", "todo"})
<1>1. Still /\ pass.pc = "sweep" /\ s \in pass.todo /\ "recheck" \in Places
      BY DEF SweepJudge, At, Private, Still, Places
<1>2. CASE /\ SweepVerdict(s) # "keep"
           /\ pass' = [pass EXCEPT !.info = Probed, !.target = s, !.why = SweepVerdict(s),
                                   !.pc = "recheck"]
  <2>1. SweepVerdict(s) \in Reasons
        BY <1>2 DEF SweepVerdict, Reasons
  <2>2. pass' \in Passes
        BY <1>1, <1>2, <2>1, Given, ProbedIs, Puts
  <2>3. /\ pass'.pc = "recheck" /\ pass'.info = Probed /\ pass'.target = s
        /\ pass'.why = SweepVerdict(s)
        BY <1>2, Given DEF Passes
  <2>4. Keeps({"pc", "info", "target", "why"})
        BY <1>2, Given DEF Keeps, Fields
  <2> QED BY <1>1, <1>2, <2>2, <2>3, <2>4
<1>3. CASE pass' = [pass EXCEPT !.info = Probed, !.todo = @ \ {s}]
  <2>1. pass.todo \ {s} \in SUBSET Slots
        BY Given DEF Passes
  <2>2. pass' = [pass EXCEPT !.info = Probed, !.todo = pass.todo \ {s}]
        BY <1>3
  <2>3. pass' \in Passes
        BY <2>1, <2>2, Given, ProbedIs, Puts
  <2>4. pass'.info = Probed /\ pass'.todo = pass.todo \ {s}
        BY <2>2, Given DEF Passes
  <2>5. Keeps({"info", "todo"})
        BY <2>2, Given DEF Keeps, Fields
  <2> QED BY <1>1, <2>3, <2>4, <2>5
<1> QED BY <1>2, <1>3 DEF SweepJudge

LEMMA SweepRecheckDoes ==
    ASSUME TypeOK, SweepRecheck
    PROVE  /\ Still /\ pass.pc = "recheck" /\ pass' \in Passes
           /\ \/ video.id = pass.cur /\ pass'.pc = "copy" /\ Keeps({"pc"})
              \/ Anew({})
<1>1. /\ Still /\ pass.pc = "recheck" /\ "copy" \in Places
      /\ IF video.id = pass.cur THEN Goto("copy") ELSE End
      BY DEF SweepRecheck, At, Private, Still, Places
<1> QED BY <1>1, GotoDoes, EndDoes

(* A sidecar that has been dealt with, in quarantine or not. *)
LEMMA NextTargetDoes ==
    ASSUME TypeOK, PassShape, pass.pc \in Moving, pass' = NextTarget
    PROVE  /\ pass' \in Passes
           /\ pass.mode = "sweep" => pass'.pc = "sweep"
           /\ pass.mode = "full" => pass'.pc = "gather"
           /\ pass'.todo = pass.todo \ {pass.target}
           /\ Keeps({"pc", "todo", "copy"})
<1>1. PICK place \in {"sweep", "gather"} :
          /\ place = Resume
          /\ pass.mode = "sweep" => place = "sweep"
          /\ pass.mode = "full" => place = "gather"
      BY DEF Resume
<1>2. pass' = [pass EXCEPT !.pc = place, !.todo = pass.todo \ {pass.target}, !.copy = None]
      BY <1>1 DEF NextTarget
<1>3. PICK todo \in SUBSET Slots : todo = pass.todo \ {pass.target}
      BY Given DEF Passes
<1>4. pass' \in Passes
  <2>1. place \in Places /\ None \in Sidecars \cup {None}
        BY DEF Places
  <2>2. PICK p \in Passes : p = [pass EXCEPT !.pc = place, !.todo = todo]
        BY <2>1, Given, Puts
  <2>3. pass' = [p EXCEPT !.copy = None]
        BY <1>2, <1>3, <2>2
  <2> QED BY <2>1, <2>3, Puts
<1>5. pass'.pc = place /\ pass'.todo = pass.todo \ {pass.target}
      BY <1>2, Given DEF Passes
<1>6. Keeps({"pc", "todo", "copy"})
      BY <1>2, Given DEF Keeps, Fields
<1> QED BY <1>1, <1>4, <1>5, <1>6

LEMMA QuarantineCopyDoes ==
    ASSUME TypeOK, PassShape, QuarantineCopy
    PROVE  /\ Still /\ pass.pc = "copy" /\ pass' \in Passes
           /\ \/ /\ pass'.pc = "verify" /\ pass'.copy = pass.snaps[pass.target]
                 /\ Keeps({"pc", "copy"})
              \/ pass' = NextTarget
<1>1. Still /\ pass.pc = "copy" /\ "verify" \in Places
      BY DEF QuarantineCopy, At, Private, Still, Places
<1>2. CASE pass' = NextTarget
      BY <1>1, <1>2, NextTargetDoes DEF Moving
<1>3. CASE pass' = [pass EXCEPT !.copy = pass.snaps[pass.target], !.pc = "verify"]
  <2>1. pass.snaps[pass.target] \in Sidecars \cup {None}
        BY <1>1, Given DEF Passes, PassShape, Moving
  <2>2. pass' \in Passes
        BY <1>1, <1>3, <2>1, Given, Puts
  <2>3. pass'.pc = "verify" /\ pass'.copy = pass.snaps[pass.target]
        BY <1>3, Given DEF Passes
  <2>4. Keeps({"pc", "copy"})
        BY <1>3, Given DEF Keeps, Fields
  <2> QED BY <1>1, <2>2, <2>3, <2>4
<1> QED BY <1>2, <1>3 DEF QuarantineCopy

LEMMA QuarantineVerifyDoes ==
    ASSUME TypeOK, PassShape, QuarantineVerify
    PROVE  /\ Still /\ pass.pc = "verify" /\ pass' \in Passes
           /\ \/ /\ sidecar[pass.target] = pass.copy
                 /\ pass'.pc = "unlink" /\ Keeps({"pc"})
              \/ pass' = NextTarget
<1>1. /\ Still /\ pass.pc = "verify" /\ "unlink" \in Places
      /\ IF sidecar[pass.target] = pass.copy THEN Goto("unlink") ELSE pass' = NextTarget
      BY DEF QuarantineVerify, At, Private, Still, Places
<1> QED BY <1>1, GotoDoes, NextTargetDoes DEF Moving

LEMMA QuarantineUnlinkDoes ==
    ASSUME TypeOK, PassShape, QuarantineUnlink
    PROVE  /\ video' = video /\ entry' = entry
           /\ pass.pc = "unlink" /\ pass' \in Passes
           /\ sidecar' = [sidecar EXCEPT ![pass.target] = None]
           /\ pass' = NextTarget
BY NextTargetDoes DEF QuarantineUnlink, At, Moving

LEMMA GatherDoes ==
    ASSUME TypeOK, NEW s \in Slots, Gather(s)
    PROVE  /\ Still /\ pass.pc = "gather" /\ pass' \in Passes
           /\ \/ /\ pass'.pc = "gather" /\ pass'.todo = pass.todo \ {s}
                 /\ Keeps({"todo", "failed"})
              \/ /\ sidecar[s] # None /\ sidecar[s].text = "foreign"
                 /\ pass'.pc = "copy" /\ pass'.target = s /\ pass'.why = "foreign"
                 /\ pass'.snaps = [pass.snaps EXCEPT ![s] = sidecar[s]]
                 /\ Keeps({"pc", "target", "why", "snaps"})
              \/ /\ sidecar[s] # None /\ English(sidecar[s].text)
                 /\ pass'.pc = "gather" /\ pass'.todo = pass.todo \ {s}
                 /\ pass'.snaps = [pass.snaps EXCEPT ![s] = sidecar[s]]
                 /\ pass'.consumed \subseteq pass.consumed \cup {s}
                 /\ Keeps({"todo", "failed", "snaps", "consumed"})
<1> DEFINE side == sidecar[s]
           skip(failed) == [pass EXCEPT !.todo = @ \ {s}, !.failed = @ \/ failed]
<1>1. Still /\ pass.pc = "gather" /\ s \in pass.todo
      BY DEF Gather, At, Private, Still
<1>2. ASSUME NEW failed \in BOOLEAN, NEW q, q = skip(failed)
      PROVE  /\ q \in Passes /\ q.pc = pass.pc
             /\ \A f \in Fields \ {"todo", "failed"} : q[f] = pass[f]
             /\ q.snaps = pass.snaps /\ q.consumed = pass.consumed /\ q.todo = pass.todo \ {s}
  <2>1. PICK b \in BOOLEAN, t \in SUBSET Slots :
            q = [pass EXCEPT !.todo = t, !.failed = b] /\ t = pass.todo \ {s}
    <3>1. pass.todo \ {s} \in SUBSET Slots /\ (pass.failed \/ failed) \in BOOLEAN
          BY <1>2, Given DEF Passes
    <3> QED BY <1>2, <3>1
  <2>2. q \in Passes
        BY <2>1, Given, Puts
  <2>3. \A f \in Fields \ {"todo", "failed"} : q[f] = pass[f]
        BY <2>1, Given
  <2>4. q.todo = pass.todo \ {s}
        BY <2>1, Given DEF Passes
  <2> QED BY <2>2, <2>3, <2>4 DEF Fields
<1>3. CASE pass' = skip(TRUE)
  <2>1. /\ pass' \in Passes /\ pass'.pc = pass.pc /\ pass'.todo = pass.todo \ {s}
        /\ \A f \in Fields \ {"todo", "failed"} : pass'[f] = pass[f]
        BY <1>2, <1>3, Zenon
  <2> QED BY <1>1, <2>1 DEF Keeps
<1>4. CASE /\ side # None /\ side.text = "foreign"
           /\ pass' = [pass EXCEPT !.snaps[s] = side, !.target = s, !.why = "foreign", !.pc = "copy"]
  <2>1. [pass.snaps EXCEPT ![s] = side] \in [Slots -> Sidecars \cup {None}]
        BY Given DEF Passes
  <2>2. "copy" \in Places /\ "foreign" \in Reasons
        BY DEF Places, Reasons
  <2>3. pass' = [pass EXCEPT !.snaps = [pass.snaps EXCEPT ![s] = side], !.target = s,
                             !.why = "foreign", !.pc = "copy"]
        BY <1>4
  <2>4. pass' \in Passes
        BY <2>1, <2>2, <2>3, Given, Puts
  <2>5. /\ pass'.pc = "copy" /\ pass'.target = s /\ pass'.why = "foreign"
        /\ pass'.snaps = [pass.snaps EXCEPT ![s] = sidecar[s]]
        BY <2>3, Given DEF Passes
  <2>6. Keeps({"pc", "target", "why", "snaps"})
        BY <2>3, Given DEF Keeps, Fields
  <2> QED BY <1>1, <1>4, <2>4, <2>5, <2>6
<1>5. CASE /\ side # None /\ side.text # "unread" /\ side.text # "foreign"
           /\ pass' = [skip(FALSE) EXCEPT
                         !.snaps[s] = side,
                         !.consumed = IF s = "forced" /\ pass.info.forced
                                      THEN @ ELSE @ \cup {s}]
  <2>1. PICK q : q = skip(FALSE)
        OBVIOUS
  <2>2. /\ q \in Passes /\ q.pc = pass.pc /\ \A f \in Fields \ {"todo", "failed"} : q[f] = pass[f]
        /\ q.snaps = pass.snaps /\ q.consumed = pass.consumed /\ q.todo = pass.todo \ {s}
        BY <1>2, <2>1
  <2>3. PICK c \in SUBSET Slots :
            /\ c = IF s = "forced" /\ pass.info.forced
                   THEN pass.consumed ELSE pass.consumed \cup {s}
            /\ pass' = [q EXCEPT !.snaps = [pass.snaps EXCEPT ![s] = side], !.consumed = c]
    <3>1. (IF s = "forced" /\ pass.info.forced THEN pass.consumed ELSE pass.consumed \cup {s})
             \in SUBSET Slots
          BY Given DEF Passes
    <3>2. pass' = [q EXCEPT !.snaps = [pass.snaps EXCEPT ![s] = side],
                            !.consumed = IF s = "forced" /\ pass.info.forced
                                         THEN pass.consumed ELSE pass.consumed \cup {s}]
          BY <1>5, <2>1, <2>2
    <3> QED BY <3>1, <3>2
  <2>4. /\ [pass.snaps EXCEPT ![s] = side] \in [Slots -> Sidecars \cup {None}]
        /\ English(side.text)
        BY <1>5, Given DEF Passes, English, Sidecars, AllTexts
  <2>5. pass' \in Passes
        BY <2>2, <2>3, <2>4, Puts
  <2>6. /\ DOMAIN q = Fields /\ pass'.consumed = c /\ pass'.todo = q.todo
        /\ pass'.snaps = [pass.snaps EXCEPT ![s] = sidecar[s]] /\ pass'.pc = q.pc
        BY <2>2, <2>3 DEF Passes, Fields
  <2>7. Keeps({"todo", "failed", "snaps", "consumed"})
        BY <2>2, <2>3, <2>6 DEF Keeps
  <2> QED BY <1>1, <1>5, <2>2, <2>3, <2>4, <2>5, <2>6, <2>7
<1> QED BY <1>3, <1>4, <1>5 DEF Gather

LEMMA PickDoes ==
    ASSUME TypeOK, Pick
    PROVE  /\ Still /\ pass.pc = "gather" /\ pass' \in Passes /\ pass'.pc = "sync"
           /\ pass'.out \in {"gen", "main"}
           /\ "real" \in pass.consumed => pass'.out = "main"
           /\ ~MayFail /\ video.sub = "main" /\ pass.info = video => pass'.out = "main"
           /\ Keeps({"pc", "out"})
<1>1. Still /\ pass.pc = "gather" /\ "sync" \in Places
      BY DEF Pick, At, Private, Still, Places
<1>2. PICK candidates \in {Candidates} \cup (IF MayFail THEN {FromSidecars} ELSE {}) :
          pass' = [pass EXCEPT !.out = Best(candidates), !.pc = "sync"]
      BY DEF Pick
<1>3. PICK out \in Subs \cup {None} : out = Best(candidates) /\ out \in {"gen", "main"}
      BY DEF Best, Subs
<1>4. pass' = [pass EXCEPT !.out = out, !.pc = "sync"]
      BY <1>2, <1>3
<1>5. pass' \in Passes
      BY <1>1, <1>4, Given, Puts
<1>6. pass'.pc = "sync" /\ pass'.out = out
      BY <1>4, Given DEF Passes
<1>7. Keeps({"pc", "out"})
      BY <1>4, Given DEF Keeps, Fields
<1>8. "real" \in pass.consumed => out = "main"
  <2>1. "real" \in pass.consumed => "main" \in FromSidecars
        BY DEF FromSidecars, Mains
  <2>2. "real" \in pass.consumed => "main" \in candidates
        BY <2>1 DEF Candidates
  <2> QED BY <1>3, <2>2 DEF Best
<1>9. ~MayFail /\ video.sub = "main" /\ pass.info = video => out = "main"
  <2>1. video.sub = "main" /\ pass.info = video => "main" \in Candidates
        BY DEF Candidates, Embedded, HasEnglish
  <2> QED BY <1>3, <2>1 DEF Best
<1> QED BY <1>1, <1>3, <1>5, <1>6, <1>7, <1>8, <1>9

LEMMA NoEnglishDoes ==
    ASSUME TypeOK, NoEnglish
    PROVE  /\ Still /\ pass.pc = "gather" /\ pass' \in Passes /\ pass'.pc = "cleanup"
           /\ pass'.consumed = {} /\ (pass'.drop => video.sub = "fake")
           /\ Keeps({"pc", "needs", "drop", "consumed"})
<1>1. Still /\ pass.pc = "gather" /\ "cleanup" \in Places
      BY DEF NoEnglish, At, Private, Still, Places
<1>2. PICK extracted \in BOOLEAN :
          LET tagged == pass.info.sub # "none"
              foreign == tagged /\ extracted /\ video.sub = "fake"
              onlyForced == /\ ~tagged
                            /\ \A s \in Slots \ {"forced"} : pass.snaps[s] = None
                            /\ pass.info.forced \/ "forced" \in pass.consumed
          IN  pass' = [pass EXCEPT
                         !.needs = ~(pass.failed \/ (tagged /\ ~foreign) \/ onlyForced),
                         !.drop = foreign, !.consumed = {}, !.pc = "cleanup"]
      BY Zenon DEF NoEnglish
<1>3. PICK needs \in BOOLEAN, drop \in BOOLEAN :
          /\ pass' = [pass EXCEPT !.needs = needs, !.drop = drop, !.consumed = {}, !.pc = "cleanup"]
          /\ drop => video.sub = "fake"
      BY <1>2
<1>4. pass' \in Passes
      BY <1>1, <1>3, Given, Puts
<1>5. pass'.pc = "cleanup" /\ pass'.consumed = {} /\ pass'.drop = drop
      BY <1>3, Given DEF Passes
<1>6. Keeps({"pc", "needs", "drop", "consumed"})
      BY <1>3, Given DEF Keeps, Fields
<1> QED BY <1>1, <1>3, <1>4, <1>5, <1>6

LEMMA CleanupNothingDoes ==
    ASSUME TypeOK, CleanupNothing
    PROVE  /\ Still /\ pass.pc = "cleanup" /\ pass' \in Passes
           /\ (pass'.pc = "track" /\ Keeps({"pc"})) \/ Anew({})
<1>1. /\ Still /\ pass.pc = "cleanup" /\ "track" \in Places
      /\ IF pass.needs THEN Goto("track") ELSE End
      BY DEF CleanupNothing, At, Private, Still, Places
<1> QED BY <1>1, GotoDoes, EndDoes

LEMMA CleanupRemuxDoes ==
    ASSUME TypeOK, CleanupRemux
    PROVE  /\ Still /\ pass.pc = "cleanup" /\ pass' \in Passes
           /\ \/ /\ pass'.pc = "swap" /\ pass'.mode = "cleanup" /\ pass'.out # None
                 /\ pass'.out = video.sub \/ pass.drop
                 /\ Keeps({"pc", "mode", "out", "base"})
              \/ Anew({})
<1>1. Still /\ pass.pc = "cleanup" /\ "swap" \in Places /\ "cleanup" \in Modes
      BY DEF CleanupRemux, At, Private, Still, Places, Modes
<1>2. CASE End
      BY <1>1, <1>2, EndDoes
<1>3. CASE pass' = [pass EXCEPT !.out = IF pass.drop THEN "none" ELSE video.sub,
                                !.base = video.id, !.mode = "cleanup", !.pc = "swap"]
  <2>1. PICK out \in Subs \cup {None} :
            /\ out # None /\ (out = video.sub \/ pass.drop)
            /\ pass' = [pass EXCEPT !.out = out, !.base = video.id, !.mode = "cleanup",
                                    !.pc = "swap"]
    <3>1. PICK out \in Subs : out = IF pass.drop THEN "none" ELSE video.sub
          BY Given DEF Videos, Subs
    <3> QED BY <1>3, <3>1, NoneAssumption DEF Subs
  <2>2. pass' \in Passes
        BY <1>1, <2>1, Given, Puts
  <2>3. pass'.pc = "swap" /\ pass'.mode = "cleanup" /\ pass'.out = out
        BY <2>1, Given DEF Passes
  <2>4. Keeps({"pc", "mode", "out", "base"})
        BY <2>1, Given DEF Keeps, Fields
  <2> QED BY <1>1, <2>1, <2>2, <2>3, <2>4
<1> QED BY <1>2, <1>3 DEF CleanupRemux

LEMMA RemuxDoes ==
    ASSUME TypeOK, Remux
    PROVE  /\ Still /\ pass.pc = "sync" /\ pass' \in Passes
           /\ \/ /\ pass'.pc = "muxed"
                 /\ pass'.out = IF pass.mode = "upgrade" THEN "main" ELSE pass.out
                 /\ Keeps({"pc", "out", "base"})
              \/ Anew({})
<1>1. Still /\ pass.pc = "sync" /\ "muxed" \in Places
      BY DEF Remux, At, Private, Still, Places
<1>2. CASE End
      BY <1>1, <1>2, EndDoes
<1>3. CASE pass' = [pass EXCEPT !.out = IF pass.mode = "upgrade" THEN "main" ELSE @,
                                !.base = video.id, !.pc = "muxed"]
  <2>1. PICK out \in Subs \cup {None} : out = IF pass.mode = "upgrade" THEN "main" ELSE pass.out
    <3>1. "main" \in Subs \cup {None} /\ pass.out \in Subs \cup {None}
          BY Given DEF Passes, Subs
    <3> QED BY <3>1
  <2>2. pass' = [pass EXCEPT !.out = out, !.base = video.id, !.pc = "muxed"]
        BY <1>3, <2>1
  <2>3. pass' \in Passes
        BY <1>1, <2>2, Given, Puts
  <2>4. pass'.pc = "muxed" /\ pass'.out = out
        BY <2>2, Given DEF Passes
  <2>5. Keeps({"pc", "out", "base"})
        BY <2>2, Given DEF Keeps, Fields
  <2> QED BY <1>1, <2>1, <2>3, <2>4, <2>5
<1> QED BY <1>2, <1>3 DEF Remux

LEMMA SwapCheckDoes ==
    ASSUME TypeOK, SwapCheck
    PROVE  /\ Still /\ pass.pc = "muxed" /\ pass' \in Passes
           /\ \/ pass'.pc = "swap" /\ Keeps({"pc"}) /\ (pass.mode = "upgrade" => video.id = pass.uid)
              \/ Anew({})
<1>1. /\ Still /\ pass.pc = "muxed" /\ "swap" \in Places
      /\ IF pass.mode = "upgrade" /\ video.id # pass.uid THEN End ELSE Goto("swap")
      BY DEF SwapCheck, At, Private, Still, Places
<1> QED BY <1>1, GotoDoes, EndDoes

(* A changed file. *)
LEMMA ChangedIs ==
    ASSUME NEW v \in Videos
    PROVE  /\ Changed(v) \in Videos /\ Changed(v).id = FreshVideo /\ Changed(v).sub = v.sub
           /\ Changed(v).forced = v.forced /\ Changed(v).tag = v.tag
BY FreshVideoIsFresh DEF Changed, Videos

LEMMA SwapDoes ==
    ASSUME TypeOK, PassShape, Swap
    PROVE  /\ sidecar' = sidecar /\ entry' = entry /\ pass.pc = "swap" /\ pass' \in Passes
           /\ \/ /\ video' \in Videos /\ video'.id = FreshVideo /\ video'.sub = pass.out
                 /\ video'.forced = (pass.info.forced \/ "forced" \in pass.consumed)
                 /\ video'.tag => pass.mode # "full" /\ pass.info.tag
                 /\ pass.mode = "cleanup" => pass'.pc \in {"track", "idle"} /\ Anew({"pc"})
                 /\ pass.mode # "cleanup" =>
                       /\ pass'.pc = "tag" /\ pass'.mode = pass.mode /\ pass'.snaps = pass.snaps
                       /\ pass'.consumed = pass.consumed
                       /\ Anew({"pc", "mode", "snaps", "consumed"})
              \/ video' = video /\ Anew({})
<1>1. sidecar' = sidecar /\ entry' = entry /\ pass.pc = "swap"
      BY DEF Swap, At
<1>2. CASE End /\ UNCHANGED video
      BY <1>1, <1>2, EndDoes
<1>3. ASSUME video' = [Changed(video) EXCEPT
                         !.sub = pass.out,
                         !.forced = pass.info.forced \/ "forced" \in pass.consumed,
                         !.alien = FALSE,
                         !.tag = pass.mode # "full" /\ pass.info.tag],
             pass' = IF pass.mode = "cleanup"
                     THEN [NoPass EXCEPT !.pc = IF pass.needs THEN "track" ELSE "idle"]
                     ELSE [NoPass EXCEPT !.pc = "tag", !.mode = pass.mode,
                                         !.snaps = pass.snaps, !.consumed = pass.consumed]
      PROVE  /\ video' \in Videos /\ video'.id = FreshVideo /\ video'.sub = pass.out
             /\ video'.forced = (pass.info.forced \/ "forced" \in pass.consumed)
             /\ video'.tag => pass.mode # "full" /\ pass.info.tag
             /\ pass.mode = "cleanup" => pass'.pc \in {"track", "idle"} /\ Anew({"pc"})
             /\ pass.mode # "cleanup" =>
                   /\ pass'.pc = "tag" /\ pass'.mode = pass.mode /\ pass'.snaps = pass.snaps
                   /\ pass'.consumed = pass.consumed
                   /\ Anew({"pc", "mode", "snaps", "consumed"})
             /\ pass' \in Passes
  <2>1. pass.info \in Videos /\ pass.out \in Subs
        BY <1>1, Given DEF PassShape, Passes
  <2>2. PICK forced \in BOOLEAN, tag \in BOOLEAN :
            /\ forced = (pass.info.forced \/ "forced" \in pass.consumed)
            /\ tag = (pass.mode # "full" /\ pass.info.tag)
        BY <2>1 DEF Videos
  <2>3. video' = [Changed(video) EXCEPT !.sub = pass.out, !.forced = forced, !.alien = FALSE,
                                        !.tag = tag]
        BY <1>3, <2>2
  <2>4. /\ video' \in Videos /\ video'.id = FreshVideo /\ video'.sub = pass.out
        /\ video'.forced = forced /\ video'.tag = tag
        BY <2>1, <2>3, Given, ChangedIs DEF Videos
  <2>5. CASE pass.mode = "cleanup"
    <3>1. PICK place \in {"track", "idle"} : pass' = [NoPass EXCEPT !.pc = place]
          BY <1>3, <2>5
    <3>2. place \in Places
          BY DEF Places
    <3>3. pass' \in Passes /\ pass'.pc = place
          BY <3>1, <3>2, Given DEF Passes
    <3>4. Anew({"pc"})
          BY <3>1, Given DEF Anew, Fields
    <3> QED BY <2>2, <2>4, <2>5, <3>3, <3>4
  <2>6. CASE pass.mode # "cleanup"
    <3>1. pass' = [NoPass EXCEPT !.pc = "tag", !.mode = pass.mode, !.snaps = pass.snaps,
                                 !.consumed = pass.consumed]
          BY <1>3, <2>6
    <3>2. /\ "tag" \in Places /\ pass.mode \in Modes /\ pass.consumed \in SUBSET Slots
          /\ pass.snaps \in [Slots -> Sidecars \cup {None}]
      <4>1. "tag" \in Places
            BY DEF Places
      <4> QED BY <4>1, Given DEF Passes
    <3>3. pass' \in Passes
          BY <3>1, <3>2, Given, Puts
    <3>4. /\ pass'.pc = "tag" /\ pass'.mode = pass.mode /\ pass'.snaps = pass.snaps
          /\ pass'.consumed = pass.consumed
          BY <3>1, Given DEF Passes
    <3>5. Anew({"pc", "mode", "snaps", "consumed"})
          BY <3>1, Given DEF Anew, Fields
    <3> QED BY <2>2, <2>4, <2>6, <3>3, <3>4, <3>5
  <2> QED BY <2>5, <2>6
<1> QED BY <1>1, <1>2, <1>3 DEF Swap

LEMMA TagDoes ==
    ASSUME TypeOK, Tag
    PROVE  /\ sidecar' = sidecar /\ entry' = entry /\ pass.pc = "tag" /\ pass' \in Passes
           /\ \/ /\ video' \in Videos /\ video'.id = FreshVideo /\ video'.sub = video.sub
                 /\ video'.forced = video.forced
              \/ video' = video
           /\ \/ /\ pass'.pc = "delete" /\ pass'.todo = pass.consumed /\ pass.mode = "upgrade"
                 /\ Keeps({"pc", "todo"})
              \/ pass'.pc = "normalize" /\ pass.mode # "upgrade" /\ Keeps({"pc"})
<1>1. /\ sidecar' = sidecar /\ entry' = entry /\ pass.pc = "tag"
      /\ "delete" \in Places /\ "normalize" \in Places
      BY DEF Tag, At, Places
<1>2. \/ /\ video' \in Videos /\ video'.id = FreshVideo /\ video'.sub = video.sub
         /\ video'.forced = video.forced
      \/ video' = video
  <2>1. CASE video' = [Changed(video) EXCEPT !.tag = TRUE]
        BY <2>1, Given, ChangedIs DEF Videos
  <2> QED BY <2>1 DEF Tag
<1>3. CASE pass.mode = "upgrade"
  <2>1. pass' = [pass EXCEPT !.pc = "delete", !.todo = pass.consumed]
        BY <1>3 DEF Tag
  <2>2. pass.consumed \in SUBSET Slots
        BY Given DEF Passes
  <2>3. pass' \in Passes
        BY <1>1, <2>1, <2>2, Given, Puts
  <2>4. pass'.pc = "delete" /\ pass'.todo = pass.consumed
        BY <2>1, Given DEF Passes
  <2>5. Keeps({"pc", "todo"})
        BY <2>1, Given DEF Keeps, Fields
  <2> QED BY <1>1, <1>2, <1>3, <2>3, <2>4, <2>5
<1>4. CASE pass.mode # "upgrade"
  <2>1. Goto("normalize")
        BY <1>4 DEF Tag
  <2> QED BY <1>1, <1>2, <1>4, <2>1, GotoDoes
<1> QED BY <1>3, <1>4

LEMMA NormalizeStartDoes ==
    ASSUME TypeOK, NormalizeStart
    PROVE  /\ Still /\ pass.pc = "normalize" /\ pass' \in Passes /\ pass'.pc = "normalizing"
           /\ pass'.info = video /\ Keeps({"pc", "info"})
<1>1. /\ Still /\ pass.pc = "normalize" /\ "normalizing" \in Places
      /\ pass' = [pass EXCEPT !.info = video, !.pc = "normalizing"]
      BY DEF NormalizeStart, At, Private, Still, Places
<1>2. pass' \in Passes
      BY <1>1, Given, Puts
<1>3. pass'.pc = "normalizing" /\ pass'.info = video
      BY <1>1, Given DEF Passes
<1>4. Keeps({"pc", "info"})
      BY <1>1, Given DEF Keeps, Fields
<1> QED BY <1>1, <1>2, <1>3, <1>4

LEMMA NormalizeEndDoes ==
    ASSUME TypeOK, PassShape, NormalizeEnd
    PROVE  /\ sidecar' = sidecar /\ entry' = entry /\ pass.pc = "normalizing" /\ pass' \in Passes
           /\ \/ /\ video' \in Videos /\ video'.id = FreshVideo /\ video'.sub = pass.info.sub
                 /\ video'.forced = pass.info.forced
              \/ video' = video
           /\ pass'.pc = "delete" /\ pass'.todo = pass.consumed
           /\ Keeps({"pc", "info", "todo"})
<1>1. /\ sidecar' = sidecar /\ entry' = entry /\ pass.pc = "normalizing" /\ "delete" \in Places
      /\ video' \in {video, Changed(pass.info)}
      /\ pass' = [pass EXCEPT !.pc = "delete", !.info = None, !.todo = pass.consumed]
      BY DEF NormalizeEnd, At, Places
<1>2. pass.info \in Videos /\ pass.consumed \in SUBSET Slots
      BY <1>1, Given DEF PassShape, Passes
<1>3. pass' \in Passes
  <2>1. PICK p \in Passes : p = [pass EXCEPT !.pc = "delete", !.info = None]
        BY <1>1, Given, Puts
  <2>2. pass' = [p EXCEPT !.todo = pass.consumed]
        BY <1>1, <2>1
  <2> QED BY <1>2, <2>2, Puts
<1>4. pass'.pc = "delete" /\ pass'.todo = pass.consumed
      BY <1>1, Given DEF Passes
<1>5. Keeps({"pc", "info", "todo"})
      BY <1>1, Given DEF Keeps, Fields
<1> QED BY <1>1, <1>2, <1>3, <1>4, <1>5, ChangedIs

LEMMA DeleteCheckDoes ==
    ASSUME TypeOK, NEW s \in Slots, DeleteCheck(s)
    PROVE  /\ Still /\ pass.pc = "delete" /\ s \in pass.todo /\ pass' \in Passes
           /\ \/ /\ sidecar[s] = pass.snaps[s] /\ pass'.pc = "drop" /\ pass'.target = s
                 /\ Keeps({"pc", "target"})
              \/ pass'.todo = pass.todo \ {s} /\ Keeps({"todo"})
<1>1. Still /\ pass.pc = "delete" /\ s \in pass.todo /\ "drop" \in Places
      BY DEF DeleteCheck, At, Private, Still, Places
<1>2. CASE sidecar[s] = pass.snaps[s]
  <2>1. pass' = [pass EXCEPT !.target = s, !.pc = "drop"]
        BY <1>2 DEF DeleteCheck
  <2>2. pass' \in Passes
        BY <1>1, <2>1, Given, Puts
  <2>3. pass'.pc = "drop" /\ pass'.target = s
        BY <2>1, Given DEF Passes
  <2>4. Keeps({"pc", "target"})
        BY <2>1, Given DEF Keeps, Fields
  <2> QED BY <1>1, <1>2, <2>2, <2>3, <2>4
<1>3. CASE sidecar[s] # pass.snaps[s]
  <2>1. PICK todo \in SUBSET Slots :
            todo = pass.todo \ {s} /\ pass' = [pass EXCEPT !.todo = todo]
    <3>1. pass' = [pass EXCEPT !.todo = pass.todo \ {s}]
          BY <1>3 DEF DeleteCheck
    <3> QED BY <3>1, Given DEF Passes
  <2>2. pass' \in Passes
        BY <2>1, Given, Puts
  <2>3. pass'.todo = todo
        BY <2>1, Given DEF Passes
  <2>4. Keeps({"todo"})
        BY <2>1, Given DEF Keeps, Fields
  <2> QED BY <1>1, <2>1, <2>2, <2>3, <2>4
<1> QED BY <1>2, <1>3

LEMMA DeleteUnlinkDoes ==
    ASSUME TypeOK, DeleteUnlink
    PROVE  /\ video' = video /\ entry' = entry /\ pass.pc = "drop" /\ pass' \in Passes
           /\ sidecar' = [sidecar EXCEPT ![pass.target] = None]
           /\ pass'.pc = "delete" /\ pass'.todo = pass.todo \ {pass.target}
           /\ Keeps({"pc", "todo"})
<1>1. /\ video' = video /\ entry' = entry /\ pass.pc = "drop" /\ "delete" \in Places
      /\ sidecar' = [sidecar EXCEPT ![pass.target] = None]
      /\ pass' = [pass EXCEPT !.pc = "delete", !.todo = pass.todo \ {pass.target}]
      BY DEF DeleteUnlink, At, Places
<1>2. PICK todo \in SUBSET Slots : todo = pass.todo \ {pass.target}
      BY Given DEF Passes
<1>3. pass' = [pass EXCEPT !.pc = "delete", !.todo = todo]
      BY <1>1, <1>2
<1>4. pass' \in Passes
  <2>1. PICK p \in Passes : p = [pass EXCEPT !.pc = "delete"]
        BY <1>1, Given, Puts
  <2>2. pass' = [p EXCEPT !.todo = todo]
        BY <1>3, <2>1
  <2> QED BY <2>2, Puts
<1>5. pass'.pc = "delete" /\ pass'.todo = todo
      BY <1>3, Given DEF Passes
<1>6. Keeps({"pc", "todo"})
      BY <1>3, Given DEF Keeps, Fields
<1> QED BY <1>1, <1>2, <1>4, <1>5, <1>6

LEMMA RecordDoes ==
    ASSUME TypeOK, Record
    PROVE  /\ video' = video /\ sidecar' = sidecar /\ pass.pc = "delete" /\ pass' \in Passes
           /\ entry' \in Entries /\ entry'.key = video.id /\ entry'.rejected = None
           /\ pass'.pc = "clear" /\ Keeps({"pc"})
<1>1. /\ video' = video /\ sidecar' = sidecar /\ pass.pc = "delete" /\ "clear" \in Places
      /\ entry' = [key |-> video.id, status |-> "fixed", rejected |-> None] /\ Goto("clear")
      BY DEF Record, At, Places
<1>2. entry' \in Entries /\ entry'.key = video.id /\ entry'.rejected = None
      BY <1>1, Given DEF Entries
<1> QED BY <1>1, <1>2, GotoDoes

(* The other ways to the end of a pass. *)
Ends == ProbeFails \/ SweepEnd \/ ClearWanted \/ TrackWanted \/ Crash

LEMMA EndsDo ==
    ASSUME TypeOK, Ends
    PROVE  Still /\ pass' \in Passes /\ Anew({})
<1>1. Still /\ End
      BY DEF Ends, ProbeFails, SweepEnd, ClearWanted, TrackWanted, Crash, Private, Still
<1> QED BY <1>1, EndDoes

LEMMA ImportDoes ==
    ASSUME TypeOK, NEW r \in Releases, Import(r)
    PROVE  /\ sidecar' = sidecar /\ entry' = entry /\ pass' = pass
           /\ Window \in ImportAt
           /\ video' \in Videos /\ video'.id = FreshVideo /\ ~video'.tag
<1>1. /\ sidecar' = sidecar /\ entry' = entry /\ pass' = pass /\ Window \in ImportAt
      /\ video' = [id |-> FreshVideo, sub |-> r.sub, forced |-> r.forced, alien |-> r.alien,
                   tag |-> FALSE]
      BY DEF Import
<1>2. r.sub \in Subs /\ r.forced \in BOOLEAN /\ r.alien \in BOOLEAN
      BY ReleasesAssumption
<1> QED BY <1>1, <1>2, FreshVideoIsFresh DEF Videos

LEMMA WriteSidecarDoes ==
    ASSUME TypeOK, NEW s \in Slots, NEW text \in Texts[s], WriteSidecar(s, text)
    PROVE  /\ video' = video /\ entry' = entry /\ pass' = pass
           /\ MayRace \/ ~(pass.pc \in {"unlink", "drop"} /\ pass.target = s)
           /\ sidecar'[s] \in Sidecars /\ sidecar'[s].id = FreshSidecar(s)
           /\ sidecar' = [sidecar EXCEPT ![s] = sidecar'[s]]
<1>1. /\ video' = video /\ entry' = entry /\ pass' = pass
      /\ MayRace \/ ~(pass.pc \in {"unlink", "drop"} /\ pass.target = s)
      /\ sidecar' = [sidecar EXCEPT ![s] = [id |-> FreshSidecar(s), text |-> text]]
      BY DEF WriteSidecar
<1>2. text \in AllTexts
      BY TextsAssumption
<1>3. sidecar'[s] = [id |-> FreshSidecar(s), text |-> text]
      BY <1>1, Given
<1> QED BY <1>1, <1>2, <1>3, Given, FreshSidecarIsFresh DEF Sidecars

-----------------------------------------------------------------------------
(* The steps of a pass, by what they do. *)
LEMMA NextIs ==
    ASSUME [Next]_vars
    PROVE  \/ UNCHANGED vars
           \/ Ends
           \/ \E r \in Releases : Import(r)
           \/ \E s \in Slots : \E text \in Texts[s] : WriteSidecar(s, text)
           \/ Begin
           \/ UpgradeSnap
           \/ UpgradeIdentify
           \/ UpgradeProbe
           \/ UpgradeJudge
           \/ SkipCached
           \/ SkipTagged
           \/ FullPass
           \/ SweepRead
           \/ \E s \in Slots : SweepJudge(s)
           \/ SweepRecheck
           \/ QuarantineCopy
           \/ QuarantineVerify
           \/ QuarantineUnlink
           \/ \E s \in Slots : Gather(s)
           \/ Pick
           \/ NoEnglish
           \/ CleanupNothing
           \/ CleanupRemux
           \/ Remux
           \/ SwapCheck
           \/ Swap
           \/ Tag
           \/ NormalizeStart
           \/ NormalizeEnd
           \/ \E s \in Slots : DeleteCheck(s)
           \/ DeleteUnlink
           \/ Record
BY DEF Next, Step, Environment, Ends

LEMMA ShapeInv ==
    ASSUME Typed, [Next]_vars
    PROVE  /\ pass' \in Passes
           /\ \A s \in pass'.consumed : pass'.snaps[s] # None
           /\ PassShape'
<1> DEFINE Good == /\ pass' \in Passes
                   /\ \A s \in pass'.consumed : pass'.snaps[s] # None
                   /\ PassShape'
<1> USE DEF Fields, Still, Reading, Moving, Settling
<1>1. TypeOK /\ PassShape
      BY DEF Typed
<1>2. CASE Begin
      BY <1>1, <1>2, BeginDoes, Given, NoPassIs DEF TypeOK, PassShape, Anew
<1>3. CASE UpgradeSnap
  <2>1. /\ entry' = entry /\ pass' \in Passes /\ pass'.pc \in {"identify", "late"}
        /\ pass'.mode = "full" /\ pass'.cur \in VideoIds /\ pass'.prev = entry
        /\ pass'.consumed = {}
        BY <1>1, <1>3, UpgradeSnapDoes DEF PassShape, Keeps
  <2>2. pass'.pc = "identify" => pass'.snaps["real"] # None /\ pass'.snaps["real"].text # "unread"
        BY <1>1, <1>3, UpgradeSnapDoes, Given DEF Passes, Keeps
  <2> QED BY <2>1, <2>2 DEF PassShape
<1>4. CASE UpgradeIdentify
      BY <1>1, <1>4, UpgradeIdentifyDoes, Given DEF TypeOK, PassShape, Keeps
<1>5. CASE UpgradeProbe
  <2>1. /\ entry' = entry /\ pass' \in Passes /\ pass'.pc \in {"judge", "late"}
        /\ pass'.mode = "full" /\ pass'.cur = pass.cur /\ pass'.prev = pass.prev
        /\ pass'.consumed = pass.consumed /\ pass'.uid = pass.uid /\ pass'.snaps = pass.snaps
        /\ pass'.pc = "judge" => pass'.info = video
        BY <1>1, <1>5, UpgradeProbeDoes DEF Keeps, PassShape
  <2>2. video # None
        BY <1>1, Given, NoneAssumption
  <2> QED BY <1>1, <1>5, <2>1, <2>2, UpgradeProbeDoes DEF PassShape
<1>6. CASE UpgradeJudge
      BY <1>1, <1>6, UpgradeJudgeDoes, NoPassIs DEF TypeOK, PassShape, Keeps, Anew
<1>7. CASE SkipCached
      BY <1>1, <1>7, SkipCachedDoes, NoPassIs DEF TypeOK, PassShape, Anew
<1>8. CASE SkipTagged
      BY <1>1, <1>8, SkipTaggedDoes, ProbedIs, NoPassIs DEF TypeOK, PassShape, Anew
<1>9. CASE FullPass
      BY <1>1, <1>9, FullPassDoes, ProbedIs, NoPassIs DEF TypeOK, PassShape, Anew
<1>10. CASE SweepRead
      BY <1>1, <1>10, SweepReadDoes DEF TypeOK, PassShape, Keeps
<1>11. CASE \E s \in Slots : SweepJudge(s)
      BY <1>1, <1>11, SweepJudgeDoes, ProbedIs DEF TypeOK, PassShape, Keeps
<1>12. CASE SweepRecheck
      BY <1>1, <1>12, SweepRecheckDoes, NoPassIs DEF TypeOK, PassShape, Keeps, Anew
<1>13. CASE QuarantineCopy
      BY <1>1, <1>13, QuarantineCopyDoes, NextTargetDoes DEF TypeOK, PassShape, Keeps
<1>14. CASE QuarantineVerify
      BY <1>1, <1>14, QuarantineVerifyDoes, NextTargetDoes DEF TypeOK, PassShape, Keeps
<1>15. CASE QuarantineUnlink
      BY <1>1, <1>15, QuarantineUnlinkDoes, NextTargetDoes DEF TypeOK, PassShape, Keeps
<1>16. CASE \E s \in Slots : Gather(s)
  <2>1. PICK s \in Slots : Gather(s)
        BY <1>16
  <2>2. /\ pass' \in Passes /\ pass'.pc \in {"gather", "copy"} /\ pass'.mode = "full"
        /\ pass'.info # None
        /\ pass'.pc = "copy" => pass'.target \in Slots
        BY <1>1, <2>1, GatherDoes DEF PassShape, Keeps
  <2>3. /\ \A t \in pass.consumed : t \in Slots /\ pass.snaps[t] # None
        /\ pass.snaps \in [Slots -> Sidecars \cup {None}]
        BY <1>1 DEF TypeOK, Passes
  <2>4. \A t \in pass'.consumed : pass'.snaps[t] # None
    <3>1. \/ pass'.snaps = pass.snaps /\ pass'.consumed = pass.consumed
          \/ /\ pass'.snaps = [pass.snaps EXCEPT ![s] = sidecar[s]] /\ sidecar[s] # None
             /\ pass'.consumed \subseteq pass.consumed \cup {s}
          BY <1>1, <2>1, GatherDoes DEF Keeps
    <3> QED BY <2>3, <3>1
  <2> QED BY <2>2, <2>4 DEF PassShape
<1>17. CASE Pick
  <2>1. /\ pass' \in Passes /\ pass'.pc = "sync" /\ pass'.mode = "full" /\ pass'.info # None
        /\ pass'.out \in {"gen", "main"}
        /\ pass'.consumed = pass.consumed /\ pass'.snaps = pass.snaps
        BY <1>1, <1>17, PickDoes DEF PassShape, Keeps
  <2>2. pass'.out # None
        BY <2>1, NoneAssumption DEF Subs
  <2> QED BY <1>1, <2>1, <2>2 DEF PassShape, TypeOK
<1>18. CASE NoEnglish
      BY <1>1, <1>18, NoEnglishDoes DEF TypeOK, PassShape, Keeps
<1>19. CASE CleanupNothing
      BY <1>1, <1>19, CleanupNothingDoes, NoPassIs DEF TypeOK, PassShape, Keeps, Anew
<1>20. CASE CleanupRemux
      BY <1>1, <1>20, CleanupRemuxDoes, NoPassIs DEF TypeOK, PassShape, Keeps, Anew
<1>21. CASE Remux
  <2>1. CASE Anew({})
        BY <1>1, <1>21, <2>1, RemuxDoes, NoPassIs DEF PassShape, Anew
  <2>2. CASE ~Anew({})
    <3>1. /\ pass' \in Passes /\ pass'.pc = "muxed" /\ pass'.mode \in {"full", "upgrade"}
          /\ pass'.info # None /\ pass'.consumed = pass.consumed /\ pass'.snaps = pass.snaps
          /\ pass'.out = IF pass.mode = "upgrade" THEN "main" ELSE pass.out
          /\ pass.mode = "full" => pass.out # None
          BY <1>1, <1>21, <2>2, RemuxDoes DEF PassShape, Keeps
    <3>2. "main" # None
          BY NoneAssumption DEF Subs
    <3>3. pass'.out # None
          BY <1>1, <1>21, <3>1, <3>2, RemuxDoes DEF PassShape
    <3> QED BY <1>1, <3>1, <3>3 DEF PassShape, TypeOK
  <2> QED BY <2>1, <2>2
<1>22. CASE SwapCheck
      BY <1>1, <1>22, SwapCheckDoes, NoPassIs DEF TypeOK, PassShape, Keeps, Anew
<1>23. CASE Swap
  <2>1. CASE pass'.pc \in {"track", "idle"}
    <3>1. pass' \in Passes /\ pass'.mode = "full" /\ pass'.consumed = {}
          BY <1>1, <1>23, <2>1, SwapDoes, NoPassIs DEF Anew
    <3> QED BY <2>1, <3>1 DEF PassShape
  <2>2. CASE pass'.pc \notin {"track", "idle"}
    <3>1. /\ pass' \in Passes /\ pass'.pc = "tag" /\ pass'.mode \in {"full", "upgrade"}
          /\ pass'.consumed = pass.consumed /\ pass'.snaps = pass.snaps
      <4>1. pass.mode \in {"full", "upgrade", "cleanup"}
            BY <1>1, <1>23, SwapDoes, Given DEF PassShape, Passes, Modes
      <4> QED BY <1>1, <1>23, <2>2, <4>1, SwapDoes, NoPassIs DEF Anew
    <3> QED BY <1>1, <3>1 DEF PassShape, TypeOK
  <2> QED BY <2>1, <2>2
<1>24. CASE Tag
      BY <1>1, <1>24, TagDoes DEF TypeOK, PassShape, Keeps
<1>25. CASE NormalizeStart
  <2>1. /\ pass' \in Passes /\ pass'.pc = "normalizing" /\ pass'.mode = "full"
        /\ pass'.info = video /\ pass'.consumed = pass.consumed /\ pass'.snaps = pass.snaps
        BY <1>1, <1>25, NormalizeStartDoes DEF PassShape, Keeps
  <2>2. video # None
        BY <1>1, Given, NoneAssumption
  <2> QED BY <1>1, <2>1, <2>2 DEF PassShape, TypeOK
<1>26. CASE NormalizeEnd
      BY <1>1, <1>26, NormalizeEndDoes DEF TypeOK, PassShape, Keeps
<1>27. CASE \E s \in Slots : DeleteCheck(s)
      BY <1>1, <1>27, DeleteCheckDoes DEF TypeOK, PassShape, Keeps
<1>28. CASE DeleteUnlink
      BY <1>1, <1>28, DeleteUnlinkDoes DEF TypeOK, PassShape, Keeps
<1>29. CASE Record
      BY <1>1, <1>29, RecordDoes DEF TypeOK, PassShape, Keeps
<1>30. CASE Ends
  <2>1. pass' \in Passes /\ pass'.pc = "idle" /\ pass'.mode = "full" /\ pass'.consumed = {}
        BY <1>1, <1>30, EndsDo, NoPassIs DEF Anew
  <2> QED BY <2>1 DEF PassShape
<1>31. CASE UNCHANGED vars
      BY <1>1, <1>31 DEF TypeOK, PassShape, vars
<1>32. CASE \E r \in Releases : Import(r)
      BY <1>1, <1>32, ImportDoes DEF TypeOK, PassShape
<1>33. CASE \E s \in Slots : \E text \in Texts[s] : WriteSidecar(s, text)
      BY <1>1, <1>33, WriteSidecarDoes DEF TypeOK, PassShape
<1> QED BY <1>2, <1>3, <1>4, <1>5, <1>6, <1>7, <1>8, <1>9, <1>10, <1>11, <1>12, <1>13,
       <1>14, <1>15, <1>16, <1>17, <1>18, <1>19, <1>20, <1>21, <1>22, <1>23, <1>24, <1>25,
       <1>26, <1>27, <1>28, <1>29, <1>30, <1>31, <1>32, <1>33, NextIs

(* Which actions touch which variables. *)
LEMMA WhoTouchesWhat ==
    ASSUME [Next]_vars
    PROVE  /\ video' = video \/ Swap \/ Tag \/ NormalizeEnd \/ \E r \in Releases : Import(r)
           /\ \/ sidecar' = sidecar
              \/ QuarantineUnlink \/ DeleteUnlink
              \/ \E s \in Slots : \E text \in Texts[s] : WriteSidecar(s, text)
           /\ entry' = entry \/ SkipCached \/ SkipTagged \/ Record
           /\ wanted' = wanted \/ wanted' \in BOOLEAN
<1> USE DEF Private
<1>1. CASE Begin \/ UpgradeSnap \/ UpgradeIdentify \/ UpgradeProbe \/ UpgradeJudge \/ FullPass
      BY <1>1 DEF Begin, UpgradeSnap, UpgradeIdentify, UpgradeProbe, UpgradeJudge, FullPass
<1>2. CASE SkipCached \/ SkipTagged \/ Swap \/ Tag \/ NormalizeEnd \/ Record
      BY <1>2 DEF SkipCached, SkipTagged, Swap, Tag, NormalizeEnd, Record
<1>3. CASE SweepRead \/ (\E s \in Slots : SweepJudge(s)) \/ SweepRecheck \/ QuarantineCopy
           \/ QuarantineVerify \/ QuarantineUnlink
      BY <1>3 DEF SweepRead, SweepJudge, SweepRecheck, QuarantineCopy, QuarantineVerify,
                  QuarantineUnlink
<1>4. CASE (\E s \in Slots : Gather(s)) \/ Pick \/ NoEnglish \/ CleanupNothing \/ CleanupRemux
           \/ Remux \/ SwapCheck
      BY <1>4 DEF Gather, Pick, NoEnglish, CleanupNothing, CleanupRemux, Remux, SwapCheck
<1>5. CASE NormalizeStart \/ (\E s \in Slots : DeleteCheck(s)) \/ DeleteUnlink \/ Ends
      BY <1>5 DEF NormalizeStart, DeleteCheck, DeleteUnlink, Ends, ProbeFails, SweepEnd,
                  ClearWanted, TrackWanted, Crash
<1>6. CASE UNCHANGED vars \/ (\E r \in Releases : Import(r))
           \/ \E s \in Slots : \E text \in Texts[s] : WriteSidecar(s, text)
      BY <1>6 DEF vars, Import, WriteSidecar
<1> QED BY <1>1, <1>2, <1>3, <1>4, <1>5, <1>6, NextIs

(* A changed video has another identity than anything that is remembered. *)
LEMMA VideoMoves ==
    ASSUME Typed, [Next]_vars, video' # video
    PROVE  video' \in Videos /\ video'.id = FreshVideo
<1>1. TypeOK /\ PassShape
      BY DEF Typed
<1> QED BY <1>1, WhoTouchesWhat, SwapDoes, TagDoes, NormalizeEndDoes, ImportDoes

LEMMA SidecarMoves ==
    ASSUME Typed, [Next]_vars
    PROVE  /\ sidecar' \in [Slots -> Sidecars \cup {None}]
           /\ \A s \in Slots :
                 \/ sidecar'[s] = sidecar[s]
                 \/ sidecar'[s] = None
                 \/ sidecar'[s] \in Sidecars /\ sidecar'[s].id = FreshSidecar(s) /\ pass' = pass
<1>1. TypeOK /\ PassShape /\ sidecar \in [Slots -> Sidecars \cup {None}]
      BY Given DEF Typed
<1>2. CASE sidecar' = sidecar
      BY <1>1, <1>2
<1>3. CASE QuarantineUnlink
      BY <1>1, <1>3, QuarantineUnlinkDoes
<1>4. CASE DeleteUnlink
      BY <1>1, <1>4, DeleteUnlinkDoes
<1>5. CASE \E s \in Slots : \E text \in Texts[s] : WriteSidecar(s, text)
  <2>1. PICK s \in Slots : \E text \in Texts[s] : WriteSidecar(s, text)
        BY <1>5
  <2>2. /\ sidecar'[s] \in Sidecars /\ sidecar'[s].id = FreshSidecar(s) /\ pass' = pass
        /\ sidecar' = [sidecar EXCEPT ![s] = sidecar'[s]]
        BY <1>1, <2>1, WriteSidecarDoes
  <2> QED BY <1>1, <2>2
<1> QED BY <1>2, <1>3, <1>4, <1>5, WhoTouchesWhat

LEMMA TypedInv ==
    ASSUME Typed, [Next]_vars
    PROVE  Typed'
<1>1. TypeOK /\ PassShape
      BY DEF Typed
<1>2. video' \in Videos
      BY <1>1, VideoMoves, Given
<1>3. entry' \in Entries \cup {None}
      BY <1>1, Given, WhoTouchesWhat, SkipCachedDoes, SkipTaggedDoes, RecordDoes
<1>4. wanted' \in BOOLEAN
      BY <1>1, WhoTouchesWhat DEF TypeOK
<1> QED BY <1>2, <1>3, <1>4, ShapeInv, SidecarMoves DEF Typed, TypeOK

LEMMA InitInv == Init => IInv
<1> SUFFICES ASSUME Init PROVE IInv
    OBVIOUS
<1> USE NoPassIs DEF Init
<1>1. TypeOK
  <2>1. video \in Videos /\ entry \in Entries \cup {None}
    <3>1. 1 \in VideoIds /\ "gen" \in Subs
          BY IdsAssumption DEF Subs
    <3>2. CASE /\ \E r \in Releases :
                      video = [id |-> 1, sub |-> r.sub, forced |-> r.forced, alien |-> r.alien,
                               tag |-> FALSE]
               /\ entry = None
      <4>1. PICK r \in Releases :
                video = [id |-> 1, sub |-> r.sub, forced |-> r.forced, alien |-> r.alien,
                         tag |-> FALSE]
            BY <3>2
      <4>2. r.sub \in Subs /\ r.forced \in BOOLEAN /\ r.alien \in BOOLEAN
            BY ReleasesAssumption
      <4> QED BY <3>1, <3>2, <4>1, <4>2 DEF Videos
    <3>3. CASE /\ \E tagged \in BOOLEAN :
                      video = [id |-> 1, sub |-> "gen", forced |-> FALSE, alien |-> FALSE,
                               tag |-> tagged]
               /\ entry = [key |-> 1, status |-> "fixed", rejected |-> None]
          BY <3>1, <3>3 DEF Videos, Entries
    <3> QED BY <3>2, <3>3
  <2>2. pass \in Passes
    <3>1. "idle" \in Places /\ "full" \in Modes /\ "none" \in Holds /\ "none" \in Reasons
          BY DEF Places, Modes, Holds, Reasons
    <3> QED BY <3>1, SlotsAssumption DEF NoPass, Passes
  <2> QED BY <2>1, <2>2 DEF TypeOK
<1>2. PassShape
      BY DEF PassShape, Reading, Moving, Settling
<1>3. SnapsHold /\ RecordsHold
      BY DEF SnapsHold, RecordsHold, RightNotRejected
<1>4. InfoHolds /\ SweepHolds /\ OutHolds /\ SettleHolds
      BY DEF InfoHolds, Building, SweepHolds, OutHolds, SettleHolds, Moving, Settling
<1>5. SkipIsEarned
      BY DEF SkipIsEarned, Skipped, HasEnglish
<1> QED BY <1>1, <1>2, <1>3, <1>4, <1>5 DEF IInv, Typed

(* Type correctness: the state entry, the list, the sidecars and every     *)
(* local variable of a pass keep to their ranges, and what a pass is about *)
(* to remove it has read.                                                  *)
THEOREM TypeCorrect == Spec => []TypeOK
<1>1. Init => Typed
      BY InitInv DEF IInv
<1>2. Typed /\ [Next]_vars => Typed'
      BY TypedInv
<1>3. Typed => TypeOK
      BY DEF Typed
<1> QED BY <1>1, <1>2, <1>3, PTL DEF Spec

(* What a pass has of a sidecar was there when it was read, and stays what  *)
(* it is until it is read again.                                           *)
LEMMA SnapsMove ==
    ASSUME Typed, [Next]_vars, NEW slot \in Slots
    PROVE  \/ pass'.snaps[slot] \in {pass.snaps[slot], None}
           \/ pass'.snaps[slot] = sidecar[slot] /\ sidecar' = sidecar
<1> USE DEF Fields, Still, Moving
<1>1. TypeOK /\ PassShape /\ pass.snaps \in [Slots -> Sidecars \cup {None}]
      BY Given DEF Typed, Passes
<1>2. CASE Begin
      BY <1>1, <1>2, BeginDoes, NoPassIs DEF Anew
<1>3. CASE UpgradeSnap
      BY <1>1, <1>3, UpgradeSnapDoes DEF Keeps
<1>4. CASE UpgradeIdentify
      BY <1>1, <1>4, UpgradeIdentifyDoes DEF Keeps
<1>5. CASE UpgradeProbe
      BY <1>1, <1>5, UpgradeProbeDoes DEF Keeps
<1>6. CASE UpgradeJudge
      BY <1>1, <1>6, UpgradeJudgeDoes, NoPassIs DEF Keeps, Anew
<1>7. CASE SkipCached
      BY <1>1, <1>7, SkipCachedDoes, NoPassIs DEF Anew
<1>8. CASE SkipTagged
      BY <1>1, <1>8, SkipTaggedDoes, NoPassIs DEF Anew
<1>9. CASE FullPass
      BY <1>1, <1>9, FullPassDoes, NoPassIs DEF Anew
<1>10. CASE SweepRead
      BY <1>1, <1>10, SweepReadDoes DEF Keeps
<1>11. CASE \E s \in Slots : SweepJudge(s)
      BY <1>1, <1>11, SweepJudgeDoes DEF Keeps
<1>12. CASE SweepRecheck
      BY <1>1, <1>12, SweepRecheckDoes, NoPassIs DEF Keeps, Anew
<1>13. CASE QuarantineCopy
      BY <1>1, <1>13, QuarantineCopyDoes, NextTargetDoes DEF Keeps
<1>14. CASE QuarantineVerify
      BY <1>1, <1>14, QuarantineVerifyDoes, NextTargetDoes DEF Keeps
<1>15. CASE QuarantineUnlink
      BY <1>1, <1>15, QuarantineUnlinkDoes, NextTargetDoes DEF Keeps
<1>16. CASE \E s \in Slots : Gather(s)
  <2>1. PICK t \in Slots : Gather(t)
        BY <1>16
  <2>2. \/ pass'.snaps = pass.snaps
        \/ pass'.snaps = [pass.snaps EXCEPT ![t] = sidecar[t]] /\ sidecar' = sidecar
        BY <1>1, <2>1, GatherDoes DEF Keeps
  <2> QED BY <1>1, <2>2
<1>17. CASE Pick
      BY <1>1, <1>17, PickDoes DEF Keeps
<1>18. CASE NoEnglish
      BY <1>1, <1>18, NoEnglishDoes DEF Keeps
<1>19. CASE CleanupNothing
      BY <1>1, <1>19, CleanupNothingDoes, NoPassIs DEF Keeps, Anew
<1>20. CASE CleanupRemux
      BY <1>1, <1>20, CleanupRemuxDoes, NoPassIs DEF Keeps, Anew
<1>21. CASE Remux
      BY <1>1, <1>21, RemuxDoes, NoPassIs DEF Keeps, Anew
<1>22. CASE SwapCheck
      BY <1>1, <1>22, SwapCheckDoes, NoPassIs DEF Keeps, Anew
<1>23. CASE Swap
      BY <1>1, <1>23, SwapDoes, NoPassIs DEF Anew
<1>24. CASE Tag
      BY <1>1, <1>24, TagDoes DEF Keeps
<1>25. CASE NormalizeStart
      BY <1>1, <1>25, NormalizeStartDoes DEF Keeps
<1>26. CASE NormalizeEnd
      BY <1>1, <1>26, NormalizeEndDoes DEF Keeps
<1>27. CASE \E s \in Slots : DeleteCheck(s)
      BY <1>1, <1>27, DeleteCheckDoes DEF Keeps
<1>28. CASE DeleteUnlink
      BY <1>1, <1>28, DeleteUnlinkDoes DEF Keeps
<1>29. CASE Record
      BY <1>1, <1>29, RecordDoes DEF Keeps
<1>30. CASE Ends
      BY <1>1, <1>30, EndsDo, NoPassIs DEF Anew
<1>31. CASE UNCHANGED vars
      BY <1>1, <1>31 DEF vars
<1>32. CASE \E r \in Releases : Import(r)
      BY <1>1, <1>32, ImportDoes DEF Keeps
<1>33. CASE \E s \in Slots : \E text \in Texts[s] : WriteSidecar(s, text)
      BY <1>1, <1>33, WriteSidecarDoes DEF Keeps
<1> QED BY <1>2, <1>3, <1>4, <1>5, <1>6, <1>7, <1>8, <1>9, <1>10, <1>11, <1>12, <1>13,
       <1>14, <1>15, <1>16, <1>17, <1>18, <1>19, <1>20, <1>21, <1>22, <1>23, <1>24, <1>25,
       <1>26, <1>27, <1>28, <1>29, <1>30, <1>31, <1>32, <1>33, NextIs

LEMMA SnapsInv ==
    ASSUME Typed, SnapsHold, [Next]_vars
    PROVE  SnapsHold'
<1> SUFFICES ASSUME NEW s \in Slots, sidecar'[s] # None, pass'.snaps[s] # None,
                    sidecar'[s].id = pass'.snaps[s].id
             PROVE  sidecar'[s] = pass'.snaps[s]
    BY DEF SnapsHold
<1>1. pass # None /\ TypeOK
      BY Given DEF Typed
<1>2. pass.snaps[s] # None => FreshSidecar(s) # pass.snaps[s].id
      BY <1>1, FreshSidecarIsFresh
<1>3. CASE sidecar'[s] = sidecar[s]
      BY <1>3, SnapsMove DEF SnapsHold
<1>4. CASE sidecar'[s].id = FreshSidecar(s) /\ pass' = pass
      BY <1>2, <1>4
<1> QED BY <1>3, <1>4, SidecarMoves

(* A verdict does not turn into one on another sidecar or another video. *)
LEMMA VerdictStands ==
    ASSUME Typed, [Next]_vars, NEW record, RightNotRejected(record),
           record # None => FreshVideo # record.video /\ FreshSidecar("real") # record.side
    PROVE  record # None /\ record.verdict /\ record.video = video'.id
              /\ sidecar'["real"] # None /\ sidecar'["real"].id = record.side
              => sidecar'["real"].text # "right"
<1>1. "real" \in Slots
      BY SlotsAssumption
<1>2. video' = video \/ video'.id = FreshVideo
      BY VideoMoves
<1>3. \/ sidecar'["real"] \in {sidecar["real"], None}
      \/ sidecar'["real"].id = FreshSidecar("real")
      BY <1>1, SidecarMoves
<1> QED BY <1>2, <1>3 DEF RightNotRejected

(* Where a pass has its record from: from the entry, or its own check. *)
LEMMA RecordsMove ==
    ASSUME Typed, [Next]_vars, ~UpgradeJudge
    PROVE  \/ pass'.rejected \in {pass.rejected, None}
           \/ entry # None /\ pass'.rejected = entry.rejected
<1> USE DEF Fields, Still, Moving
<1>1. TypeOK /\ PassShape
      BY DEF Typed
<1>2. CASE Begin
      BY <1>1, <1>2, BeginDoes, NoPassIs DEF Anew
<1>3. CASE UpgradeSnap
      BY <1>1, <1>3, UpgradeSnapDoes DEF Keeps
<1>4. CASE UpgradeIdentify
      BY <1>1, <1>4, UpgradeIdentifyDoes DEF Keeps
<1>5. CASE UpgradeProbe
      BY <1>1, <1>5, UpgradeProbeDoes DEF Keeps
<1>6. CASE UpgradeJudge
      BY <1>6
<1>7. CASE SkipCached
      BY <1>1, <1>7, SkipCachedDoes DEF PassShape, Reading
<1>8. CASE SkipTagged
      BY <1>1, <1>8, SkipTaggedDoes DEF PassShape, Reading
<1>9. CASE FullPass
      BY <1>1, <1>9, FullPassDoes, NoPassIs DEF Anew
<1>10. CASE SweepRead
      BY <1>1, <1>10, SweepReadDoes DEF Keeps
<1>11. CASE \E s \in Slots : SweepJudge(s)
      BY <1>1, <1>11, SweepJudgeDoes DEF Keeps
<1>12. CASE SweepRecheck
      BY <1>1, <1>12, SweepRecheckDoes, NoPassIs DEF Keeps, Anew
<1>13. CASE QuarantineCopy
      BY <1>1, <1>13, QuarantineCopyDoes, NextTargetDoes DEF Keeps
<1>14. CASE QuarantineVerify
      BY <1>1, <1>14, QuarantineVerifyDoes, NextTargetDoes DEF Keeps
<1>15. CASE QuarantineUnlink
      BY <1>1, <1>15, QuarantineUnlinkDoes, NextTargetDoes DEF Keeps
<1>16. CASE \E s \in Slots : Gather(s)
      BY <1>1, <1>16, GatherDoes DEF Keeps
<1>17. CASE Pick
      BY <1>1, <1>17, PickDoes DEF Keeps
<1>18. CASE NoEnglish
      BY <1>1, <1>18, NoEnglishDoes DEF Keeps
<1>19. CASE CleanupNothing
      BY <1>1, <1>19, CleanupNothingDoes, NoPassIs DEF Keeps, Anew
<1>20. CASE CleanupRemux
      BY <1>1, <1>20, CleanupRemuxDoes, NoPassIs DEF Keeps, Anew
<1>21. CASE Remux
      BY <1>1, <1>21, RemuxDoes, NoPassIs DEF Keeps, Anew
<1>22. CASE SwapCheck
      BY <1>1, <1>22, SwapCheckDoes, NoPassIs DEF Keeps, Anew
<1>23. CASE Swap
      BY <1>1, <1>23, SwapDoes, NoPassIs DEF Anew
<1>24. CASE Tag
      BY <1>1, <1>24, TagDoes DEF Keeps
<1>25. CASE NormalizeStart
      BY <1>1, <1>25, NormalizeStartDoes DEF Keeps
<1>26. CASE NormalizeEnd
      BY <1>1, <1>26, NormalizeEndDoes DEF Keeps
<1>27. CASE \E s \in Slots : DeleteCheck(s)
      BY <1>1, <1>27, DeleteCheckDoes DEF Keeps
<1>28. CASE DeleteUnlink
      BY <1>1, <1>28, DeleteUnlinkDoes DEF Keeps
<1>29. CASE Record
      BY <1>1, <1>29, RecordDoes DEF Keeps
<1>30. CASE Ends
      BY <1>1, <1>30, EndsDo, NoPassIs DEF Anew
<1>31. CASE UNCHANGED vars
      BY <1>1, <1>31 DEF vars
<1>32. CASE \E r \in Releases : Import(r)
      BY <1>1, <1>32, ImportDoes DEF Keeps
<1>33. CASE \E s \in Slots : \E text \in Texts[s] : WriteSidecar(s, text)
      BY <1>1, <1>33, WriteSidecarDoes DEF Keeps
<1> QED BY <1>2, <1>3, <1>4, <1>5, <1>6, <1>7, <1>8, <1>9, <1>10, <1>11, <1>12, <1>13,
       <1>14, <1>15, <1>16, <1>17, <1>18, <1>19, <1>20, <1>21, <1>22, <1>23, <1>24, <1>25,
       <1>26, <1>27, <1>28, <1>29, <1>30, <1>31, <1>32, <1>33, NextIs

LEMMA RecordsInv ==
    ASSUME Typed, SnapsHold, RecordsHold, [Next]_vars
    PROVE  RecordsHold'
<1>1. TypeOK /\ PassShape /\ "real" \in Slots /\ pass # None
      BY Given DEF Typed
<1>2. /\ entry # None /\ entry.rejected # None =>
            FreshVideo # entry.rejected.video /\ FreshSidecar("real") # entry.rejected.side
      /\ pass.rejected # None =>
            FreshVideo # pass.rejected.video /\ FreshSidecar("real") # pass.rejected.side
      BY <1>1, FreshVideoIsFresh, FreshSidecarIsFresh
<1>3. ASSUME NEW record, \/ record = None
                         \/ record = pass.rejected
                         \/ entry # None /\ record = entry.rejected
      PROVE  record # None /\ record.verdict /\ record.video = video'.id
                /\ sidecar'["real"] # None /\ sidecar'["real"].id = record.side
                => sidecar'["real"].text # "right"
  <2>1. CASE record = None
        BY <2>1
  <2>2. CASE record = pass.rejected
        BY <1>2, <2>2, VerdictStands DEF RecordsHold
  <2>3. CASE entry # None /\ record = entry.rejected
        BY <1>2, <2>3, VerdictStands DEF RecordsHold
  <2> QED BY <1>3, <2>1, <2>2, <2>3
<1>4. (entry # None => RightNotRejected(entry.rejected))'
  <2>1. \/ entry' = entry
        \/ entry'.rejected \in {None, pass.rejected}
        BY <1>1, WhoTouchesWhat, SkipCachedDoes, SkipTaggedDoes, RecordDoes
  <2>2. entry' # None =>
           \/ entry'.rejected = None
           \/ entry'.rejected = pass.rejected
           \/ entry # None /\ entry'.rejected = entry.rejected
        BY <2>1
  <2> QED BY <1>3, <2>2 DEF RightNotRejected
<1>5. RightNotRejected(pass.rejected)'
  <2>1. CASE UpgradeJudge
    <3>1. \/ /\ pass'.rejected # None => pass'.rejected.video = pass.uid
             /\ pass'.rejected.side = pass.snaps["real"].id
             /\ pass'.rejected.verdict /\ video.id = pass.uid =>
                   pass.snaps["real"].text # "right"
             /\ pass.snaps["real"] # None
          \/ pass'.rejected \in {None, pass.rejected}
          BY <1>1, <2>1, UpgradeJudgeDoes, NoPassIs DEF PassShape, Keeps, Anew, Fields
    <3>2. video' = video /\ sidecar' = sidecar
          BY <1>1, <2>1, UpgradeJudgeDoes DEF Still
    <3> QED BY <1>1, <1>3, <3>1, <3>2 DEF RightNotRejected, SnapsHold
  <2>2. CASE ~UpgradeJudge
        BY <1>3, <2>2, RecordsMove DEF RightNotRejected
  <2> QED BY <2>1, <2>2
<1> QED BY <1>4, <1>5 DEF RecordsHold

(* Where a release is not imported, if it keeps out of these gaps.         *)
LEMMA ImportsAt ==
    ASSUME Typed, NEW r \in Releases, Import(r)
    PROVE  /\ SettlesAlone => pass.pc \notin Settling
           /\ MovesAlone => ~(pass.pc \in Moving /\ pass.mode = "sweep")
           /\ BuildsAlone => ~Building
           /\ BuildsAlone => ~(pass.pc \in {"judge", "late"} /\ pass.info # None)
<1>1. Window \in ImportAt /\ PassShape
      BY DEF Import, Typed
<1>2. pass.pc \in Settling => Window = "committing"
      BY <1>1 DEF Window, Settling
<1>3. pass.pc \in Moving /\ pass.mode = "sweep" => Window = "moving"
      BY <1>1 DEF Window, Moving
<1>4. Building => Window = "full"
      BY <1>1 DEF Window, Building, Moving
<1>5. pass.pc \in {"judge", "late"} /\ pass.info # None => Window = "judging"
      BY <1>1 DEF Window
<1> QED BY <1>1, <1>2, <1>3, <1>4, <1>5 DEF SettlesAlone, MovesAlone, BuildsAlone

LEMMA InfoInv ==
    ASSUME Typed, InfoHolds, [Next]_vars
    PROVE  InfoHolds'
<1> USE DEF Fields, Still, Moving, Reading, Settling, Building
<1>1. TypeOK /\ PassShape /\ InfoHolds
      BY DEF Typed
<1>2. CASE Begin
      BY <1>1, <1>2, BeginDoes, NoPassIs DEF PassShape, InfoHolds, Anew
<1>3. CASE UpgradeSnap
      BY <1>1, <1>3, UpgradeSnapDoes DEF PassShape, InfoHolds, Keeps
<1>4. CASE UpgradeIdentify
      BY <1>1, <1>4, UpgradeIdentifyDoes DEF PassShape, InfoHolds, Keeps
<1>5. CASE UpgradeProbe
      BY <1>1, <1>5, UpgradeProbeDoes DEF PassShape, InfoHolds, Keeps
<1>6. CASE UpgradeJudge
      BY <1>1, <1>6, UpgradeJudgeDoes, NoPassIs DEF PassShape, InfoHolds, Keeps, Anew
<1>7. CASE SkipCached
      BY <1>1, <1>7, SkipCachedDoes, NoPassIs DEF PassShape, InfoHolds, Anew
<1>8. CASE SkipTagged
  <2>1. /\ pass'.pc = "sweepread" /\ video' = video /\ pass'.mode = "sweep"
        /\ pass'.cur = pass.cur /\ (video.id = pass.cur => pass'.info = video)
        BY <1>1, <1>8, SkipTaggedDoes DEF Probed, InfoHolds
  <2> QED BY <2>1 DEF InfoHolds
<1>9. CASE FullPass
  <2>1. /\ pass'.pc = "gather" /\ ~pass'.info.tag /\ video' = video /\ pass'.mode = "full"
        /\ BuildsAlone => pass'.info = video
        BY <1>1, <1>9, FullPassDoes, NoPassIs DEF Probed, InfoHolds, Anew
  <2> QED BY <2>1 DEF InfoHolds
<1>10. CASE SweepRead
      BY <1>1, <1>10, SweepReadDoes DEF PassShape, InfoHolds, Keeps
<1>11. CASE \E s \in Slots : SweepJudge(s)
  <2>1. /\ pass'.pc \in {"sweep", "recheck"} /\ video' = video /\ pass'.info = Probed
        /\ pass.mode = "sweep" /\ pass'.mode = "sweep" /\ pass'.cur = pass.cur
        BY <1>1, <1>11, SweepJudgeDoes DEF PassShape, Keeps
  <2>2. video.id = pass.cur => Probed = video
        BY <1>1, <2>1 DEF Probed, InfoHolds
  <2> QED BY <2>1, <2>2 DEF InfoHolds
<1>12. CASE SweepRecheck
      BY <1>1, <1>12, SweepRecheckDoes, NoPassIs DEF PassShape, InfoHolds, Keeps, Anew
<1>13. CASE QuarantineCopy
      BY <1>1, <1>13, QuarantineCopyDoes, NextTargetDoes DEF PassShape, InfoHolds, Keeps
<1>14. CASE QuarantineVerify
      BY <1>1, <1>14, QuarantineVerifyDoes, NextTargetDoes DEF PassShape, InfoHolds, Keeps
<1>15. CASE QuarantineUnlink
      BY <1>1, <1>15, QuarantineUnlinkDoes, NextTargetDoes DEF PassShape, InfoHolds, Keeps
<1>16. CASE \E s \in Slots : Gather(s)
  <2>1. /\ pass.pc = "gather" /\ pass'.pc \in {"gather", "copy"} /\ video' = video
        /\ pass'.info = pass.info /\ pass'.mode = "full"
        BY <1>1, <1>16, GatherDoes DEF PassShape, Keeps
  <2> QED BY <1>1, <2>1 DEF InfoHolds
<1>17. CASE Pick
      BY <1>1, <1>17, PickDoes DEF PassShape, InfoHolds, Keeps
<1>18. CASE NoEnglish
      BY <1>1, <1>18, NoEnglishDoes DEF PassShape, InfoHolds, Keeps
<1>19. CASE CleanupNothing
      BY <1>1, <1>19, CleanupNothingDoes, NoPassIs DEF PassShape, InfoHolds, Keeps, Anew
<1>20. CASE CleanupRemux
      BY <1>1, <1>20, CleanupRemuxDoes, NoPassIs DEF PassShape, InfoHolds, Keeps, Anew
<1>21. CASE Remux
      BY <1>1, <1>21, RemuxDoes, NoPassIs DEF PassShape, InfoHolds, Keeps, Anew
<1>22. CASE SwapCheck
      BY <1>1, <1>22, SwapCheckDoes, NoPassIs DEF PassShape, InfoHolds, Keeps, Anew
<1>23. CASE Swap
      BY <1>1, <1>23, SwapDoes, NoPassIs DEF PassShape, InfoHolds, Anew
<1>24. CASE Tag
      BY <1>1, <1>24, TagDoes DEF PassShape, InfoHolds, Keeps
<1>25. CASE NormalizeStart
      BY <1>1, <1>25, NormalizeStartDoes DEF PassShape, InfoHolds, Keeps
<1>26. CASE NormalizeEnd
      BY <1>1, <1>26, NormalizeEndDoes DEF PassShape, InfoHolds, Keeps
<1>27. CASE \E s \in Slots : DeleteCheck(s)
      BY <1>1, <1>27, DeleteCheckDoes DEF PassShape, InfoHolds, Keeps
<1>28. CASE DeleteUnlink
      BY <1>1, <1>28, DeleteUnlinkDoes DEF PassShape, InfoHolds, Keeps
<1>29. CASE Record
      BY <1>1, <1>29, RecordDoes DEF PassShape, InfoHolds, Keeps
<1>30. CASE Ends
      BY <1>1, <1>30, EndsDo, NoPassIs DEF PassShape, InfoHolds, Anew
<1>31. CASE UNCHANGED vars
      BY <1>1, <1>31 DEF vars, PassShape, InfoHolds
<1>32. CASE \E r \in Releases : Import(r)
  <2>1. pass' = pass /\ video'.id # pass.cur
        BY <1>1, <1>32, ImportDoes, FreshVideoIsFresh
  <2> QED BY <1>1, <1>32, <2>1, ImportsAt DEF InfoHolds, PassShape
<1>33. CASE \E s \in Slots : \E text \in Texts[s] : WriteSidecar(s, text)
      BY <1>1, <1>33, WriteSidecarDoes DEF PassShape, InfoHolds
<1> QED BY <1>2, <1>3, <1>4, <1>5, <1>6, <1>7, <1>8, <1>9, <1>10, <1>11, <1>12, <1>13,
       <1>14, <1>15, <1>16, <1>17, <1>18, <1>19, <1>20, <1>21, <1>22, <1>23, <1>24, <1>25,
       <1>26, <1>27, <1>28, <1>29, <1>30, <1>31, <1>32, <1>33, NextIs

(* What the sweep's verdicts say of the video and of the real sidecar. *)
LEMMA SweepVerdictSays ==
    ASSUME NEW s \in Slots
    PROVE  /\ SweepVerdict(s) \in {"foreign", "rejected", "redundant", "keep"}
           /\ SweepVerdict(s) = "redundant" /\ Probed = video => Within(s)
           /\ SweepVerdict(s) = "foreign" => pass.snaps[s].text = "foreign"
           /\ SweepVerdict(s) = "rejected" => s = "real" /\ pass.held = "rejected"
<1>1. SweepVerdict(s) \in {"foreign", "rejected", "redundant", "keep"}
      BY DEF SweepVerdict
<1>2. SweepVerdict(s) = "redundant" => Retires(s, Probed) /\ Sampled(s)
      BY DEF SweepVerdict
<1>3. Probed = video /\ Retires(s, Probed) /\ Sampled(s) => Within(s)
      BY DEF Retires, Sampled, Within, HasEnglish
<1>4. /\ SweepVerdict(s) = "foreign" => pass.snaps[s].text = "foreign"
      /\ SweepVerdict(s) = "rejected" => s = "real" /\ pass.held = "rejected"
      BY DEF SweepVerdict
<1> QED BY <1>1, <1>2, <1>3, <1>4

LEMMA NextTargetStays ==
    ASSUME TypeOK, PassShape, SweepHolds, pass.pc \in Moving, video' = video, pass' = NextTarget
    PROVE  SweepHolds'
<1>1. /\ pass'.pc \in {"sweep", "gather"} /\ (pass'.pc = "gather" => pass.mode = "full")
      /\ pass'.todo \subseteq pass.todo
      BY NextTargetDoes DEF PassShape
<1>2. pass'.mode = pass.mode /\ pass'.snaps = pass.snaps /\ pass'.held = pass.held
      BY NextTargetDoes DEF Keeps, Fields
<1> QED BY <1>1, <1>2 DEF SweepHolds, Moving

LEMMA SweepInv ==
    ASSUME Typed, RecordsHold, InfoHolds, SweepHolds, [Next]_vars
    PROVE  SweepHolds'
<1> USE DEF Fields, Still, Moving, Reading, Settling
<1>1. TypeOK /\ PassShape /\ SweepHolds
      BY DEF Typed
<1>2. CASE Begin
      BY <1>1, <1>2, BeginDoes, NoPassIs DEF PassShape, SweepHolds, Anew
<1>3. CASE UpgradeSnap
      BY <1>1, <1>3, UpgradeSnapDoes DEF PassShape, SweepHolds, Keeps
<1>4. CASE UpgradeIdentify
      BY <1>1, <1>4, UpgradeIdentifyDoes DEF PassShape, SweepHolds, Keeps
<1>5. CASE UpgradeProbe
      BY <1>1, <1>5, UpgradeProbeDoes DEF PassShape, SweepHolds, Keeps
<1>6. CASE UpgradeJudge
      BY <1>1, <1>6, UpgradeJudgeDoes, NoPassIs DEF PassShape, SweepHolds, Keeps, Anew
<1>7. CASE SkipCached
      BY <1>1, <1>7, SkipCachedDoes, NoPassIs DEF PassShape, SweepHolds, Anew
<1>8. CASE SkipTagged
      BY <1>1, <1>8, SkipTaggedDoes, NoPassIs DEF PassShape, SweepHolds, Anew
<1>9. CASE FullPass
      BY <1>1, <1>9, FullPassDoes, NoPassIs DEF PassShape, SweepHolds, Anew
<1>10. CASE SweepRead
  <2>1. /\ pass'.pc = "sweep" /\ pass'.mode = "sweep"
        /\ \A s \in pass'.todo : s \in Slots /\ pass'.snaps[s] # None
        BY <1>1, <1>10, SweepReadDoes DEF PassShape, Keeps
  <2>2. pass'.held = "rejected" /\ pass'.snaps["real"] # None =>
           pass'.snaps["real"].text # "right"
    <3>1. pass'.held = "rejected" => sidecar["real"].text # "right"
          BY <1>1, <1>10, SweepReadDoes DEF RecordsHold, RightNotRejected
    <3>2. pass'.snaps["real"] \in {None, sidecar["real"]}
          BY <1>1, <1>10, SweepReadDoes, Given
    <3> QED BY <3>1, <3>2
  <2> QED BY <2>1, <2>2 DEF SweepHolds
<1>11. CASE \E s \in Slots : SweepJudge(s)
  <2>1. PICK s \in Slots : SweepJudge(s)
        BY <1>11
  <2>2. /\ video' = video /\ pass.pc = "sweep" /\ pass.mode = "sweep" /\ pass'.mode = "sweep"
        /\ pass'.cur = pass.cur /\ pass'.snaps = pass.snaps /\ pass'.held = pass.held
        /\ pass'.todo \subseteq pass.todo
        BY <1>1, <2>1, SweepJudgeDoes DEF PassShape, Keeps
  <2>3. \/ /\ pass'.pc = "recheck" /\ pass'.target = s /\ s \in pass.todo
           /\ pass'.why = SweepVerdict(s) /\ pass'.why # "keep"
        \/ pass'.pc = "sweep"
        BY <1>1, <2>1, SweepJudgeDoes DEF Keeps
  <2>4. video.id = pass.cur => Probed = video
        BY <2>2 DEF Probed, InfoHolds
  <2>5. Within(s)' <=> Within(s)
        BY <2>2 DEF Within, HasEnglish
  <2> QED BY <1>1, <2>2, <2>3, <2>4, <2>5, SweepVerdictSays DEF SweepHolds
<1>12. CASE SweepRecheck
  <2>1. CASE Anew({})
        BY <1>1, <1>12, <2>1, SweepRecheckDoes, NoPassIs DEF SweepHolds, Anew
  <2>2. CASE ~Anew({})
    <3>1. /\ video' = video /\ sidecar' = sidecar /\ pass.pc = "recheck" /\ pass.mode = "sweep"
          /\ video.id = pass.cur /\ pass'.pc = "copy" /\ pass'.mode = pass.mode
          /\ pass'.cur = pass.cur /\ pass'.target = pass.target /\ pass'.why = pass.why
          /\ pass'.snaps = pass.snaps /\ pass'.held = pass.held /\ pass'.todo = pass.todo
          BY <1>1, <1>12, <2>2, SweepRecheckDoes DEF PassShape, Keeps
    <3>2. Within(pass.target)' <=> Within(pass.target)
          BY <3>1 DEF Within, HasEnglish
    <3> QED BY <1>1, <3>1, <3>2 DEF SweepHolds
  <2> QED BY <2>1, <2>2
<1>13. CASE QuarantineCopy
  <2>1. Still /\ pass.pc = "copy"
        BY <1>1, <1>13, QuarantineCopyDoes
  <2>2. CASE pass' = NextTarget
        BY <1>1, <2>1, <2>2, NextTargetStays
  <2>3. CASE pass' # NextTarget
    <3>1. /\ pass'.pc = "verify" /\ pass'.mode = pass.mode /\ pass'.copy = pass.snaps[pass.target]
          /\ pass'.cur = pass.cur /\ pass'.target = pass.target /\ pass'.why = pass.why
          /\ pass'.snaps = pass.snaps /\ pass'.held = pass.held /\ pass'.todo = pass.todo
          BY <1>1, <1>13, <2>3, QuarantineCopyDoes DEF Keeps
    <3>2. Within(pass.target)' <=> Within(pass.target)
          BY <2>1, <3>1 DEF Within, HasEnglish
    <3> QED BY <1>1, <2>1, <3>1, <3>2 DEF SweepHolds
  <2> QED BY <2>2, <2>3
<1>14. CASE QuarantineVerify
  <2>1. Still /\ pass.pc = "verify"
        BY <1>1, <1>14, QuarantineVerifyDoes
  <2>2. CASE pass' = NextTarget
        BY <1>1, <2>1, <2>2, NextTargetStays
  <2>3. CASE pass' # NextTarget
    <3>1. /\ pass'.pc = "unlink" /\ pass'.mode = pass.mode /\ pass'.copy = pass.copy
          /\ sidecar[pass.target] = pass.copy
          /\ pass'.cur = pass.cur /\ pass'.target = pass.target /\ pass'.why = pass.why
          /\ pass'.snaps = pass.snaps /\ pass'.held = pass.held /\ pass'.todo = pass.todo
          BY <1>1, <1>14, <2>3, QuarantineVerifyDoes DEF Keeps
    <3>2. Within(pass.target)' <=> Within(pass.target)
          BY <2>1, <3>1 DEF Within, HasEnglish
    <3> QED BY <1>1, <2>1, <3>1, <3>2 DEF SweepHolds
  <2> QED BY <2>2, <2>3
<1>15. CASE QuarantineUnlink
      BY <1>1, <1>15, QuarantineUnlinkDoes, NextTargetStays
<1>16. CASE \E s \in Slots : Gather(s)
  <2>1. PICK s \in Slots : Gather(s)
        BY <1>16
  <2>2. /\ video' = video /\ pass.pc = "gather" /\ pass.mode = "full" /\ pass'.mode = "full"
        /\ pass'.held = pass.held
        /\ \/ pass'.pc = "gather"
           \/ /\ pass'.pc = "copy" /\ pass'.why = "foreign" /\ pass'.target = s
              /\ pass'.snaps = [pass.snaps EXCEPT ![s] = sidecar[s]]
              /\ sidecar[s] # None /\ sidecar[s].text = "foreign"
        BY <1>1, <2>1, GatherDoes DEF PassShape, Keeps
  <2>3. pass.snaps \in [Slots -> Sidecars \cup {None}]
        BY <1>1, Given DEF Passes
  <2> QED BY <1>1, <2>2, <2>3 DEF SweepHolds
<1>17. CASE Pick
      BY <1>1, <1>17, PickDoes DEF PassShape, SweepHolds, Keeps
<1>18. CASE NoEnglish
      BY <1>1, <1>18, NoEnglishDoes DEF PassShape, SweepHolds, Keeps
<1>19. CASE CleanupNothing
      BY <1>1, <1>19, CleanupNothingDoes, NoPassIs DEF PassShape, SweepHolds, Keeps, Anew
<1>20. CASE CleanupRemux
      BY <1>1, <1>20, CleanupRemuxDoes, NoPassIs DEF PassShape, SweepHolds, Keeps, Anew
<1>21. CASE Remux
      BY <1>1, <1>21, RemuxDoes, NoPassIs DEF PassShape, SweepHolds, Keeps, Anew
<1>22. CASE SwapCheck
      BY <1>1, <1>22, SwapCheckDoes, NoPassIs DEF PassShape, SweepHolds, Keeps, Anew
<1>23. CASE Swap
      BY <1>1, <1>23, SwapDoes, NoPassIs DEF PassShape, SweepHolds, Anew
<1>24. CASE Tag
      BY <1>1, <1>24, TagDoes DEF PassShape, SweepHolds, Keeps
<1>25. CASE NormalizeStart
      BY <1>1, <1>25, NormalizeStartDoes DEF PassShape, SweepHolds, Keeps
<1>26. CASE NormalizeEnd
      BY <1>1, <1>26, NormalizeEndDoes DEF PassShape, SweepHolds, Keeps
<1>27. CASE \E s \in Slots : DeleteCheck(s)
      BY <1>1, <1>27, DeleteCheckDoes DEF PassShape, SweepHolds, Keeps
<1>28. CASE DeleteUnlink
      BY <1>1, <1>28, DeleteUnlinkDoes DEF PassShape, SweepHolds, Keeps
<1>29. CASE Record
      BY <1>1, <1>29, RecordDoes DEF PassShape, SweepHolds, Keeps
<1>30. CASE Ends
      BY <1>1, <1>30, EndsDo, NoPassIs DEF PassShape, SweepHolds, Anew
<1>31. CASE UNCHANGED vars
  <2>1. Within(pass.target)' <=> Within(pass.target)
        BY <1>31 DEF vars, Within, HasEnglish
  <2> QED BY <1>1, <1>31, <2>1 DEF vars, SweepHolds
<1>32. CASE \E r \in Releases : Import(r)
  <2>1. pass' = pass /\ video'.id # pass.cur /\ sidecar' = sidecar
        BY <1>1, <1>32, ImportDoes, FreshVideoIsFresh
  <2> QED BY <1>1, <1>32, <2>1, ImportsAt DEF SweepHolds, PassShape
<1>33. CASE \E s \in Slots : \E text \in Texts[s] : WriteSidecar(s, text)
  <2>1. PICK s \in Slots : \E text \in Texts[s] : WriteSidecar(s, text)
        BY <1>33
  <2>2. /\ video' = video /\ pass' = pass
        /\ MayRace \/ ~(pass.pc \in {"unlink", "drop"} /\ pass.target = s)
        /\ sidecar' = [sidecar EXCEPT ![s] = sidecar'[s]]
        BY <1>1, <2>1, WriteSidecarDoes
  <2>3. pass.pc = "unlink" => MayRace \/ sidecar'[pass.target] = sidecar[pass.target]
        BY <1>1, <2>2, Given DEF PassShape
  <2>4. Within(pass.target)' <=> Within(pass.target)
        BY <2>2 DEF Within, HasEnglish
  <2> QED BY <1>1, <2>2, <2>3, <2>4 DEF SweepHolds
<1> QED BY <1>2, <1>3, <1>4, <1>5, <1>6, <1>7, <1>8, <1>9, <1>10, <1>11, <1>12, <1>13,
       <1>14, <1>15, <1>16, <1>17, <1>18, <1>19, <1>20, <1>21, <1>22, <1>23, <1>24, <1>25,
       <1>26, <1>27, <1>28, <1>29, <1>30, <1>31, <1>32, <1>33, NextIs

LEMMA OutInv ==
    ASSUME Typed, InfoHolds, OutHolds, [Next]_vars
    PROVE  OutHolds'
<1> USE DEF Fields, Still, Moving, Reading, Settling
<1>1. TypeOK /\ PassShape /\ InfoHolds /\ OutHolds
      BY DEF Typed
<1>2. CASE Begin
      BY <1>1, <1>2, BeginDoes, NoPassIs DEF PassShape, OutHolds, Anew
<1>3. CASE UpgradeSnap
      BY <1>1, <1>3, UpgradeSnapDoes DEF PassShape, OutHolds, Keeps
<1>4. CASE UpgradeIdentify
      BY <1>1, <1>4, UpgradeIdentifyDoes DEF PassShape, OutHolds, Keeps
<1>5. CASE UpgradeProbe
      BY <1>1, <1>5, UpgradeProbeDoes DEF PassShape, OutHolds, Keeps
<1>6. CASE UpgradeJudge
      BY <1>1, <1>6, UpgradeJudgeDoes, NoPassIs DEF PassShape, OutHolds, Keeps, Anew
<1>7. CASE SkipCached
      BY <1>1, <1>7, SkipCachedDoes, NoPassIs DEF PassShape, OutHolds, Anew
<1>8. CASE SkipTagged
      BY <1>1, <1>8, SkipTaggedDoes, NoPassIs DEF PassShape, OutHolds, Anew
<1>9. CASE FullPass
      BY <1>1, <1>9, FullPassDoes, NoPassIs DEF PassShape, OutHolds, Anew
<1>10. CASE SweepRead
      BY <1>1, <1>10, SweepReadDoes DEF PassShape, OutHolds, Keeps
<1>11. CASE \E s \in Slots : SweepJudge(s)
      BY <1>1, <1>11, SweepJudgeDoes DEF PassShape, OutHolds, Keeps
<1>12. CASE SweepRecheck
      BY <1>1, <1>12, SweepRecheckDoes, NoPassIs DEF PassShape, OutHolds, Keeps, Anew
<1>13. CASE QuarantineCopy
      BY <1>1, <1>13, QuarantineCopyDoes, NextTargetDoes DEF PassShape, OutHolds, Keeps
<1>14. CASE QuarantineVerify
      BY <1>1, <1>14, QuarantineVerifyDoes, NextTargetDoes DEF PassShape, OutHolds, Keeps
<1>15. CASE QuarantineUnlink
      BY <1>1, <1>15, QuarantineUnlinkDoes, NextTargetDoes DEF PassShape, OutHolds, Keeps
<1>16. CASE \E s \in Slots : Gather(s)
  <2>1. PICK s \in Slots : Gather(s)
        BY <1>16
  <2>2. /\ video' = video /\ pass.pc = "gather" /\ pass.mode = "full" /\ pass'.mode = "full"
        /\ pass'.pc \in {"gather", "copy"}
        BY <1>1, <2>1, GatherDoes DEF PassShape, Keeps
  <2>3. /\ pass'.consumed \cap pass'.todo = {}
        /\ \A t \in pass'.consumed : English(pass'.snaps[t].text)
    <3>1. /\ pass.snaps \in [Slots -> Sidecars \cup {None}] /\ pass.consumed \subseteq Slots
          /\ pass.consumed \cap pass.todo = {} /\ s \in pass.todo
          /\ \A t \in pass.consumed : English(pass.snaps[t].text)
          BY <1>1, <2>1, Given DEF Passes, OutHolds, Gather, At
    <3>2. \/ /\ pass'.todo = pass.todo \ {s} /\ pass'.snaps = pass.snaps
             /\ pass'.consumed = pass.consumed
          \/ /\ pass'.todo = pass.todo /\ pass'.snaps = [pass.snaps EXCEPT ![s] = sidecar[s]]
             /\ pass'.consumed = pass.consumed
          \/ /\ pass'.todo = pass.todo \ {s}
             /\ pass'.snaps = [pass.snaps EXCEPT ![s] = sidecar[s]]
             /\ English(sidecar[s].text) /\ pass'.consumed \subseteq pass.consumed \cup {s}
          BY <1>1, <2>1, GatherDoes DEF Keeps
    <3> QED BY <3>1, <3>2
  <2> QED BY <2>2, <2>3 DEF OutHolds
<1>17. CASE Pick
  <2>1. pass.pc = "gather" /\ (BuildsAlone => pass.info = video)
        BY <1>1, <1>17, PickDoes DEF InfoHolds, Building
  <2>2. /\ video' = video /\ pass'.pc = "sync" /\ pass'.mode = "full"
        /\ pass'.snaps = pass.snaps /\ pass'.consumed = pass.consumed
        BY <1>1, <1>17, PickDoes DEF PassShape, Keeps
  <2>3. /\ pass'.out \in {"gen", "main"}
        /\ "real" \in pass.consumed => pass'.out = "main"
        /\ BuildsAlone /\ ~MayFail /\ video.sub = "main" => pass'.out = "main"
        BY <1>1, <1>17, <2>1, PickDoes
  <2> QED BY <1>1, <2>2, <2>3 DEF OutHolds
<1>18. CASE NoEnglish
      BY <1>1, <1>18, NoEnglishDoes DEF PassShape, OutHolds, Keeps
<1>19. CASE CleanupNothing
      BY <1>1, <1>19, CleanupNothingDoes, NoPassIs DEF PassShape, OutHolds, Keeps, Anew
<1>20. CASE CleanupRemux
      BY <1>1, <1>20, CleanupRemuxDoes, NoPassIs DEF PassShape, OutHolds, Keeps, Anew
<1>21. CASE Remux
      BY <1>1, <1>21, RemuxDoes, NoPassIs DEF PassShape, OutHolds, Keeps, Anew
<1>22. CASE SwapCheck
      BY <1>1, <1>22, SwapCheckDoes, NoPassIs DEF PassShape, OutHolds, Keeps, Anew
<1>23. CASE Swap
      BY <1>1, <1>23, SwapDoes, NoPassIs DEF PassShape, OutHolds, Anew
<1>24. CASE Tag
      BY <1>1, <1>24, TagDoes DEF PassShape, OutHolds, Keeps
<1>25. CASE NormalizeStart
      BY <1>1, <1>25, NormalizeStartDoes DEF PassShape, OutHolds, Keeps
<1>26. CASE NormalizeEnd
      BY <1>1, <1>26, NormalizeEndDoes DEF PassShape, OutHolds, Keeps
<1>27. CASE \E s \in Slots : DeleteCheck(s)
      BY <1>1, <1>27, DeleteCheckDoes DEF PassShape, OutHolds, Keeps
<1>28. CASE DeleteUnlink
      BY <1>1, <1>28, DeleteUnlinkDoes DEF PassShape, OutHolds, Keeps
<1>29. CASE Record
      BY <1>1, <1>29, RecordDoes DEF PassShape, OutHolds, Keeps
<1>30. CASE Ends
      BY <1>1, <1>30, EndsDo, NoPassIs DEF PassShape, OutHolds, Anew
<1>31. CASE UNCHANGED vars
      BY <1>1, <1>31 DEF vars, PassShape, OutHolds
<1>32. CASE \E r \in Releases : Import(r)
  <2>1. pass' = pass
        BY <1>1, <1>32, ImportDoes
  <2> QED BY <1>1, <1>32, <2>1, ImportsAt DEF OutHolds, PassShape, Building
<1>33. CASE \E s \in Slots : \E text \in Texts[s] : WriteSidecar(s, text)
      BY <1>1, <1>33, WriteSidecarDoes DEF PassShape, OutHolds
<1> QED BY <1>2, <1>3, <1>4, <1>5, <1>6, <1>7, <1>8, <1>9, <1>10, <1>11, <1>12, <1>13,
       <1>14, <1>15, <1>16, <1>17, <1>18, <1>19, <1>20, <1>21, <1>22, <1>23, <1>24, <1>25,
       <1>26, <1>27, <1>28, <1>29, <1>30, <1>31, <1>32, <1>33, NextIs

LEMMA SettleInv ==
    ASSUME Typed, InfoHolds, OutHolds, SettleHolds, [Next]_vars
    PROVE  SettleHolds'
<1> USE DEF Fields, Still, Moving, Reading, Settling
<1>1. TypeOK /\ PassShape /\ InfoHolds /\ OutHolds /\ SettleHolds
      BY DEF Typed
<1>2. CASE Begin
      BY <1>1, <1>2, BeginDoes, NoPassIs DEF PassShape, SettleHolds, Within, HasEnglish, Anew
<1>3. CASE UpgradeSnap
      BY <1>1, <1>3, UpgradeSnapDoes DEF PassShape, SettleHolds, Within, HasEnglish, Keeps
<1>4. CASE UpgradeIdentify
      BY <1>1, <1>4, UpgradeIdentifyDoes DEF PassShape, SettleHolds, Within, HasEnglish, Keeps
<1>5. CASE UpgradeProbe
      BY <1>1, <1>5, UpgradeProbeDoes DEF PassShape, SettleHolds, Within, HasEnglish, Keeps
<1>6. CASE UpgradeJudge
      BY <1>1, <1>6, UpgradeJudgeDoes, NoPassIs
         DEF PassShape, SettleHolds, Within, HasEnglish, Keeps, Anew
<1>7. CASE SkipCached
      BY <1>1, <1>7, SkipCachedDoes, NoPassIs DEF PassShape, SettleHolds, Within, HasEnglish, Anew
<1>8. CASE SkipTagged
      BY <1>1, <1>8, SkipTaggedDoes, NoPassIs DEF PassShape, SettleHolds, Within, HasEnglish, Anew
<1>9. CASE FullPass
      BY <1>1, <1>9, FullPassDoes, NoPassIs DEF PassShape, SettleHolds, Within, HasEnglish, Anew
<1>10. CASE SweepRead
      BY <1>1, <1>10, SweepReadDoes DEF PassShape, SettleHolds, Within, HasEnglish, Keeps
<1>11. CASE \E s \in Slots : SweepJudge(s)
      BY <1>1, <1>11, SweepJudgeDoes DEF PassShape, SettleHolds, Within, HasEnglish, Keeps
<1>12. CASE SweepRecheck
      BY <1>1, <1>12, SweepRecheckDoes, NoPassIs
         DEF PassShape, SettleHolds, Within, HasEnglish, Keeps, Anew
<1>13. CASE QuarantineCopy
      BY <1>1, <1>13, QuarantineCopyDoes, NextTargetDoes
         DEF PassShape, SettleHolds, Within, HasEnglish, Keeps
<1>14. CASE QuarantineVerify
      BY <1>1, <1>14, QuarantineVerifyDoes, NextTargetDoes
         DEF PassShape, SettleHolds, Within, HasEnglish, Keeps
<1>15. CASE QuarantineUnlink
      BY <1>1, <1>15, QuarantineUnlinkDoes, NextTargetDoes
         DEF PassShape, SettleHolds, Within, HasEnglish, Keeps
<1>16. CASE \E s \in Slots : Gather(s)
      BY <1>1, <1>16, GatherDoes DEF PassShape, SettleHolds, Within, HasEnglish, Keeps
<1>17. CASE Pick
      BY <1>1, <1>17, PickDoes DEF PassShape, SettleHolds, Within, HasEnglish, Keeps
<1>18. CASE NoEnglish
      BY <1>1, <1>18, NoEnglishDoes DEF PassShape, SettleHolds, Within, HasEnglish, Keeps
<1>19. CASE CleanupNothing
      BY <1>1, <1>19, CleanupNothingDoes, NoPassIs
         DEF PassShape, SettleHolds, Within, HasEnglish, Keeps, Anew
<1>20. CASE CleanupRemux
      BY <1>1, <1>20, CleanupRemuxDoes, NoPassIs
         DEF PassShape, SettleHolds, Within, HasEnglish, Keeps, Anew
<1>21. CASE Remux
      BY <1>1, <1>21, RemuxDoes, NoPassIs
         DEF PassShape, SettleHolds, Within, HasEnglish, Keeps, Anew
<1>22. CASE SwapCheck
      BY <1>1, <1>22, SwapCheckDoes, NoPassIs
         DEF PassShape, SettleHolds, Within, HasEnglish, Keeps, Anew
<1>23. CASE Swap
  <2>1. CASE pass'.pc # "tag"
    <3>1. pass'.pc \notin Settling
          BY <1>1, <1>23, <2>1, SwapDoes, NoPassIs DEF Anew
    <3> QED BY <3>1 DEF SettleHolds
  <2>2. CASE pass'.pc = "tag"
    <3>1. /\ pass.pc = "swap" /\ pass.mode \in {"full", "upgrade"}
          /\ video'.sub = pass.out /\ pass'.consumed = pass.consumed
          /\ video'.forced = (pass.info.forced \/ "forced" \in pass.consumed)
      <4>1. pass.mode \in {"full", "upgrade", "cleanup"}
            BY <1>1, <1>23, SwapDoes, Given DEF PassShape, Passes, Modes
      <4> QED BY <1>1, <1>23, <2>2, <4>1, SwapDoes, NoPassIs DEF Anew
    <3>2. /\ pass.out \in {"gen", "main"}
          /\ "real" \in pass.consumed => pass.out = "main"
          BY <1>1, <3>1 DEF OutHolds
    <3>3. HasEnglish' /\ \A s \in pass'.consumed : Within(s)'
          BY <3>1, <3>2 DEF HasEnglish, Within
    <3> QED BY <2>2, <3>3 DEF SettleHolds
  <2> QED BY <2>1, <2>2
<1>24. CASE Tag
      BY <1>1, <1>24, TagDoes DEF PassShape, SettleHolds, Within, HasEnglish, Keeps
<1>25. CASE NormalizeStart
      BY <1>1, <1>25, NormalizeStartDoes DEF PassShape, SettleHolds, Within, HasEnglish, Keeps
<1>26. CASE NormalizeEnd
  <2>1. /\ pass.pc = "normalizing" /\ pass'.pc = "delete"
        /\ pass'.todo = pass.consumed /\ pass'.consumed = pass.consumed
        /\ SettlesAlone => video'.sub = video.sub /\ video'.forced = video.forced
    <3>1. SettlesAlone => pass.info = video
          BY <1>1, <1>26, NormalizeEndDoes DEF PassShape, InfoHolds
    <3> QED BY <1>1, <1>26, <3>1, NormalizeEndDoes DEF Keeps
  <2> QED BY <1>1, <2>1 DEF SettleHolds, Within, HasEnglish
<1>27. CASE \E s \in Slots : DeleteCheck(s)
      BY <1>1, <1>27, DeleteCheckDoes DEF PassShape, SettleHolds, Within, HasEnglish, Keeps
<1>28. CASE DeleteUnlink
      BY <1>1, <1>28, DeleteUnlinkDoes DEF PassShape, SettleHolds, Within, HasEnglish, Keeps
<1>29. CASE Record
      BY <1>1, <1>29, RecordDoes DEF PassShape, SettleHolds, Within, HasEnglish, Keeps
<1>30. CASE Ends
      BY <1>1, <1>30, EndsDo, NoPassIs DEF PassShape, SettleHolds, Within, HasEnglish, Anew
<1>31. CASE UNCHANGED vars
      BY <1>1, <1>31 DEF vars, PassShape, SettleHolds, Within, HasEnglish
<1>32. CASE \E r \in Releases : Import(r)
  <2>1. pass' = pass /\ sidecar' = sidecar
        BY <1>1, <1>32, ImportDoes
  <2> QED BY <1>1, <1>32, <2>1, ImportsAt DEF SettleHolds, PassShape
<1>33. CASE \E s \in Slots : \E text \in Texts[s] : WriteSidecar(s, text)
      BY <1>1, <1>33, WriteSidecarDoes, Given DEF PassShape, SettleHolds, Within, HasEnglish
<1> QED BY <1>2, <1>3, <1>4, <1>5, <1>6, <1>7, <1>8, <1>9, <1>10, <1>11, <1>12, <1>13,
       <1>14, <1>15, <1>16, <1>17, <1>18, <1>19, <1>20, <1>21, <1>22, <1>23, <1>24, <1>25,
       <1>26, <1>27, <1>28, <1>29, <1>30, <1>31, <1>32, <1>33, NextIs

(* A video that changes is not one that an entry is for. *)
LEMMA SkipInv ==
    ASSUME Typed, InfoHolds, OutHolds, SettleHolds, SkipIsEarned, [Next]_vars, SettlesAlone
    PROVE  SkipIsEarned'
<1> USE DEF Fields, Still, Settling
<1>1. TypeOK /\ PassShape
      BY DEF Typed
<1>2. CASE video' = video
  <2>1. HasEnglish' <=> HasEnglish
        BY <1>2 DEF HasEnglish
  <2>2. CASE entry' = entry
        BY <1>2, <2>1, <2>2 DEF SkipIsEarned, Skipped
  <2>3. CASE SkipCached
    <3>1. entry' = entry \/ (entry # None /\ entry'.key = entry.key)
          BY <1>1, <2>3, SkipCachedDoes DEF PassShape, Reading
    <3> QED BY <1>2, <2>1, <3>1 DEF SkipIsEarned, Skipped
  <2>4. CASE SkipTagged
    <3>1. entry'.key = pass.cur /\ (video.id = pass.cur => video.tag)
          BY <1>1, <2>4, SkipTaggedDoes DEF Probed, InfoHolds
    <3> QED BY <1>2, <2>1, <3>1 DEF SkipIsEarned, Skipped
  <2>5. CASE Record
        BY <1>1, <2>1, <2>5, RecordDoes DEF SkipIsEarned, SettleHolds
  <2> QED BY <2>2, <2>3, <2>4, <2>5, WhoTouchesWhat
<1>3. CASE video' # video
  <2>1. video'.id = FreshVideo /\ (entry # None => entry.key # FreshVideo)
        BY <1>3, VideoMoves, FreshVideoIsFresh
  <2>2. CASE Swap
    <3>1. entry' = entry /\ pass.pc = "swap"
          BY <1>1, <2>2, SwapDoes
    <3>2. /\ video'.sub = pass.out
          /\ video'.tag => pass.mode # "full" /\ pass.info.tag
          BY <1>1, <1>3, <2>2, SwapDoes
    <3>3. video'.tag => pass.mode = "upgrade"
      <4>1. pass.mode \in {"full", "upgrade", "cleanup"}
            BY <1>1, <3>1, Given DEF PassShape, Passes, Modes
      <4> QED BY <3>1, <3>2, <4>1 DEF InfoHolds, Building
    <3>4. pass.mode = "upgrade" => pass.out = "main"
          BY <3>1 DEF OutHolds
    <3> QED BY <2>1, <3>1, <3>2, <3>3, <3>4 DEF SkipIsEarned, Skipped, HasEnglish
  <2>3. CASE Tag
        BY <1>1, <1>3, <2>3, TagDoes DEF SettleHolds, SkipIsEarned, HasEnglish
  <2>4. CASE NormalizeEnd
    <3>1. pass.pc = "normalizing" /\ pass.info = video
          BY <1>1, <2>4, NormalizeEndDoes DEF PassShape, InfoHolds
    <3> QED BY <1>1, <1>3, <2>4, <3>1, NormalizeEndDoes DEF SettleHolds, SkipIsEarned, HasEnglish
  <2>5. CASE \E r \in Releases : Import(r)
        BY <1>1, <2>1, <2>5, ImportDoes DEF SkipIsEarned, Skipped
  <2> QED BY <1>3, <2>2, <2>3, <2>4, <2>5, WhoTouchesWhat
<1> QED BY <1>2, <1>3

(* The inductive invariant. *)
LEMMA IInvInv ==
    ASSUME IInv, [Next]_vars
    PROVE  IInv'
BY TypedInv, SnapsInv, RecordsInv, InfoInv, SweepInv, OutInv, SettleInv, SkipInv DEF IInv

LEMMA IInvHolds == Spec => []IInv
BY InitInv, IInvInv, PTL DEF Spec

-----------------------------------------------------------------------------
(* Only files that have an English text subtitle inside are passed over by *)
(* later scans, for any releases, texts, verdicts, failures and kills, and *)
(* whatever an earlier file at this path was tagged or recorded as, unless *)
(* a release is imported between a rename and the entry for it.            *)
THEOREM SkipsAreEarned == SettlesAlone => (Spec => []SkipIsEarned)
<1> SUFFICES ASSUME SettlesAlone PROVE Spec => []SkipIsEarned
    OBVIOUS
<1>1. IInv => SkipIsEarned
      BY DEF IInv
<1> QED BY <1>1, IInvHolds, PTL

(* The two steps that remove a sidecar, and what is known then. *)
LEMMA Removals ==
    ASSUME IInv, [Next]_vars, NEW s \in Slots, Removed(s)
    PROVE  /\ s = pass.target
           /\ \/ /\ pass.pc = "unlink" /\ pass.copy = pass.snaps[s]
                 /\ MayRace \/ sidecar[s] = pass.copy
                 /\ s = "real" /\ pass.why # "redundant" => pass.snaps[s].text # "right"
                 /\ pass.mode = "full" => pass.why = "foreign"
                 /\ pass.mode \in {"full", "sweep"}
                 /\ pass.mode = "sweep" /\ pass.why = "redundant" /\ MovesAlone => Within(s)
              \/ /\ pass.pc = "drop" /\ pass.mode # "sweep" /\ s \in pass.consumed
                 /\ MayRace \/ sidecar[s] = pass.snaps[s]
                 /\ English(pass.snaps[s].text) /\ (SettlesAlone => Within(s))
<1>1. /\ TypeOK /\ PassShape /\ SweepHolds /\ OutHolds /\ SettleHolds
      /\ sidecar \in [Slots -> Sidecars \cup {None}]
      BY Given DEF IInv, Typed
<1>2. CASE QuarantineUnlink
  <2>1. pass.pc = "unlink" /\ s = pass.target
        BY <1>1, <1>2, QuarantineUnlinkDoes DEF Removed
  <2> QED BY <1>1, <2>1 DEF PassShape, SweepHolds, Moving
<1>3. CASE DeleteUnlink
  <2>1. pass.pc = "drop" /\ s = pass.target
        BY <1>1, <1>3, DeleteUnlinkDoes DEF Removed
  <2> QED BY <1>1, <2>1 DEF PassShape, OutHolds, SettleHolds, Settling
<1>4. CASE \E t \in Slots : \E text \in Texts[t] : WriteSidecar(t, text)
  <2>1. PICK t \in Slots : \E text \in Texts[t] : WriteSidecar(t, text)
        BY <1>4
  <2>2. sidecar'[t] # None /\ sidecar' = [sidecar EXCEPT ![t] = sidecar'[t]]
        BY <1>1, <2>1, WriteSidecarDoes, NoneAssumption
  <2> QED BY <1>1, <2>2 DEF Removed
<1> QED BY <1>2, <1>3, <1>4, WhoTouchesWhat DEF Removed

(* The late sweep moves a sidecar away as redundant only beside a video    *)
(* whose own text is English then, not because of an earlier file's,       *)
(* unless a release is imported between its re-check and the move.         *)
THEOREM SweepsAreCovered == MovesAlone => (Spec => RedundantIsCovered)
<1> SUFFICES ASSUME MovesAlone PROVE Spec => RedundantIsCovered
    OBVIOUS
<1>1. ASSUME IInv, [Next]_vars
      PROVE  \A s \in Slots :
                Removed(s) /\ pass.mode = "sweep" /\ pass.why = "redundant" =>
                   IF s = "forced" THEN video.forced ELSE HasEnglish
      BY <1>1, Removals DEF Within
<1>2. IInv /\ [Next]_vars =>
         [\A s \in Slots :
             Removed(s) /\ pass.mode = "sweep" /\ pass.why = "redundant" =>
                IF s = "forced" THEN video.forced ELSE HasEnglish]_vars
      BY <1>1
<1> QED BY <1>2, IInvHolds, PTL DEF Spec, RedundantIsCovered

(* But for the race the code accepts, between its last look at a sidecar   *)
(* and the unlink, every sidecar that disappears was copied to quarantine  *)
(* as it was, or has been read as English and is inside the video, unless  *)
(* a release is imported between a rename and the last of the removals.    *)
THEOREM RemovalsAccountedFor ==
    SettlesAlone /\ ~MayRace => (Spec => SidecarsAccountedFor)
<1> DEFINE Accounted(s) ==
        \/ pass.copy = sidecar[s]
        \/ /\ s \in pass.consumed
           /\ pass.snaps[s] = sidecar[s]
           /\ English(sidecar[s].text)
           /\ IF s = "forced" THEN video.forced ELSE HasEnglish
<1> SUFFICES ASSUME SettlesAlone, ~MayRace PROVE Spec => SidecarsAccountedFor
    OBVIOUS
<1>1. ASSUME IInv, [Next]_vars
      PROVE  \A s \in Slots : Removed(s) => Accounted(s)
      BY <1>1, Removals DEF Within
<1>2. IInv /\ [Next]_vars => [\A s \in Slots : Removed(s) => Accounted(s)]_vars
      BY <1>1
<1> QED BY <1>2, IInvHolds, PTL DEF Spec, SidecarsAccountedFor

(* But for that race, the right real sidecar is neither moved nor deleted  *)
(* before the video has a real subtitle, whatever was remembered, unless a *)
(* release is imported in one of these two gaps.                           *)
THEOREM RightSurvives ==
    MovesAlone /\ SettlesAlone /\ ~MayRace => (Spec => RightSidecarSurvives)
<1> SUFFICES ASSUME MovesAlone, SettlesAlone, ~MayRace PROVE Spec => RightSidecarSurvives
    OBVIOUS
<1>1. ASSUME IInv, [Next]_vars, Removed("real"), sidecar["real"].text = "right"
      PROVE  video.sub = "main"
  <2>1. "real" \in Slots
        BY SlotsAssumption
  <2>2. CASE pass.pc = "unlink"
        BY <1>1, <2>1, <2>2, Removals DEF Within
  <2>3. CASE pass.pc = "drop"
        BY <1>1, <2>1, <2>3, Removals DEF Within
  <2> QED BY <1>1, <2>1, <2>2, <2>3, Removals
<1>2. IInv /\ [Next]_vars =>
         [Removed("real") /\ sidecar["real"].text = "right" => video.sub = "main"]_vars
      BY <1>1
<1> QED BY <1>2, IInvHolds, PTL DEF Spec, RightSidecarSurvives

(* Real beats generated, as long as the tools work: no pass leaves a file  *)
(* that had a real English subtitle with a generated one or none, unless   *)
(* a release is imported into a full pass, a clean-up, or after a rename.  *)
THEOREM NeverDowngraded ==
    BuildsAlone /\ SettlesAlone /\ ~MayFail => (Spec => NoDowngrade)
<1> SUFFICES ASSUME BuildsAlone, SettlesAlone, ~MayFail PROVE Spec => NoDowngrade
    OBVIOUS
<1>1. ASSUME IInv, [Next]_vars, pass' # pass, video.sub = "main"
      PROVE  video'.sub = "main"
  <2>1. TypeOK /\ PassShape
        BY <1>1 DEF IInv, Typed
  <2>2. CASE Swap
    <3>1. /\ pass.pc = "swap" /\ (video' = video \/ video'.sub = pass.out)
          /\ pass.mode \in {"full", "upgrade", "cleanup"}
      <4>1. pass.pc = "swap" /\ (video' = video \/ video'.sub = pass.out)
            BY <2>1, <2>2, SwapDoes
      <4> QED BY <2>1, <4>1, Given DEF PassShape, Passes, Modes
    <3> QED BY <1>1, <3>1 DEF IInv, OutHolds
  <2>3. CASE Tag
        BY <1>1, <2>1, <2>3, TagDoes
  <2>4. CASE NormalizeEnd
    <3>1. pass.info = video
          BY <1>1, <2>1, <2>4, NormalizeEndDoes DEF IInv, InfoHolds, PassShape
    <3> QED BY <1>1, <2>1, <2>4, <3>1, NormalizeEndDoes
  <2>5. CASE \E r \in Releases : Import(r)
        BY <1>1, <2>1, <2>5, ImportDoes
  <2> QED BY <1>1, <2>2, <2>3, <2>4, <2>5, WhoTouchesWhat
<1>2. IInv /\ [Next]_vars =>
         [pass.pc # "idle" /\ pass' # pass /\ video.sub = "main" => video'.sub = "main"]_vars
      BY <1>1
<1> QED BY <1>2, IInvHolds, PTL DEF Spec, NoDowngrade

=============================================================================
