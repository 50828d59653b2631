---------------------------- MODULE MCConsolidate ---------------------------
(* Consolidate with small sets of sidecars, texts and releases. *)
EXTENDS Consolidate, Sequences

(* A generated transcript, Bazarr's subtitle, right or wrong, and a forced *)
(* sidecar.                                                                *)
AllSlots == {"real", "gen", "forced"}
SomeTexts == [real |-> {"right", "wrong"}, gen |-> {"right"}, forced |-> {"right", "foreign"}]
PlainReleases == {r \in [sub : {"none", "main"}, forced : BOOLEAN, alien : {FALSE}] :
                     r.forced => r.sub = "main"}

(* One sidecar with every kind of text; tracks that lie about their tag. *)
RealOnly == {"real"}
RealTexts == [real |-> AllTexts]
LyingReleases == [sub : {"none", "main", "fake"}, forced : {FALSE}, alien : BOOLEAN]

(* Identities matter only by which of them are equal.  The view replaces   *)
(* each by a place at which the state mentions it, so that states that     *)
(* differ in nothing else are explored once.                               *)
RecordIds(e) ==
    IF e = None THEN <<0, 0>>
    ELSE <<e.key, IF e.rejected = None THEN 0 ELSE e.rejected.video>>

VideoMentions ==
    <<video.id, pass.cur, pass.uid, pass.base, IF pass.info = None THEN 0 ELSE pass.info.id,
      IF pass.rejected = None THEN 0 ELSE pass.rejected.video>>
        \o RecordIds(entry) \o RecordIds(pass.prev)

SideMentions(s) ==
    <<IF sidecar[s] = None THEN 0 ELSE sidecar[s].id,
      IF pass.snaps[s] = None THEN 0 ELSE pass.snaps[s].id>>
        \o [n \in 1..3 |->
              LET e == <<entry, pass.prev, pass>>[n]
              IN  IF s # "real" \/ e = None \/ e.rejected = None THEN 0 ELSE e.rejected.side]

Renumbered(mentions) ==
    [n \in DOMAIN mentions |->
        IF mentions[n] = 0 THEN 0
        ELSE CHOOSE m \in DOMAIN mentions : mentions[m] = mentions[n]]

Shape(e) ==
    IF e = None THEN None
    ELSE [e EXCEPT !.key = 0,
                   !.rejected = IF @ = None THEN None ELSE [@ EXCEPT !.video = 0, !.side = 0]]

Anonymous(f) == IF f = None THEN None ELSE [f EXCEPT !.id = 0]

View ==
    <<Renumbered(VideoMentions), [s \in Slots |-> Renumbered(SideMentions(s))],
      Anonymous(video), [s \in Slots |-> Anonymous(sidecar[s])], Shape(entry), wanted,
      [pass EXCEPT !.cur = 0, !.uid = 0, !.base = 0, !.prev = Shape(@),
                   !.info = Anonymous(@), !.copy = Anonymous(@),
                   !.rejected = IF @ = None THEN None ELSE [@ EXCEPT !.video = 0, !.side = 0],
                   !.snaps = [s \in Slots |-> Anonymous(@[s])]]>>

Few == 1..6
Many == 1..11
=============================================================================
