---------------------------- MODULE MCSubFallback ---------------------------
(* SubFallback with two releases of one title. *)
EXTENDS SubFallback, Sequences

TwoReleases == 1..2
NineIds == 1..9

Kind(sub, dual, clean, speech, sibling) ==
    [sub |-> sub, dual |-> dual, clean |-> clean, speech |-> speech, sibling |-> sibling]

(* The first release is one that gets its subtitle; the second, which meets  *)
(* what that one has left, is of any of the ends a file can come to: a       *)
(* subtitle for each of two audio languages, or a transcript without         *)
(* dialogue for one of them, one that does not pass for English, none at     *)
(* all, or a sibling in the way.                                             *)
Plain == Kind("none", FALSE, TRUE, "good", FALSE)
Dual == Kind("none", TRUE, FALSE, "good", FALSE)
Mute == Kind("main", TRUE, TRUE, "empty", FALSE)
Misheard == Kind("none", FALSE, TRUE, "foreign", FALSE)
Silent == Kind("none", FALSE, TRUE, "none", FALSE)
Blocked == Kind("none", FALSE, TRUE, "good", TRUE)

FirstAndSecond ==
    [r \in TwoReleases |->
        IF r = 1 THEN {Plain} ELSE {Dual, Mute, Misheard, Silent, Blocked}]

(* An import may fall anywhere, but not between the last comparison with    *)
(* the tracker and the identity a run goes by, nor between that identity's  *)
(* last check and the link, nor between the sight of the tag and the report *)
(* of it: three gaps of a system call or so, which the code leaves open.    *)
(* Of a --dub run only the second is one.                                   *)
RunAnywhere ==
    {"main", "dub"} \X RunPlaces
        \ {<<"main", "identify">>, <<"main", "link">>, <<"main", "lock">>, <<"dub", "link">>}

(* Nor in the middle of a pass, which is module Consolidate's question, but *)
(* in a late add's remux.                                                   *)
PassAtRest == {"idle", "late"}

(* Identities matter only by which of them are equal: the view replaces     *)
(* each by the first place at which the state mentions it.  What run_dub or *)
(* the state remembers of a file that has become another equals nothing     *)
(* again.                                                                   *)
IdOf(e) == IF e = None THEN 0 ELSE e.id
Mentions ==
    <<IdOf(video), IdOf(entry), run.id, run.walk, IdOf(run.seen), pass.id>>
FirstMentions ==
    [n \in DOMAIN Mentions |->
       IF Mentions[n] = 0 THEN 0
       ELSE CHOOSE m \in DOMAIN Mentions :
              Mentions[m] = Mentions[n] /\ \A k \in 1..(m - 1) : Mentions[k] # Mentions[n]]
Memories ==
    <<IF memo = 0 THEN "none" ELSE IF memo = IdOf(video) THEN "this" ELSE "other",
      cached # 0 /\ cached = IdOf(video)>>
Nameless(e) == IF e = None THEN None ELSE [e EXCEPT !.id = 0]

(* A spent sidecar matters while it is there, and only after a pass that    *)
(* went well.                                                               *)
View ==
    <<FirstMentions, Memories, Nameless(video), Nameless(entry),
      [run EXCEPT !.id = 0, !.walk = 0, !.seen = Nameless(@)],
      [pass EXCEPT !.id = 0], sidecar, imported, faults,
      IF video = None \/ marred THEN {} ELSE {s \in spent : sidecar[s] # None},
      video # None /\ marred>>
=============================================================================
