------------------------------ MODULE MCDedupe ------------------------------
(* Dedupe with an .mp4 that becomes an .mkv, and a better release.         *)
EXTENDS Dedupe

MCNames == {"sd.mp4", "sd.mkv", "hd.mkv", "double.mkv"}
MCQuality == [n \in MCNames |-> IF n = "hd.mkv" THEN 2 ELSE 1]
MCTarget == [n \in MCNames |-> IF n \in {"sd.mp4", "sd.mkv"} THEN "sd.mkv" ELSE None]
MCReleases == {r \in [content : {"good", "broken"}, double : BOOLEAN] :
                  r.double => r.content = "good"}
(* Checks, requests and moves follow each other at once under the locks;    *)
(* which imports in between the code stands is told in the README.           *)
BeforeLocks == {"idle", "episodes", "scan", "lock"}
MCImportAt ==
    [any |-> BeforeLocks \cup {"refiles", "reepisodes"}, force |-> BeforeLocks,
     broken |-> BeforeLocks, renamed |-> BeforeLocks \ {"lock"}, movie |-> {"idle"}]

MCRows == 1..3
=============================================================================
