---------------------------- MODULE MCDownloads ----------------------------
(* Downloads with a season pack, and a release that either Arr may grab.   *)
EXTENDS Downloads

MCDownloads == {"pack", "one"}
MCTakers == [d \in MCDownloads |-> IF d = "pack" THEN {"sonarr"} ELSE {"radarr", "sonarr"}]
MCCovers == [d \in MCDownloads |-> IF d = "pack" THEN {"e1", "e2"} ELSE {"e2"}]
MCMaxGrabs == [d \in MCDownloads |-> IF d = "pack" THEN 1 ELSE 2]
=============================================================================
