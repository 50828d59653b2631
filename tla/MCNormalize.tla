----------------------------- MODULE MCNormalize ----------------------------
(* Normalize with two workers and three releases. *)
EXTENDS Normalize

CONSTANTS scan, inline

TwoWorkers == {scan, inline}
SomeReleases == 1..3

(* Nothing is imported over a file from the moment it is opened for the     *)
(* rendering, since the code does not look at its source again before it    *)
(* swaps; nor between a measurement and the tag that relies on it.          *)
BeforeRendering == {"idle", "inspect", "render"}

(* An .mkv may appear until the last look for one. *)
BeforeTheSwap == {"idle", "inspect", "render", "collide", "dest"}
=============================================================================
