----------------------------- MODULE MCFileLock -----------------------------
(* FileLock with two pipeline runs and one movie-dedupe run.               *)
EXTENDS FileLock, TLC

CONSTANTS watcher, scan, dedupe

MCPipelines == {watcher, scan}
MCDedupers == {dedupe}

(* The two pipeline runs are interchangeable. *)
Symmetry == Permutations(MCPipelines)
=============================================================================
