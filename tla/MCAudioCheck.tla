---------------------------- MODULE MCAudioCheck ----------------------------
(* AudioCheck with two files. *)
EXTENDS AudioCheck

CONSTANTS film, episode

TwoFiles == {film, episode}
=============================================================================
