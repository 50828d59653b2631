---------------------------- MODULE MCShieldCheck ---------------------------
(* ShieldCheck with two devices and one thing to find. *)
EXTENDS ShieldCheck

CONSTANTS living, bedroom, drift

TwoDevices == {living, bedroom}
OneFinding == {None, drift}
=============================================================================
