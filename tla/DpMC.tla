------------------------------- MODULE DpMC -------------------------------
(***************************************************************************)
(* Instances of Dp for TLC.                                                *)
(***************************************************************************)
EXTENDS Dp, TLC

CONSTANTS p, o, ip, arp

(* frame 2 is too long *)
BadMC == {2}
=============================================================================
