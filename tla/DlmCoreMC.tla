----------------------------- MODULE DlmCoreMC -----------------------------
(***************************************************************************)
(* Instances of DlmCore for TLC.  The modules are                          *)
(*                                                                         *)
(*   a   no dependencies, registered for the driver row r                  *)
(*   b   depends on a (named twice) and on the static module s; hook h     *)
(*   c   in the chain: depends on b, and asks for row r, which is not its; *)
(*       in the shared instances: depends on a, and wants hook h too       *)
(***************************************************************************)
EXTENDS DlmCore, TLC

CONSTANTS a, b, c, s, r, h

Perms == Permutations(Procs)

DependsShared ==
  [n \in Names |-> CASE n = b -> <<a, s, a>> [] n = c -> <<a>> [] OTHER -> <<>>]
LinksShared ==
  [n \in Names |-> CASE n = a -> {r} [] n \in {b, c} -> {h} [] OTHER -> {}]
OwnersShared == [k \in Keys |-> IF k = r THEN {a} ELSE Names]

DependsChain ==
  [n \in Names |-> CASE n = b -> <<a, s, a>> [] n = c -> <<b>> [] OTHER -> <<>>]
LinksChain ==
  [n \in Names |-> CASE n \in {a, c} -> {r} [] n = b -> {h} [] OTHER -> {}]
OwnersChain == [k \in Keys |-> IF k = r THEN {a} ELSE {b}]
=============================================================================
