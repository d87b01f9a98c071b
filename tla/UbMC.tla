------------------------------- MODULE UbMC -------------------------------
(* Ub with the daemon and one or two users.                                *)
EXTENDS Ub, TLC
CONSTANTS u1, u2
Small == {[blocks |-> 2, bs |-> 2]}
Coarse == {[blocks |-> 3, bs |-> 1], [blocks |-> 1, bs |-> 2]}
Huge == {[blocks |-> 1, bs |-> 4]}
SomeReqs == {<<0, 6>>, <<1, 2>>}
OneReq == {<<0, 4>>}
SomeRw == {<<0, 1>>}
WrapRw == {<<7, 2>>}
=============================================================================
