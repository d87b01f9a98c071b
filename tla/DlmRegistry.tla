---------------------------- MODULE DlmRegistry ----------------------------
(***************************************************************************)
(* What the loader promises its callers (src/dlm/upstream/dlm-spec.md,     *)
(* modload and moduload): a set of loaded modules closed under             *)
(* dependencies, from which a module leaves only when nothing holds it and *)
(* no loaded module depends on it.  Processes, sleeps, failures, records   *)
(* and interruptions do not appear.                                        *)
(***************************************************************************)
EXTENDS Naturals, Sequences

CONSTANTS Names, Static, Depends

VARIABLES
  loaded,   \* names of the modules whose load has settled
  held      \* held[n]: references on n

DependsOn(m, n) == n \in {Depends[m][i] : i \in DOMAIN Depends[m]} \ Static

Init ==
  /\ loaded = {}
  /\ held = [n \in Names |-> 0]

Load(n) ==
  /\ n \notin loaded
  /\ \A d \in Names : DependsOn(n, d) => d \in loaded
  /\ loaded' = loaded \cup {n}
  /\ UNCHANGED held

Unload(n) ==
  /\ n \in loaded /\ held[n] = 0
  /\ \A m \in loaded : ~DependsOn(m, n)
  /\ loaded' = loaded \ {n}
  /\ UNCHANGED held

Hold(n) ==
  /\ n \in loaded
  /\ held' = [held EXCEPT ![n] = @ + 1]
  /\ UNCHANGED loaded

Rele(n) ==
  /\ held[n] > 0
  /\ held' = [held EXCEPT ![n] = @ - 1]
  /\ UNCHANGED loaded

Next == \E n \in Names : Load(n) \/ Unload(n) \/ Hold(n) \/ Rele(n)

Spec == Init /\ [][Next]_<<loaded, held>>
=============================================================================
