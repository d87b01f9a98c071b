------------------------------ MODULE DlmOpen ------------------------------
(***************************************************************************)
(* What keeps a loaded module in the kernel while it is used: the          *)
(* trampolines in the switch tables (dlm_cdev_open and dlm_cdev_close and  *)
(* xcall of src/dlm/upstream/dlm_slot.c, dlm_sdev_open and dlm_sdev_close  *)
(* of dlm_str.c), which load the module at its first use, take a hold      *)
(* (m_refs) for the call, and leave it while a device, a stream or a       *)
(* layered open is open.                                                   *)
(*                                                                         *)
(* One module with a slot of each kind.  The loader is seen as the         *)
(* trampolines see it (DlmCore has the whole of it): a state, and the      *)
(* slots' cs_mod, sd_mod and xs_mod, set by the linkage and cleared before *)
(* _unload.  A signal that ends a sleep leaves the call by longjmp.        *)
(*                                                                         *)
(* The callers are the kernel's: specfs closes a device (dev, otyp) at its *)
(* last close only, and layered opens each; the stream head closes a       *)
(* stream once.  Both keep an open and the last close of one device or     *)
(* stream apart.                                                           *)
(***************************************************************************)
EXTENDS Naturals, FiniteSets, Functions

CONSTANTS
  Procs,
  Devs,          \* keys of cs_set: (dev, otyp) with otyp # OTYP_LYR
  Layered,       \* a key opened with OTYP_LYR
  Streams,       \* queue pairs of the STREAMS major
  Images,        \* exec(2) calls of the module's magic
  NOpen,         \* CDEV_NOPEN
  NoKey,         \* no key
  MaxOpens,      \* bound: opens of one key at a time
  MaxLost,       \* bound: holds that stay for good, closes left by a signal
  CloseSleeps    \* a driver's close can be ended by a signal

Keys == Devs \cup {Layered} \cup Streams \cup Images

OpenAssumption ==
  /\ NOpen \in Nat /\ MaxOpens \in Nat /\ MaxLost \in Nat
  /\ CloseSleeps \in BOOLEAN /\ NoKey \notin Keys
  /\ IsFiniteSet(Procs) /\ IsFiniteSet(Devs) /\ IsFiniteSet(Streams)
  /\ Layered \notin Devs \cup Streams \cup Images
  /\ Devs \cap Streams = {} /\ Devs \cap Images = {} /\ Streams \cap Images = {}

VARIABLES
  st,       \* the module's record
  linked,   \* cs_mod, sd_mod and xs_mod are the module
  refs,     \* m_refs
  incall,   \* m_incall
  set,      \* cs_set, and the streams whose q_ptr is set
  good,     \* holds that "stay for good" (kept for the properties only)
  opens,    \* the kernel's count of opens of each key
  left,     \* closes of each key that a signal left (history)
  pr        \* the processes

vars == <<st, linked, refs, incall, set, good, opens, left, pr>>

User == [pc |-> "user", key |-> NoKey]

TypeOK ==
  /\ st \in {"none", "loading", "loaded", "unloading"}
  /\ linked \in BOOLEAN
  /\ refs \in Nat /\ incall \in Nat /\ good \in Nat
  /\ set \in SUBSET (Devs \cup Streams)
  /\ opens \in [Keys -> 0 .. MaxOpens] /\ left \in [Keys -> Nat]
  /\ pr \in [Procs -> [pc: {"user", "load", "loading", "open", "close", "unload"},
                       key: Keys \cup {NoKey}]]

Init ==
  /\ st = "none" /\ linked = FALSE
  /\ refs = 0 /\ incall = 0 /\ set = {} /\ good = 0
  /\ opens = [k \in Keys |-> 0] /\ left = [k \in Keys |-> 0]
  /\ pr = [p \in Procs |-> User]

-----------------------------------------------------------------------------
At(pc) == {p \in Procs : pr[p].pc = pc}
On(k) == {p \in Procs : pr[p].pc # "user" /\ pr[p].key = k}
Goes(p, pc) == pr' = [pr EXCEPT ![p].pc = pc]
Leaves(p) == pr' = [pr EXCEPT ![p] = User]

(* dlm_hold and the driver's open                                          *)
Enters(p) == linked /\ refs' = refs + 1 /\ Goes(p, "open")

(* An open of key k; a stream is opened by one process at a time.          *)
Open(p, k) ==
  /\ pr[p].pc = "user" /\ opens[k] < MaxOpens
  /\ \A o \in On(k) : k \notin Streams /\ pr[o].pc # "close"
  /\ pr' = [pr EXCEPT ![p] = [pc |-> IF linked THEN "open" ELSE "load", key |-> k]]
  /\ refs' = IF linked THEN refs + 1 ELSE refs
  /\ UNCHANGED <<st, linked, incall, set, good, opens, left>>

(* dlm_load: creates the record, or finds it loaded, by another process;   *)
(* while another loads or unloads it, sleeps                               *)
LoadStarts(p) ==
  /\ pr[p].pc = "load" /\ st = "none"
  /\ st' = "loading" /\ Goes(p, "loading")
  /\ UNCHANGED <<linked, refs, incall, set, good, opens, left>>
LoadFinds(p) ==
  /\ pr[p].pc = "load" /\ st = "loaded" /\ Enters(p)
  /\ UNCHANGED <<st, linked, incall, set, good, opens, left>>
LoadEnds(p) ==
  /\ pr[p].pc = "loading"
  /\ \/ /\ st' = "loaded" /\ linked' = TRUE
        /\ refs' = refs + 1 /\ Goes(p, "open")
     \/ /\ st' = "none" /\ Leaves(p)                      \* ENXIO
        /\ UNCHANGED <<linked, refs>>
  /\ UNCHANGED <<incall, set, good, opens, left>>

(* a signal in dlm_load: dlm_abort ends the loads under way here           *)
LoadInterrupted(p) ==
  /\ pr[p].pc \in {"load", "loading"}
  /\ st' = IF pr[p].pc = "loading" THEN "none" ELSE st
  /\ Leaves(p)
  /\ UNCHANGED <<linked, refs, incall, set, good, opens, left>>

(* The driver's open returns 0.  A hold is kept by an open that finds its  *)
(* key closed, and by every layered open; the driver may have taken        *)
(* another minor (a clone open).  Not by exec.                             *)
(* mutant: a layered open lets its hold go                                 *)
KeepsHoldNotLayered(k) == k \notin Images \cup {Layered} /\ k \notin set
(* mutant: each open of a device keeps a hold                              *)
KeepsHoldEach(k) == k \notin Images
KeepsHold(k) == k = Layered \/ (k \notin Images /\ k \notin set)
Room(k) == k \in Streams \/ Cardinality(set \cap Devs) < NOpen
GoesTo(k) ==
  IF k \in Devs THEN {k} \cup {d \in Devs : opens[d] = 0 /\ On(d) = {}} ELSE {k}
OpenReturns(p) ==
  /\ pr[p].pc = "open"
  /\ \E k \in GoesTo(pr[p].key) :
       /\ refs' = IF KeepsHold(k) THEN refs ELSE refs - 1
       /\ set' = IF KeepsHold(k) /\ k # Layered /\ Room(k) THEN set \cup {k} ELSE set
       /\ good' = IF KeepsHold(k) /\ k # Layered /\ ~Room(k) THEN good + 1 ELSE good
       /\ opens' = IF k \in Images THEN opens ELSE [opens EXCEPT ![k] = @ + 1]
       /\ opens[k] < MaxOpens /\ good' <= MaxLost
  /\ Leaves(p)
  /\ UNCHANGED <<st, linked, incall, left>>

(* mutant: the longjmp handler does not know of the hold                   *)
OpenFailsKeeping(p) ==
  /\ pr[p].pc = "open" /\ Leaves(p)
  /\ UNCHANGED <<st, linked, refs, incall, set, good, opens, left>>
(* ... fails, or is left by a signal: both let the hold go                 *)
OpenFails(p) ==
  /\ pr[p].pc = "open" /\ refs' = refs - 1 /\ Leaves(p)
  /\ UNCHANGED <<st, linked, incall, set, good, opens, left>>

(* A close; the driver's own is called at the last one.  Without a module  *)
(* the trampoline only counts it (dlm_stale_close).                        *)
LastClose(k) == k = Layered \/ opens[k] = 1
Close(p, k) ==
  /\ pr[p].pc = "user" /\ opens[k] > 0
  /\ LastClose(k) /\ k # Layered => On(k) = {}
  /\ opens' = [opens EXCEPT ![k] = @ - 1]
  /\ IF LastClose(k) /\ linked
     THEN /\ incall' = incall + 1
          /\ pr' = [pr EXCEPT ![p] = [pc |-> "close", key |-> k]]
     ELSE UNCHANGED <<incall, pr>>
  /\ UNCHANGED <<st, linked, refs, set, good, left>>

(* mutant: the key stays in cs_set                                         *)
CloseReturnsKeyStays(p) ==
  LET k == pr[p].key
  IN  /\ pr[p].pc = "close"
      /\ incall' = incall - 1
      /\ refs' = IF k = Layered \/ k \in set THEN refs - 1 ELSE refs
      /\ Leaves(p)
      /\ UNCHANGED <<st, linked, set, good, opens, left>>
CloseReturns(p) ==
  LET k == pr[p].key
  IN  /\ pr[p].pc = "close"
      /\ incall' = incall - 1
      /\ refs' = IF k = Layered \/ k \in set THEN refs - 1 ELSE refs
      /\ set' = set \ {k}
      /\ Leaves(p)
      /\ UNCHANGED <<st, linked, good, opens, left>>

(* A signal leaves the driver's close: the close trampolines set no        *)
(* longjmp handler.                                                        *)
CloseInterrupted(p) ==
  /\ CloseSleeps /\ incall <= MaxLost
  /\ pr[p].pc = "close" /\ Leaves(p)
  /\ left' = [left EXCEPT ![pr[p].key] = @ + 1]
  /\ UNCHANGED <<st, linked, refs, incall, set, good, opens>>

(* mutant: a module with holds may go                                      *)
BusyIgnoringRefs == incall > 0
Busy == refs > 0 \/ incall > 0

(* moduload: the linkages go (drv_remove), then _unload, which may refuse: *)
(* then they come back                                                     *)
Unload(p) ==
  /\ pr[p].pc = "user" /\ st = "loaded" /\ ~Busy
  /\ st' = "unloading" /\ linked' = FALSE /\ set' = {} /\ Goes(p, "unload")
  /\ UNCHANGED <<refs, incall, good, opens, left>>
UnloadEnds(p) ==
  /\ pr[p].pc = "unload" /\ Leaves(p)
  /\ \/ st' = "none" /\ UNCHANGED linked
     \/ st' = "loaded" /\ linked' = TRUE
  /\ UNCHANGED <<refs, incall, set, good, opens, left>>

Next ==
  \E p \in Procs :
    \/ \E k \in Keys : Open(p, k) \/ Close(p, k)
    \/ LoadStarts(p) \/ LoadFinds(p) \/ LoadEnds(p) \/ LoadInterrupted(p)
    \/ OpenReturns(p) \/ OpenFails(p)
    \/ CloseReturns(p) \/ CloseInterrupted(p)
    \/ Unload(p) \/ UnloadEnds(p)

Spec == Init /\ [][Next]_vars

-----------------------------------------------------------------------------
(* Properties                                                              *)

(* While the kernel has a device, a stream or a layered open of the module *)
(* open, or is in a routine of it, the module is loaded: its image is      *)
(* never freed under them (dlm_slot.c:540, dlm_str.c:387).                 *)
InUse == (\E k \in Keys : opens[k] > 0) \/ At("open") # {} \/ At("close") # {}
UsedLoaded == InUse => st = "loaded" /\ linked

(* Every hold has a reason: an open key or stream, a layered open or its   *)
(* close, a driver's open under way, or an open past the limit of cs_set   *)
(* (dlm_slot.c:587); none is lost or given back twice.                     *)
Closing(k) == Cardinality({p \in At("close") : pr[p].key = k})
HoldsExact ==
  refs = Cardinality(set) + opens[Layered] + Closing(Layered) + left[Layered]
         + Cardinality(At("open")) + good

(* When the last close has returned, the module may be unloaded            *)
(* (dlm-spec.md:289), holds that stay for good apart.                      *)
AllClosed ==
  (\A k \in Keys : opens[k] = 0) /\ (\A p \in Procs : pr[p].pc = "user")
LastCloseFrees == AllClosed => refs = good /\ incall = 0

(* The same, unless a signal left a close: only the closes that signals    *)
(* left keep the module busy, and none more than its own call and hold.    *)
CleanCloseFrees ==
  AllClosed =>
    /\ incall = FoldFunction(+, 0, left)
    /\ refs <= good + incall

(* cs_set has the devices that are open, and no other, closes that signals *)
(* left apart: a key that stayed behind would let the next open of that    *)
(* device go without a hold.                                               *)
SetIsOpen ==
  \A k \in Devs \cup Streams :
    k \in set =>
      opens[k] > 0 \/ left[k] > 0 \/ \E p \in On(k) : pr[p].pc = "close"
=============================================================================
