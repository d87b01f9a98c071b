------------------------------- MODULE DlmBoot -------------------------------
(***************************************************************************)
(* Boot modules (src/dlm/upstream/dlm_boot.c): the files a boot loader     *)
(* read into memory, moved to the top of each range of memory that the     *)
(* kernel's config asks for (dlm_bootpack), with the MMU off.              *)
(*                                                                         *)
(* Memory holds bytes, <<module, which>> or Junk. A copy goes byte by byte,*)
(* from the end when it goes up.                                           *)
(*                                                                         *)
(* External: where the loader puts the modules (Places); the ranges, which *)
(* do not overlap; config, which rebases.                                  *)
(***************************************************************************)
EXTENDS Integers, Sequences, FiniteSets

CONSTANTS
  Last,      \* memory is 0 .. Last
  Sizes,     \* sizes of modules
  Places,    \* where the loader puts modules
  Across,    \* whether a module may lie across the low end of a range
  MaxMods,   \* bound: modules
  Grain,     \* what a place is rounded down to (4)
  Ranges,    \* lo, hi, copy: the calls that may be made
  MaxCalls   \* bound: calls

VARIABLES bm, mem, call, calls
vars == <<bm, mem, call, calls>>

Junk == <<0, 0>>
NoCall == [lo |-> 0, hi |-> 0, copy |-> FALSE, top |-> 0, tried |-> {}]
End(m) == m.addr + m.size
Mods == DOMAIN bm

TypeOK ==
  /\ \A i \in Mods: bm[i].addr \in 0 .. Last /\ bm[i].size \in Sizes /\ bm[i].st \in {"new", "placed", "noroom"}
  /\ DOMAIN mem = 0 .. Last /\ call.tried \subseteq Mods /\ call.top \in 0 .. Last + 1 /\ calls \subseteq Ranges

(* dlm_bootadd, dlm_boottab *)
Loaded(b) == [x \in 0 .. Last |->
  LET in == {i \in DOMAIN b: b[i].addr <= x /\ x < End(b[i])}
  IN IF in = {} THEN Junk ELSE LET i == CHOOSE i \in in: TRUE IN <<i, x - b[i].addr>>]
Apart(b) == \A i, j \in DOMAIN b: i # j => End(b[i]) <= b[j].addr \/ End(b[j]) <= b[i].addr
Init ==
  /\ \E n \in 0 .. MaxMods: bm \in [1 .. n -> [addr: Places, size: Sizes, st: {"new"}]]
  /\ Apart(bm) /\ (\A i \in Mods: End(bm[i]) <= Last + 1)
  /\ mem = Loaded(bm) /\ call = NoCall /\ calls = {}

-----------------------------------------------------------------------------
(* bm_place                                                                *)

(* mutant: always from the start *)
OrderUp(p, q, s) == [i \in 1 .. s |-> i - 1]
Order(p, q, s) == IF q > p THEN [i \in 1 .. s |-> s - i] ELSE [i \in 1 .. s |-> i - 1]
Copied(p, q, s) ==
  LET m[n \in 0 .. s] == IF n = 0 THEN mem
                         ELSE LET i == Order(p, q, s)[n] IN [m[n - 1] EXCEPT ![q + i] = m[n - 1][p + i]]
  IN m[s]

Place(j, top) ==
  LET s == bm[j].size d == top - s - ((top - s) % Grain) IN
    IF s > top - call.lo \/ d < call.lo
    THEN bm' = [bm EXCEPT ![j].st = "noroom"] /\ call' = [call EXCEPT !.tried = @ \cup {j}] /\ UNCHANGED mem
    ELSE /\ mem' = Copied(bm[j].addr, d, s) /\ bm' = [bm EXCEPT ![j].addr = d, ![j].st = "placed"]
         /\ call' = [call EXCEPT !.tried = @ \cup {j}, !.top = d]

-----------------------------------------------------------------------------
(* dlm_bootpack: the modules in the range, from the highest; then, if asked, the
   others: those that start below its end, from the highest, and those above *)

AcrossLow(r) == \E i \in Mods: bm[i].st # "placed" /\ bm[i].addr < r.lo /\ End(bm[i]) > r.lo

Past(b, c) == {j \in DOMAIN b: b[j].st # "placed" /\ b[j].addr >= c.lo /\ b[j].addr < c.hi /\ End(b[j]) > c.hi}
Bootpack(r) ==
  /\ call = NoCall /\ r \notin calls /\ Cardinality(calls) < MaxCalls
  /\ (Across \/ ~AcrossLow(r))
  /\ \A q \in calls: q.hi <= r.lo \/ r.hi <= q.lo
  /\ calls' = calls \cup {r}
  /\ LET P == {bm[j].addr: j \in Past(bm, r)} IN
       call' = [lo |-> r.lo, hi |-> r.hi, copy |-> r.copy, tried |-> {j \in Mods: bm[j].st = "placed"},
                top |-> IF P = {} THEN r.hi ELSE CHOOSE a \in P: \A b \in P: a <= b]
  /\ UNCHANGED <<bm, mem>>

Inside == {j \in Mods \ call.tried: bm[j].addr >= call.lo /\ bm[j].addr < call.top /\ End(bm[j]) <= call.top}
Under == {j \in Mods \ call.tried: bm[j].addr < call.hi}
(* mutant: the lowest first *)
LowestOf(S) == CHOOSE j \in S: \A k \in S: bm[j].addr <= bm[k].addr
HighestOf(S) == CHOOSE j \in S: \A k \in S: bm[j].addr >= bm[k].addr

PlaceInside == call # NoCall /\ Inside # {} /\ Place(HighestOf(Inside), call.top) /\ UNCHANGED calls
PlaceUnder == call # NoCall /\ Inside = {} /\ call.copy /\ Under # {} /\ Place(HighestOf(Under), call.top) /\ UNCHANGED calls
PlaceRest ==
  /\ call # NoCall /\ Inside = {} /\ call.copy /\ Under = {}
  /\ \E j \in Mods \ call.tried: (\A i \in Mods \ call.tried: j <= i) /\ Place(j, call.top)
  /\ UNCHANGED calls
Return ==
  /\ call # NoCall /\ Inside = {} /\ (call.copy => call.tried = Mods)
  /\ call' = NoCall /\ UNCHANGED <<bm, mem, calls>>

Next == (\E r \in Ranges: Bootpack(r)) \/ PlaceInside \/ PlaceUnder \/ PlaceRest \/ Return
Spec == Init /\ [][Next]_vars

-----------------------------------------------------------------------------
(* A module that was placed has the bytes the loader read, and keeps them: no
   move went over a module still to move. The loader put the modules at multiples
   of Grain and none across the low end of a range. (dlm_bootpack, bm_place) *)
Whole(i) == \A k \in 0 .. bm[i].size - 1: mem[bm[i].addr + k] = <<i, k>>
Intact == \A i \in Mods: bm[i].st = "placed" => Whole(i)
=============================================================================
