------------------------------ MODULE DlmProofs -----------------------------
(***************************************************************************)
(* Theorems of DlmCore, for any processes, modules, dependencies, switch   *)
(* entries and bounds; at the end those of DlmOpen, DlmRegister, DlmLinks. *)
(* The definitions, the inductive invariants among them, are in DlmInv.    *)
(* One lemma per action carries them; most instantiate OneOwned, FreedInv, *)
(* SettledInv, InPlace or MoveOnly.                                        *)
(***************************************************************************)
EXTENDS DlmCore, DlmInv, TLAPS, WellFoundedInduction, SequenceTheorems, FiniteSetTheorems

(* A set of naturals that is not empty has a least element, so FindName    *)
(* finds a record whenever one has the name.                               *)
LEMMA HasMin ==
  ASSUME NEW S \in SUBSET Nat, S # {}
  PROVE  \E m \in S : \A o \in S : m <= o
<1> DEFINE R == OpToRel(<, Nat)
<1>1. IsWellFoundedOn(R, Nat)
  BY NatLessThanWellFounded, Zenon
<1>2. R = {ss \in Nat \X Nat : ss[1] < ss[2]}
  BY Zenon DEF OpToRel
<1> HIDE DEF R
<1>3. PICK m \in S : \A o \in S : ~ (<<o, m>> \in R)
  BY <1>1, WFMin, Zenon
<1>4. \A o \in S : ~ (o < m)
  BY <1>2, <1>3
<1> QED  BY <1>4

(* What popping a frame leaves on the stack of a process.                  *)
LEMMA TailFacts ==
  ASSUME NEW s \in Seq(Ids), s # <<>>
  PROVE  /\ Head(s) \in Ids /\ Tail(s) \in Seq(Ids)
         /\ Head(s) = s[1] /\ 1 \in DOMAIN s
         /\ DOMAIN Tail(s) = 1 .. (Len(s) - 1)
         /\ \A i \in DOMAIN Tail(s) : i + 1 \in DOMAIN s /\ Tail(s)[i] = s[i + 1]
         /\ \A i \in DOMAIN s : i = 1 \/ (i - 1 \in DOMAIN Tail(s) /\ s[i] = Tail(s)[i - 1])
  OBVIOUS

(* What pushing a frame adds to the stack of a process.                    *)
LEMMA PushFacts ==
  ASSUME NEW s \in Seq(Ids), NEW x \in Ids
  PROVE  /\ <<x>> \o s \in Seq(Ids) /\ <<x>> \o s # <<>>
         /\ DOMAIN (<<x>> \o s) = 1 .. (Len(s) + 1)
         /\ \A i \in DOMAIN (<<x>> \o s) : (<<x>> \o s)[i] = IF i = 1 THEN x ELSE s[i - 1]
<1>1. <<x>> \in Seq(Ids) /\ Len(<<x>>) = 1 /\ <<x>>[1] = x
  OBVIOUS
<1> QED  BY <1>1, ConcatProperties

(* wake (dlm_core.c:135) moves sleepers to the end of their sleep and      *)
(* touches nothing else.                                                   *)
LEMMA WakeFacts ==
  ASSUME TypeOK, NEW m \in Ids
  PROVE  /\ Wake(m) \in [Procs -> ProcRec]
         /\ \A q \in Procs :
              \/ Wake(m)[q] = pr[q]
              \/ /\ pr[q].pc = "wait"
                 /\ Wake(m)[q] = [pr[q] EXCEPT !.pc = "woken", !.cur = 0]
<1> DEFINE woken(q) == [pr[q] EXCEPT !.pc = "woken", !.cur = 0]
<1>1. \A q \in Procs : pr[q] \in ProcRec
  BY DEF TypeOK
<1>2. \A q \in Procs : woken(q) \in ProcRec
  <2>1. \A x \in ProcRec : [x EXCEPT !.pc = "woken", !.cur = 0] \in ProcRec
    <3>1. "woken" \in OnCpu \cup Asleep /\ 0 \in Ids \cup {0}
      BY DEF OnCpu, Asleep
    <3> QED  BY <3>1 DEF ProcRec
  <2> QED  BY <1>1, <2>1, Zenon
<1>3. \A q \in Procs : Wake(m)[q] = IF "WANTED" \in mod[m].flags /\ pr[q].pc = "wait" /\ pr[q].cur = m
                                   THEN woken(q) ELSE pr[q]
  BY DEF Wake
<1> HIDE DEF woken
<1>4. Wake(m) \in [Procs -> ProcRec]
  BY <1>1, <1>2, <1>3, Zenon DEF Wake
<1>5. ASSUME NEW q \in Procs
      PROVE  \/ Wake(m)[q] = pr[q]
             \/ pr[q].pc = "wait" /\ Wake(m)[q] = woken(q)
  <2> DEFINE asleep == /\ "WANTED" \in mod[m].flags
                       /\ pr[q].pc = "wait" /\ pr[q].cur = m
  <2>1. asleep => Wake(m)[q] = woken(q)
    BY <1>3
  <2>2. ~ asleep => Wake(m)[q] = pr[q]
    BY <1>3
  <2> QED  BY <2>1, <2>2
<1> QED  BY <1>4, <1>5, Zenon DEF woken

(* freemod counts how often a record stands in a list of dependencies; the *)
(* count is a natural number.                                              *)
LEMMA TimesInType ==
  ASSUME TypeOK, NEW m \in Ids, NEW r \in Ids
  PROVE  TimesIn(m, r) \in Nat
<1>1. mod[m].dep \in Seq(Ids)
  BY DEF TypeOK, ModRec
<1>2. IsFiniteSet(DOMAIN mod[m].dep)
  BY <1>1, FS_Interval, LenProperties
<1>3. IsFiniteSet({i \in DOMAIN mod[m].dep : mod[m].dep[i] = r})
  BY <1>2, FS_Subset
<1> QED  BY <1>3, FS_CardinalityType DEF TimesIn

(* freemod keeps the types, the marks and the owners of the records that   *)
(* stay.                                                                   *)
LEMMA FreeModFacts ==
  ASSUME TypeOK, NEW m \in Ids, FreeMod(m)
  PROVE  /\ mod' \in [Ids -> ModRec]
         /\ \A r \in Ids \ {m} :
              /\ mod'[r].name = mod[r].name /\ mod'[r].trans = mod[r].trans
              /\ mod'[r].owner = mod[r].owner /\ mod'[r].at = mod[r].at
              /\ mod'[r].saved = mod[r].saved
<1>1. \A r \in Ids : TimesIn(m, r) \in Nat
  BY TimesInType
<1>2. \A r \in Ids : mod[r] \in ModRec
  BY DEF TypeOK
<1>3. NoRec \in ModRec
  BY DEF NoRec, ModRec
<1>4. \A r \in Ids, n \in Nat :
        /\ DepRele(mod[r], n) \in ModRec
        /\ DepRele(mod[r], n).name = mod[r].name
        /\ DepRele(mod[r], n).trans = mod[r].trans
        /\ DepRele(mod[r], n).owner = mod[r].owner
        /\ DepRele(mod[r], n).at = mod[r].at
        /\ DepRele(mod[r], n).saved = mod[r].saved
  <2> TAKE r \in Ids, n \in Nat
  <2> DEFINE rest == IF mod[r].deps > n THEN mod[r].deps - n ELSE 0
             fl == IF mod[r].deps \in 1 .. n /\ mod[r].refs = 0
                   THEN mod[r].flags \cup {"CAND"} ELSE mod[r].flags
  <2>1. rest \in Nat
    BY <1>2 DEF ModRec
  <2>2. fl \in SUBSET {"DEMAND", "CAND", "WANTED"}
    BY <1>2 DEF ModRec
  <2>3. DepRele(mod[r], n) = [mod[r] EXCEPT !.deps = rest, !.flags = fl]
    BY Zenon DEF DepRele, CandAdd
  <2> HIDE DEF rest, fl
  <2> QED  BY <1>2, <2>1, <2>2, <2>3 DEF ModRec
<1>5. mod' = [r \in Ids |-> IF r = m THEN NoRec
                           ELSE DepRele(mod[r], TimesIn(m, r))]
  BY DEF FreeMod
<1> HIDE DEF DepRele
<1> QED  BY <1>1, <1>3, <1>4, <1>5
-----------------------------------------------------------------------------
(* Steps that leave the list, the marks of its records and every process's *)
(* loads and unloads as they are.                                          *)

(* The modlinks of a record on the list fill entries there are.            *)
LEMMA LinksKeys ==
  ASSUME RecOK, NEW m \in list
  PROVE  mod[m].name \in Names /\ Links[mod[m].name] \subseteq Keys
  BY ConstAssumption DEF RecOK

LEMMA KeepOwned ==
  ASSUME Inv, TypeOK', UNCHANGED <<list, nextid, slot, panic>>,
         \A m \in list : /\ mod'[m].name = mod[m].name
                         /\ mod'[m].trans = mod[m].trans
                         /\ mod'[m].owner = mod[m].owner
                         /\ mod'[m].at >= mod[m].at,
         \A q \in Procs : LoadsOf(q)' = LoadsOf(q) /\ UnloadsOf(q)' = UnloadsOf(q)
  PROVE  RecOK' /\ OwnMarked' /\ SafeKept /\ (AllOwned => AllOwned')
<1>1. RecOK'
  <2>1. \A m \in list : mod[m].at \in Nat /\ mod'[m].at \in Nat
    <3>1. list \subseteq Ids /\ mod \in [Ids -> ModRec] /\ mod' \in [Ids -> ModRec]
      BY DEF Inv, TypeOK
    <3> QED  BY <3>1 DEF ModRec
  <2> QED  BY <2>1 DEF Inv, RecOK
<1>2. OwnMarked'
  BY DEF Inv, OwnMarked
<1>3. AllOwned => AllOwned'
  BY DEF AllOwned
<1>4. SlotOK => SlotOK'
  <2>1. \A k \in Keys : slot'[k] = slot[k]
    OBVIOUS
  <2>2. \A m \in list : Links[mod[m].name] \subseteq Keys
    BY LinksKeys DEF Inv
  <2> QED  BY <2>1, <2>2 DEF SlotOK, SlotLive, Allowed, InService
<1>5. UniqueName => UniqueName'
  BY DEF UniqueName
<1> QED  BY <1>1, <1>2, <1>3, <1>4, <1>5 DEF SafeKept

(* One process's record is replaced.                                       *)
LEMMA SetProc ==
  ASSUME TypeOK, NEW p \in Procs, NEW r \in ProcRec, pr' = [pr EXCEPT ![p] = r]
  PROVE  /\ pr' \in [Procs -> ProcRec]
         /\ pr'[p] = r
         /\ \A q \in Procs \ {p} : pr'[q] = pr[q]
  BY DEF TypeOK

(* A type-correct record of a module keeps mod in its type.                *)
LEMMA SetMod ==
  ASSUME TypeOK, NEW m \in Ids, NEW r \in ModRec, mod' = [mod EXCEPT ![m] = r]
  PROVE  /\ mod' \in [Ids -> ModRec]
         /\ mod'[m] = r
         /\ \A o \in Ids \ {m} : mod'[o] = mod[o]
  BY DEF TypeOK

(* One process moves between two places with the same frames.              *)
LEMMA MoveOwned ==
  ASSUME Inv, NEW p \in Procs, TypeOK', UNCHANGED <<list, nextid, slot, panic>>,
         \A m \in list : /\ mod'[m].name = mod[m].name
                         /\ mod'[m].trans = mod[m].trans
                         /\ mod'[m].owner = mod[m].owner
                         /\ mod'[m].at >= mod[m].at,
         \A q \in Procs \ {p} : pr'[q] = pr[q],
         pr'[p].stk = pr[p].stk,
         pr[p].pc \notin {"failun", "failcl", "inunl"}, pr'[p].pc \notin {"failun", "failcl", "inunl"},
         pr'[p].pc \in {"open", "next", "image", "inload"} => pr[p].stk # <<>>,
         pr'[p].pc \in {"enter", "woken", "alloc", "wait"} => pr'[p].want \in Names,
         pr'[p].pc = "alloc" => AllocSleeps,
         pr'[p].pc \in {"user", "sweep", "stat", "ret"} => pr[p].stk = <<>>
  PROVE  Kept
<1>1. \A q \in Procs : LoadsOf(q)' = LoadsOf(q) /\ UnloadsOf(q)' = UnloadsOf(q)
  <2> TAKE q \in Procs
  <2>1. Frames(q)' = Frames(q)
    BY DEF Frames
  <2> QED  BY <2>1 DEF LoadsOf, UnloadsOf
<1>2. ProcOK'
  BY DEF Inv, ProcOK, Placed, Frames
<1>3. RecOK' /\ OwnMarked' /\ SafeKept /\ (AllOwned => AllOwned')
  BY <1>1, KeepOwned
<1> QED  BY <1>2, <1>3 DEF Inv, Kept

(* Steps that touch nothing but the record of one process.                 *)
LEMMA MoveOnly ==
  ASSUME Inv, NEW p \in Procs, NEW r \in ProcRec, pr' = [pr EXCEPT ![p] = r],
         UNCHANGED <<list, nextid, mod, slot, panic>>, calls' \in 0 .. MaxCalls,
         r.stk = pr[p].stk,
         pr[p].pc \notin {"failun", "failcl", "inunl"}, r.pc \notin {"failun", "failcl", "inunl"},
         r.pc \in {"open", "next", "image", "inload"} => pr[p].stk # <<>>,
         r.pc \in {"enter", "woken", "alloc", "wait"} => r.want \in Names,
         r.pc = "alloc" => AllocSleeps,
         r.pc \in {"user", "sweep", "stat", "ret"} => pr[p].stk = <<>>
  PROVE  Kept
<1>1. /\ pr' \in [Procs -> ProcRec] /\ pr'[p] = r
      /\ \A q \in Procs \ {p} : pr'[q] = pr[q]
  BY SetProc DEF Inv
<1>2. TypeOK'
  BY <1>1 DEF Inv, TypeOK
<1>3. \A m \in list : mod'[m].at >= mod[m].at
  BY DEF Inv, TypeOK, ModRec
<1> QED
  BY <1>1, <1>2, <1>3, MoveOwned

(* Entering a system call keeps the invariant.                             *)
LEMMA CallInv ==
  ASSUME Inv, NEW p \in Procs, NEW n \in Names, Modload(p, n) \/ Loadname(p, n)
  PROVE  Kept
<1>1. /\ pr[p] \in ProcRec /\ calls' \in 0 .. MaxCalls
      /\ pr[p].pc = "user" /\ UNCHANGED <<list, nextid, mod, slot, panic>>
  BY ConstAssumption DEF Inv, TypeOK, Modload, Loadname, EntersCall
<1>2. PICK op \in Ops :
        pr' = [pr EXCEPT ![p] = [@ EXCEPT !.pc = "enter", !.op = op, !.want = n]]
  BY DEF Modload, Loadname, Ops
<1> DEFINE r == [pr[p] EXCEPT !.pc = "enter", !.op = op, !.want = n]
<1>3. r \in ProcRec /\ r.pc = "enter" /\ r.stk = pr[p].stk /\ r.want = n
  BY <1>1 DEF ProcRec, OnCpu
<1>4. pr' = [pr EXCEPT ![p] = r]
  BY <1>2
<1> HIDE DEF r
<1> QED  BY <1>1, <1>3, <1>4, MoveOnly

(* Moving on within a call keeps the invariant.                            *)
LEMMA GotoInv ==
  ASSUME Inv, NEW p \in Procs, NEW pc \in OnCpu \cup Asleep, Goto(p, pc),
         UNCHANGED <<list, nextid, mod, slot, panic, calls>>,
         pr[p].pc \notin {"failun", "failcl", "inunl"}, pc \notin {"failun", "failcl", "inunl"},
         pc \in {"open", "next", "image", "inload"} => pr[p].stk # <<>>,
         pc \in {"enter", "woken", "alloc", "wait"} => pr[p].want \in Names,
         pc = "alloc" => AllocSleeps,
         pc \in {"user", "sweep", "stat", "ret"} => pr[p].stk = <<>>
  PROVE  Kept
<1>1. pr[p] \in ProcRec /\ calls' \in 0 .. MaxCalls
  BY DEF Inv, TypeOK
<1> DEFINE r == [pr[p] EXCEPT !.pc = pc]
<1>2. r \in ProcRec /\ r.pc = pc /\ r.stk = pr[p].stk /\ r.want = pr[p].want
  BY <1>1 DEF ProcRec
<1>3. pr' = [pr EXCEPT ![p] = r]
  BY DEF Goto
<1> HIDE DEF r
<1> QED  BY <1>1, <1>2, <1>3, MoveOnly

(* Returning an error with no frames keeps the invariant.                  *)
LEMMA GiveUpInv ==
  ASSUME Inv, NEW p \in Procs, NEW err \in {"error", "EINTR"}, GiveUp(p, err),
         UNCHANGED <<list, nextid, mod, slot, panic, calls>>,
         pr[p].pc \notin {"failun", "failcl", "inunl"}
  PROVE  Kept
<1>1. pr[p] \in ProcRec /\ calls' \in 0 .. MaxCalls
  BY DEF Inv, TypeOK
<1> DEFINE r == [pr[p] EXCEPT !.pc = "fail", !.err = err]
<1>2. r \in ProcRec /\ r.pc = "fail" /\ r.stk = pr[p].stk
  BY <1>1 DEF ProcRec, OnCpu
<1>3. pr' = [pr EXCEPT ![p] = r]
  BY DEF GiveUp
<1> HIDE DEF r
<1> QED  BY <1>1, <1>2, <1>3, MoveOnly

(* The steps of a load that change no record.                              *)
LEMMA PlainLoadInv ==
  ASSUME Inv, NEW p \in Procs,
         \/ LoadRefused(p) \/ LoadAllocates(p)
         \/ ImageFails(p) \/ ModLoadFails(p) \/ Failed(p)
  PROVE  Kept
<1>1. ASSUME LoadRefused(p) PROVE Kept
  BY <1>1, GiveUpInv DEF LoadRefused, AtEnter
<1>2. ASSUME LoadAllocates(p) PROVE Kept
  <2>1. pr[p].want \in Names
    BY <1>2 DEF LoadAllocates, AtEnter, Inv, ProcOK, Placed
  <2> QED  BY <1>2, <2>1, GotoInv DEF LoadAllocates, AtEnter, Asleep
<1>3. ASSUME ImageFails(p) PROVE Kept
  BY <1>3, GiveUpInv DEF ImageFails
<1>4. ASSUME ModLoadFails(p) PROVE Kept
  BY <1>4, GiveUpInv DEF ModLoadFails
<1>5. ASSUME Failed(p) PROVE Kept
  BY <1>5, GotoInv DEF Failed, OnCpu
<1> QED  BY <1>1, <1>2, <1>3, <1>4, <1>5

(* The calls and returns that change no record.                            *)
LEMMA PlainCallInv ==
  ASSUME Inv, NEW p \in Procs,
         \/ ModuloadAll(p) \/ (\E m \in Ids : Modstat(p, m))
         \/ ModstatFill(p) \/ Return(p)
  PROVE  Kept
<1>1. pr[p] \in ProcRec
  BY DEF Inv, TypeOK
<1>2. ASSUME ModuloadAll(p) PROVE Kept
  <2> DEFINE r == [pr[p] EXCEPT !.pc = "sweep", !.op = "sweep"]
  <2>1. r \in ProcRec /\ r.pc = "sweep" /\ r.stk = pr[p].stk
    BY <1>1 DEF ProcRec, OnCpu, Ops
  <2>2. /\ pr' = [pr EXCEPT ![p] = r] /\ UNCHANGED <<list, nextid, mod, slot, panic>>
        /\ pr[p].pc = "user" /\ pr[p].stk = <<>> /\ calls' \in 0 .. MaxCalls
    BY <1>2, ConstAssumption DEF ModuloadAll, EntersCall, Inv, ProcOK, Placed, TypeOK
  <2> HIDE DEF r
  <2> QED  BY <2>1, <2>2, MoveOnly
<1>3. ASSUME NEW m \in Ids, Modstat(p, m) PROVE Kept
  <2> DEFINE r == [pr[p] EXCEPT !.pc = "stat", !.op = "modstat", !.cur = m]
  <2>1. r \in ProcRec /\ r.pc = "stat" /\ r.stk = pr[p].stk
    BY <1>1 DEF ProcRec, Asleep, Ops
  <2>2. pr' = [pr EXCEPT ![p] = r] /\ UNCHANGED <<list, nextid, mod, slot, panic>>
    BY <1>3, Zenon DEF Modstat
  <2>3. EntersCall(p)
    BY <1>3, Zenon DEF Modstat
  <2>4. pr[p].pc = "user" /\ pr[p].stk = <<>> /\ calls' \in 0 .. MaxCalls
    BY <2>3, ConstAssumption DEF EntersCall, Inv, ProcOK, Placed, TypeOK
  <2> HIDE DEF r
  <2> QED  BY <2>1, <2>2, <2>4, MoveOnly
<1>4. ASSUME ModstatFill(p) PROVE Kept
  <2>1. pr[p].stk = <<>>
    BY <1>4 DEF ModstatFill, Inv, ProcOK, Placed
  <2> QED  BY <1>4, <2>1, GotoInv DEF ModstatFill, OnCpu
<1>5. ASSUME Return(p) PROVE Kept
  <2> DEFINE r == [Idle EXCEPT !.cred = pr[p].cred]
  <2>1. r \in ProcRec /\ r.pc = "user" /\ r.stk = <<>>
    <3>1. Idle \in ProcRec /\ Idle.pc = "user" /\ Idle.stk = <<>>
      BY DEF ProcRec, Asleep, Ops, Idle
    <3> QED  BY <1>1, <3>1 DEF ProcRec
  <2>2. /\ pr' = [pr EXCEPT ![p] = r] /\ UNCHANGED <<list, nextid, mod, slot, panic, calls>>
        /\ pr[p].pc = "ret" /\ pr[p].stk = <<>> /\ calls' \in 0 .. MaxCalls
    BY <1>5 DEF Return, Inv, ProcOK, Placed, TypeOK
  <2> HIDE DEF r
  <2> QED  BY <2>1, <2>2, MoveOnly
<1> QED  BY <1>2, <1>3, <1>4, <1>5

-----------------------------------------------------------------------------
(* Steps that change records in place, their marks apart.                  *)

LEMMA FindNameFacts ==
  ASSUME TypeOK, NEW n \in Names, Named(n) # {}
  PROVE  FindName(n) \in list /\ FindName(n) \in Ids /\ mod[FindName(n)].name = n
<1>1. Named(n) \in SUBSET Nat
  <2>1. Ids \subseteq Nat
    BY ConstAssumption DEF Ids
  <2> QED  BY <2>1 DEF Named, TypeOK
<1>2. \E m \in Named(n) : \A o \in Named(n) : m <= o
  BY <1>1, HasMin
<1>3. FindName(n) \in Named(n)
  BY <1>2, Zenon DEF FindName
<1> QED  BY <1>3 DEF Named, TypeOK

(* dlm_depadd changes counts and flags of one dependency, no mark.         *)
LEMMA DepAddFacts ==
  ASSUME NEW f \in [Ids -> ModRec], NEW parent \in Ids, NEW m \in Ids
  PROVE  SameMarks(f, DepAdd(f, parent, m))
<1> DEFINE ndeps == f[m].deps + 1
           nflags == f[m].flags \ {"CAND"}
           dm == [f[m] EXCEPT !.deps = ndeps, !.flags = nflags]
           g == [f EXCEPT ![m] = dm]
           ndep == Append(g[parent].dep, m)
           pm == [g[parent] EXCEPT !.dep = ndep]
<1>1. f[m] \in ModRec
  OBVIOUS
<1>2. ndeps \in Nat /\ nflags \in SUBSET {"DEMAND", "CAND", "WANTED"}
  BY <1>1 DEF ModRec
<1>3. DepAdd(f, parent, m) = [g EXCEPT ![parent] = pm]
  BY Zenon DEF DepAdd, CandDel
<1> HIDE DEF ndeps, nflags
<1>4. /\ dm \in ModRec /\ dm.name = f[m].name /\ dm.trans = f[m].trans
      /\ dm.owner = f[m].owner /\ dm.at = f[m].at
  BY <1>1, <1>2 DEF ModRec
<1> HIDE DEF dm
<1>5. g \in [Ids -> ModRec] /\ \A o \in Ids : g[o] = IF o = m THEN dm ELSE f[o]
  BY <1>4
<1> HIDE DEF g
<1>6. g[parent] \in ModRec
  BY <1>5
<1>7. ndep \in Seq(Ids)
  BY <1>6 DEF ModRec
<1> HIDE DEF ndep
<1>8. /\ pm \in ModRec /\ pm.name = g[parent].name /\ pm.trans = g[parent].trans
      /\ pm.owner = g[parent].owner /\ pm.at = g[parent].at
  BY <1>6, <1>7 DEF ModRec
<1> HIDE DEF pm
<1>9. \A o \in Ids : f[o].at \in Nat
  BY DEF ModRec
<1> QED  BY <1>3, <1>4, <1>5, <1>8, <1>9 DEF SameMarks

(* Taking a dependency advances the load by one place.                     *)
LEMMA TakenFacts ==
  ASSUME NEW f \in [Ids -> ModRec], NEW rest \in Seq(Ids), NEW m \in Ids
  PROVE  SameMarks(f, Taken(f, rest, m))
<1>1. CASE rest = <<>>
  <2>1. \A o \in Ids : f[o].at \in Nat
    BY DEF ModRec
  <2> QED  BY <1>1, <2>1 DEF Taken, SameMarks
<1>2. CASE rest # <<>>
  <2>1. Head(rest) \in Ids
    BY <1>2, TailFacts
  <2> QED  BY <1>2, <2>1, DepAddFacts DEF Taken
<1> QED  BY <1>1, <1>2

(* A step that changes records without touching a mark keeps the           *)
(* invariant.                                                              *)
LEMMA InPlace ==
  ASSUME Inv, NEW p \in Procs, NEW r \in ProcRec, pr' = [pr EXCEPT ![p] = r],
         SameMarks(mod, mod'),
         UNCHANGED <<list, nextid, slot, panic>>, calls' \in 0 .. MaxCalls,
         r.stk = pr[p].stk,
         pr[p].pc \notin {"failun", "failcl", "inunl"}, r.pc \notin {"failun", "failcl", "inunl"},
         r.pc \in {"open", "next", "image", "inload"} => pr[p].stk # <<>>,
         r.pc \in {"enter", "woken", "alloc", "wait"} => r.want \in Names,
         r.pc = "alloc" => AllocSleeps,
         r.pc \in {"user", "sweep", "stat", "ret"} => pr[p].stk = <<>>
  PROVE  Kept
<1>1. /\ pr' \in [Procs -> ProcRec] /\ pr'[p] = r
      /\ \A q \in Procs \ {p} : pr'[q] = pr[q]
  BY SetProc DEF Inv
<1>2. TypeOK'
  BY <1>1 DEF Inv, TypeOK, SameMarks
<1>3. \A m \in list : /\ mod'[m].name = mod[m].name
                      /\ mod'[m].trans = mod[m].trans
                      /\ mod'[m].owner = mod[m].owner
                      /\ mod'[m].at >= mod[m].at
  BY DEF Inv, TypeOK, SameMarks
<1> QED
  BY <1>1, <1>2, <1>3, MoveOwned

(* one record is replaced by one with the same marks                       *)
LEMMA OneMod ==
  ASSUME TypeOK, NEW m \in Ids, NEW r \in ModRec, mod' = [mod EXCEPT ![m] = r],
         r.name = mod[m].name, r.trans = mod[m].trans,
         r.owner = mod[m].owner, r.at >= mod[m].at
  PROVE  SameMarks(mod, mod')
<1>1. /\ mod' \in [Ids -> ModRec] /\ mod'[m] = r
      /\ \A o \in Ids \ {m} : mod'[o] = mod[o]
  BY SetMod
<1>2. \A o \in Ids : mod[o].at \in Nat
  BY DEF TypeOK, ModRec
<1> QED  BY <1>1, <1>2 DEF SameMarks

(* dlm_load sleeps on a record in transition.                              *)
LEMMA LoadWaitsInv ==
  ASSUME Inv, NEW p \in Procs, LoadWaits(p)
  PROVE  Kept
<1> DEFINE m == FindName(pr[p].want)
           r == [pr[p] EXCEPT !.pc = "wait", !.cur = m]
           g == [mod[m] EXCEPT !.flags = @ \cup {"WANTED"}]
<1>1. /\ pr[p] \in ProcRec /\ pr[p].pc \in {"enter", "woken"}
      /\ pr[p].want \in Names /\ Named(pr[p].want) # {}
  BY DEF LoadWaits, AtEnter, Inv, TypeOK, ProcOK, Placed
<1>2. m \in Ids /\ m \in list
  BY <1>1, FindNameFacts DEF Inv
<1>3. /\ pr' = [pr EXCEPT ![p] = r] /\ mod' = [mod EXCEPT ![m] = g]
      /\ UNCHANGED <<list, nextid, slot, panic, calls>>
  BY DEF LoadWaits
<1> HIDE DEF m
<1>4. mod[m] \in ModRec
  BY <1>2 DEF Inv, TypeOK
<1>5. /\ g \in ModRec /\ g.name = mod[m].name /\ g.trans = mod[m].trans
      /\ g.owner = mod[m].owner /\ g.at >= mod[m].at
  BY <1>4 DEF ModRec
<1>6. r \in ProcRec /\ r.pc = "wait" /\ r.stk = pr[p].stk /\ r.want = pr[p].want
  BY <1>1, <1>2 DEF ProcRec, Asleep
<1> HIDE DEF g, r
<1>7. SameMarks(mod, mod')
  BY <1>2, <1>3, <1>5, OneMod DEF Inv
<1>8. calls' \in 0 .. MaxCalls
  BY <1>3 DEF Inv, TypeOK
<1> QED  BY <1>1, <1>3, <1>6, <1>7, <1>8, InPlace

(* dlm_load finds the module loaded, on a demand or for a load that waits. *)
LEMMA LoadFoundInv ==
  ASSUME Inv, NEW p \in Procs, LoadFound(p)
  PROVE  Kept
<1> DEFINE m == FindName(pr[p].want)
           r == IF pr[p].stk = <<>>
                THEN [pr[p] EXCEPT !.pc = "ret", !.stk = pr[p].stk, !.cur = m]
                ELSE [pr[p] EXCEPT !.pc = "next", !.stk = pr[p].stk]
           g == [mod[m] EXCEPT !.flags = @ \cup {"DEMAND"}]
           f == Demanded(p, mod, m)
<1>1. /\ pr[p] \in ProcRec /\ pr[p].pc \in {"enter", "woken"}
      /\ pr[p].want \in Names /\ Named(pr[p].want) # {}
      /\ mod \in [Ids -> ModRec]
  BY DEF LoadFound, AtEnter, Inv, TypeOK, ProcOK, Placed
<1>2. m \in Ids /\ m \in list
  BY <1>1, FindNameFacts DEF Inv
<1>3. /\ pr' = [pr EXCEPT ![p] = r] /\ mod' = Taken(f, pr[p].stk, m)
      /\ UNCHANGED <<list, nextid, slot, panic, calls>>
  BY DEF LoadFound, Returned
<1> HIDE DEF m
<1>4. mod[m] \in ModRec /\ \A o \in Ids : mod[o].at \in Nat
  BY <1>1, <1>2 DEF ModRec
<1>5. /\ g \in ModRec /\ g.name = mod[m].name /\ g.trans = mod[m].trans
      /\ g.owner = mod[m].owner /\ g.at = mod[m].at
  BY <1>4 DEF ModRec
<1>6. f = IF IsSys(p) THEN mod ELSE [mod EXCEPT ![m] = g]
  BY DEF Demanded
<1> HIDE DEF g, f
<1>7. SameMarks(mod, f)
  BY <1>1, <1>2, <1>4, <1>5, <1>6 DEF SameMarks
<1>8. SameMarks(f, mod')
  <2>1. pr[p].stk \in Seq(Ids) /\ f \in [Ids -> ModRec]
    BY <1>1, <1>7 DEF ProcRec, SameMarks
  <2> QED  BY <1>2, <1>3, <2>1, TakenFacts
<1>9. SameMarks(mod, mod')
  <2>1. \A o \in Ids : f[o].at \in Nat /\ mod'[o].at \in Nat
    BY <1>7, <1>8 DEF SameMarks, ModRec
  <2> QED  BY <1>4, <1>7, <1>8, <2>1 DEF SameMarks
<1>10. r \in ProcRec /\ r.stk = pr[p].stk /\ r.pc = IF pr[p].stk = <<>> THEN "ret" ELSE "next"
  BY <1>1, <1>2 DEF ProcRec, OnCpu
<1> HIDE DEF r
<1>11. calls' \in 0 .. MaxCalls
  BY <1>3 DEF Inv, TypeOK
<1> QED  BY <1>1, <1>3, <1>9, <1>10, <1>11, InPlace

-----------------------------------------------------------------------------
(* Steps that put one record on a process's loads or unloads, or take it   *)
(* off them.                                                               *)

LEMMA PopFrames ==
  ASSUME NEW s \in Seq(Ids), s # <<>>,
         \A i, j \in DOMAIN s : s[i] = s[j] => i = j
  PROVE  /\ {Tail(s)[i] : i \in DOMAIN Tail(s)} =
              {s[i] : i \in DOMAIN s} \ {Head(s)}
         /\ \A i, j \in DOMAIN Tail(s) : Tail(s)[i] = Tail(s)[j] => i = j
<1> DEFINE t == Tail(s)
<1>1. /\ Head(s) = s[1] /\ 1 \in DOMAIN s /\ DOMAIN t = 1 .. (Len(s) - 1)
      /\ \A i \in DOMAIN t : i + 1 \in DOMAIN s /\ t[i] = s[i + 1]
      /\ \A i \in DOMAIN s : i = 1 \/ (i - 1 \in DOMAIN t /\ s[i] = t[i - 1])
  BY TailFacts
<1>2. Len(s) \in Nat /\ DOMAIN s = 1 .. Len(s)
  BY LenProperties
<1> HIDE DEF t
<1>3. ASSUME NEW i \in DOMAIN t PROVE t[i] # s[1]
  <2>1. i + 1 \in DOMAIN s /\ t[i] = s[i + 1] /\ 1 \in DOMAIN s /\ i \in 1 .. (Len(s) - 1)
    BY <1>1
  <2>2. i + 1 # 1
    BY <1>2, <2>1
  <2> QED  BY <2>1, <2>2
<1>4. {t[i] : i \in DOMAIN t} = {s[i] : i \in DOMAIN s} \ {Head(s)}
  BY <1>1, <1>3
<1>5. \A i, j \in DOMAIN t : t[i] = t[j] => i = j
  BY <1>1, <1>2
<1> QED  BY <1>4, <1>5 DEF t

(* The frames of a process after one is pushed are the old ones and the    *)
(* new.                                                                    *)
LEMMA PushFrames ==
  ASSUME NEW s \in Seq(Ids), NEW x \in Ids,
         \A i, j \in DOMAIN s : s[i] = s[j] => i = j,
         x \notin {s[i] : i \in DOMAIN s}
  PROVE  /\ {(<<x>> \o s)[i] : i \in DOMAIN (<<x>> \o s)} =
              {s[i] : i \in DOMAIN s} \cup {x}
         /\ \A i, j \in DOMAIN (<<x>> \o s) :
              (<<x>> \o s)[i] = (<<x>> \o s)[j] => i = j
<1> DEFINE t == <<x>> \o s
<1>1. /\ DOMAIN t = 1 .. (Len(s) + 1)
      /\ \A i \in DOMAIN t : t[i] = IF i = 1 THEN x ELSE s[i - 1]
  BY PushFacts
<1>2. Len(s) \in Nat /\ DOMAIN s = 1 .. Len(s)
  BY LenProperties
<1> HIDE DEF t
<1>3. 1 \in DOMAIN t /\ t[1] = x
  BY <1>1, <1>2
<1>4. \A i \in DOMAIN s : i + 1 \in DOMAIN t /\ t[i + 1] = s[i]
  BY <1>1, <1>2
<1>5. \A i \in DOMAIN t : i = 1 \/ (i - 1 \in DOMAIN s /\ t[i] = s[i - 1])
  BY <1>1, <1>2
<1>6. {t[i] : i \in DOMAIN t} = {s[i] : i \in DOMAIN s} \cup {x}
  BY <1>3, <1>4, <1>5
<1>7. \A i, j \in DOMAIN t : t[i] = t[j] => i = j
  BY <1>1, <1>2, <1>5, <1>3
<1> QED  BY <1>6, <1>7 DEF t

(* A process that is woken keeps its frames and its current record.        *)
LEMMA OthersKeep ==
  ASSUME Inv, NEW q \in Procs, WokenOrSame(q)
  PROVE  /\ LoadsOf(q)' = LoadsOf(q) /\ UnloadsOf(q)' = UnloadsOf(q)
         /\ Placed(q)'
<1>1. pr[q] \in ProcRec /\ Placed(q)
  BY DEF Inv, TypeOK, ProcOK
<1>2. CASE pr'[q] = pr[q]
  BY <1>1, <1>2 DEF LoadsOf, UnloadsOf, Frames, Placed
<1>3. CASE pr[q].pc = "wait" /\ pr'[q] = [pr[q] EXCEPT !.pc = "woken", !.cur = 0]
  <2>1. pr'[q].pc = "woken" /\ pr'[q].stk = pr[q].stk /\ pr'[q].want = pr[q].want
    BY <1>1, <1>3 DEF ProcRec
  <2> QED  BY <1>1, <1>3, <2>1 DEF LoadsOf, UnloadsOf, Frames, Placed
<1> QED  BY <1>2, <1>3 DEF WokenOrSame

(* A signal ends a sleep of a load.                                        *)
LEMMA LoadInterruptedInv ==
  ASSUME Inv, NEW p \in Procs, LoadInterrupted(p)
  PROVE  Inv' /\ SafeKept /\ ({"failun", "failcl"} \cap Intr = {} => Kept)
<1>1. /\ pr[p] \in ProcRec /\ calls' \in 0 .. MaxCalls /\ Placed(p)
      /\ pr[p].pc \in Intr \ {"inunl"}
  BY DEF Inv, TypeOK, ProcOK, LoadInterrupted
<1> DEFINE r == Unwinds(p)
<1>2. /\ r \in ProcRec /\ r.pc \in {"fail", "ret"} /\ r.stk \in {pr[p].stk, <<>>}
      /\ r.pc = "ret" => InAbort(p) /\ r.stk = <<>>
      /\ r.pc = "fail" => r.stk = pr[p].stk
  <2>1. CASE InAbort(p)
    <3> DEFINE a == [pr[p] EXCEPT !.pc = "ret", !.cur = 0, !.stk = <<>>]
    <3>1. r = a
      BY <2>1 DEF Unwinds
    <3>2. "ret" \in OnCpu \cup Asleep /\ 0 \in Ids \cup {0} /\ <<>> \in Seq(Ids)
      BY DEF OnCpu
    <3>3. a \in ProcRec /\ a.pc = "ret" /\ a.stk = <<>>
      BY <1>1, <3>2 DEF ProcRec
    <3> HIDE DEF a, r
    <3> QED  BY <2>1, <3>1, <3>3
  <2>2. CASE ~ InAbort(p)
    BY <1>1, <2>2 DEF ProcRec, OnCpu, Unwinds
  <2> QED  BY <2>1, <2>2
<1>3. pr' = [pr EXCEPT ![p] = r] /\ UNCHANGED <<list, nextid, mod, slot, panic, calls>>
  BY DEF LoadInterrupted
<1> HIDE DEF r
<1>4. CASE pr[p].pc \notin {"failun", "failcl"}
  <2>1. r.pc = "fail" /\ r.stk = pr[p].stk
    BY <1>2, <1>4 DEF InAbort
  <2>2. Kept
    BY <1>1, <1>2, <1>3, <1>4, <2>1, MoveOnly
  <2> QED  BY <2>2 DEF Kept
<1>5. CASE pr[p].pc \in {"failun", "failcl"}
  <2>1. /\ pr' \in [Procs -> ProcRec] /\ pr'[p] = r
        /\ \A q \in Procs \ {p} : pr'[q] = pr[q]
    BY <1>2, <1>3, SetProc DEF Inv
  <2>2. TypeOK'
    BY <1>3, <2>1 DEF Inv, TypeOK
  <2>3. \A q \in Procs \ {p} :
          LoadsOf(q)' = LoadsOf(q) /\ UnloadsOf(q)' = UnloadsOf(q) /\ Placed(q)'
    BY <2>1, OthersKeep, Zenon DEF WokenOrSame
  <2>4. LoadsOf(p)' \subseteq LoadsOf(p) /\ UnloadsOf(p)' = {}
    BY <1>2, <2>1 DEF LoadsOf, UnloadsOf, Frames
  <2>5. Placed(p)'
    BY <1>1, <1>2, <2>1 DEF Placed
  <2>6. ProcOK'
    BY <2>3, <2>5 DEF ProcOK
  <2>7. RecOK'
    BY <1>3 DEF Inv, RecOK
  <2>8. OwnMarked'
    BY <1>3, <2>3, <2>4 DEF Inv, OwnMarked
  <2>9. \A k \in Keys : slot'[k] = slot[k]
    BY <1>3
  <2>10. \A m \in list : Links[mod[m].name] \subseteq Keys
    BY LinksKeys DEF Inv
  <2>11. SafeKept
    BY <1>3, <2>9, <2>10 DEF SafeKept, SlotOK, SlotLive, Allowed, InService, UniqueName
  <2> QED  BY <1>1, <1>5, <2>2, <2>6, <2>7, <2>8, <2>11 DEF Inv
<1> QED  BY <1>4, <1>5

(* The workhorse: a step of one process that changes the marks of its own  *)
(* records only keeps the invariant.                                       *)
LEMMA OneOwned ==
  ASSUME Inv, NEW p \in Procs, NEW m \in Ids, TypeOK',
         nextid' >= nextid, list' \ {m} = list \ {m},
         \A o \in list \ {m} : /\ mod'[o].name = mod[o].name
                               /\ mod'[o].trans = mod[o].trans
                               /\ mod'[o].owner = mod[o].owner
                               /\ mod'[o].at >= mod[o].at,
         \A q \in Procs \ {p} :
           /\ WokenOrSame(q)
           /\ m \notin LoadsOf(q) /\ m \notin UnloadsOf(q),
         Placed(p)',
         LoadsOf(p)' \ {m} = LoadsOf(p) \ {m},
         UnloadsOf(p)' \ {m} = UnloadsOf(p) \ {m},
         m \in list' =>
           /\ m < nextid' /\ mod'[m].name \in Names
           /\ mod'[m].trans = "loading" =>
                mod'[m].at >= 1 /\ mod'[m].owner = p /\ m \in LoadsOf(p)'
           /\ mod'[m].trans = "unloading" =>
                mod'[m].owner = p /\ m \in UnloadsOf(p)'
           /\ \/ m \in list /\ mod'[m].name = mod[m].name
              \/ AllocSleeps \/ Named(mod'[m].name) = {},
         SlotOK => SlotOK',
         m \in LoadsOf(p)' =>
           m \in list' /\ mod'[m].trans = "loading" /\ mod'[m].owner = p,
         m \in UnloadsOf(p)' =>
           m \in list' /\ mod'[m].trans = "unloading" /\ mod'[m].owner = p
  PROVE  Kept
<1>1. \A q \in Procs \ {p} :
        LoadsOf(q)' = LoadsOf(q) /\ UnloadsOf(q)' = UnloadsOf(q) /\ Placed(q)'
  BY OthersKeep
<1>2. ProcOK'
  BY <1>1 DEF ProcOK
<1>3. RecOK'
  <2>1. \A o \in list \ {m} :
          /\ o \in Nat /\ o < nextid /\ mod[o].at \in Nat /\ mod'[o].at \in Nat
          /\ mod[o].name \in Names /\ (mod[o].trans = "loading" => mod[o].at >= 1)
    BY ConstAssumption DEF Inv, RecOK, TypeOK, ModRec, Ids
  <2>2. nextid \in Nat /\ nextid' \in Nat
    BY ConstAssumption DEF Inv, TypeOK
  <2> QED  BY <2>1, <2>2 DEF RecOK
<1>4. ASSUME AllOwned, NEW o \in list'
      PROVE  /\ mod'[o].trans = "loading" =>
                  \E q \in Procs : mod'[o].owner = q /\ o \in LoadsOf(q)'
             /\ mod'[o].trans = "unloading" =>
                  \E q \in Procs : mod'[o].owner = q /\ o \in UnloadsOf(q)'
  <2>1. CASE o = m
    BY <2>1
  <2>2. CASE o # m
    <3>1. o \in list \ {m}
      BY <2>2
    <3>2. /\ mod[o].trans = "loading" =>
               \E q \in Procs : mod[o].owner = q /\ o \in LoadsOf(q)
          /\ mod[o].trans = "unloading" =>
               \E q \in Procs : mod[o].owner = q /\ o \in UnloadsOf(q)
      BY <1>4, <3>1 DEF AllOwned
    <3> QED  BY <1>1, <2>2, <3>1, <3>2
  <2> QED  BY <2>1, <2>2
<1>5. ASSUME NEW q \in Procs, NEW o
      PROVE  /\ o \in LoadsOf(q)' =>
                  o \in list' /\ mod'[o].trans = "loading" /\ mod'[o].owner = q
             /\ o \in UnloadsOf(q)' =>
                  o \in list' /\ mod'[o].trans = "unloading" /\ mod'[o].owner = q
  <2>1. /\ o \in LoadsOf(q) =>
             o \in list /\ mod[o].trans = "loading" /\ mod[o].owner = q
        /\ o \in UnloadsOf(q) =>
             o \in list /\ mod[o].trans = "unloading" /\ mod[o].owner = q
    BY DEF Inv, OwnMarked
  <2>2. CASE o = m
    BY <1>1, <2>2
  <2>3. CASE o # m
    BY <1>1, <2>1, <2>3
  <2> QED  BY <2>2, <2>3
<1>6. OwnMarked'
  BY <1>5 DEF OwnMarked
<1>7. AllOwned => AllOwned'
  BY <1>4 DEF AllOwned
<1>8. UniqueName /\ ~AllocSleeps => UniqueName'
  <2> SUFFICES ASSUME UniqueName, ~AllocSleeps, NEW x \in list', NEW y \in list',
                      mod'[x].name = mod'[y].name
               PROVE  x = y
    BY DEF UniqueName
  <2>1. \A o \in list' : o # m => o \in list /\ mod'[o].name = mod[o].name
    OBVIOUS
  <2>2. \A o \in list : mod[o].name = mod'[m].name => Named(mod'[m].name) # {}
    BY DEF Named
  <2> QED  BY <2>1, <2>2 DEF UniqueName
<1> QED  BY <1>2, <1>3, <1>6, <1>7, <1>8 DEF Inv, Kept, SafeKept
-----------------------------------------------------------------------------
(* The rest of the steps that keep every mark.                             *)

(* The header and the module data are read, or found wanting.              *)
LEMMA OpenReturnsInv ==
  ASSUME Inv, NEW p \in Procs, OpenReturns(p)
  PROVE  Kept
<1>1. PICK found \in BOOLEAN :
        /\ mod' = [mod EXCEPT ![Head(pr[p].stk)].open = found]
        /\ Goto(p, "next") \/ GiveUp(p, "error")
  BY DEF OpenReturns
<1> DEFINE m == Head(pr[p].stk)
           g == [mod[m] EXCEPT !.open = found]
           n == [pr[p] EXCEPT !.pc = "next"]
           e == [pr[p] EXCEPT !.pc = "fail", !.err = "error"]
<1>2. /\ pr[p] \in ProcRec /\ pr[p].pc = "open" /\ pr[p].stk # <<>>
      /\ UNCHANGED <<list, nextid, slot, panic, calls>> /\ mod \in [Ids -> ModRec]
      /\ calls' \in 0 .. MaxCalls
  BY DEF OpenReturns, Inv, TypeOK, ProcOK, Placed
<1>3. m \in Ids
  <2>1. pr[p].stk \in Seq(Ids)
    BY <1>2 DEF ProcRec
  <2> QED  BY <1>2, <2>1, TailFacts
<1>4. mod' = [mod EXCEPT ![m] = g]
  BY <1>1
<1>5. pr' = [pr EXCEPT ![p] = n] \/ pr' = [pr EXCEPT ![p] = e]
  BY <1>1, Zenon DEF Goto, GiveUp
<1>6. /\ n \in ProcRec /\ n.pc = "next" /\ n.stk = pr[p].stk
      /\ e \in ProcRec /\ e.pc = "fail" /\ e.stk = pr[p].stk
  BY <1>2 DEF ProcRec, OnCpu
<1> HIDE DEF m, n, e
<1>7. mod[m] \in ModRec
  BY <1>2, <1>3
<1>8. /\ g \in ModRec /\ g.name = mod[m].name /\ g.trans = mod[m].trans
      /\ g.owner = mod[m].owner /\ g.at >= mod[m].at
  BY <1>7 DEF ModRec
<1> HIDE DEF g
<1>9. SameMarks(mod, mod')
  BY <1>3, <1>4, <1>8, OneMod DEF Inv
<1>10. CASE pr' = [pr EXCEPT ![p] = n]
  BY <1>2, <1>6, <1>9, <1>10, InPlace
<1>11. CASE pr' = [pr EXCEPT ![p] = e]
  BY <1>2, <1>6, <1>9, <1>11, InPlace
<1> QED  BY <1>5, <1>10, <1>11

LEMMA NextDepInv ==
  ASSUME Inv, NEW p \in Procs, NextDep(p)
  PROVE  Kept
<1> DEFINE m == Head(pr[p].stk)
           d == Depends[mod[m].name]
           at == mod[m].at + 1
           g == [mod[m] EXCEPT !.at = at]
           r == [pr[p] EXCEPT !.pc = "enter", !.want = d[mod[m].at]]
<1>1. /\ pr[p] \in ProcRec /\ pr[p].pc = "next" /\ pr[p].stk # <<>>
      /\ UNCHANGED <<list, nextid, slot, panic, calls>> /\ mod \in [Ids -> ModRec]
      /\ calls' \in 0 .. MaxCalls
  BY DEF NextDep, Inv, TypeOK, ProcOK, Placed
<1>2. m \in Ids /\ m \in Frames(p)
  <2>1. pr[p].stk \in Seq(Ids)
    BY <1>1 DEF ProcRec
  <2> QED  BY <1>1, <2>1, TailFacts DEF Frames
<1>3. m \in list /\ mod[m].trans = "loading" /\ mod[m].at >= 1 /\ mod[m].name \in Names
  BY <1>2 DEF Inv, OwnMarked, RecOK, LoadsOf
<1>4. mod[m] \in ModRec /\ d \in Seq(Names) /\ mod[m].at \in Nat
  BY <1>1, <1>2, <1>3, ConstAssumption DEF ModRec
<1>5. CASE mod[m].at > Len(d)
  <2>1. Goto(p, "image") /\ mod' = mod
    BY <1>5 DEF NextDep
  <2> QED  BY <1>1, <2>1, GotoInv DEF Asleep
<1>6. CASE ~ (mod[m].at > Len(d))
  <2>1. mod' = [mod EXCEPT ![m] = g]
    BY <1>6, Zenon DEF NextDep
  <2>2. pr' = pr \/ pr' = [pr EXCEPT ![p] = r]
    BY <1>6, Zenon DEF NextDep
  <2>3. d[mod[m].at] \in Names
    BY <1>3, <1>4, <1>6
  <2>4. r \in ProcRec /\ r.pc = "enter" /\ r.stk = pr[p].stk /\ r.want \in Names
    BY <1>1, <2>3, Zenon DEF ProcRec, OnCpu
  <2> HIDE DEF m, d
  <2>5. at \in Nat /\ at >= mod[m].at
    BY <1>4
  <2> HIDE DEF at
  <2>6. /\ g \in ModRec /\ g.name = mod[m].name /\ g.trans = mod[m].trans
        /\ g.owner = mod[m].owner /\ g.at >= mod[m].at
    BY <1>4, <2>5 DEF ModRec
  <2> HIDE DEF g, r
  <2>7. SameMarks(mod, mod')
    BY <1>2, <2>1, <2>6, OneMod DEF Inv
  <2>8. CASE pr' = pr
    <3>1. pr' = [pr EXCEPT ![p] = pr[p]]
      BY <2>8 DEF Inv, TypeOK
    <3> QED  BY <1>1, <2>7, <3>1, InPlace
  <2>9. CASE pr' = [pr EXCEPT ![p] = r]
    BY <1>1, <2>4, <2>7, <2>9, InPlace
  <2> QED  BY <2>2, <2>8, <2>9
<1> QED  BY <1>5, <1>6

(* lf_close keeps the type of a process.                                   *)
LEMMA RestoredType ==
  ASSUME Inv, NEW p \in Procs, NEW m \in Ids
  PROVE  Restored(p, m) \in {"user", "sys"}
<1>1. mod[m] \in ModRec /\ pr[p] \in ProcRec
  BY DEF Inv, TypeOK
<1> QED  BY <1>1 DEF Restored, ModRec, ProcRec

(* dlm_load reads the image, maps and relocates it.                        *)
LEMMA ReadImageInv ==
  ASSUME Inv, NEW p \in Procs, ReadImage(p)
  PROVE  Kept
<1> DEFINE m == Head(pr[p].stk)
           cr == Restored(p, m)
           no == FALSE
           g == [mod[m] EXCEPT !.saved = "none", !.open = no]
           r == [pr[p] EXCEPT !.pc = "inload", !.cred = cr]
<1>1. /\ pr[p] \in ProcRec /\ pr[p].pc = "image" /\ pr[p].stk # <<>>
      /\ UNCHANGED <<list, nextid, slot, panic, calls>> /\ mod \in [Ids -> ModRec]
      /\ calls' \in 0 .. MaxCalls
  BY DEF ReadImage, Inv, TypeOK, ProcOK, Placed
<1>2. m \in Ids
  <2>1. pr[p].stk \in Seq(Ids)
    BY <1>1 DEF ProcRec
  <2> QED  BY <1>1, <2>1, TailFacts
<1>3. pr' = [pr EXCEPT ![p] = r] /\ mod' = [mod EXCEPT ![m] = g]
  BY <1>1, <1>2 DEF ReadImage
<1> HIDE DEF m
<1>4. cr \in {"user", "sys"}
  BY <1>2, RestoredType
<1> HIDE DEF cr
<1>5. r \in ProcRec /\ r.pc = "inload" /\ r.stk = pr[p].stk
  BY <1>1, <1>4 DEF ProcRec, Asleep
<1>6. mod[m] \in ModRec /\ no \in BOOLEAN
  BY <1>1, <1>2
<1> HIDE DEF no
<1>7. /\ g \in ModRec /\ g.name = mod[m].name /\ g.trans = mod[m].trans
      /\ g.owner = mod[m].owner /\ g.at >= mod[m].at
  <2> DEFINE shut == [mod[m] EXCEPT !.open = no]
  <2>1. g = [shut EXCEPT !.saved = "none"]
    BY <1>6 DEF ModRec
  <2>2. /\ shut \in ModRec /\ shut.name = mod[m].name /\ shut.trans = mod[m].trans
        /\ shut.owner = mod[m].owner /\ shut.at = mod[m].at /\ mod[m].at \in Nat
    BY <1>6 DEF ModRec
  <2> HIDE DEF shut
  <2>3. /\ [shut EXCEPT !.saved = "none"] \in ModRec
        /\ [shut EXCEPT !.saved = "none"].name = shut.name
        /\ [shut EXCEPT !.saved = "none"].trans = shut.trans
        /\ [shut EXCEPT !.saved = "none"].owner = shut.owner
        /\ [shut EXCEPT !.saved = "none"].at = shut.at
    BY <2>2 DEF ModRec
  <2> HIDE DEF g
  <2> QED  BY <2>1, <2>2, <2>3
<1> HIDE DEF g, r
<1>8. SameMarks(mod, mod')
  BY <1>2, <1>3, <1>7, OneMod DEF Inv
<1> QED  BY <1>1, <1>3, <1>5, <1>8, InPlace

(* Steps of no process.                                                    *)
LEMMA NoProcMoves ==
  ASSUME Inv, UNCHANGED <<list, nextid, slot, pr, panic>>,
         calls' \in 0 .. MaxCalls, SameMarks(mod, mod')
  PROVE  Kept
<1>1. TypeOK'
  BY DEF Inv, TypeOK, SameMarks
<1>2. \A q \in Procs : LoadsOf(q)' = LoadsOf(q) /\ UnloadsOf(q)' = UnloadsOf(q)
  BY DEF LoadsOf, UnloadsOf, Frames
<1>3. ProcOK'
  BY DEF Inv, ProcOK, Placed, Frames
<1>4. \A m \in list : /\ mod'[m].name = mod[m].name
                      /\ mod'[m].trans = mod[m].trans
                      /\ mod'[m].owner = mod[m].owner
                      /\ mod'[m].at >= mod[m].at
  BY DEF Inv, TypeOK, SameMarks
<1>5. RecOK' /\ OwnMarked' /\ SafeKept /\ (AllOwned => AllOwned')
  BY <1>1, <1>2, <1>4, KeepOwned
<1> QED  BY <1>1, <1>3, <1>5 DEF Inv, Kept

(* mod_hold and mod_rele change a reference count of a settled record.     *)
LEMMA HoldInv ==
  ASSUME Inv, NEW m \in Ids, ModHold(m) \/ ModRele(m)
  PROVE  Kept
<1>1. mod[m] \in ModRec /\ mod[m].at \in Nat /\ calls' \in 0 .. MaxCalls
  BY DEF Inv, TypeOK, ModRec, ModHold, ModRele
<1>2. PICK n \in Nat, fl \in SUBSET {"DEMAND", "CAND", "WANTED"} :
        mod' = [mod EXCEPT ![m] = [mod[m] EXCEPT !.refs = n, !.flags = fl]]
  <2>1. CASE ModHold(m)
    <3> DEFINE n == mod[m].refs + 1
               fl == mod[m].flags \ {"CAND"}
    <3>1. mod' = [mod EXCEPT ![m] = [mod[m] EXCEPT !.refs = n, !.flags = fl]]
      BY <2>1, Zenon DEF ModHold, DlmHold, CandDel
    <3>2. n \in Nat /\ fl \in SUBSET {"DEMAND", "CAND", "WANTED"}
      BY <1>1 DEF ModRec
    <3> QED  BY <3>1, <3>2, Zenon
  <2>2. CASE ModRele(m)
    <3> DEFINE n == mod[m].refs - 1
               fl == IF mod[m].refs = 1 /\ mod[m].deps = 0
                     THEN mod[m].flags \cup {"CAND"} ELSE mod[m].flags
    <3>1. mod' = [mod EXCEPT ![m] = [mod[m] EXCEPT !.refs = n, !.flags = fl]]
      BY <2>2, Zenon DEF ModRele, DlmRele, CandAdd
    <3>2. n \in Nat /\ fl \in SUBSET {"DEMAND", "CAND", "WANTED"}
      BY <1>1, <2>2 DEF ModRec, ModRele
    <3> QED  BY <3>1, <3>2, Zenon
  <2> QED  BY <2>1, <2>2, Zenon
<1> DEFINE g == [mod[m] EXCEPT !.refs = n, !.flags = fl]
<1>3. g \in ModRec
  BY <1>1, <1>2 DEF ModRec
<1>4. /\ g.name = mod[m].name /\ g.trans = mod[m].trans
      /\ g.owner = mod[m].owner /\ g.at >= mod[m].at
  BY <1>1 DEF ModRec
<1>5. mod' = [mod EXCEPT ![m] = g]
  BY <1>2
<1> HIDE DEF g
<1>6. SameMarks(mod, mod')
  BY <1>3, <1>4, <1>5, OneMod DEF Inv
<1> QED  BY <1>1, <1>6, NoProcMoves DEF ModHold, ModRele
-----------------------------------------------------------------------------
(* Unloading.                                                              *)

(* What one process owns, no other process loads or unloads; what is       *)
(* settled or off the list, nobody does.                                   *)
LEMMA NotOthers ==
  ASSUME Inv, NEW m \in Ids, NEW q \in Procs,
         m \notin list \/ mod[m].trans = "no" \/ mod[m].owner # q
  PROVE  m \notin LoadsOf(q) /\ m \notin UnloadsOf(q)
  BY DEF Inv, OwnMarked

(* New marks of the right type keep a record in its type.                  *)
LEMMA Remarked ==
  ASSUME NEW x \in ModRec, NEW fl \in FlagSets,
         NEW tr \in TransSet, NEW ow \in OwnerSet
  PROVE  /\ Remark(x, fl, tr, ow) \in ModRec
         /\ Remark(x, fl, tr, ow).name = x.name
         /\ Remark(x, fl, tr, ow).trans = tr
         /\ Remark(x, fl, tr, ow).owner = ow
         /\ Remark(x, fl, tr, ow).at = x.at
  BY DEF ModRec, Remark, FlagSets, TransSet, OwnerSet

(* dlm_unload marks the record and takes its entries away.                 *)
LEMMA StartUnloadInv ==
  ASSUME Inv, NEW p \in Procs, NEW m \in list, NEW op \in Ops,
         NEW cleared \in SUBSET Ids, mod[m].trans = "no",
         pr[p].pc \in {"user", "sweep"}, StartUnload(p, m, op, cleared),
         UNCHANGED <<list, nextid, panic>>, calls' \in 0 .. MaxCalls
  PROVE  Kept
<1> DEFINE fl(o) == IF o \in cleared THEN mod[o].flags \ {"DEMAND"} ELSE mod[o].flags
           tr(o) == IF o = m THEN "unloading" ELSE mod[o].trans
           ow(o) == IF o = m THEN p ELSE mod[o].owner
           g(o) == Remark(mod[o], fl(o), tr(o), ow(o))
           r == [pr[p] EXCEPT !.pc = "inunl", !.op = op, !.cur = m]
<1>1. /\ pr[p] \in ProcRec /\ pr[p].stk = <<>> /\ m \in Ids
      /\ \A o \in Ids : mod[o] \in ModRec /\ mod[o].at \in Nat
  BY DEF Inv, TypeOK, ProcOK, Placed, ModRec
<1>2. mod' = [o \in Ids |-> g(o)] /\ pr' = [pr EXCEPT ![p] = r] /\ slot' = Unlink(m, slot)
  BY Zenon DEF StartUnload, Remark
<1>3. \A o \in Ids : /\ fl(o) \in FlagSets
                     /\ tr(o) \in TransSet
                     /\ ow(o) \in OwnerSet
  BY <1>1 DEF ModRec, FlagSets, TransSet, OwnerSet
<1> HIDE DEF fl, tr, ow
<1>4. \A o \in Ids : /\ g(o) \in ModRec
                     /\ g(o).name = mod[o].name /\ g(o).trans = tr(o)
                     /\ g(o).owner = ow(o) /\ g(o).at = mod[o].at
  <2> TAKE o \in Ids
  <2>1. mod[o] \in ModRec
    BY <1>1
  <2>2. /\ fl(o) \in FlagSets
        /\ tr(o) \in TransSet
        /\ ow(o) \in OwnerSet
    BY <1>3
  <2>3. /\ g(o) \in ModRec /\ g(o).name = mod[o].name /\ g(o).trans = tr(o)
        /\ g(o).owner = ow(o) /\ g(o).at = mod[o].at
    BY <2>1, <2>2, Remarked
  <2> QED  BY <2>3
<1> HIDE DEF g
<1>6. /\ r \in ProcRec /\ r.pc = "inunl" /\ r.stk = <<>> /\ r.cur = m
  BY <1>1 DEF ProcRec, Asleep
<1> HIDE DEF r
<1>7. /\ pr' \in [Procs -> ProcRec] /\ pr'[p] = r
      /\ \A q \in Procs \ {p} : pr'[q] = pr[q]
  BY <1>2, <1>6, SetProc DEF Inv
<1>8. slot' \in [Keys -> Ids \cup {0}]
  BY <1>2 DEF Unlink, Inv, TypeOK
<1>9. TypeOK'
  BY <1>2, <1>4, <1>7, <1>8 DEF Inv, TypeOK
<1>10. /\ LoadsOf(p) = {} /\ LoadsOf(p)' = {}
       /\ UnloadsOf(p) = {} /\ UnloadsOf(p)' = {m}
  BY <1>1, <1>6, <1>7 DEF LoadsOf, UnloadsOf, Frames
<1>11. Placed(p)'
  BY <1>1, <1>6, <1>7 DEF Placed
<1>12. \A q \in Procs \ {p} :
         WokenOrSame(q) /\ m \notin LoadsOf(q) /\ m \notin UnloadsOf(q)
  BY <1>1, <1>7, NotOthers DEF WokenOrSame
<1>13. /\ m < nextid /\ mod[m].name \in Names
       /\ nextid' = nextid /\ list' = list /\ nextid' >= nextid
  <2>1. nextid \in Nat
    BY ConstAssumption DEF Inv, TypeOK
  <2> QED  BY <2>1 DEF Inv, RecOK
<1>14. \A o \in list \ {m} : /\ mod'[o].name = mod[o].name
                             /\ mod'[o].trans = mod[o].trans
                             /\ mod'[o].owner = mod[o].owner
                             /\ mod'[o].at >= mod[o].at
  <2>1. list \subseteq Ids
    BY DEF Inv, TypeOK
  <2> QED  BY <1>1, <1>2, <1>4, <2>1 DEF tr, ow
<1>15. /\ mod'[m].name \in Names /\ mod'[m].trans = "unloading"
       /\ mod'[m].owner = p
  BY <1>1, <1>2, <1>4, <1>13 DEF tr, ow
<1>16. \A k \in Keys : slot'[k] = IF slot[k] = m THEN 0 ELSE slot[k]
  BY <1>2 DEF Unlink
<1>17. /\ mod'[m].name = mod[m].name
       /\ \A o \in list : o # m => /\ mod'[o].name = mod[o].name
                                    /\ mod'[o].trans = mod[o].trans
  BY <1>1, <1>2, <1>4, <1>14
<1>18. SlotOK => SlotOK'
  <2>1. \A o \in list : Links[mod[o].name] \subseteq Keys
    BY LinksKeys DEF Inv
  <2>2. UNCHANGED panic
    OBVIOUS
  <2> QED  BY <1>13, <1>15, <1>16, <1>17, <2>1, <2>2 DEF SlotOK, SlotLive, Allowed, InService
<1> QED
  BY <1>1, <1>9, <1>10, <1>11, <1>12, <1>13, <1>14, <1>15, <1>17, <1>18, OneOwned

(* dlm_moduload of one module.                                             *)
LEMMA ModuloadInv ==
  ASSUME Inv, NEW p \in Procs, NEW m \in Ids, Moduload(p, m)
  PROVE  Kept
<1>1. /\ mod[m] \in ModRec /\ mod[m].at \in Nat /\ pr[p].pc = "user"
      /\ calls' \in 0 .. MaxCalls /\ UNCHANGED <<list, nextid, panic>> /\ m \in list
  BY ConstAssumption DEF Inv, TypeOK, ModRec, Moduload, EntersCall
<1>2. CASE Busy(m)
  <2> DEFINE g == [mod[m] EXCEPT !.flags = @ \ {"DEMAND"}]
  <2>1. mod' = [mod EXCEPT ![m] = g] /\ UNCHANGED <<slot, pr>>
    BY <1>2 DEF Moduload
  <2>2. /\ g \in ModRec /\ g.name = mod[m].name /\ g.trans = mod[m].trans
        /\ g.owner = mod[m].owner /\ g.at >= mod[m].at
    BY <1>1 DEF ModRec
  <2> HIDE DEF g
  <2>3. SameMarks(mod, mod')
    BY <2>1, <2>2, OneMod DEF Inv
  <2> QED  BY <1>1, <2>1, <2>3, NoProcMoves
<1>3. CASE ~Busy(m)
  <2>1. StartUnload(p, m, "moduload", {m}) /\ mod[m].trans = "no"
    BY <1>3 DEF Moduload, Busy, Trans
  <2> QED  BY <1>1, <2>1, StartUnloadInv DEF Ops
<1> QED  BY <1>2, <1>3

(* dlm_moduload of all modules: the next idle record, or the end.          *)
LEMMA SweepInv ==
  ASSUME Inv, NEW p \in Procs, Sweep(p)
  PROVE  Kept
<1> DEFINE rest == {m \in list : m > pr[p].cur /\ ~Trans(m)}
<1>1. /\ pr[p] \in ProcRec /\ pr[p].pc = "sweep" /\ pr[p].stk = <<>>
      /\ UNCHANGED <<list, nextid, panic, calls>> /\ list \subseteq Ids
      /\ calls' \in 0 .. MaxCalls
      /\ \A o \in Ids : mod[o] \in ModRec /\ mod[o].at \in Nat
  BY DEF Sweep, Inv, TypeOK, ProcOK, Placed, ModRec
<1>2. CASE \E m \in {r \in rest : ~Busy(r)} :
             StartUnload(p, m, "sweep", {r \in rest : r <= m})
  <2>1. PICK m \in rest : ~Busy(m) /\ StartUnload(p, m, "sweep", {r \in rest : r <= m})
    BY <1>2
  <2>2. m \in list /\ mod[m].trans = "no" /\ {r \in rest : r <= m} \in SUBSET Ids
    BY <1>1, <2>1 DEF Trans
  <2> QED  BY <1>1, <2>1, <2>2, StartUnloadInv DEF Ops
<1>3. CASE /\ mod' = [r \in Ids |->
                        IF r \in rest THEN [mod[r] EXCEPT !.flags = @ \ {"DEMAND"}]
                                      ELSE mod[r]]
           /\ Goto(p, "ret") /\ UNCHANGED slot
  <2> DEFINE g(o) == [mod[o] EXCEPT !.flags = @ \ {"DEMAND"}]
             r == [pr[p] EXCEPT !.pc = "ret"]
  <2>1. \A o \in Ids :
          /\ g(o) \in ModRec /\ g(o).name = mod[o].name /\ g(o).trans = mod[o].trans
          /\ g(o).owner = mod[o].owner /\ g(o).at = mod[o].at
    <3> DEFINE k(x) == [x EXCEPT !.flags = @ \ {"DEMAND"}]
    <3>1. \A x \in ModRec : /\ k(x) \in ModRec /\ k(x).name = x.name /\ k(x).trans = x.trans
                            /\ k(x).owner = x.owner /\ k(x).at = x.at
      BY DEF ModRec
    <3>2. \A o \in Ids : mod[o] \in ModRec /\ g(o) = k(mod[o])
      BY <1>1
    <3> HIDE DEF k, g, rest
    <3> QED  BY <3>1, <3>2
  <2>2. mod' = [o \in Ids |-> IF o \in rest THEN g(o) ELSE mod[o]]
    BY <1>3
  <2> HIDE DEF g, rest
  <2>3. SameMarks(mod, mod')
    BY <1>1, <2>1, <2>2 DEF SameMarks
  <2>4. r \in ProcRec /\ r.pc = "ret" /\ r.stk = pr[p].stk
    BY <1>1 DEF ProcRec, OnCpu
  <2>5. pr' = [pr EXCEPT ![p] = r]
    BY <1>3 DEF Goto
  <2> HIDE DEF r
  <2> QED  BY <1>1, <1>3, <2>3, <2>4, <2>5, InPlace
<1>4. \/ \E m \in {r \in rest : ~Busy(r)} :
           StartUnload(p, m, "sweep", {r \in rest : r <= m})
      \/ /\ mod' = [r \in Ids |->
                      IF r \in rest THEN [mod[r] EXCEPT !.flags = @ \ {"DEMAND"}]
                                    ELSE mod[r]]
         /\ Goto(p, "ret") /\ UNCHANGED slot
  BY Zenon DEF Sweep
<1> QED  BY <1>2, <1>3, <1>4
-----------------------------------------------------------------------------
(* Loads begin.                                                            *)

LEMMA NewRecordInv ==
  ASSUME Inv, NEW p \in Procs, NewRecord(p), pr[p].want \in Names,
         AllocSleeps \/ Named(pr[p].want) = {},
         pr[p].pc \in {"enter", "woken", "alloc"}
  PROVE  Kept
<1> DEFINE sv == IF IsSys(p) THEN pr[p].cred ELSE "none"
           cr == IF IsSys(p) THEN "sys" ELSE pr[p].cred
           s == <<nextid>> \o pr[p].stk
           g == [NoRec EXCEPT !.name = pr[p].want, !.trans = "loading",
                              !.owner = p, !.at = 1, !.saved = sv]
           r == [pr[p] EXCEPT !.pc = "open", !.stk = s, !.cred = cr]
<1>1. /\ pr[p] \in ProcRec /\ pr[p].stk \in Seq(Ids) /\ nextid \in Ids
      /\ nextid \in Nat /\ list \subseteq Ids
      /\ nextid' = nextid + 1 /\ list' = list \cup {nextid}
      /\ UNCHANGED <<slot, panic, calls>>
  <2>1. pr[p] \in ProcRec /\ list \subseteq Ids
    BY DEF Inv, TypeOK
  <2> QED  BY <2>1 DEF NewRecord, Ids, ProcRec
<1>2. mod' = [mod EXCEPT ![nextid] = g] /\ pr' = [pr EXCEPT ![p] = r]
  BY Zenon DEF NewRecord
<1>3. nextid \notin list
  BY <1>1 DEF Inv, RecOK
<1>4. \A q \in Procs : nextid \notin LoadsOf(q) /\ nextid \notin UnloadsOf(q)
  BY <1>1, <1>3, NotOthers
<1>5. nextid \notin Frames(p)
  BY <1>4 DEF LoadsOf
<1>6. \A i, j \in DOMAIN pr[p].stk : pr[p].stk[i] = pr[p].stk[j] => i = j
  BY DEF Inv, ProcOK, Placed
<1>7. /\ s \in Seq(Ids) /\ s # <<>>
      /\ {s[i] : i \in DOMAIN s} = Frames(p) \cup {nextid}
      /\ \A i, j \in DOMAIN s : s[i] = s[j] => i = j
  <2>1. PICK u \in Seq(Ids), x \in Ids : u = pr[p].stk /\ x = nextid
    BY <1>1
  <2>2. Frames(p) = {u[i] : i \in DOMAIN u} /\ s = <<x>> \o u
    BY <2>1 DEF Frames
  <2>3. x \notin {u[i] : i \in DOMAIN u} /\ \A i, j \in DOMAIN u : u[i] = u[j] => i = j
    BY <1>5, <1>6, <2>1, <2>2
  <2> HIDE DEF s
  <2>4. <<x>> \o u \in Seq(Ids) /\ <<x>> \o u # <<>>
    BY PushFacts
  <2>5. /\ {(<<x>> \o u)[i] : i \in DOMAIN (<<x>> \o u)} = {u[i] : i \in DOMAIN u} \cup {x}
        /\ \A i, j \in DOMAIN (<<x>> \o u) : (<<x>> \o u)[i] = (<<x>> \o u)[j] => i = j
    BY <2>3, PushFrames
  <2>6. PICK v : v = <<x>> \o u
    OBVIOUS
  <2>7. /\ v \in Seq(Ids) /\ v # <<>> /\ {v[i] : i \in DOMAIN v} = {u[i] : i \in DOMAIN u} \cup {x}
        /\ \A i, j \in DOMAIN v : v[i] = v[j] => i = j
    BY <2>4, <2>5, <2>6, Zenon
  <2>8. s = v
    BY <2>2, <2>6
  <2>9. {v[i] : i \in DOMAIN v} = Frames(p) \cup {nextid}
    <3>1. Frames(p) = {u[i] : i \in DOMAIN u} /\ x = nextid
      BY <2>1, <2>2
    <3> QED  BY <2>7, <3>1, Zenon
  <2> QED  BY <2>7, <2>8, <2>9, Zenon
<1> HIDE DEF s
<1>8. sv \in {"none", "user", "sys"} /\ cr \in {"user", "sys"}
  BY <1>1 DEF ProcRec
<1> HIDE DEF sv, cr
<1>9. /\ g \in ModRec /\ g.name = pr[p].want /\ g.trans = "loading"
      /\ g.owner = p /\ g.at = 1
  <2>1. NoRec \in ModRec
    BY DEF ModRec, NoRec
  <2>2. g \in ModRec
    BY <1>8, <2>1 DEF ModRec
  <2>3. /\ g.name = pr[p].want /\ g.trans = "loading"
        /\ g.owner = p /\ g.at = 1
    BY <2>1 DEF ModRec
  <2> QED  BY <2>2, <2>3
<1>10. r \in ProcRec /\ r.pc = "open" /\ r.stk = s
  BY <1>1, <1>7, <1>8 DEF ProcRec, Asleep
<1> HIDE DEF g, r
<1>11. /\ pr' \in [Procs -> ProcRec] /\ pr'[p] = r
       /\ \A q \in Procs \ {p} : pr'[q] = pr[q]
  BY <1>2, <1>10, SetProc DEF Inv
<1>12. /\ mod' \in [Ids -> ModRec] /\ mod'[nextid] = g
       /\ \A o \in Ids \ {nextid} : mod'[o] = mod[o]
  BY <1>1, <1>2, <1>9, SetMod DEF Inv
<1>13. TypeOK'
  BY <1>1, <1>11, <1>12, ConstAssumption DEF Inv, TypeOK, Ids
<1>14. Frames(p)' = Frames(p) \cup {nextid}
  <2>1. Frames(p)' = {s[i] : i \in DOMAIN s}
    BY <1>10, <1>11 DEF Frames
  <2> QED  BY <1>7, <2>1
<1>15. /\ LoadsOf(p)' = LoadsOf(p) \cup {nextid}
       /\ UnloadsOf(p)' = UnloadsOf(p)
  BY <1>10, <1>11, <1>14 DEF LoadsOf, UnloadsOf
<1>16. Placed(p)'
  BY <1>7, <1>10, <1>11 DEF Placed
<1>17. \A q \in Procs \ {p} : WokenOrSame(q)
  BY <1>11 DEF WokenOrSame
<1>18. \A o \in list \ {nextid} : /\ mod'[o].name = mod[o].name
                                  /\ mod'[o].trans = mod[o].trans
                                  /\ mod'[o].owner = mod[o].owner
                                  /\ mod'[o].at >= mod[o].at
  <2>1. \A o \in Ids : mod[o].at \in Nat
    BY DEF Inv, TypeOK, ModRec
  <2>2. \A o \in list \ {nextid} : o \in Ids \ {nextid}
    BY <1>1, Zenon
  <2>3. \A o \in list \ {nextid} : mod'[o] = mod[o] /\ mod[o].at \in Nat
    BY <1>12, <2>1, <2>2, Zenon
  <2> QED  BY <2>3
<1>19. /\ nextid < nextid' /\ nextid' >= nextid /\ nextid \in list'
       /\ list' \ {nextid} = list \ {nextid}
       /\ LoadsOf(p)' \ {nextid} = LoadsOf(p) \ {nextid}
       /\ UnloadsOf(p)' \ {nextid} = UnloadsOf(p) \ {nextid}
       /\ nextid \in LoadsOf(p)' /\ nextid \notin UnloadsOf(p)'
  BY <1>1, <1>4, <1>15
<1>20. /\ mod'[nextid].name \in Names /\ mod'[nextid].trans = "loading"
       /\ mod'[nextid].owner = p /\ mod'[nextid].at >= 1
  BY <1>9, <1>12
<1>21. AllocSleeps \/ Named(mod'[nextid].name) = {}
  BY <1>9, <1>12
<1>22. SlotOK => SlotOK'
  <2>1. \A k \in Keys : slot'[k] = slot[k]
    BY <1>1
  <2>2. \A o \in list : /\ mod'[o].name = mod[o].name
                        /\ mod'[o].trans = mod[o].trans /\ o \in list'
    BY <1>1, <1>3, <1>18
  <2>3. \A o \in list : Links[mod[o].name] \subseteq Keys
    BY LinksKeys DEF Inv
  <2>4. \A o \in list' : o = nextid \/ o \in list
    BY <1>1
  <2>5. UNCHANGED panic
    BY <1>1
  <2>6. SlotLive => SlotLive'
    BY <2>1, <2>2 DEF SlotLive
  <2>7. Allowed => Allowed'
    BY <1>20, <2>2, <2>4 DEF Allowed
  <2>8. InService => InService'
    BY <1>20, <2>1, <2>2, <2>3, <2>4, <2>5 DEF InService
  <2> QED  BY <2>6, <2>7, <2>8 DEF SlotOK
<1> QED
  BY <1>1, <1>4, <1>13, <1>16, <1>17, <1>18, <1>19, <1>20, <1>21, <1>22, OneOwned

(* Both ways to create a record: at once, and after kmem_zalloc slept.     *)
LEMMA CreatesInv ==
  ASSUME Inv, NEW p \in Procs, LoadCreates(p) \/ Allocated(p)
  PROVE  Kept
<1>1. pr[p].pc \in {"enter", "woken", "alloc"} /\ NewRecord(p)
  BY DEF LoadCreates, Allocated, AtEnter
<1>2. pr[p].want \in Names
  BY <1>1 DEF Inv, ProcOK, Placed
<1>3. AllocSleeps \/ Named(pr[p].want) = {}
  BY DEF LoadCreates, Allocated, Inv, ProcOK, Placed
<1> QED  BY <1>1, <1>2, <1>3, NewRecordInv
-----------------------------------------------------------------------------
(* Records are freed, or settle.                                           *)

LEMMA WakeSet ==
  ASSUME TypeOK, NEW p \in Procs, NEW m \in Ids, NEW r \in ProcRec,
         pr' = [Wake(m) EXCEPT ![p] = r]
  PROVE  /\ pr' \in [Procs -> ProcRec] /\ pr'[p] = r
         /\ \A q \in Procs \ {p} : WokenOrSame(q)
<1>1. /\ Wake(m) \in [Procs -> ProcRec]
      /\ \A q \in Procs :
           \/ Wake(m)[q] = pr[q]
           \/ /\ pr[q].pc = "wait"
              /\ Wake(m)[q] = [pr[q] EXCEPT !.pc = "woken", !.cur = 0]
  BY WakeFacts, Zenon
<1>2. /\ pr' \in [Procs -> ProcRec] /\ pr'[p] = r
      /\ \A q \in Procs \ {p} : pr'[q] = Wake(m)[q]
  BY <1>1, Zenon
<1> QED  BY <1>1, <1>2, Zenon DEF WokenOrSame

(* A process frees a record it owns, and drops the frame or the current    *)
(* record with it.                                                         *)
LEMMA FreedInv ==
  ASSUME Inv, NEW p \in Procs, NEW m \in Ids, NEW r \in ProcRec, FreeMod(m),
         pr' = [Wake(m) EXCEPT ![p] = r], UNCHANGED <<nextid, slot, panic, calls>>,
         m \in LoadsOf(p) \/ m \in UnloadsOf(p), Placed(p)',
         LoadsOf(p)' = LoadsOf(p) \ {m}, UnloadsOf(p)' = UnloadsOf(p) \ {m}
  PROVE  Kept
<1>1. /\ pr' \in [Procs -> ProcRec] /\ \A q \in Procs \ {p} : WokenOrSame(q)
  BY WakeSet DEF Inv
<1>2. /\ mod' \in [Ids -> ModRec]
      /\ \A o \in Ids \ {m} :
           /\ mod'[o].name = mod[o].name /\ mod'[o].trans = mod[o].trans
           /\ mod'[o].owner = mod[o].owner /\ mod'[o].at = mod[o].at
  BY FreeModFacts DEF Inv
<1>3. list' = list \ {m} /\ list \subseteq Ids /\ nextid' >= nextid
  BY ConstAssumption DEF FreeMod, Inv, TypeOK
<1>4. TypeOK'
  BY <1>1, <1>2, <1>3 DEF Inv, TypeOK
<1>5. mod[m].owner = p
  BY DEF Inv, OwnMarked
<1>6. \A q \in Procs \ {p} : m \notin LoadsOf(q) /\ m \notin UnloadsOf(q)
  BY <1>5, NotOthers
<1>7. \A o \in list \ {m} : /\ mod'[o].name = mod[o].name
                            /\ mod'[o].trans = mod[o].trans
                            /\ mod'[o].owner = mod[o].owner
                            /\ mod'[o].at >= mod[o].at
  <2>1. \A o \in Ids : mod[o].at \in Nat
    BY DEF Inv, TypeOK, ModRec
  <2>2. \A o \in list \ {m} : o \in Ids \ {m}
    BY <1>3, Zenon
  <2> QED  BY <1>2, <2>1, <2>2
<1>8. /\ m \notin list' /\ list' \ {m} = list \ {m}
      /\ m \notin LoadsOf(p)' /\ m \notin UnloadsOf(p)'
      /\ LoadsOf(p)' \ {m} = LoadsOf(p) \ {m}
      /\ UnloadsOf(p)' \ {m} = UnloadsOf(p) \ {m}
  BY <1>3
<1>9. SlotOK => SlotOK'
  <2>1. mod[m].trans # "no" /\ \A k \in Keys : slot'[k] = slot[k]
    BY DEF Inv, OwnMarked
  <2>2. \A o \in list : Links[mod[o].name] \subseteq Keys
    BY LinksKeys DEF Inv
  <2> QED  BY <1>3, <1>7, <2>1, <2>2 DEF SlotOK, SlotLive, Allowed, InService
<1> QED  BY <1>1, <1>3, <1>4, <1>6, <1>7, <1>8, <1>9, OneOwned

(* lf_fail undoes the load at the top of the stack.                        *)
LEMMA FailInv ==
  ASSUME Inv, NEW p \in Procs, Fail(p)
  PROVE  Kept
<1> DEFINE m == Head(pr[p].stk)
           s == Tail(pr[p].stk)
           cr == Restored(p, m)
           r == [pr[p] EXCEPT !.stk = s, !.cred = cr]
<1>1. /\ pr[p] \in ProcRec /\ pr[p].stk \in Seq(Ids) /\ pr[p].stk # <<>>
      /\ pr[p].pc = "fail" /\ FreeMod(m) /\ UNCHANGED <<nextid, slot, panic, calls>>
      /\ \A i, j \in DOMAIN pr[p].stk : pr[p].stk[i] = pr[p].stk[j] => i = j
  BY DEF Fail, Fails, Inv, TypeOK, ProcRec, ProcOK, Placed
<1>2. pr' = [Wake(m) EXCEPT ![p] = r]
  BY Zenon DEF Fail
<1>3. /\ m \in Ids /\ m \in Frames(p) /\ s \in Seq(Ids)
  BY <1>1, TailFacts DEF Frames
<1>4. /\ {s[i] : i \in DOMAIN s} = Frames(p) \ {m}
      /\ \A i, j \in DOMAIN s : s[i] = s[j] => i = j
  BY <1>1, PopFrames DEF Frames
<1> HIDE DEF m, s
<1>5. cr \in {"user", "sys"}
  BY <1>3, RestoredType
<1> HIDE DEF cr
<1>6. r \in ProcRec /\ r.stk = s /\ r.pc = "fail"
  BY <1>1, <1>3, <1>5 DEF ProcRec
<1> HIDE DEF r
<1>7. pr'[p] = r
  BY <1>2, <1>3, <1>6, WakeSet DEF Inv
<1>8. Placed(p)'
  BY <1>4, <1>6, <1>7 DEF Placed
<1>9. Frames(p)' = {s[i] : i \in DOMAIN s}
  BY <1>6, <1>7 DEF Frames
<1>10. Frames(p)' = Frames(p) \ {m}
  BY <1>4, <1>9
<1>11. /\ LoadsOf(p) = Frames(p) /\ LoadsOf(p)' = Frames(p) \ {m}
       /\ UnloadsOf(p) = {} /\ UnloadsOf(p)' = {}
  BY <1>1, <1>6, <1>7, <1>10 DEF LoadsOf, UnloadsOf
<1> QED  BY <1>1, <1>2, <1>3, <1>6, <1>8, <1>11, FreedInv

(* The _unload of a load being undone returns, and the record is freed.    *)
LEMMA FailUnloadReturnsInv ==
  ASSUME Inv, NEW p \in Procs, FailUnloadReturns(p)
  PROVE  Kept
<1> DEFINE m == pr[p].cur
           r == [pr[p] EXCEPT !.pc = "fail", !.cur = 0]
<1>1. /\ pr[p] \in ProcRec /\ pr[p].pc = "failun" /\ m \in Ids /\ FreeMod(m)
      /\ UNCHANGED <<nextid, slot, panic, calls>> /\ m \notin Frames(p)
      /\ \A i, j \in DOMAIN pr[p].stk : pr[p].stk[i] = pr[p].stk[j] => i = j
  BY DEF FailUnloadReturns, Inv, TypeOK, ProcOK, Placed
<1>2. pr' = [Wake(m) EXCEPT ![p] = r]
  BY DEF FailUnloadReturns
<1>3. r \in ProcRec /\ r.pc = "fail" /\ r.stk = pr[p].stk
  BY <1>1 DEF ProcRec, OnCpu
<1> HIDE DEF r
<1>4. pr'[p] = r
  BY <1>1, <1>2, <1>3, WakeSet DEF Inv
<1>5. Placed(p)' /\ Frames(p)' = Frames(p)
  BY <1>1, <1>3, <1>4 DEF Placed, Frames
<1>6. /\ LoadsOf(p) = Frames(p) \cup {m} /\ LoadsOf(p)' = Frames(p)
      /\ UnloadsOf(p) = {} /\ UnloadsOf(p)' = {}
  BY <1>1, <1>3, <1>4, <1>5 DEF LoadsOf, UnloadsOf
<1>7. LoadsOf(p)' = LoadsOf(p) \ {m} /\ m \in LoadsOf(p)
  BY <1>1, <1>6
<1> HIDE DEF m
<1> QED  BY <1>1, <1>2, <1>3, <1>5, <1>6, <1>7, FreedInv

(* The file of a load being undone is closed, and the record is freed.     *)
LEMMA FailClosesInv ==
  ASSUME Inv, NEW p \in Procs, FailCloses(p)
  PROVE  Kept
<1> DEFINE m == pr[p].cur
           cr == Restored(p, m)
           r == [pr[p] EXCEPT !.pc = "fail", !.cur = 0, !.cred = cr]
<1>1. /\ pr[p] \in ProcRec /\ pr[p].pc = "failcl" /\ m \in Ids /\ FreeMod(m)
      /\ UNCHANGED <<nextid, slot, panic, calls>> /\ m \notin Frames(p)
      /\ \A i, j \in DOMAIN pr[p].stk : pr[p].stk[i] = pr[p].stk[j] => i = j
  BY DEF FailCloses, Inv, TypeOK, ProcOK, Placed
<1>2. pr' = [Wake(m) EXCEPT ![p] = r]
  BY DEF FailCloses
<1>8. cr \in {"user", "sys"}
  BY <1>1, RestoredType
<1> HIDE DEF cr
<1>3. r \in ProcRec /\ r.pc = "fail" /\ r.stk = pr[p].stk
  BY <1>1, <1>8 DEF ProcRec, OnCpu
<1> HIDE DEF r
<1>4. pr'[p] = r
  BY <1>1, <1>2, <1>3, WakeSet DEF Inv
<1>5. Placed(p)' /\ Frames(p)' = Frames(p)
  BY <1>1, <1>3, <1>4 DEF Placed, Frames
<1>6. /\ LoadsOf(p) = Frames(p) \cup {m} /\ LoadsOf(p)' = Frames(p)
      /\ UnloadsOf(p) = {} /\ UnloadsOf(p)' = {}
  BY <1>1, <1>3, <1>4, <1>5 DEF LoadsOf, UnloadsOf
<1>7. LoadsOf(p)' = LoadsOf(p) \ {m} /\ m \in LoadsOf(p)
  BY <1>1, <1>6
<1> HIDE DEF m
<1> QED  BY <1>1, <1>2, <1>3, <1>5, <1>6, <1>7, FreedInv

(* _unload succeeds and the record is freed.                               *)
LEMMA UnloadReturnsInv ==
  ASSUME Inv, NEW p \in Procs, UnloadReturns(p)
  PROVE  Kept
<1> DEFINE m == pr[p].cur
           pc == AfterUnload(p)
           r == [pr[p] EXCEPT !.pc = pc, !.cur = 0]
<1>1. /\ pr[p] \in ProcRec /\ pr[p].pc = "inunl" /\ m \in Ids /\ FreeMod(m)
      /\ UNCHANGED <<nextid, slot, panic, calls>> /\ pr[p].stk = <<>>
  BY DEF UnloadReturns, Inv, TypeOK, ProcOK, Placed
<1>2. pr' = [Wake(m) EXCEPT ![p] = r]
  BY DEF UnloadReturns
<1>3. pc \in {"sweep", "ret"}
  BY DEF AfterUnload
<1> HIDE DEF pc
<1>4. r \in ProcRec /\ r.pc = pc /\ r.stk = <<>>
  BY <1>1, <1>3 DEF ProcRec, OnCpu
<1> HIDE DEF r
<1>5. pr'[p] = r
  BY <1>1, <1>2, <1>4, WakeSet DEF Inv
<1>6. Placed(p)'
  BY <1>3, <1>4, <1>5 DEF Placed
<1>7. /\ LoadsOf(p) = {} /\ LoadsOf(p)' = {}
      /\ UnloadsOf(p) = {m} /\ UnloadsOf(p)' = {}
  BY <1>1, <1>3, <1>4, <1>5 DEF LoadsOf, UnloadsOf, Frames
<1> HIDE DEF m
<1> QED  BY <1>1, <1>2, <1>4, <1>6, <1>7, FreedInv

(* link_install refuses after _load succeeded: the frame is popped and     *)
(* _unload is called.                                                      *)
LEMMA LinkFailsInv ==
  ASSUME Inv, NEW p \in Procs, LinkFails(p)
  PROVE  Kept
<1> DEFINE m == Head(pr[p].stk)
           s == Tail(pr[p].stk)
           r == [pr[p] EXCEPT !.pc = "failun", !.err = "error", !.cur = m, !.stk = s]
<1>1. /\ pr[p] \in ProcRec /\ pr[p].stk \in Seq(Ids) /\ pr[p].stk # <<>>
      /\ pr[p].pc = "inload" /\ UNCHANGED <<list, nextid, mod, slot, panic, calls>>
      /\ \A i, j \in DOMAIN pr[p].stk : pr[p].stk[i] = pr[p].stk[j] => i = j
  BY DEF LinkFails, Inv, TypeOK, ProcRec, ProcOK, Placed
<1>2. pr' = [pr EXCEPT ![p] = r]
  BY Zenon DEF LinkFails
<1>3. /\ m \in Ids /\ m \in Frames(p) /\ s \in Seq(Ids)
  BY <1>1, TailFacts DEF Frames
<1>4. /\ {s[i] : i \in DOMAIN s} = Frames(p) \ {m}
      /\ \A i, j \in DOMAIN s : s[i] = s[j] => i = j
  BY <1>1, PopFrames DEF Frames
<1> HIDE DEF m, s
<1>5. r \in ProcRec /\ r.stk = s /\ r.pc = "failun" /\ r.cur = m
  BY <1>1, <1>3 DEF ProcRec, Asleep
<1> HIDE DEF r
<1>6. /\ pr' \in [Procs -> ProcRec] /\ pr'[p] = r
      /\ \A q \in Procs \ {p} : pr'[q] = pr[q]
  BY <1>2, <1>5, SetProc DEF Inv
<1>7. Frames(p)' = {s[i] : i \in DOMAIN s}
  BY <1>5, <1>6 DEF Frames
<1>8. Frames(p)' = Frames(p) \ {m}
  BY <1>4, <1>7
<1>9. /\ LoadsOf(p) = Frames(p) /\ LoadsOf(p)' = Frames(p)
      /\ UnloadsOf(p) = {} /\ UnloadsOf(p)' = {}
  BY <1>1, <1>3, <1>5, <1>6, <1>8 DEF LoadsOf, UnloadsOf
<1>10. Placed(p)'
  BY <1>3, <1>4, <1>5, <1>6, <1>8 DEF Placed
<1>11. \A q \in Procs \ {p} :
         LoadsOf(q)' = LoadsOf(q) /\ UnloadsOf(q)' = UnloadsOf(q) /\ Placed(q)'
  BY <1>6, OthersKeep, Zenon DEF WokenOrSame
<1>12. ProcOK'
  BY <1>10, <1>11 DEF ProcOK
<1>13. TypeOK'
  BY <1>1, <1>6 DEF Inv, TypeOK
<1>14. \A o \in list : mod'[o] = mod[o] /\ mod'[o].at >= mod[o].at
  BY <1>1 DEF Inv, TypeOK, ModRec
<1>15. RecOK' /\ OwnMarked' /\ SafeKept /\ (AllOwned => AllOwned')
  BY <1>1, <1>9, <1>11, <1>13, <1>14, KeepOwned
<1> QED  BY <1>12, <1>13, <1>15 DEF Inv, Kept

(* lf_fail pops the frame and closes its file.                             *)
LEMMA FailSleepsInv ==
  ASSUME Inv, NEW p \in Procs, FailSleeps(p)
  PROVE  Kept
<1> DEFINE m == Head(pr[p].stk)
           s == Tail(pr[p].stk)
           r == [pr[p] EXCEPT !.pc = "failcl", !.cur = m, !.stk = s]
<1>1. /\ pr[p] \in ProcRec /\ pr[p].stk \in Seq(Ids) /\ pr[p].stk # <<>>
      /\ pr[p].pc = "fail" /\ UNCHANGED <<list, nextid, mod, slot, panic, calls>>
      /\ \A i, j \in DOMAIN pr[p].stk : pr[p].stk[i] = pr[p].stk[j] => i = j
  BY DEF FailSleeps, Fails, Inv, TypeOK, ProcRec, ProcOK, Placed
<1>2. pr' = [pr EXCEPT ![p] = r]
  BY Zenon DEF FailSleeps
<1>3. /\ m \in Ids /\ m \in Frames(p) /\ s \in Seq(Ids)
  BY <1>1, TailFacts DEF Frames
<1>4. /\ {s[i] : i \in DOMAIN s} = Frames(p) \ {m}
      /\ \A i, j \in DOMAIN s : s[i] = s[j] => i = j
  BY <1>1, PopFrames DEF Frames
<1> HIDE DEF m, s
<1>5. r \in ProcRec /\ r.stk = s /\ r.pc = "failcl" /\ r.cur = m
  BY <1>1, <1>3 DEF ProcRec, Asleep
<1> HIDE DEF r
<1>6. /\ pr' \in [Procs -> ProcRec] /\ pr'[p] = r
      /\ \A q \in Procs \ {p} : pr'[q] = pr[q]
  BY <1>2, <1>5, SetProc DEF Inv
<1>7. Frames(p)' = {s[i] : i \in DOMAIN s}
  BY <1>5, <1>6 DEF Frames
<1>8. Frames(p)' = Frames(p) \ {m}
  BY <1>4, <1>7
<1>9. /\ LoadsOf(p) = Frames(p) /\ LoadsOf(p)' = Frames(p)
      /\ UnloadsOf(p) = {} /\ UnloadsOf(p)' = {}
  BY <1>1, <1>3, <1>5, <1>6, <1>8 DEF LoadsOf, UnloadsOf
<1>10. Placed(p)'
  BY <1>3, <1>4, <1>5, <1>6, <1>8 DEF Placed
<1>11. \A q \in Procs \ {p} :
         LoadsOf(q)' = LoadsOf(q) /\ UnloadsOf(q)' = UnloadsOf(q) /\ Placed(q)'
  BY <1>6, OthersKeep, Zenon DEF WokenOrSame
<1>12. ProcOK'
  BY <1>10, <1>11 DEF ProcOK
<1>13. TypeOK'
  BY <1>1, <1>6 DEF Inv, TypeOK
<1>14. \A o \in list : mod'[o] = mod[o] /\ mod'[o].at >= mod[o].at
  BY <1>1 DEF Inv, TypeOK, ModRec
<1>15. RecOK' /\ OwnMarked' /\ SafeKept /\ (AllOwned => AllOwned')
  BY <1>1, <1>9, <1>11, <1>13, <1>14, KeepOwned
<1> QED  BY <1>12, <1>13, <1>15 DEF Inv, Kept

(* A record settles: the process that owned it no longer does.             *)
LEMMA SettledInv ==
  ASSUME Inv, NEW p \in Procs, NEW m \in Ids, NEW r \in ProcRec,
         pr' = [Wake(m) EXCEPT ![p] = r], UNCHANGED <<list, nextid, calls>>,
         slot' \in [Keys -> Ids \cup {0}], panic' \in BOOLEAN,
         m \in LoadsOf(p) \/ m \in UnloadsOf(p), Placed(p)',
         LoadsOf(p)' = LoadsOf(p) \ {m}, UnloadsOf(p)' = UnloadsOf(p) \ {m},
         mod' \in [Ids -> ModRec],
         mod'[m].name = mod[m].name, mod'[m].trans = "no",
         \A o \in Ids \ {m} :
           /\ mod'[o].name = mod[o].name /\ mod'[o].trans = mod[o].trans
           /\ mod'[o].owner = mod[o].owner /\ mod'[o].at >= mod[o].at,
         SlotOK => SlotOK'
  PROVE  Kept
<1>1. /\ pr' \in [Procs -> ProcRec] /\ \A q \in Procs \ {p} : WokenOrSame(q)
  BY WakeSet DEF Inv
<1>2. nextid' >= nextid /\ list \subseteq Ids
  BY ConstAssumption DEF Inv, TypeOK
<1>3. TypeOK'
  BY <1>1 DEF Inv, TypeOK
<1>4. m \in list /\ mod[m].owner = p
  BY DEF Inv, OwnMarked
<1>5. \A q \in Procs \ {p} : m \notin LoadsOf(q) /\ m \notin UnloadsOf(q)
  BY <1>4, NotOthers
<1>6. m < nextid' /\ mod'[m].name \in Names
  BY <1>4 DEF Inv, RecOK
<1>7. \A o \in list \ {m} : o \in Ids \ {m}
  BY <1>2, Zenon
<1> QED  BY <1>1, <1>2, <1>3, <1>5, <1>6, <1>7, OneOwned

(* Installing entries keeps the switch in its type.                        *)
LEMMA LinkType ==
  ASSUME Inv, NEW m \in Ids
  PROVE  Link(m, slot) \in [Keys -> Ids \cup {0}]
  BY DEF Inv, TypeOK, Link

(* The entries a record fills become its own, and none other's.            *)
LEMMA LinkSafe ==
  ASSUME Inv, NEW m \in list, CanLink(m, slot), slot' = Link(m, slot),
         list' = list, mod'[m].name = mod[m].name, mod'[m].trans = "no",
         \A o \in list \ {m} :
           mod'[o].name = mod[o].name /\ mod'[o].trans = mod[o].trans,
         ~panic
  PROVE  SlotOK => SlotOK'
<1>1. \A k \in Keys : slot'[k] = IF k \in Links[mod[m].name] THEN m ELSE slot[k]
  BY DEF Link
<1>2. mod[m].name \in Names
  BY DEF Inv, RecOK
<1>3. \A o \in list : Links[mod[o].name] \subseteq Keys
  BY LinksKeys DEF Inv
<1>4. SlotLive /\ Allowed => SlotLive' /\ Allowed'
  BY <1>1, <1>2 DEF SlotLive, Allowed, CanLink
<1>5. ASSUME InService, NEW o \in list, mod'[o].trans = "no",
             NEW k \in Links[mod'[o].name]
      PROVE  slot'[k] = o
  <2>1. k \in Keys /\ mod'[o].name = mod[o].name
    BY <1>3, <1>5
  <2>2. CASE o = m
    BY <1>1, <2>1, <2>2
  <2>3. CASE o # m
    <3>1. mod[o].trans = "no" /\ slot[k] = o
      BY <1>5, <2>1, <2>3 DEF InService
    <3>2. o # 0 /\ (k \in Links[mod[m].name] => slot[k] \in {0, m})
      BY ConstAssumption DEF CanLink, Inv, TypeOK, Ids
    <3> QED  BY <1>1, <2>1, <2>3, <3>1, <3>2
  <2> QED  BY <2>2, <2>3
<1>6. InService => InService'
  BY <1>5 DEF InService
<1> QED  BY <1>4, <1>6 DEF SlotOK

(* _unload refused or was interrupted: relink and settle.                  *)
LEMMA ReconnectInv ==
  ASSUME Inv, NEW p \in Procs, NEW pc \in {"sweep", "ret"},
         NEW err \in {"error", "EINTR"}, pr[p].pc = "inunl", MayRun(p),
         Reconnect(p, pc, err)
  PROVE  Kept
<1> DEFINE m == pr[p].cur
           r == [pr[p] EXCEPT !.pc = pc, !.err = err]
           fl == mod[m].flags \ {"WANTED"}
           g == Remark(mod[m], fl, "no", NoProc)
<1>1. /\ pr[p] \in ProcRec /\ m \in Ids /\ pr[p].stk = <<>> /\ mod[m] \in ModRec
      /\ \A o \in Ids : mod[o].at \in Nat
  BY DEF Inv, TypeOK, ProcOK, Placed, ModRec
<1>2. /\ mod' = [mod EXCEPT ![m] = g] /\ pr' = [Wake(m) EXCEPT ![p] = r]
      /\ UNCHANGED <<list, nextid, calls>> /\ panic' = ~CanLink(m, slot)
      /\ slot' = IF CanLink(m, slot) THEN Link(m, slot) ELSE slot
  <2>1. g = [mod[m] EXCEPT !.trans = "no", !.owner = NoProc, !.flags = fl]
    BY <1>1 DEF Remark, ModRec
  <2>2. mod' = [mod EXCEPT ![m] = [mod[m] EXCEPT !.trans = "no", !.owner = NoProc, !.flags = fl]]
    BY Zenon DEF Reconnect
  <2>3. mod' = [mod EXCEPT ![m] = g]
    BY <2>1, <2>2, Zenon
  <2> QED  BY <2>3, Zenon DEF Reconnect
<1>3. panic' \in BOOLEAN
  BY <1>2 DEF CanLink
<1>4. slot' \in [Keys -> Ids \cup {0}]
  BY <1>1, <1>2, LinkType DEF Inv, TypeOK
<1>5. fl \in FlagSets /\ "no" \in TransSet /\ NoProc \in OwnerSet
  BY <1>1 DEF ModRec, FlagSets, TransSet, OwnerSet
<1> HIDE DEF fl
<1>6. g \in ModRec /\ g.name = mod[m].name /\ g.trans = "no" /\ g.at = mod[m].at
  BY <1>1, <1>5, Remarked
<1>7. r \in ProcRec /\ r.pc = pc /\ r.stk = <<>>
  BY <1>1 DEF ProcRec, OnCpu
<1> HIDE DEF g, r
<1>8. pr'[p] = r
  BY <1>1, <1>2, <1>7, WakeSet DEF Inv
<1>9. Placed(p)'
  BY <1>7, <1>8 DEF Placed
<1>10. /\ LoadsOf(p) = {} /\ LoadsOf(p)' = {}
       /\ UnloadsOf(p) = {m} /\ UnloadsOf(p)' = {}
  BY <1>1, <1>7, <1>8 DEF LoadsOf, UnloadsOf, Frames
<1> HIDE DEF m
<1>11. /\ mod' \in [Ids -> ModRec] /\ mod'[m] = g
       /\ \A o \in Ids \ {m} : mod'[o] = mod[o]
  BY <1>1, <1>2, <1>6, SetMod DEF Inv
<1>12. \A o \in Ids \ {m} : mod'[o].at >= mod[o].at
  BY <1>1, <1>11
<1>13. /\ m \in list /\ mod[m].trans = "unloading"
       /\ \A o \in list : o \in Ids
  BY <1>10 DEF Inv, OwnMarked, TypeOK
<1>15. ~panic
  BY DEF MayRun
<1>14. SlotOK => SlotOK'
  <2>1. CASE CanLink(m, slot)
    BY <1>2, <1>6, <1>11, <1>13, <1>15, <2>1, LinkSafe
  <2>2. CASE ~ CanLink(m, slot)
    <3>1. \A k \in Keys : slot'[k] = slot[k]
      BY <1>2, <2>2
    <3>2. \A o \in list : mod'[o].name = mod[o].name /\
                          (mod'[o].trans = mod[o].trans \/ o = m)
      BY <1>6, <1>11, <1>13
    <3>3. panic'
      BY <1>2, <2>2
    <3> QED  BY <1>2, <1>6, <1>11, <1>13, <3>1, <3>2, <3>3 DEF SlotOK, SlotLive, Allowed, InService
  <2> QED  BY <2>1, <2>2
<1> QED
  BY <1>1, <1>2, <1>3, <1>4, <1>6, <1>7, <1>9, <1>10, <1>11, <1>12, <1>14, SettledInv

(* A load settles, with its entries installed.                             *)
LEMMA LoadSettlesInv ==
  ASSUME Inv, NEW p \in Procs, LoadSettles(p)
  PROVE  Kept
<1> DEFINE m == Head(pr[p].stk)
           s == Tail(pr[p].stk)
           demand == IF s = <<>> /\ pr[p].op = "modload" THEN {"DEMAND"} ELSE {}
           fl == (mod[m].flags \cup demand) \ {"WANTED"}
           g == [mod[m] EXCEPT !.trans = "no", !.owner = NoProc, !.at = 0, !.flags = fl]
           f == [mod EXCEPT ![m] = g]
           r == IF s = <<>> THEN [pr[p] EXCEPT !.pc = "ret", !.stk = s, !.cur = m]
                            ELSE [pr[p] EXCEPT !.pc = "next", !.stk = s]
<1>1. /\ pr[p] \in ProcRec /\ pr[p].stk \in Seq(Ids) /\ pr[p].stk # <<>>
      /\ pr[p].pc = "inload" /\ UNCHANGED <<list, nextid, panic, calls>>
      /\ panic \in BOOLEAN /\ mod \in [Ids -> ModRec]
      /\ \A i, j \in DOMAIN pr[p].stk : pr[p].stk[i] = pr[p].stk[j] => i = j
  BY DEF LoadSettles, Inv, TypeOK, ProcRec, ProcOK, Placed
<1>2. /\ m \in Ids /\ m \in Frames(p) /\ s \in Seq(Ids)
  BY <1>1, TailFacts DEF Frames
<1>3. Wake(m)[p] = pr[p]
  BY <1>1, <1>2, WakeFacts, Zenon DEF Inv
<1>4. /\ mod' = Taken(f, s, m) /\ slot' = Link(m, slot)
      /\ pr' = Returned(p, Wake(m), s, m)
  BY Zenon DEF LoadSettles
<1>5. pr' = [Wake(m) EXCEPT ![p] = r]
  BY <1>3, <1>4 DEF Returned
<1>6. /\ {s[i] : i \in DOMAIN s} = Frames(p) \ {m}
      /\ \A i, j \in DOMAIN s : s[i] = s[j] => i = j
  BY <1>1, PopFrames DEF Frames
<1>7. mod[m] \in ModRec
  BY <1>1, <1>2
<1> HIDE DEF m, s
<1>8. fl \in FlagSets
  BY <1>7 DEF ModRec, FlagSets
<1> HIDE DEF fl
<1>9. g \in ModRec /\ g.name = mod[m].name /\ g.trans = "no"
  BY <1>7, <1>8 DEF ModRec, FlagSets
<1> HIDE DEF g
<1>10. /\ f \in [Ids -> ModRec] /\ f[m] = g
       /\ \A o \in Ids \ {m} : f[o] = mod[o]
  BY <1>1, <1>2, <1>9
<1> HIDE DEF f
<1>11. SameMarks(f, mod')
  BY <1>2, <1>4, <1>10, TakenFacts
<1>12. /\ mod' \in [Ids -> ModRec]
       /\ mod'[m].name = mod[m].name /\ mod'[m].trans = "no"
       /\ \A o \in Ids \ {m} :
            /\ mod'[o].name = mod[o].name /\ mod'[o].trans = mod[o].trans
            /\ mod'[o].owner = mod[o].owner /\ mod'[o].at >= mod[o].at
  BY <1>2, <1>9, <1>10, <1>11 DEF SameMarks
<1>13. r \in ProcRec /\ r.stk = s /\ r.pc = IF s = <<>> THEN "ret" ELSE "next"
  BY <1>1, <1>2 DEF ProcRec, OnCpu
<1> HIDE DEF r
<1>14. pr'[p] = r
  BY <1>2, <1>5, <1>13, WakeSet DEF Inv
<1>15. Frames(p)' = {s[i] : i \in DOMAIN s}
  BY <1>13, <1>14 DEF Frames
<1>16. Frames(p)' = Frames(p) \ {m}
  BY <1>6, <1>15
<1>17. /\ LoadsOf(p) = Frames(p) /\ LoadsOf(p)' = Frames(p) \ {m}
       /\ UnloadsOf(p) = {} /\ UnloadsOf(p)' = {}
  BY <1>1, <1>13, <1>14, <1>16 DEF LoadsOf, UnloadsOf
<1>18. Placed(p)'
  BY <1>6, <1>13, <1>14 DEF Placed
<1>19. slot' \in [Keys -> Ids \cup {0}]
  BY <1>2, <1>4, LinkType
<1>20. m \in list /\ \A o \in list : o \in Ids
  BY <1>2, <1>17 DEF Inv, OwnMarked, TypeOK
<1>21. CanLink(m, slot)
  BY DEF LoadSettles, m
<1>22. SlotOK => SlotOK'
  <2>1. ~panic
    BY DEF LoadSettles, MayRun
  <2> QED  BY <1>1, <1>4, <1>12, <1>20, <1>21, <2>1, LinkSafe
<1> QED
  BY <1>1, <1>2, <1>5, <1>12, <1>13, <1>17, <1>18, <1>19, <1>22, SettledInv

-----------------------------------------------------------------------------
(* The invariant.                                                          *)

LEMMA InitInv ==
  ASSUME Init
  PROVE  Inv /\ AllOwned /\ SlotOK /\ UniqueName
<1>1. NoRec \in ModRec /\ Idle \in ProcRec
  BY DEF NoRec, ModRec, Idle, ProcRec, Asleep, Ops
<1>2. TypeOK
  <2>1. 1 \in 1 .. MaxId + 1 /\ 0 \in 0 .. MaxCalls
    BY ConstAssumption
  <2>2. mod \in [Ids -> ModRec] /\ pr \in [Procs -> ProcRec]
    BY <1>1 DEF Init
  <2>3. slot \in [Keys -> Ids \cup {0}]
    BY DEF Init
  <2> QED  BY <2>1, <2>2, <2>3 DEF Init, TypeOK
<1>3. \A p \in Procs : pr[p].pc = "user" /\ pr[p].stk = <<>>
  BY DEF Init, Idle
<1>4. ProcOK
  BY <1>3 DEF ProcOK, Placed
<1>5. \A p \in Procs : LoadsOf(p) = {} /\ UnloadsOf(p) = {}
  BY <1>3 DEF LoadsOf, UnloadsOf, Frames
<1>6. SlotOK /\ UniqueName
  BY DEF Init, SlotOK, SlotLive, Allowed, InService, UniqueName
<1> QED  BY <1>2, <1>4, <1>5, <1>6 DEF Init, Inv, RecOK, OwnMarked, AllOwned

(* Every step of dlm_load and its failures keeps the invariant.            *)
LEMMA LoadStepInv ==
  ASSUME Inv, NEW p \in Procs, LoadStep(p)
  PROVE  Kept
<1>1. CASE \/ LoadRefused(p) \/ LoadAllocates(p)
           \/ ImageFails(p) \/ ModLoadFails(p) \/ Failed(p)
  BY <1>1, PlainLoadInv
<1>2. CASE LoadWaits(p)
  BY <1>2, LoadWaitsInv
<1>3. CASE LoadFound(p)
  BY <1>3, LoadFoundInv
<1>4. CASE LoadCreates(p) \/ Allocated(p)
  BY <1>4, CreatesInv
<1>5. CASE NextDep(p)
  BY <1>5, NextDepInv
<1>6. CASE ReadImage(p)
  BY <1>6, ReadImageInv
<1>7. CASE LoadSettles(p)
  BY <1>7, LoadSettlesInv
<1>8. CASE LinkFails(p)
  BY <1>8, LinkFailsInv
<1>9. CASE FailUnloadReturns(p)
  BY <1>9, FailUnloadReturnsInv
<1>10. CASE Fail(p)
  BY <1>10, FailInv
<1>11. CASE FailSleeps(p)
  BY <1>11, FailSleepsInv
<1>12. CASE FailCloses(p)
  BY <1>12, FailClosesInv
<1>13. CASE OpenReturns(p)
  BY <1>13, OpenReturnsInv
<1> QED
  BY <1>1, <1>2, <1>3, <1>4, <1>5, <1>6, <1>7, <1>8, <1>9, <1>10, <1>11, <1>12, <1>13
     DEF LoadStep

(* Every step of dlm_unload and dlm_moduload keeps the invariant.          *)
LEMMA UnloadStepInv ==
  ASSUME Inv, NEW p \in Procs, UnloadStep(p) \/ UnloadInterrupted(p)
  PROVE  Kept
<1>1. CASE Sweep(p)
  BY <1>1, SweepInv
<1>2. CASE UnloadReturns(p)
  BY <1>2, UnloadReturnsInv
<1>3. CASE UnloadFails(p)
  <2>1. AfterUnload(p) \in {"sweep", "ret"}
    BY DEF AfterUnload
  <2> QED  BY <1>3, <2>1, ReconnectInv DEF UnloadFails
<1>4. CASE UnloadInterrupted(p)
  BY <1>4, ReconnectInv DEF UnloadInterrupted
<1> QED  BY <1>1, <1>2, <1>3, <1>4 DEF UnloadStep

(* Every system call that enters keeps the invariant.                      *)
LEMMA CallStepInv ==
  ASSUME Inv, NEW p \in Procs, Call(p) \/ ModstatFill(p) \/ Return(p)
  PROVE  Kept
<1>1. ASSUME NEW n \in Names, Modload(p, n) \/ Loadname(p, n) PROVE Kept
  BY <1>1, CallInv
<1>2. ASSUME NEW m \in Ids, Moduload(p, m) PROVE Kept
  BY <1>2, ModuloadInv
<1>3. CASE \/ ModuloadAll(p) \/ (\E m \in Ids : Modstat(p, m))
           \/ ModstatFill(p) \/ Return(p)
  BY <1>3, PlainCallInv
<1> QED  BY <1>1, <1>2, <1>3 DEF Call

(* A stuttering step keeps the invariant.                                  *)
LEMMA StutterInv ==
  ASSUME Inv, UNCHANGED vars
  PROVE  Kept
<1>1. mod \in [Ids -> ModRec] /\ \A m \in Ids : mod[m].at \in Nat
  BY DEF Inv, TypeOK, ModRec
<1>2. SameMarks(mod, mod') /\ calls' \in 0 .. MaxCalls
  BY <1>1 DEF SameMarks, vars, Inv, TypeOK
<1> QED  BY <1>2, NoProcMoves DEF vars

(* The invariant is inductive.                                             *)
LEMMA NextInv ==
  ASSUME Inv, [Next]_vars
  PROVE  Inv' /\ SafeKept /\ ({"failun", "failcl"} \cap Intr = {} => Kept)
<1>1. ASSUME NEW p \in Procs, LoadInterrupted(p)
      PROVE  Inv' /\ SafeKept /\ ({"failun", "failcl"} \cap Intr = {} => Kept)
  BY <1>1, LoadInterruptedInv
<1>2. ASSUME NEW p \in Procs, ~ LoadInterrupted(p),
             Call(p) \/ Step(p) \/ Signal(p)
      PROVE  Kept
  BY <1>2, LoadStepInv, UnloadStepInv, CallStepInv DEF Step, Signal
<1>3. ASSUME NEW m \in Ids, ModHold(m) \/ ModRele(m) PROVE Kept
  BY <1>3, HoldInv
<1>4. CASE UNCHANGED vars
  BY <1>4, StutterInv DEF Kept
<1>5. CASE Next
  BY <1>1, <1>2, <1>3, <1>5 DEF Next, Kept
<1> QED  BY <1>4, <1>5

(* Every variable of the loader keeps its type, for any modules, processes *)
(* and interruptions: in particular a reference count that mod_rele and    *)
(* dlm_deprele lower never goes below zero.                                *)
THEOREM TypeCorrect == Spec => []TypeOK
<1>1. Init => Inv
  BY InitInv
<1>2. Inv /\ [Next]_vars => Inv'
  BY NextInv
<1>3. Inv => TypeOK
  BY DEF Inv
<1> QED  BY <1>1, <1>2, <1>3, PTL DEF Spec

(* What a process is loading or unloading is on the list, marked with its  *)
(* state and owned by the process: the loader never frees, settles or      *)
(* hands out a record that another process is still working on.            *)
THEOREM OwnMarkedAlways == Spec => []OwnMarked
<1>1. Init => Inv
  BY InitInv
<1>2. Inv /\ [Next]_vars => Inv'
  BY NextInv
<1>3. Inv => OwnMarked
  BY DEF Inv
<1> QED  BY <1>1, <1>2, <1>3, PTL DEF Spec

(* When no signal reaches the _unload call, or the close, of a load that   *)
(* is being undone, no failure and no other interruption leaves a marked   *)
(* record without a process that will settle or free it.  DlmCoreOrphan    *)
(* shows that the assumption is needed.                                    *)
THEOREM TransOwnedAlways ==
  ASSUME {"failun", "failcl"} \cap Intr = {}
  PROVE  Spec => []TransOwned
<1>1. Init => Inv /\ AllOwned
  BY InitInv
<1>2. Inv /\ AllOwned /\ [Next]_vars => Inv' /\ AllOwned'
  BY NextInv DEF Kept
<1>3. Inv /\ AllOwned => TransOwned
  BY DEF Inv, TransOwned
<1> QED  BY <1>1, <1>2, <1>3, PTL DEF Spec

(* A switch entry never points at a module that is gone, half set up or    *)
(* being unloaded, whatever fails or is interrupted and however often      *)
(* modules that share entries are loaded.                                  *)
THEOREM SlotLiveAlways == Spec => []SlotLive
<1>1. Init => Inv /\ SlotOK
  BY InitInv
<1>2. Inv /\ SlotOK /\ [Next]_vars => Inv' /\ SlotOK'
  BY NextInv DEF SafeKept
<1>3. Inv /\ SlotOK => SlotLive
  BY DEF SlotOK
<1> QED  BY <1>1, <1>2, <1>3, PTL DEF Spec

(* A module that is settled has every entry its modlinks fill, whatever    *)
(* loads of the same name, or of other names that want the entry, ran      *)
(* beside it, also where kmem_zalloc(KM_SLEEP) has set the look-up and the *)
(* insertion apart: of those that got past the look-up one settles, and a  *)
(* module whose _unload fails or is interrupted has its entries again, or  *)
(* the kernel panics.                                                      *)
THEOREM InServiceAlways == Spec => []InService
<1>1. Init => Inv /\ SlotOK
  BY InitInv
<1>2. Inv /\ SlotOK /\ [Next]_vars => Inv' /\ SlotOK'
  BY NextInv DEF SafeKept
<1>3. Inv /\ SlotOK => InService
  BY DEF SlotOK
<1> QED  BY <1>1, <1>2, <1>3, PTL DEF Spec

(* What the refinement below rests on where kmem_zalloc(KM_SLEEP) finds    *)
(* memory at once: two loads of one name never both run.                   *)
LEMMA UniqueNameAlways ==
  ASSUME ~AllocSleeps
  PROVE  Spec => []UniqueName
<1>1. Init => Inv /\ UniqueName
  BY InitInv
<1>2. Inv /\ UniqueName /\ [Next]_vars => Inv' /\ UniqueName'
  BY NextInv DEF SafeKept
<1> QED  BY <1>1, <1>2, PTL DEF Spec

(* With no two modules on one hook, an entry that a record gave up to      *)
(* unload is still free for it, unless another record of its name is there.*)
LEMMA UnloadingCanLink ==
  ASSUME Inv, SlotOK, UniqueName, NEW p \in Procs, pr[p].pc = "inunl",
         \A k \in Keys : \A x, y \in Owners[k] : x = y
  PROVE  CanLink(pr[p].cur, slot)
<1> DEFINE m == pr[p].cur
<1>1. m \in list /\ mod[m].trans = "unloading"
  BY DEF Inv, OwnMarked, UnloadsOf
<1>2. mod[m].name \in Names
  BY <1>1 DEF Inv, RecOK
<1> SUFFICES ASSUME NEW k \in Links[mod[m].name]
             PROVE  mod[m].name \in Owners[k] /\ slot[k] \in {0, m}
  BY DEF CanLink
<1>3. k \in Keys /\ mod[m].name \in Owners[k]
  BY <1>1, <1>2, ConstAssumption DEF SlotOK, Allowed
<1>4. slot[k] # 0 => slot[k] = m
  BY <1>1, <1>3 DEF SlotOK, SlotLive, UniqueName
<1> QED  BY <1>3, <1>4

LEMMA PanicTwin ==
  ASSUME Inv, SlotOK, TwinIfPanic, [Next]_vars,
         \A k \in Keys : \A x, y \in Owners[k] : x = y
  PROVE  TwinIfPanic'
<1>1. ASSUME NEW p \in Procs, NEW pc, NEW err, pr[p].pc = "inunl",
             Reconnect(p, pc, err)
      PROVE  TwinIfPanic'
  <2>1. pr[p].cur \in Ids /\ mod \in [Ids -> ModRec] /\ list \subseteq Ids
    BY <1>1 DEF Inv, ProcOK, Placed, TypeOK
  <2>2. /\ panic' = ~CanLink(pr[p].cur, slot) /\ list' = list
        /\ mod' = [mod EXCEPT ![pr[p].cur] =
                     [mod[pr[p].cur] EXCEPT !.trans = "no", !.owner = NoProc,
                                            !.flags = @ \ {"WANTED"}]]
    BY <1>1, Zenon DEF Reconnect
  <2>3. \A o \in list : mod'[o].name = mod[o].name
    BY <2>1, <2>2 DEF ModRec
  <2>4. UniqueName' => UniqueName
    BY <2>2, <2>3 DEF UniqueName
  <2>5. UniqueName => CanLink(pr[p].cur, slot)
    BY <1>1, UnloadingCanLink
  <2> QED  BY <2>2, <2>4, <2>5 DEF TwinIfPanic
<1>2. ASSUME ~panic, UNCHANGED panic PROVE TwinIfPanic'
  BY <1>2 DEF TwinIfPanic
<1>3. ASSUME NEW p \in Procs, Signal(p) PROVE TwinIfPanic'
  BY <1>1, <1>2, <1>3 DEF Signal, LoadInterrupted, UnloadInterrupted, MayRun
<1>4. ASSUME NEW p \in Procs, LoadStep(p) PROVE TwinIfPanic'
  <2>1. UNCHANGED panic
    BY <1>4, Zenon DEF LoadStep, LoadRefused, LoadWaits, LoadFound, LoadCreates,
       LoadAllocates, Allocated, NewRecord, OpenReturns, NextDep, ReadImage,
       ImageFails, LoadSettles, ModLoadFails, LinkFails, FailUnloadReturns,
       Fail, FailSleeps, FailCloses, Failed
  <2>2. ~panic
    BY <1>4, Zenon DEF LoadStep, LoadRefused, LoadWaits, LoadFound, LoadCreates,
       LoadAllocates, Allocated, AtEnter, OpenReturns, NextDep, ReadImage,
       ImageFails, LoadSettles, ModLoadFails, LinkFails, FailUnloadReturns,
       Fail, FailSleeps, FailCloses, Fails, Failed, MayRun
  <2> QED  BY <1>2, <2>1, <2>2
<1>5. ASSUME NEW p \in Procs, UnloadStep(p) PROVE TwinIfPanic'
  BY <1>1, <1>2, <1>5 DEF UnloadStep, Sweep, UnloadReturns, UnloadFails, MayRun
<1>6. ASSUME NEW p \in Procs, Call(p) \/ ModstatFill(p) \/ Return(p) PROVE TwinIfPanic'
  <2>1. UNCHANGED panic /\ ~panic
    BY <1>6, Zenon DEF Call, Modload, Loadname, Moduload, Modstat, ModuloadAll,
       ModstatFill, Return, EntersCall, MayRun
  <2> QED  BY <1>2, <2>1
<1>7. ASSUME NEW m \in Ids, ModHold(m) \/ ModRele(m) PROVE TwinIfPanic'
  BY <1>2, <1>7 DEF ModHold, ModRele
<1>8. CASE UNCHANGED vars
  BY <1>8 DEF vars, TwinIfPanic, UniqueName
<1> QED  BY <1>3, <1>4, <1>5, <1>6, <1>7, <1>8 DEF Next, Step

(* When no two modules may fill the same switch entry, reconnecting a      *)
(* module whose _unload failed panics only if a second record of its name  *)
(* is on the list, which takes two loads that both slept in kmem_zalloc    *)
(* after they had looked the name up.                                      *)
THEOREM PanicHasTwin ==
  ASSUME \A k \in Keys : \A x, y \in Owners[k] : x = y
  PROVE  Spec => [](~NoPanic => ~UniqueName)
<1> DEFINE I == Inv /\ SlotOK /\ TwinIfPanic
<1>1. Init => I
  BY InitInv DEF Init, TwinIfPanic
<1>2. I /\ [Next]_vars => I'
  BY NextInv, PanicTwin DEF SafeKept
<1>3. I => (~NoPanic => ~UniqueName)
  BY DEF TwinIfPanic, NoPanic
<1> HIDE DEF I
<1> QED  BY <1>1, <1>2, <1>3, PTL DEF Spec

-----------------------------------------------------------------------------
(* Membership in Uses, without the union.                                  *)
LEMMA InUses ==
  ASSUME NEW L, NEW f, NEW r
  PROVE  \A x : x \in Uses(L, f, r) <=>
           \E m \in L : \E i \in DOMAIN f[m].dep : f[m].dep[i] = r /\ x = <<m, i>>
<1> TAKE x
<1> DEFINE J(m) == {j \in DOMAIN f[m].dep : f[m].dep[j] = r}
           P(m) == {<<m, i>> : i \in J(m)}
<1>1. x \in Uses(L, f, r) <=> \E m \in L : x \in P(m)
  BY DEF Uses
<1>2. \A m : x \in P(m) <=> \E i \in J(m) : x = <<m, i>>
  OBVIOUS
<1>3. \A m, i : i \in J(m) <=> i \in DOMAIN f[m].dep /\ f[m].dep[i] = r
  OBVIOUS
<1> HIDE DEF J, P
<1> QED  BY <1>1, <1>2, <1>3

(* A record with a dependency on r makes r's count positive.               *)
LEMMA UsedCounted ==
  ASSUME NEW L, NEW f, Counted(L, f), NEW m \in L, NEW i \in DOMAIN f[m].dep,
         f[m].dep[i] \in L
  PROVE  f[f[m].dep[i]].deps # 0
<1> DEFINE r == f[m].dep[i]
<1>1. <<m, i>> \in Uses(L, f, r)
  BY InUses, Zenon
<1>2. IsFiniteSet(Uses(L, f, r)) /\ f[r].deps = Cardinality(Uses(L, f, r))
  BY DEF Counted
<1> HIDE DEF r
<1>3. f[r].deps # 0
  BY <1>1, <1>2, FS_EmptySet
<1> QED  BY <1>3 DEF r

(* Steps that change no dependency and no count.                           *)
LEMMA SameCounts ==
  ASSUME NEW L \in SUBSET Ids, NEW f, NEW g, Counts(L, f),
         \A m \in Ids : g[m].dep = f[m].dep /\ g[m].deps = f[m].deps,
         Quiet(L, g), Cand(L, g)
  PROVE  Counts(L, g)
<1>1. \A r : Uses(L, g, r) = Uses(L, f, r)
  <2> TAKE r
  <2>1. \A m \in L : g[m].dep = f[m].dep
    OBVIOUS
  <2>2. \A x : x \in Uses(L, g, r) <=> x \in Uses(L, f, r)
    BY <2>1, InUses
  <2> QED  BY <2>2
<1>2. Counted(L, g)
  BY <1>1 DEF Counts, Counted
<1>3. Alive(L, g)
  <2> SUFFICES ASSUME NEW m \in L, NEW i \in DOMAIN g[m].dep
               PROVE  g[m].dep[i] \in L /\ g[g[m].dep[i]].trans = "no"
    BY DEF Alive
  <2>1. i \in DOMAIN f[m].dep /\ g[m].dep[i] = f[m].dep[i]
    OBVIOUS
  <2>2. f[m].dep[i] \in L
    BY <2>1 DEF Counts, Alive
  <2>3. g[f[m].dep[i]].deps # 0
    BY <2>1, <2>2, UsedCounted DEF Counts
  <2> QED  BY <2>1, <2>2, <2>3 DEF Quiet
<1>4. Off(L, g)
  BY DEF Counts, Off
<1> QED  BY <1>2, <1>3, <1>4 DEF Counts

LEMMA DepAddFields ==
  ASSUME NEW f \in [Ids -> ModRec], NEW parent \in Ids, NEW m \in Ids, parent # m
  PROVE  Depended(f, parent, m, DepAdd(f, parent, m))
<1> DEFINE ndeps == f[m].deps + 1
           nflags == f[m].flags \ {"CAND"}
           dm == [f[m] EXCEPT !.deps = ndeps, !.flags = nflags]
           g == [f EXCEPT ![m] = dm]
           ndep == Append(g[parent].dep, m)
           pm == [g[parent] EXCEPT !.dep = ndep]
           h == [g EXCEPT ![parent] = pm]
<1>1. f[m] \in ModRec /\ f[parent] \in ModRec
  OBVIOUS
<1>2. DepAdd(f, parent, m) = h
  BY Zenon DEF DepAdd, CandDel
<1> HIDE DEF ndeps, nflags
<1>3. /\ dm.name = f[m].name /\ dm.trans = f[m].trans /\ dm.refs = f[m].refs
      /\ dm.at = f[m].at /\ dm.saved = f[m].saved /\ dm.dep = f[m].dep
      /\ dm.deps = ndeps /\ dm.flags = nflags
  BY <1>1 DEF ModRec
<1> HIDE DEF dm
<1>4. g[m] = dm /\ \A o \in Ids \ {m} : g[o] = f[o]
  OBVIOUS
<1>5. DOMAIN g = Ids /\ g[parent] = f[parent]
  OBVIOUS
<1> HIDE DEF g, ndep
<1>6. /\ pm.name = f[parent].name /\ pm.trans = f[parent].trans
      /\ pm.refs = f[parent].refs /\ pm.at = f[parent].at
      /\ pm.saved = f[parent].saved /\ pm.dep = ndep
      /\ pm.deps = f[parent].deps /\ pm.flags = f[parent].flags
  BY <1>1, <1>5 DEF ModRec
<1> HIDE DEF pm
<1>7. h[parent] = pm /\ h[m] = dm /\ \A o \in Ids \ {m, parent} : h[o] = f[o]
  BY <1>4, <1>5
<1> HIDE DEF h
<1>8. ndep = Append(f[parent].dep, m)
  BY <1>5 DEF ndep
<1> QED  BY <1>2, <1>3, <1>6, <1>7, <1>8 DEF ndeps, nflags, Depended

(* A loading record takes a settled one as a dependency.                   *)
LEMMA AddCounts ==
  ASSUME NEW L \in SUBSET Ids, NEW f \in [Ids -> ModRec], Counts(L, f),
         NEW parent \in L, f[parent].trans # "no",
         NEW m \in L, f[m].trans = "no"
  PROVE  Counts(L, DepAdd(f, parent, m))
<1> DEFINE g == DepAdd(f, parent, m)
           n == Len(f[parent].dep)
<1>0. parent \in Ids /\ m \in Ids /\ parent # m
  OBVIOUS
<1>1. \A o \in Ids :
        /\ g[o].refs = f[o].refs /\ g[o].trans = f[o].trans
        /\ g[o].deps = IF o = m THEN f[m].deps + 1 ELSE f[o].deps
        /\ g[o].dep = IF o = parent THEN Append(f[parent].dep, m) ELSE f[o].dep
        /\ g[o].flags = IF o = m THEN f[m].flags \ {"CAND"} ELSE f[o].flags
  <2>1. Depended(f, parent, m, g)
    BY <1>0, DepAddFields
  <2> HIDE DEF g
  <2> QED  BY <2>1 DEF Depended
<1>2. f[parent].dep \in Seq(Ids)
  BY DEF ModRec
<1>3. /\ n \in Nat /\ DOMAIN f[parent].dep = 1 .. n
      /\ DOMAIN Append(f[parent].dep, m) = 1 .. n + 1
      /\ Append(f[parent].dep, m)[n + 1] = m
      /\ \A i \in 1 .. n : Append(f[parent].dep, m)[i] = f[parent].dep[i]
  BY <1>2
<1> HIDE DEF g, n
<1>4. g[parent].dep = Append(f[parent].dep, m)
  BY <1>1
<1>5. /\ DOMAIN g[parent].dep = 1 .. n + 1 /\ g[parent].dep[n + 1] = m
      /\ \A i \in 1 .. n : g[parent].dep[i] = f[parent].dep[i]
  BY <1>3, <1>4
<1>6. \A o \in L \ {parent} : g[o].dep = f[o].dep
  BY <1>1
<1>7. \A r, x : x \in Uses(L, g, r) <=>
             x \in Uses(L, f, r) \/ (r = m /\ x = <<parent, n + 1>>)
  <2> TAKE r, x
  <2>1. (x \in Uses(L, g, r)) <=> \E o \in L : \E i \in DOMAIN g[o].dep : g[o].dep[i] = r /\ x = <<o, i>>
    BY InUses
  <2>2. (x \in Uses(L, f, r)) <=> \E o \in L : \E i \in DOMAIN f[o].dep : f[o].dep[i] = r /\ x = <<o, i>>
    BY InUses
  <2>3. ASSUME NEW o \in L
        PROVE  (\E i \in DOMAIN g[o].dep : g[o].dep[i] = r /\ x = <<o, i>>) <=>
                 (\/ \E i \in DOMAIN f[o].dep : f[o].dep[i] = r /\ x = <<o, i>>
                  \/ o = parent /\ r = m /\ x = <<parent, n + 1>>)
    <3>1. CASE o = parent
      <4>1. (1 .. n + 1) = (1 .. n) \cup {n + 1}
        BY <1>3
      <4> QED  BY <1>3, <1>5, <3>1, <4>1
    <3>2. CASE o # parent
      BY <1>6, <3>2
    <3> QED  BY <3>1, <3>2
  <2> QED  BY <2>1, <2>2, <2>3
<1>8. <<parent, n + 1>> \notin Uses(L, f, m)
  <2> SUFFICES ASSUME <<parent, n + 1>> \in Uses(L, f, m)
               PROVE  FALSE
    OBVIOUS
  <2>1. PICK o \in L : \E i \in DOMAIN f[o].dep : f[o].dep[i] = m /\ <<parent, n + 1>> = <<o, i>>
    BY InUses
  <2>2. n + 1 \in 1 .. n
    BY <1>3, <2>1
  <2> QED  BY <1>3, <2>2
<1>9. Counted(L, g)
  <2> SUFFICES ASSUME NEW r \in L
               PROVE  IsFiniteSet(Uses(L, g, r)) /\ g[r].deps = Cardinality(Uses(L, g, r))
    BY DEF Counted
  <2>1. IsFiniteSet(Uses(L, f, r)) /\ f[r].deps = Cardinality(Uses(L, f, r))
    BY DEF Counts, Counted
  <2>2. CASE r = m
    <3> DEFINE T == Uses(L, f, r) \cup {<<parent, n + 1>>}
    <3>0. \A x : x \in Uses(L, g, r) <=> x \in T
      BY <1>7, <2>2, Zenon
    <3>1. Uses(L, g, r) = T
      BY <3>0, Zenon
    <3>2. g[r].deps = f[r].deps + 1
      BY <1>1, <2>2
    <3>3. <<parent, n + 1>> \notin Uses(L, f, r)
      BY <1>8, <2>2
    <3>4. IsFiniteSet(T) /\ Cardinality(T) = Cardinality(Uses(L, f, r)) + 1
      BY <2>1, <3>3, FS_AddElement
    <3> QED  BY <2>1, <3>1, <3>2, <3>4
  <2>3. CASE r # m
    <3>0. \A x : x \in Uses(L, g, r) <=> x \in Uses(L, f, r)
      BY <1>7, <2>3, Zenon
    <3>1. Uses(L, g, r) = Uses(L, f, r)
      BY <3>0, Zenon
    <3>2. g[r].deps = f[r].deps
      BY <1>1, <2>3
    <3> QED  BY <2>1, <3>1, <3>2
  <2> QED  BY <2>2, <2>3
<1>10. Alive(L, g)
  <2> SUFFICES ASSUME NEW o \in L, NEW i \in DOMAIN g[o].dep
               PROVE  g[o].dep[i] \in L /\ g[g[o].dep[i]].trans = "no"
    BY DEF Alive
  <2>1. \A r \in L : f[r].trans = "no" => g[r].trans = "no"
    BY <1>1
  <2>2. CASE o = parent /\ i = n + 1
    BY <1>5, <2>1, <2>2
  <2>3. CASE ~(o = parent /\ i = n + 1)
    <3>1. i \in DOMAIN f[o].dep /\ g[o].dep[i] = f[o].dep[i]
      BY <1>3, <1>5, <1>6, <2>3
    <3>2. f[o].dep[i] \in L /\ f[f[o].dep[i]].trans = "no"
      BY <3>1 DEF Counts, Alive
    <3> QED  BY <2>1, <3>1, <3>2
  <2> QED  BY <2>2, <2>3
<1>11. Quiet(L, g)
  BY <1>1 DEF Counts, Quiet
<1>12. Cand(L, g)
  BY <1>1 DEF Counts, Cand
<1>13. Off(L, g)
  BY <1>1 DEF Counts, Off
<1> QED  BY <1>9, <1>10, <1>11, <1>12, <1>13 DEF Counts, g

(* A new record joins the list with nothing held, nothing counted.         *)
LEMMA NewCounts ==
  ASSUME NEW L \in SUBSET Ids, NEW f, NEW g, Counts(L, f),
         NEW n \in Ids \ L, \A o \in Ids \ {n} : g[o] = f[o],
         g[n].dep = <<>>, g[n].deps = 0, g[n].refs = 0, "CAND" \notin g[n].flags
  PROVE  Counts(L \cup {n}, g)
<1> DEFINE M == L \cup {n}
<1>1. \A r, x : x \in Uses(M, g, r) <=> x \in Uses(L, f, r)
  <2> TAKE r, x
  <2>1. (x \in Uses(M, g, r)) <=> \E o \in M : \E i \in DOMAIN g[o].dep : g[o].dep[i] = r /\ x = <<o, i>>
    BY InUses
  <2>2. (x \in Uses(L, f, r)) <=> \E o \in L : \E i \in DOMAIN f[o].dep : f[o].dep[i] = r /\ x = <<o, i>>
    BY InUses
  <2>3. DOMAIN g[n].dep = {}
    OBVIOUS
  <2>4. \A o \in L : g[o].dep = f[o].dep
    OBVIOUS
  <2> QED  BY <2>1, <2>2, <2>3, <2>4
<1>2. \A r : Uses(M, g, r) = Uses(L, f, r)
  <2> TAKE r
  <2>1. \A x : x \in Uses(M, g, r) <=> x \in Uses(L, f, r)
    BY <1>1, Zenon
  <2> QED  BY <2>1, Zenon
<1>3. \A x : x \notin Uses(L, f, n)
  <2> TAKE x
  <2>1. (x \in Uses(L, f, n)) <=> \E o \in L : \E i \in DOMAIN f[o].dep : f[o].dep[i] = n /\ x = <<o, i>>
    BY InUses
  <2>2. \A o \in L : \A i \in DOMAIN f[o].dep : f[o].dep[i] # n
    BY DEF Counts, Alive
  <2> QED  BY <2>1, <2>2, Zenon
<1>4. IsFiniteSet({}) /\ Cardinality({}) = 0
  BY FS_EmptySet
<1>5. Uses(L, f, n) = {}
  BY <1>3
<1>6. Counted(M, g)
  <2> SUFFICES ASSUME NEW r \in M
               PROVE  IsFiniteSet(Uses(L, f, r)) /\ g[r].deps = Cardinality(Uses(L, f, r))
    BY <1>2 DEF Counted
  <2>1. CASE r = n
    BY <1>4, <1>5, <2>1
  <2>2. CASE r # n
    BY <2>2 DEF Counts, Counted
  <2> QED  BY <2>1, <2>2
<1>7. Alive(M, g)
  <2> SUFFICES ASSUME NEW o \in M, NEW i \in DOMAIN g[o].dep
               PROVE  g[o].dep[i] \in M /\ g[g[o].dep[i]].trans = "no"
    BY DEF Alive
  <2>1. o # n
    OBVIOUS
  <2>2. o \in L /\ g[o] = f[o]
    BY <2>1
  <2>3. f[o].dep[i] \in L /\ f[f[o].dep[i]].trans = "no"
    BY <2>2 DEF Counts, Alive
  <2> QED  BY <2>2, <2>3
<1>8. Quiet(M, g) /\ Cand(M, g) /\ Off(M, g)
  BY DEF Counts, Quiet, Cand, Off
<1> QED  BY <1>6, <1>7, <1>8 DEF Counts

LEMMA FreeFields ==
  ASSUME TypeOK, NEW m \in Ids, FreeMod(m)
  PROVE  Freed(m, mod')
<1>1. \A r \in Ids : mod[r] \in ModRec
  BY DEF TypeOK
<1>2. ASSUME NEW r \in Ids, NEW n
      PROVE  /\ DepRele(mod[r], n).name = mod[r].name
             /\ DepRele(mod[r], n).trans = mod[r].trans
             /\ DepRele(mod[r], n).refs = mod[r].refs
             /\ DepRele(mod[r], n).at = mod[r].at
             /\ DepRele(mod[r], n).saved = mod[r].saved
             /\ DepRele(mod[r], n).dep = mod[r].dep
             /\ DepRele(mod[r], n).deps = IF mod[r].deps > n THEN mod[r].deps - n ELSE 0
             /\ "CAND" \in DepRele(mod[r], n).flags =>
                  "CAND" \in mod[r].flags \/ (mod[r].deps \in 1 .. n /\ mod[r].refs = 0)
  <2> DEFINE rest == IF mod[r].deps > n THEN mod[r].deps - n ELSE 0
             fl == IF mod[r].deps \in 1 .. n /\ mod[r].refs = 0
                   THEN mod[r].flags \cup {"CAND"} ELSE mod[r].flags
  <2>1. DepRele(mod[r], n) = [mod[r] EXCEPT !.deps = rest, !.flags = fl]
    BY Zenon DEF DepRele, CandAdd
  <2>2. rest = IF mod[r].deps > n THEN mod[r].deps - n ELSE 0
    OBVIOUS
  <2>3. "CAND" \in fl => "CAND" \in mod[r].flags \/ (mod[r].deps \in 1 .. n /\ mod[r].refs = 0)
    BY Zenon
  <2> HIDE DEF rest, fl
  <2> QED  BY <1>1, <2>1, <2>2, <2>3 DEF ModRec
<1>3. mod' = [r \in Ids |-> IF r = m THEN NoRec
                           ELSE DepRele(mod[r], TimesIn(m, r))]
  BY DEF FreeMod
<1>4. mod'[m] = NoRec /\ \A r \in Ids \ {m} : mod'[r] = DepRele(mod[r], TimesIn(m, r))
  BY <1>3
<1> HIDE DEF DepRele
<1>5. ASSUME NEW r \in Ids \ {m}
      PROVE  /\ mod'[r].refs = mod[r].refs /\ mod'[r].trans = mod[r].trans
             /\ mod'[r].name = mod[r].name /\ mod'[r].at = mod[r].at
             /\ mod'[r].saved = mod[r].saved /\ mod'[r].dep = mod[r].dep
             /\ mod'[r].deps = IF mod[r].deps > TimesIn(m, r) THEN mod[r].deps - TimesIn(m, r) ELSE 0
             /\ "CAND" \in mod'[r].flags =>
                  \/ "CAND" \in mod[r].flags
                  \/ mod[r].deps \in 1 .. TimesIn(m, r) /\ mod[r].refs = 0
  <2>1. r \in Ids /\ mod'[r] = DepRele(mod[r], TimesIn(m, r))
    BY <1>4
  <2>2. PICK n : n = TimesIn(m, r)
    OBVIOUS
  <2>3. mod'[r] = DepRele(mod[r], n)
    BY <2>1, <2>2
  <2> QED  BY <1>2, <2>1, <2>2, <2>3
<1> QED  BY <1>4, <1>5, Zenon DEF Freed

(* The entries of one record that point to another are as many as their    *)
(* positions.                                                              *)
LEMMA PairsCount ==
  ASSUME NEW m, NEW J, IsFiniteSet(J)
  PROVE  /\ IsFiniteSet({<<m, i>> : i \in J})
         /\ Cardinality({<<m, i>> : i \in J}) = Cardinality(J)
<1> DEFINE T == {<<m, i>> : i \in J}
           F == [i \in J |-> <<m, i>>]
<1>1. F \in [J -> T]
  OBVIOUS
<1>2. \A i, j \in J : F[i] = F[j] => i = j
  OBVIOUS
<1>3. \A t \in T : \E i \in J : F[i] = t
  OBVIOUS
<1>4. DOMAIN F = J
  OBVIOUS
<1> HIDE DEF F, T
<1>5. F \in Bijection(J, T)
  BY <1>1, <1>2, <1>3, <1>4 DEF Bijection, Injection, IsInjective, Surjection
<1>6. ExistsBijection(J, T)
  BY <1>5 DEF ExistsBijection
<1>7. IsFiniteSet(T) /\ Cardinality(T) = Cardinality(J)
  BY <1>6, FS_Bijection
<1> QED  BY <1>7 DEF T

(* A record in a transition leaves the list, and what it used is released. *)
LEMMA FreeCounts ==
  ASSUME TypeOK, Counts(list, mod), NEW m \in list, mod[m].trans # "no", FreeMod(m)
  PROVE  Counts(list', mod')
<1> DEFINE J(r) == {i \in DOMAIN mod[m].dep : mod[m].dep[i] = r}
           T(r) == {<<m, i>> : i \in J(r)}
<1>1. /\ Freed(m, mod') /\ list' = list \ {m} /\ list \subseteq Ids /\ m \in Ids
      /\ list' \subseteq Ids
  BY FreeFields DEF FreeMod, TypeOK
<1>2. \A o \in list : \A i \in DOMAIN mod[o].dep : mod[o].dep[i] # m
  BY DEF Counts, Alive
<1>3. \A r : \A x : x \in T(r) <=> \E i \in DOMAIN mod[m].dep : mod[m].dep[i] = r /\ x = <<m, i>>
  <2> TAKE r, x
  <2>1. \A i : i \in J(r) <=> i \in DOMAIN mod[m].dep /\ mod[m].dep[i] = r
    OBVIOUS
  <2> HIDE DEF J
  <2>2. x \in T(r) <=> \E i \in J(r) : x = <<m, i>>
    OBVIOUS
  <2> QED  BY <2>1, <2>2
<1>4. \A r \in Ids : /\ IsFiniteSet(T(r)) /\ Cardinality(T(r)) = TimesIn(m, r)
                     /\ TimesIn(m, r) \in Nat
  <2> TAKE r \in Ids
  <2>1. mod[m].dep \in Seq(Ids)
    BY <1>1 DEF TypeOK, ModRec
  <2>2. IsFiniteSet(DOMAIN mod[m].dep)
    BY <2>1, FS_Interval, LenProperties
  <2>3. IsFiniteSet(J(r))
    BY <2>2, FS_Subset
  <2>4. TimesIn(m, r) = Cardinality(J(r))
    BY Zenon DEF TimesIn
  <2> HIDE DEF J
  <2>5. IsFiniteSet(T(r)) /\ Cardinality(T(r)) = Cardinality(J(r))
    BY <2>3, PairsCount
  <2> QED  BY <1>1, <2>4, <2>5, TimesInType
<1> HIDE DEF J, T
<1>5. \A r, x : x \in Uses(list', mod', r) <=> x \in Uses(list, mod, r) /\ x \notin T(r)
  <2> TAKE r, x
  <2>1. (x \in Uses(list', mod', r)) <=>
          \E o \in list' : \E i \in DOMAIN mod'[o].dep : mod'[o].dep[i] = r /\ x = <<o, i>>
    BY InUses
  <2>2. (x \in Uses(list, mod, r)) <=>
          \E o \in list : \E i \in DOMAIN mod[o].dep : mod[o].dep[i] = r /\ x = <<o, i>>
    BY InUses
  <2>3. \A o \in list' : o \in list /\ o # m /\ mod'[o].dep = mod[o].dep
    BY <1>1 DEF Freed
  <2>4. \A o \in list : o # m => o \in list'
    BY <1>1
  <2> QED  BY <1>3, <2>1, <2>2, <2>3, <2>4
<1>6. \A r : \A x : x \in T(r) => x \in Uses(list, mod, r)
  <2> TAKE r, x
  <2>1. (x \in Uses(list, mod, r)) <=>
          \E o \in list : \E i \in DOMAIN mod[o].dep : mod[o].dep[i] = r /\ x = <<o, i>>
    BY InUses
  <2> QED  BY <1>3, <2>1
<1>7. ASSUME NEW r \in list'
      PROVE  /\ IsFiniteSet(Uses(list', mod', r))
             /\ mod'[r].deps = Cardinality(Uses(list', mod', r))
  <2> DEFINE U == Uses(list, mod, r)
  <2>1. IsFiniteSet(U) /\ mod[r].deps = Cardinality(U) /\ r \in Ids /\ r # m
    BY <1>1 DEF Counts, Counted
  <2>2. \A x : x \in Uses(list', mod', r) <=> x \in U \ T(r)
    BY <1>5
  <2>3. Uses(list', mod', r) = U \ T(r)
    BY <2>2, Zenon
  <2>4. U \cap T(r) = T(r)
    <3>1. \A x : x \in U \cap T(r) <=> x \in T(r)
      BY <1>6
    <3> QED  BY <3>1, Zenon
  <2> HIDE DEF U
  <2>5. /\ IsFiniteSet(U \ T(r))
        /\ Cardinality(U \ T(r)) = Cardinality(U) - Cardinality(U \cap T(r))
    BY <2>1, FS_Difference
  <2>6. Cardinality(U \ T(r)) \in Nat /\ Cardinality(U) \in Nat
    BY <2>1, <2>5, FS_CardinalityType
  <2>7. mod'[r].deps = IF mod[r].deps > TimesIn(m, r) THEN mod[r].deps - TimesIn(m, r) ELSE 0
    BY <1>1, <2>1 DEF Freed
  <2> QED  BY <1>4, <2>1, <2>3, <2>4, <2>5, <2>6, <2>7
<1>8. Counted(list', mod')
  BY <1>7 DEF Counted
<1>9. Alive(list', mod')
  <2> SUFFICES ASSUME NEW o \in list', NEW i \in DOMAIN mod'[o].dep
               PROVE  mod'[o].dep[i] \in list' /\ mod'[mod'[o].dep[i]].trans = "no"
    BY DEF Alive
  <2>1. o \in list /\ mod'[o].dep = mod[o].dep
    BY <1>1 DEF Freed
  <2>2. mod[o].dep[i] \in list /\ mod[mod[o].dep[i]].trans = "no" /\ mod[o].dep[i] # m
    BY <1>2, <2>1 DEF Counts, Alive
  <2> QED  BY <1>1, <2>1, <2>2 DEF Freed
<1>10. \A r \in Ids : mod[r].deps \in Nat
  BY DEF TypeOK, ModRec
<1>11. Quiet(list', mod')
  <2> SUFFICES ASSUME NEW r \in list', mod'[r].trans # "no"
               PROVE  mod'[r].refs = 0 /\ mod'[r].deps = 0
    BY DEF Quiet
  <2>1. r \in Ids \ {m} /\ r \in list
    BY <1>1
  <2>2. mod[r].refs = 0 /\ mod[r].deps = 0
    BY <1>1, <2>1 DEF Counts, Quiet, Freed
  <2> QED  BY <1>1, <1>4, <2>1, <2>2 DEF Freed
<1>12. Cand(list', mod')
  <2> SUFFICES ASSUME NEW r \in Ids, "CAND" \in mod'[r].flags
               PROVE  r \in list' /\ mod'[r].refs = 0 /\ mod'[r].deps = 0
    BY DEF Cand
  <2>1. r # m
    BY <1>1 DEF Freed, NoRec
  <2>2. /\ mod'[r].refs = mod[r].refs
        /\ mod'[r].deps = IF mod[r].deps > TimesIn(m, r) THEN mod[r].deps - TimesIn(m, r) ELSE 0
        /\ \/ "CAND" \in mod[r].flags
           \/ mod[r].deps \in 1 .. TimesIn(m, r) /\ mod[r].refs = 0
    BY <1>1, <2>1 DEF Freed
  <2>3. CASE "CAND" \in mod[r].flags
    <3>1. r \in list /\ mod[r].refs = 0 /\ mod[r].deps = 0
      BY <2>3 DEF Counts, Cand
    <3> QED  BY <1>1, <1>4, <2>1, <2>2, <3>1
  <2>4. CASE mod[r].deps \in 1 .. TimesIn(m, r) /\ mod[r].refs = 0
    <3>1. r \in list
      BY <1>4, <2>4 DEF Counts, Off
    <3> QED  BY <1>1, <1>4, <1>10, <2>1, <2>2, <2>4, <3>1
  <2> QED  BY <2>2, <2>3, <2>4
<1>13. Off(list', mod')
  <2> SUFFICES ASSUME NEW r \in Ids, r \notin list'
               PROVE  mod'[r].deps = 0
    BY DEF Off
  <2>1. CASE r = m
    BY <1>1, <2>1 DEF Freed, NoRec
  <2>2. CASE r # m
    <3>1. mod[r].deps = 0
      BY <1>1, <2>2 DEF Counts, Off
    <3> QED  BY <1>1, <1>4, <2>2, <3>1 DEF Freed
  <2> QED  BY <2>1, <2>2
<1> QED  BY <1>8, <1>9, <1>11, <1>12, <1>13 DEF Counts

-----------------------------------------------------------------------------
(* The record of one process is replaced, and no record of a module.       *)
LEMMA MoveQuiet ==
  ASSUME TypeOK, NEW p \in Procs, NEW r \in ProcRec, pr' = [pr EXCEPT ![p] = r],
         list' = list, Same(mod, mod'), r.stk = pr[p].stk, r.cred = pr[p].cred,
         pr[p].pc # "failcl", r.pc # "failcl",
         pr[p].stk # <<>> =>
           /\ r.op = pr[p].op
           /\ \/ r.pc = "fail"
              \/ pr[p].pc \in Asks /\ r.pc \in Asks /\ r.want = pr[p].want
              \/ pr[p].pc = "open" /\ r.pc = "next"
  PROVE  Quietly(p)
<1>1. pr'[p] = r /\ \A q \in Procs \ {p} : pr'[q] = pr[q]
  BY SetProc
<1> QED  BY <1>1 DEF Quietly, NotShutting, OnlyMoves, WokenOrSame

(* A record whose file opens or does not keeps all else.                   *)
LEMMA Reopened ==
  ASSUME NEW f \in [Ids -> ModRec], NEW m \in Ids, NEW b \in BOOLEAN
  PROVE  Same(f, [f EXCEPT ![m] = [f[m] EXCEPT !.open = b]])
<1> DEFINE x == [f[m] EXCEPT !.open = b]
<1>1. /\ x.name = f[m].name /\ x.trans = f[m].trans /\ x.refs = f[m].refs
      /\ x.deps = f[m].deps /\ x.dep = f[m].dep /\ x.at = f[m].at
      /\ x.saved = f[m].saved /\ x.flags = f[m].flags
  <2>1. f[m] \in ModRec
    OBVIOUS
  <2> QED  BY <2>1 DEF ModRec
<1> HIDE DEF x
<1>2. [f EXCEPT ![m] = x][m] = x /\ \A o \in Ids \ {m} : [f EXCEPT ![m] = x][o] = f[o]
  OBVIOUS
<1> DEFINE g == [f EXCEPT ![m] = x]
<1> HIDE DEF g
<1>3. Same(f, g)
  BY <1>1, <1>2 DEF Same, Keeps, g
<1> QED  BY <1>3 DEF g, x

LEMMA QuietLoads ==
  ASSUME Inv, NEW p \in Procs,
         \/ LoadRefused(p) \/ LoadAllocates(p) \/ OpenReturns(p)
         \/ ImageFails(p) \/ ModLoadFails(p) \/ Failed(p)
  PROVE  Quietly(p)
<1>1. pr[p] \in ProcRec /\ TypeOK /\ (mod' = mod => Same(mod, mod'))
  BY DEF Inv, TypeOK, Same, Keeps
<1>2. ASSUME NEW err \in {"error", "EINTR"}, GiveUp(p, err), list' = list,
             Same(mod, mod'), pr[p].pc # "failcl"
      PROVE  Quietly(p)
  <2> DEFINE r == [pr[p] EXCEPT !.pc = "fail", !.err = err]
  <2>1. r \in ProcRec /\ r.pc = "fail" /\ r.stk = pr[p].stk /\ r.cred = pr[p].cred /\ r.op = pr[p].op
    BY <1>1 DEF ProcRec, OnCpu
  <2>2. pr' = [pr EXCEPT ![p] = r]
    BY <1>2 DEF GiveUp
  <2> HIDE DEF r
  <2> QED  BY <1>1, <1>2, <2>1, <2>2, MoveQuiet
<1>3. ASSUME NEW pc \in OnCpu \cup Asleep, Goto(p, pc), list' = list,
             Same(mod, mod'), pr[p].pc # "failcl", pc # "failcl",
             \/ pr[p].stk = <<>>
             \/ pr[p].pc \in Asks /\ pc \in Asks
             \/ pr[p].pc = "open" /\ pc = "next"
      PROVE  Quietly(p)
  <2> DEFINE r == [pr[p] EXCEPT !.pc = pc]
  <2>1. /\ r \in ProcRec /\ r.pc = pc /\ r.stk = pr[p].stk /\ r.cred = pr[p].cred
        /\ r.op = pr[p].op /\ r.want = pr[p].want
    BY <1>1 DEF ProcRec
  <2>2. pr' = [pr EXCEPT ![p] = r]
    BY <1>3 DEF Goto
  <2> HIDE DEF r
  <2> QED  BY <1>1, <1>3, <2>1, <2>2, MoveQuiet
<1>4. CASE LoadRefused(p)
  <2>1. GiveUp(p, "error") /\ list' = list /\ mod' = mod /\ pr[p].pc # "failcl"
    BY <1>4 DEF LoadRefused, AtEnter
  <2> QED  BY <1>1, <1>2, <2>1
<1>5. CASE LoadAllocates(p)
  <2>1. Goto(p, "alloc") /\ list' = list /\ mod' = mod /\ pr[p].pc \in {"enter", "woken"}
    BY <1>5 DEF LoadAllocates, AtEnter
  <2> QED  BY <1>1, <1>3, <2>1 DEF Asks, Asleep
<1>6. CASE OpenReturns(p)
  <2> DEFINE m == Head(pr[p].stk)
  <2>1. /\ pr[p].pc = "open" /\ pr[p].stk # <<>> /\ list' = list
        /\ Goto(p, "next") \/ GiveUp(p, "error")
    BY <1>6 DEF OpenReturns, Inv, ProcOK, Placed
  <2>2. m \in Ids
    <3>1. pr[p].stk \in Seq(Ids)
      BY <1>1 DEF ProcRec
    <3> QED  BY <2>1, <3>1, TailFacts
  <2>3. PICK found \in BOOLEAN : mod' = [mod EXCEPT ![m] = [mod[m] EXCEPT !.open = found]]
    BY <1>6, Zenon DEF OpenReturns
  <2> HIDE DEF m
  <2>4. mod \in [Ids -> ModRec]
    BY DEF Inv, TypeOK
  <2>5. Same(mod, mod')
    BY <2>2, <2>3, <2>4, Reopened
  <2> QED  BY <1>2, <1>3, <2>1, <2>5 DEF OnCpu
<1>7. CASE ImageFails(p) \/ ModLoadFails(p)
  <2>1. GiveUp(p, "error") /\ list' = list /\ mod' = mod /\ pr[p].pc # "failcl"
    BY <1>7 DEF ImageFails, ModLoadFails
  <2> QED  BY <1>1, <1>2, <2>1
<1>8. CASE Failed(p)
  <2>1. /\ Goto(p, "ret") /\ list' = list /\ mod' = mod /\ pr[p].pc = "fail"
        /\ pr[p].stk = <<>>
    BY <1>8 DEF Failed
  <2> QED  BY <1>1, <1>3, <2>1 DEF OnCpu
<1> QED  BY <1>4, <1>5, <1>6, <1>7, <1>8

(* A signal out of a load gives the load up, or out of the close in the    *)
(* undoing of one leaves its record where it is.                           *)
LEMMA SignalQuiet ==
  ASSUME Inv, NEW p \in Procs, LoadInterrupted(p)
  PROVE  Quietly(p) \/ Leaves(p)
<1>1. /\ pr[p] \in ProcRec /\ TypeOK /\ list' = list /\ mod' = mod
      /\ pr' = [pr EXCEPT ![p] = Unwinds(p)] /\ pr[p].pc \in Intr
  BY DEF Inv, TypeOK, LoadInterrupted
<1>2. Same(mod, mod')
  BY <1>1 DEF Same, Keeps
<1> DEFINE r == [pr[p] EXCEPT !.pc = "fail", !.err = "EINTR", !.cur = 0]
           a == [pr[p] EXCEPT !.pc = "ret", !.cur = 0, !.stk = <<>>]
<1>3. /\ r \in ProcRec /\ r.pc = "fail" /\ r.stk = pr[p].stk
      /\ r.cred = pr[p].cred /\ r.op = pr[p].op
  BY <1>1 DEF ProcRec, OnCpu
<1>4. a.pc = "ret" /\ a.stk = <<>>
  BY <1>1 DEF ProcRec
<1>5. Unwinds(p) = (IF InAbort(p) THEN a ELSE r)
  BY Zenon DEF Unwinds
<1> HIDE DEF a, r
<1>6. Unwinds(p) = r \/ (InAbort(p) /\ Unwinds(p) = a)
  BY <1>5
<1>7. CASE pr[p].pc # "failcl"
  <2>1. pr' = [pr EXCEPT ![p] = r]
    BY <1>1, <1>6, <1>7 DEF InAbort
  <2> QED  BY <1>1, <1>2, <1>3, <1>7, <2>1, MoveQuiet
<1>8. CASE pr[p].pc = "failcl"
  <2>1. pr'[p] = Unwinds(p) /\ \A q \in Procs \ {p} : pr'[q] = pr[q]
    <3>1. pr \in [Procs -> ProcRec]
      BY <1>1 DEF TypeOK
    <3> QED  BY <1>1, <3>1
  <2>2. OnlyMoves(p)
    BY <2>1 DEF OnlyMoves, WokenOrSame
  <2> QED  BY <1>1, <1>2, <1>3, <1>4, <1>6, <1>8, <2>1, <2>2 DEF Leaves
<1> QED  BY <1>7, <1>8

LEMMA QuietCalls ==
  ASSUME Inv, NEW p \in Procs,
         \/ (\E n \in Names : Modload(p, n) \/ Loadname(p, n)) \/ ModuloadAll(p)
         \/ (\E m \in Ids : Modstat(p, m)) \/ ModstatFill(p) \/ Return(p)
  PROVE  Quietly(p)
<1>1. pr[p] \in ProcRec /\ TypeOK
  BY DEF Inv, TypeOK
<1>2. /\ pr[p].pc \in {"user", "stat", "ret"} /\ pr[p].stk = <<>>
      /\ list' = list /\ mod' = mod
  BY Zenon DEF Modload, Loadname, ModuloadAll, Modstat, ModstatFill, Return, EntersCall,
         Inv, ProcOK, Placed
<1>3. ASSUME NEW r \in ProcRec, pr' = [pr EXCEPT ![p] = r],
             r.stk = pr[p].stk, r.cred = pr[p].cred, r.pc # "failcl"
      PROVE  Quietly(p)
  <2>1. Same(mod, mod')
    BY <1>2 DEF Same, Keeps
  <2> QED  BY <1>1, <1>2, <1>3, <2>1, MoveQuiet
<1>4. ASSUME NEW n \in Names, Modload(p, n) \/ Loadname(p, n) PROVE Quietly(p)
  <2>1. PICK op \in {"modload", "loadname"} :
          pr' = [pr EXCEPT ![p] = [pr[p] EXCEPT !.pc = "enter", !.op = op, !.want = n]]
    BY <1>4, Zenon DEF Modload, Loadname
  <2> DEFINE r == [pr[p] EXCEPT !.pc = "enter", !.op = op, !.want = n]
  <2>2. r \in ProcRec /\ r.stk = pr[p].stk /\ r.cred = pr[p].cred /\ r.pc # "failcl"
    BY <1>1 DEF ProcRec, OnCpu, Ops
  <2>3. pr' = [pr EXCEPT ![p] = r]
    BY <2>1
  <2> HIDE DEF r
  <2> QED  BY <1>3, <2>2, <2>3
<1>5. ASSUME ModuloadAll(p) PROVE Quietly(p)
  <2> DEFINE r == [pr[p] EXCEPT !.pc = "sweep", !.op = "sweep"]
  <2>1. r \in ProcRec /\ r.stk = pr[p].stk /\ r.cred = pr[p].cred /\ r.pc # "failcl"
    BY <1>1 DEF ProcRec, OnCpu, Ops
  <2>2. pr' = [pr EXCEPT ![p] = r]
    BY <1>5 DEF ModuloadAll
  <2> HIDE DEF r
  <2> QED  BY <1>3, <2>1, <2>2
<1>6. ASSUME NEW m \in Ids, Modstat(p, m) PROVE Quietly(p)
  <2> DEFINE r == [pr[p] EXCEPT !.pc = "stat", !.op = "modstat", !.cur = m]
  <2>1. r \in ProcRec /\ r.stk = pr[p].stk /\ r.cred = pr[p].cred /\ r.pc # "failcl"
    BY <1>1 DEF ProcRec, Asleep, Ops
  <2>2. pr' = [pr EXCEPT ![p] = r]
    BY <1>6, Zenon DEF Modstat
  <2> HIDE DEF r
  <2> QED  BY <1>3, <2>1, <2>2
<1>7. ASSUME ModstatFill(p) PROVE Quietly(p)
  <2> DEFINE r == [pr[p] EXCEPT !.pc = "ret"]
  <2>1. r \in ProcRec /\ r.stk = pr[p].stk /\ r.cred = pr[p].cred /\ r.pc # "failcl"
    BY <1>1 DEF ProcRec, OnCpu
  <2>2. pr' = [pr EXCEPT ![p] = r]
    BY <1>7 DEF ModstatFill, Goto
  <2> HIDE DEF r
  <2> QED  BY <1>3, <2>1, <2>2
<1>8. ASSUME Return(p) PROVE Quietly(p)
  <2> DEFINE r == [Idle EXCEPT !.cred = pr[p].cred]
  <2>1. r \in ProcRec /\ r.stk = pr[p].stk /\ r.cred = pr[p].cred /\ r.pc # "failcl"
    <3>1. Idle \in ProcRec /\ Idle.stk = <<>> /\ Idle.pc = "user"
      BY DEF ProcRec, Asleep, Ops, Idle
    <3> QED  BY <1>1, <1>2, <3>1 DEF ProcRec
  <2>2. pr' = [pr EXCEPT ![p] = r]
    BY <1>8 DEF Return
  <2> HIDE DEF r
  <2> QED  BY <1>3, <2>1, <2>2
<1> QED  BY <1>4, <1>5, <1>6, <1>7, <1>8

(* Steps of p that write nothing but the flags of records.                 *)
LEMMA FlagsQuiet ==
  ASSUME TypeOK, NEW p \in Procs, NEW r \in ProcRec, pr' = [pr EXCEPT ![p] = r],
         list' = list, Same(mod, mod'), r.stk = pr[p].stk, r.cred = pr[p].cred,
         pr[p].pc # "failcl", r.pc # "failcl",
         pr[p].stk # <<>> =>
           r.op = pr[p].op /\ pr[p].pc \in Asks /\ r.pc \in Asks /\ r.want = pr[p].want
  PROVE  Quietly(p)
<1>1. pr'[p] = r /\ \A q \in Procs \ {p} : pr'[q] = pr[q]
  BY SetProc
<1> QED  BY <1>1 DEF Quietly, NotShutting, OnlyMoves, WokenOrSame

(* One record gets flags without CAND's coming in.                         *)
LEMMA Reflagged ==
  ASSUME NEW f \in [Ids -> ModRec], NEW m \in Ids, NEW fl,
         "CAND" \in fl => "CAND" \in f[m].flags
  PROVE  Same(f, [f EXCEPT ![m] = [f[m] EXCEPT !.flags = fl]])
<1> DEFINE x == [f[m] EXCEPT !.flags = fl]
<1>1. /\ x.name = f[m].name /\ x.trans = f[m].trans /\ x.refs = f[m].refs
      /\ x.deps = f[m].deps /\ x.dep = f[m].dep /\ x.at = f[m].at
      /\ x.saved = f[m].saved /\ x.flags = fl
  <2>1. f[m] \in ModRec
    OBVIOUS
  <2> QED  BY <2>1 DEF ModRec
<1> HIDE DEF x
<1>2. [f EXCEPT ![m] = x][m] = x /\ \A o \in Ids \ {m} : [f EXCEPT ![m] = x][o] = f[o]
  OBVIOUS
<1> DEFINE g == [f EXCEPT ![m] = x]
<1> HIDE DEF g
<1>3. Same(f, g)
  BY <1>1, <1>2 DEF Same, Keeps, g
<1> QED  BY <1>3 DEF g, x

LEMMA QuietFlags ==
  ASSUME Inv, NEW p \in Procs,
         \/ LoadWaits(p) \/ (LoadFound(p) /\ pr[p].stk = <<>>)
         \/ (\E m \in Ids : Moduload(p, m) /\ Busy(m))
  PROVE  Quietly(p)
<1>1. pr[p] \in ProcRec /\ TypeOK /\ mod \in [Ids -> ModRec]
  BY DEF Inv, TypeOK
<1>2. ASSUME LoadWaits(p) PROVE Quietly(p)
  <2> DEFINE m == FindName(pr[p].want)
             fl == mod[m].flags \cup {"WANTED"}
             r == [pr[p] EXCEPT !.pc = "wait", !.cur = m]
  <2>1. /\ pr[p].pc \in Asks /\ pr[p].want \in Names /\ Named(pr[p].want) # {}
    BY <1>2 DEF LoadWaits, AtEnter, Inv, ProcOK, Placed, Asks
  <2>2. m \in Ids
    BY <1>1, <2>1, FindNameFacts
  <2>3. /\ mod' = [mod EXCEPT ![m] = [mod[m] EXCEPT !.flags = fl]]
        /\ pr' = [pr EXCEPT ![p] = r] /\ list' = list
    BY <1>2 DEF LoadWaits
  <2> HIDE DEF m
  <2>4. Same(mod, mod')
    BY <1>1, <2>2, <2>3, Reflagged
  <2>5. /\ r \in ProcRec /\ r.pc \in Asks /\ r.pc # "failcl" /\ r.stk = pr[p].stk /\ r.cred = pr[p].cred
        /\ r.op = pr[p].op /\ r.want = pr[p].want
    BY <1>1, <2>2 DEF ProcRec, Asleep, Asks
  <2> HIDE DEF r
  <2>6. pr[p].pc # "failcl"
    BY <2>1 DEF Asks
  <2> QED  BY <1>1, <2>1, <2>3, <2>4, <2>5, <2>6, FlagsQuiet
<1>3. ASSUME LoadFound(p), pr[p].stk = <<>> PROVE Quietly(p)
  <2> DEFINE m == FindName(pr[p].want)
             fl == mod[m].flags \cup {"DEMAND"}
             r == [pr[p] EXCEPT !.pc = "ret", !.stk = pr[p].stk, !.cur = m]
  <2>1. /\ pr[p].want \in Names /\ Named(pr[p].want) # {} /\ pr[p].pc # "failcl"
    BY <1>3 DEF LoadFound, AtEnter, Inv, ProcOK, Placed
  <2>2. m \in Ids
    BY <1>1, <2>1, FindNameFacts
  <2>3. /\ mod' = Demanded(p, mod, m) /\ pr' = [pr EXCEPT ![p] = r] /\ list' = list
    BY <1>3 DEF LoadFound, Taken, Returned
  <2>4. mod' = mod \/ mod' = [mod EXCEPT ![m] = [mod[m] EXCEPT !.flags = fl]]
    BY <2>3 DEF Demanded
  <2> HIDE DEF m
  <2>5. ASSUME mod' = mod PROVE Same(mod, mod')
    BY <2>5 DEF Same, Keeps
  <2>6. ASSUME mod' = [mod EXCEPT ![m] = [mod[m] EXCEPT !.flags = fl]]
        PROVE  Same(mod, mod')
    BY <1>1, <2>2, <2>6, Reflagged
  <2>7. /\ r \in ProcRec /\ r.stk = pr[p].stk /\ r.cred = pr[p].cred
        /\ r.pc # "failcl"
    BY <1>1, <2>2 DEF ProcRec, OnCpu
  <2> HIDE DEF r
  <2>8. Quietly(p)
    <3>1. Same(mod, mod')
      BY <2>4, <2>5, <2>6
    <3> QED  BY <1>1, <1>3, <2>1, <2>3, <2>7, <3>1, FlagsQuiet
  <2> QED  BY <2>8
<1>4. ASSUME NEW m \in Ids, Moduload(p, m), Busy(m) PROVE Quietly(p)
  <2> DEFINE fl == mod[m].flags \ {"DEMAND"}
  <2>1. /\ mod' = [mod EXCEPT ![m] = [mod[m] EXCEPT !.flags = fl]]
        /\ pr' = [pr EXCEPT ![p] = pr[p]] /\ list' = list /\ pr[p].stk = <<>>
        /\ pr[p].pc # "failcl"
    BY <1>1, <1>4 DEF Moduload, EntersCall, TypeOK, Inv, ProcOK, Placed
  <2>2. Same(mod, mod')
    BY <1>1, <2>1, Reflagged
  <2> QED  BY <1>1, <2>1, <2>2, FlagsQuiet
<1> QED  BY <1>2, <1>3, <1>4

LEMMA NextDepSteps ==
  ASSUME Inv, NEW p \in Procs, NextDep(p)
  PROVE  Steps(p) /\ pr[p].stk # <<>>
<1> DEFINE m == Head(pr[p].stk)
           d == Depends[mod[m].name]
           at == mod[m].at + 1
           g == [mod[m] EXCEPT !.at = at]
           r == [pr[p] EXCEPT !.pc = "enter", !.want = d[mod[m].at]]
           ri == [pr[p] EXCEPT !.pc = "image"]
<1>1. /\ pr[p] \in ProcRec /\ pr[p].pc = "next" /\ pr[p].stk # <<>>
      /\ list' = list /\ mod \in [Ids -> ModRec] /\ pr \in [Procs -> ProcRec]
  BY DEF NextDep, Inv, TypeOK, ProcOK, Placed
<1>2. m \in Ids /\ m \in Frames(p)
  <2>1. pr[p].stk \in Seq(Ids)
    BY <1>1 DEF ProcRec
  <2> QED  BY <1>1, <2>1, TailFacts DEF Frames
<1>3. m \in list
  BY <1>2 DEF Inv, OwnMarked, LoadsOf
<1>4. mod[m] \in ModRec
  BY <1>1, <1>2
<1>5. /\ r.pc = "enter" /\ r.stk = pr[p].stk /\ r.want = d[mod[m].at]
      /\ r.cred = pr[p].cred /\ r.op = pr[p].op
      /\ ri.pc = "image" /\ ri.stk = pr[p].stk
      /\ ri.cred = pr[p].cred /\ ri.op = pr[p].op
  BY <1>1 DEF ProcRec
<1>6. /\ g.name = mod[m].name /\ g.trans = mod[m].trans /\ g.refs = mod[m].refs
      /\ g.deps = mod[m].deps /\ g.dep = mod[m].dep /\ g.saved = mod[m].saved
      /\ g.flags = mod[m].flags /\ g.at = mod[m].at + 1
  BY <1>4 DEF ModRec
<1>7. CASE mod[m].at > Len(d)
  <2>1. pr' = [pr EXCEPT ![p] = ri] /\ mod' = mod
    BY <1>7 DEF NextDep, Goto
  <2> HIDE DEF ri, m, d
  <2>2. pr'[p] = ri /\ \A q \in Procs \ {p} : pr'[q] = pr[q]
    BY <1>1, <2>1
  <2>3. OnlyMoves(p) /\ SameBut(mod, mod', m)
    BY <2>1, <2>2 DEF OnlyMoves, WokenOrSame, SameBut, Keeps
  <2> QED  BY <1>1, <1>3, <1>5, <1>7, <2>1, <2>2, <2>3 DEF Steps, m, d
<1>8. CASE ~ (mod[m].at > Len(d))
  <2>1. mod' = [mod EXCEPT ![m] = g]
    BY <1>8, Zenon DEF NextDep
  <2>2. \/ d[mod[m].at] \in Static /\ pr' = pr
        \/ pr' = [pr EXCEPT ![p] = r]
    BY <1>8 DEF NextDep
  <2> HIDE DEF r, ri, g, m, d
  <2>3. mod'[m] = g /\ \A o \in Ids \ {m} : mod'[o] = mod[o]
    BY <1>1, <1>2, <2>1
  <2>4. /\ \A q \in Procs \ {p} : pr'[q] = pr[q]
        /\ \/ d[mod[m].at] \in Static /\ pr'[p] = pr[p]
           \/ pr'[p] = r
    BY <1>1, <2>2
  <2>5. OnlyMoves(p) /\ SameBut(mod, mod', m)
    BY <2>3, <2>4, Zenon DEF OnlyMoves, WokenOrSame, SameBut, Keeps
  <2> QED  BY <1>1, <1>3, <1>5, <1>6, <2>3, <2>4, <2>5 DEF Steps, m, d
<1> QED  BY <1>7, <1>8

LEMMA LoadFoundTakes ==
  ASSUME Inv, NEW p \in Procs, LoadFound(p), pr[p].stk # <<>>
  PROVE  \E m \in Ids : Takes(p, m)
<1> DEFINE m == FindName(pr[p].want)
           r == [pr[p] EXCEPT !.pc = "next", !.stk = pr[p].stk]
<1>1. /\ pr[p] \in ProcRec /\ pr[p].pc \in {"enter", "woken"}
      /\ pr[p].want \in Names /\ Named(pr[p].want) # {} /\ pr \in [Procs -> ProcRec]
  BY DEF LoadFound, AtEnter, Inv, TypeOK, ProcOK, Placed
<1>2. m \in Ids /\ m \in list /\ mod[m].name = pr[p].want
  BY <1>1, FindNameFacts DEF Inv
<1>3. /\ pr' = [pr EXCEPT ![p] = r] /\ mod' = DepAdd(mod, Head(pr[p].stk), m)
      /\ list' = list /\ mod[m].trans = "no"
  BY DEF LoadFound, Returned, Taken, Demanded, IsSys, Trans
<1>4. /\ r.pc = "next" /\ r.stk = pr[p].stk /\ r.cred = pr[p].cred /\ r.op = pr[p].op
  BY <1>1 DEF ProcRec
<1> HIDE DEF m, r
<1>5. pr'[p] = r /\ \A q \in Procs \ {p} : pr'[q] = pr[q]
  BY <1>1, <1>3
<1>6. OnlyMoves(p)
  BY <1>5 DEF OnlyMoves, WokenOrSame
<1>7. Takes(p, m)
  BY <1>1, <1>2, <1>3, <1>4, <1>5, <1>6 DEF Takes
<1> QED  BY <1>2, <1>7

LEMMA CreatesBegins ==
  ASSUME Inv, NEW p \in Procs, LoadCreates(p) \/ Allocated(p)
  PROVE  Begins(p)
<1> DEFINE sv == IF IsSys(p) THEN pr[p].cred ELSE "none"
           cr == IF IsSys(p) THEN "sys" ELSE pr[p].cred
           s == <<nextid>> \o pr[p].stk
           g == [NoRec EXCEPT !.name = pr[p].want, !.trans = "loading",
                              !.owner = p, !.at = 1, !.saved = sv]
           r == [pr[p] EXCEPT !.pc = "open", !.stk = s, !.cred = cr]
<1>1. NewRecord(p) /\ pr[p].pc \in Asks
  BY DEF LoadCreates, Allocated, AtEnter, Asks
<1>2. /\ pr[p] \in ProcRec /\ nextid \in Ids /\ list' = list \cup {nextid}
      /\ nextid \in Nat /\ pr \in [Procs -> ProcRec] /\ mod \in [Ids -> ModRec]
  BY <1>1 DEF NewRecord, Inv, TypeOK, Ids
<1>3. mod' = [mod EXCEPT ![nextid] = g] /\ pr' = [pr EXCEPT ![p] = r]
  BY <1>1, Zenon DEF NewRecord
<1>4. nextid \notin list
  BY <1>2 DEF Inv, RecOK
<1> HIDE DEF s, sv, cr
<1>5. /\ g.name = pr[p].want /\ g.trans = "loading" /\ g.dep = <<>> /\ g.at = 1
      /\ g.refs = 0 /\ g.deps = 0 /\ g.flags = {} /\ g.saved = sv
  BY DEF NoRec
<1>6. r.pc = "open" /\ r.op = pr[p].op /\ r.stk = s /\ r.cred = cr
  BY <1>2 DEF ProcRec
<1> HIDE DEF g, r
<1>7. pr'[p] = r /\ \A q \in Procs \ {p} : pr'[q] = pr[q]
  BY <1>2, <1>3
<1>8. mod'[nextid] = g /\ \A o \in Ids \ {nextid} : mod'[o] = mod[o]
  BY <1>2, <1>3
<1>9. OnlyMoves(p)
  BY <1>7 DEF OnlyMoves, WokenOrSame
<1> QED
  BY <1>1, <1>2, <1>4, <1>5, <1>6, <1>7, <1>8, <1>9 DEF Begins, s, sv, cr

LEMMA ReadImageCloses ==
  ASSUME Inv, NEW p \in Procs, ReadImage(p)
  PROVE  Closes(p) /\ pr[p].stk # <<>>
<1> DEFINE m == Head(pr[p].stk)
           cr == Restored(p, m)
           no == FALSE
           g == [mod[m] EXCEPT !.saved = "none", !.open = no]
           r == [pr[p] EXCEPT !.pc = "inload", !.cred = cr]
<1>1. /\ pr[p] \in ProcRec /\ pr[p].pc = "image" /\ pr[p].stk # <<>>
      /\ list' = list /\ mod \in [Ids -> ModRec] /\ pr \in [Procs -> ProcRec]
  BY DEF ReadImage, Inv, TypeOK, ProcOK, Placed
<1>2. m \in Ids /\ m \in Frames(p)
  <2>1. pr[p].stk \in Seq(Ids)
    BY <1>1 DEF ProcRec
  <2> QED  BY <1>1, <2>1, TailFacts DEF Frames
<1>3. m \in list
  BY <1>2 DEF Inv, OwnMarked, LoadsOf
<1>4. pr' = [pr EXCEPT ![p] = r] /\ mod' = [mod EXCEPT ![m] = g]
  BY <1>1, <1>2 DEF ReadImage
<1> HIDE DEF cr, no
<1>5. r.pc = "inload" /\ r.stk = pr[p].stk /\ r.cred = cr /\ r.op = pr[p].op
  BY <1>1 DEF ProcRec
<1>6. mod[m] \in ModRec
  BY <1>1, <1>2
<1>7. /\ g.name = mod[m].name /\ g.trans = mod[m].trans /\ g.refs = mod[m].refs
      /\ g.deps = mod[m].deps /\ g.dep = mod[m].dep /\ g.saved = "none"
      /\ g.flags = mod[m].flags /\ g.at = mod[m].at
  <2> DEFINE shut == [mod[m] EXCEPT !.open = no]
  <2>1. g = [shut EXCEPT !.saved = "none"]
    BY <1>6 DEF ModRec
  <2>2. /\ DOMAIN shut = DOMAIN mod[m] /\ shut.name = mod[m].name
        /\ shut.trans = mod[m].trans /\ shut.refs = mod[m].refs
        /\ shut.deps = mod[m].deps /\ shut.dep = mod[m].dep
        /\ shut.flags = mod[m].flags /\ shut.at = mod[m].at
    BY <1>6 DEF ModRec
  <2>3. "saved" \in DOMAIN mod[m]
    BY <1>6 DEF ModRec
  <2> HIDE DEF shut
  <2> QED  BY <2>1, <2>2, <2>3
<1> HIDE DEF g, r, m
<1>8. pr'[p] = r /\ \A q \in Procs \ {p} : pr'[q] = pr[q]
  BY <1>1, <1>4
<1>9. mod'[m] = g /\ \A o \in Ids \ {m} : mod'[o] = mod[o]
  BY <1>1, <1>2, <1>4
<1>10. OnlyMoves(p) /\ SameBut(mod, mod', m)
  BY <1>8, <1>9, Zenon DEF OnlyMoves, WokenOrSame, SameBut, Keeps
<1> QED  BY <1>1, <1>3, <1>5, <1>7, <1>8, <1>9, <1>10 DEF Closes, m, cr

LEMMA LoadSettlesSettles ==
  ASSUME Inv, NEW p \in Procs, LoadSettles(p)
  PROVE  pr[p].stk # <<>> /\ \E f : Settles(p, f)
<1> DEFINE m == Head(pr[p].stk)
           s == Tail(pr[p].stk)
           demand == IF s = <<>> /\ pr[p].op = "modload" THEN {"DEMAND"} ELSE {}
           fl == (mod[m].flags \cup demand) \ {"WANTED"}
           g == [mod[m] EXCEPT !.trans = "no", !.owner = NoProc, !.at = 0, !.flags = fl]
           f == [mod EXCEPT ![m] = g]
           r == IF s = <<>> THEN [pr[p] EXCEPT !.pc = "ret", !.stk = s, !.cur = m]
                            ELSE [pr[p] EXCEPT !.pc = "next", !.stk = s]
<1>1. /\ pr[p] \in ProcRec /\ pr[p].stk \in Seq(Ids) /\ pr[p].stk # <<>>
      /\ pr[p].pc = "inload" /\ list' = list /\ mod \in [Ids -> ModRec]
  BY DEF LoadSettles, Inv, TypeOK, ProcRec, ProcOK, Placed
<1>2. /\ m \in Ids /\ m \in Frames(p) /\ s \in Seq(Ids)
  BY <1>1, TailFacts DEF Frames
<1>3. m \in list /\ mod[m].trans = "loading"
  BY <1>2 DEF Inv, OwnMarked, LoadsOf
<1>4. Wake(m)[p] = pr[p]
  BY <1>1, <1>2, WakeFacts, Zenon DEF Inv
<1>5. mod' = Taken(f, s, m) /\ pr' = Returned(p, Wake(m), s, m)
  BY Zenon DEF LoadSettles
<1>6. pr' = [Wake(m) EXCEPT ![p] = r]
  BY <1>4, <1>5 DEF Returned
<1>7. mod[m] \in ModRec
  BY <1>1, <1>2
<1> HIDE DEF m, s
<1>8. fl \in FlagSets /\ ("CAND" \in fl => "CAND" \in mod[m].flags)
  BY <1>7 DEF ModRec, FlagSets
<1> HIDE DEF fl
<1>9. /\ g \in ModRec /\ g.name = mod[m].name /\ g.trans = "no" /\ g.flags = fl
      /\ g.refs = mod[m].refs /\ g.deps = mod[m].deps
      /\ g.dep = mod[m].dep /\ g.saved = mod[m].saved
  BY <1>7, <1>8 DEF ModRec, FlagSets
<1> HIDE DEF g
<1>10. /\ f \in [Ids -> ModRec] /\ f[m] = g
       /\ \A o \in Ids \ {m} : f[o] = mod[o]
  BY <1>1, <1>2, <1>9
<1> HIDE DEF f
<1>11. /\ r \in ProcRec /\ r.stk = s /\ r.pc = IF s = <<>> THEN "ret" ELSE "next"
       /\ r.op = pr[p].op /\ r.cred = pr[p].cred
  BY <1>1, <1>2 DEF ProcRec, OnCpu
<1> HIDE DEF r
<1>12. pr'[p] = r /\ OnlyMoves(p)
  BY <1>2, <1>6, <1>11, WakeSet DEF Inv, OnlyMoves
<1>13. SameBut(mod, f, m)
  BY <1>10 DEF SameBut, Keeps
<1>14. Settles(p, f)
  BY <1>1, <1>2, <1>3, <1>5, <1>8, <1>9, <1>10, <1>11, <1>12, <1>13 DEF Settles, m, s
<1> QED  BY <1>1, <1>14

LEMMA FreesRecord ==
  ASSUME Inv, NEW p \in Procs, \/ Fail(p) \/ FailUnloadReturns(p)
                                \/ FailCloses(p) \/ UnloadReturns(p)
  PROVE  \E m \in Ids : Frees(p, m)
<1>1. /\ pr[p] \in ProcRec /\ TypeOK /\ pr[p].stk \in Seq(Ids)
  BY DEF Inv, TypeOK, ProcRec
<1>2. CASE Fail(p)
  <2> DEFINE m == Head(pr[p].stk)
             s == Tail(pr[p].stk)
             cr == Restored(p, m)
             r == [pr[p] EXCEPT !.stk = s, !.cred = cr]
  <2>1. pr[p].stk # <<>> /\ pr[p].pc = "fail" /\ FreeMod(m)
    BY <1>2 DEF Fail, Fails
  <2>2. pr' = [Wake(m) EXCEPT ![p] = r]
    BY <1>2, Zenon DEF Fail
  <2>3. m \in Ids /\ m \in Frames(p) /\ s \in Seq(Ids)
    BY <1>1, <2>1, TailFacts DEF Frames
  <2>4. m \in list /\ mod[m].trans = "loading"
    BY <2>3 DEF Inv, OwnMarked, LoadsOf
  <2> HIDE DEF m, s
  <2>5. cr \in {"user", "sys"}
    BY <2>3, RestoredType
  <2> HIDE DEF cr
  <2>6. r \in ProcRec /\ r.stk = s /\ r.pc = "fail" /\ r.op = pr[p].op /\ r.cred = cr
    BY <1>1, <2>1, <2>3, <2>5 DEF ProcRec
  <2> HIDE DEF r
  <2>7. pr'[p] = r /\ OnlyMoves(p)
    BY <1>1, <2>2, <2>3, <2>6, WakeSet DEF OnlyMoves
  <2>8. Frees(p, m)
    BY <2>1, <2>3, <2>4, <2>6, <2>7 DEF Frees, m, s, cr
  <2> QED  BY <2>3, <2>8
<1>3. CASE FailUnloadReturns(p)
  <2> DEFINE m == pr[p].cur
             r == [pr[p] EXCEPT !.pc = "fail", !.cur = 0]
  <2>1. pr[p].pc = "failun" /\ m \in Ids /\ FreeMod(m) /\ m \notin Frames(p)
    BY <1>3 DEF FailUnloadReturns, Inv, ProcOK, Placed
  <2>2. pr' = [Wake(m) EXCEPT ![p] = r]
    BY <1>3 DEF FailUnloadReturns
  <2>3. m \in list /\ mod[m].trans = "loading"
    BY <2>1 DEF Inv, OwnMarked, LoadsOf
  <2>4. /\ r \in ProcRec /\ r.pc = "fail" /\ r.stk = pr[p].stk
        /\ r.op = pr[p].op /\ r.cred = pr[p].cred
    BY <1>1 DEF ProcRec, OnCpu
  <2> HIDE DEF r
  <2>5. pr'[p] = r /\ OnlyMoves(p)
    BY <1>1, <2>1, <2>2, <2>4, WakeSet DEF OnlyMoves
  <2>6. Frees(p, m)
    BY <2>1, <2>3, <2>4, <2>5 DEF Frees
  <2> QED  BY <2>1, <2>6
<1>4. CASE UnloadReturns(p)
  <2> DEFINE m == pr[p].cur
             pc == AfterUnload(p)
             r == [pr[p] EXCEPT !.pc = pc, !.cur = 0]
  <2>1. pr[p].pc = "inunl" /\ m \in Ids /\ FreeMod(m) /\ pr[p].stk = <<>>
    BY <1>4 DEF UnloadReturns, Inv, ProcOK, Placed
  <2>2. pr' = [Wake(m) EXCEPT ![p] = r]
    BY <1>4 DEF UnloadReturns
  <2>3. m \in list /\ mod[m].trans = "unloading"
    BY <2>1 DEF Inv, OwnMarked, UnloadsOf
  <2>4. pc \in {"sweep", "ret"}
    BY DEF AfterUnload
  <2> HIDE DEF pc
  <2>5. r \in ProcRec /\ r.stk = <<>> /\ r.cred = pr[p].cred /\ r.pc # "failcl"
    BY <1>1, <2>1, <2>4 DEF ProcRec, OnCpu
  <2> HIDE DEF r
  <2>6. pr'[p] = r /\ OnlyMoves(p)
    BY <1>1, <2>1, <2>2, <2>5, WakeSet DEF OnlyMoves
  <2>7. Frees(p, m)
    BY <2>1, <2>3, <2>5, <2>6 DEF Frees, NotShutting
  <2> QED  BY <2>1, <2>7
<1>5. CASE FailCloses(p)
  <2> DEFINE m == pr[p].cur
             cr == Restored(p, m)
             r == [pr[p] EXCEPT !.pc = "fail", !.cur = 0, !.cred = cr]
  <2>1. pr[p].pc = "failcl" /\ m \in Ids /\ FreeMod(m) /\ m \notin Frames(p)
    BY <1>5 DEF FailCloses, Inv, ProcOK, Placed
  <2>2. pr' = [Wake(m) EXCEPT ![p] = r]
    BY <1>5 DEF FailCloses
  <2>3. m \in list /\ mod[m].trans = "loading"
    BY <2>1 DEF Inv, OwnMarked, LoadsOf
  <2>4. cr \in {"user", "sys"}
    BY <2>1, RestoredType
  <2> HIDE DEF cr
  <2>5. /\ r \in ProcRec /\ r.pc = "fail" /\ r.stk = pr[p].stk
        /\ r.op = pr[p].op /\ r.cred = cr
    BY <1>1, <2>4 DEF ProcRec, OnCpu
  <2> HIDE DEF r
  <2>6. pr'[p] = r /\ OnlyMoves(p)
    BY <1>1, <2>1, <2>2, <2>5, WakeSet DEF OnlyMoves
  <2>7. Frees(p, m)
    BY <2>1, <2>3, <2>5, <2>6 DEF Frees, cr
  <2> QED  BY <2>1, <2>7
<1> QED  BY <1>2, <1>3, <1>4, <1>5

LEMMA LinkFailsPops ==
  ASSUME Inv, NEW p \in Procs, LinkFails(p) \/ FailSleeps(p)
  PROVE  Pops(p) /\ pr[p].stk # <<>>
<1> DEFINE m == Head(pr[p].stk)
           s == Tail(pr[p].stk)
           r == [pr[p] EXCEPT !.pc = "failun", !.err = "error", !.cur = m, !.stk = s]
           c == [pr[p] EXCEPT !.pc = "failcl", !.cur = m, !.stk = s]
<1>1. /\ pr[p] \in ProcRec /\ pr[p].stk # <<>>
      /\ list' = list /\ mod' = mod /\ pr \in [Procs -> ProcRec]
  BY DEF LinkFails, FailSleeps, Fails, Inv, TypeOK, ProcOK, Placed
<1>2. \/ pr[p].pc = "inload" /\ pr' = [pr EXCEPT ![p] = r]
      \/ pr[p].pc = "fail" /\ pr' = [pr EXCEPT ![p] = c]
  BY Zenon DEF LinkFails, FailSleeps, Fails
<1> HIDE DEF m, s
<1>3. /\ r.stk = s /\ r.pc = "failun" /\ r.op = pr[p].op /\ r.cred = pr[p].cred
      /\ c.stk = s /\ c.pc = "failcl" /\ c.op = pr[p].op /\ c.cred = pr[p].cred
      /\ c.cur = m
  BY <1>1 DEF ProcRec
<1> HIDE DEF r, c
<1>4. /\ \A q \in Procs \ {p} : pr'[q] = pr[q]
      /\ (pr[p].pc = "inload" /\ pr'[p] = r) \/ (pr[p].pc = "fail" /\ pr'[p] = c)
  BY <1>1, <1>2
<1>5. OnlyMoves(p)
  BY <1>4 DEF OnlyMoves, WokenOrSame
<1> QED  BY <1>1, <1>3, <1>4, <1>5 DEF Pops, m, s

LEMMA StartUnloadMarks ==
  ASSUME Inv, NEW p \in Procs, NEW m \in list, NEW op \in Ops,
         NEW cleared \in SUBSET Ids, ~Busy(m), list' = list,
         pr[p].pc \in {"user", "sweep"}, StartUnload(p, m, op, cleared)
  PROVE  Marks(p, m)
<1> DEFINE fl(o) == IF o \in cleared THEN mod[o].flags \ {"DEMAND"} ELSE mod[o].flags
           tr(o) == IF o = m THEN "unloading" ELSE mod[o].trans
           ow(o) == IF o = m THEN p ELSE mod[o].owner
           g(o) == [mod[o] EXCEPT !.flags = fl(o), !.trans = tr(o), !.owner = ow(o)]
           r == [pr[p] EXCEPT !.pc = "inunl", !.op = op, !.cur = m]
<1>1. /\ pr[p] \in ProcRec /\ pr[p].stk = <<>> /\ m \in Ids /\ pr \in [Procs -> ProcRec]
      /\ \A o \in Ids : mod[o] \in ModRec
  BY DEF Inv, TypeOK, ProcOK, Placed
<1>2. mod' = [o \in Ids |-> g(o)] /\ pr' = [pr EXCEPT ![p] = r]
  BY Zenon DEF StartUnload
<1>3. \A o \in Ids : /\ "CAND" \in fl(o) => "CAND" \in mod[o].flags
                     /\ tr(o) = IF o = m THEN "unloading" ELSE mod[o].trans
  OBVIOUS
<1> HIDE DEF fl, tr, ow
<1>4. \A o \in Ids : /\ g(o).name = mod[o].name /\ g(o).trans = tr(o)
                     /\ g(o).refs = mod[o].refs /\ g(o).deps = mod[o].deps
                     /\ g(o).dep = mod[o].dep /\ g(o).at = mod[o].at
                     /\ g(o).saved = mod[o].saved /\ g(o).flags = fl(o)
  BY <1>1 DEF ModRec
<1> HIDE DEF g
<1>5. \A o \in Ids : mod'[o] = g(o)
  BY <1>2
<1>6. r.stk = <<>> /\ r.cred = pr[p].cred /\ r.pc = "inunl"
  BY <1>1 DEF ProcRec
<1> HIDE DEF r
<1>7. pr'[p] = r /\ \A q \in Procs \ {p} : pr'[q] = pr[q]
  BY <1>1, <1>2
<1>8. OnlyMoves(p)
  BY <1>7 DEF OnlyMoves, WokenOrSame
<1>9. SameBut(mod, mod', m)
  BY <1>3, <1>4, <1>5 DEF SameBut, Keeps
<1>10. mod[m].trans = "no" /\ mod[m].refs = 0 /\ mod[m].deps = 0
  BY <1>1 DEF Busy, Trans, ModRec
<1> QED
  BY <1>1, <1>3, <1>4, <1>5, <1>6, <1>7, <1>8, <1>9, <1>10 DEF Marks, NotShutting

LEMMA UnloadStarts ==
  ASSUME Inv, NEW p \in Procs, Sweep(p) \/ (\E m \in Ids : Moduload(p, m))
  PROVE  Quietly(p) \/ \E m \in Ids : Marks(p, m)
<1>1. /\ pr[p] \in ProcRec /\ TypeOK /\ list \subseteq Ids /\ mod \in [Ids -> ModRec]
  BY DEF Inv, TypeOK
<1>2. ASSUME NEW m \in Ids, Moduload(p, m)
      PROVE  Quietly(p) \/ \E o \in Ids : Marks(p, o)
  <2>1. CASE Busy(m)
    BY <1>2, <2>1, QuietFlags
  <2>2. CASE ~Busy(m)
    <3>1. /\ StartUnload(p, m, "moduload", {m}) /\ m \in list /\ list' = list
          /\ pr[p].pc = "user"
      BY <1>2, <2>2 DEF Moduload, EntersCall
    <3>2. Marks(p, m)
      BY <2>2, <3>1, StartUnloadMarks DEF Ops
    <3> QED  BY <3>2
  <2> QED  BY <2>1, <2>2
<1>3. ASSUME Sweep(p)
      PROVE  Quietly(p) \/ \E m \in Ids : Marks(p, m)
  <2> DEFINE rest == {m \in list : m > pr[p].cur /\ ~Trans(m)}
  <2>1. pr[p].pc = "sweep" /\ pr[p].stk = <<>> /\ list' = list
    BY <1>3 DEF Sweep, Inv, ProcOK, Placed
  <2>2. ASSUME NEW m \in {r \in rest : ~Busy(r)},
               StartUnload(p, m, "sweep", {r \in rest : r <= m})
        PROVE  \E o \in Ids : Marks(p, o)
    <3>1. m \in list /\ ~Busy(m) /\ {r \in rest : r <= m} \in SUBSET Ids /\ m \in Ids
      BY <1>1
    <3>2. Marks(p, m)
      BY <2>1, <2>2, <3>1, StartUnloadMarks DEF Ops
    <3> QED  BY <3>1, <3>2
  <2>3. ASSUME mod' = [r \in Ids |->
                         IF r \in rest THEN [mod[r] EXCEPT !.flags = @ \ {"DEMAND"}]
                                       ELSE mod[r]],
               Goto(p, "ret")
        PROVE  Quietly(p)
    <3> DEFINE g(o) == [mod[o] EXCEPT !.flags = @ \ {"DEMAND"}]
               r == [pr[p] EXCEPT !.pc = "ret"]
    <3>1. \A o \in Ids : mod[o] \in ModRec
      BY <1>1
    <3>2. \A o \in Ids :
            /\ g(o).name = mod[o].name /\ g(o).trans = mod[o].trans
            /\ g(o).refs = mod[o].refs /\ g(o).deps = mod[o].deps
            /\ g(o).dep = mod[o].dep /\ g(o).at = mod[o].at
            /\ g(o).saved = mod[o].saved
            /\ g(o).flags = mod[o].flags \ {"DEMAND"}
      BY <3>1 DEF ModRec
    <3>3. mod' = [o \in Ids |-> IF o \in rest THEN g(o) ELSE mod[o]]
      BY <2>3
    <3> HIDE DEF g, rest
    <3>4. \A o \in Ids : mod'[o] = g(o) \/ mod'[o] = mod[o]
      BY <3>3
    <3>5. Same(mod, mod')
      BY <3>2, <3>4 DEF Same, Keeps
    <3>6. r \in ProcRec /\ r.stk = pr[p].stk /\ r.cred = pr[p].cred /\ r.pc # "failcl"
      BY <1>1 DEF ProcRec, OnCpu
    <3>7. pr' = [pr EXCEPT ![p] = r]
      BY <2>3 DEF Goto
    <3> HIDE DEF r
    <3> QED  BY <1>1, <2>1, <3>5, <3>6, <3>7, FlagsQuiet
  <2>4. \/ \E m \in {r \in rest : ~Busy(r)} :
             StartUnload(p, m, "sweep", {r \in rest : r <= m})
        \/ /\ mod' = [r \in Ids |->
                        IF r \in rest THEN [mod[r] EXCEPT !.flags = @ \ {"DEMAND"}]
                                      ELSE mod[r]]
           /\ Goto(p, "ret")
    BY <1>3, Zenon DEF Sweep
  <2> QED  BY <2>2, <2>3, <2>4
<1> QED  BY <1>2, <1>3

LEMMA ReconnectUnmarks ==
  ASSUME Inv, NEW p \in Procs, UnloadFails(p) \/ UnloadInterrupted(p)
  PROVE  \E m \in Ids : Unmarks(p, m)
<1>1. PICK pc \in {"sweep", "ret"}, err \in {"error", "EINTR"} :
        Reconnect(p, pc, err) /\ pr[p].pc = "inunl"
  BY DEF UnloadFails, UnloadInterrupted, AfterUnload
<1> DEFINE m == pr[p].cur
           r == [pr[p] EXCEPT !.pc = pc, !.err = err]
           fl == mod[m].flags \ {"WANTED"}
           g == [mod[m] EXCEPT !.trans = "no", !.owner = NoProc, !.flags = fl]
<1>2. /\ pr[p] \in ProcRec /\ m \in Ids /\ pr[p].stk = <<>> /\ mod[m] \in ModRec
      /\ mod \in [Ids -> ModRec]
  BY <1>1 DEF Inv, TypeOK, ProcOK, Placed
<1>3. /\ mod' = [mod EXCEPT ![m] = g] /\ pr' = [Wake(m) EXCEPT ![p] = r]
      /\ list' = list
  BY <1>1, Zenon DEF Reconnect
<1>4. m \in list /\ mod[m].trans = "unloading"
  BY <1>1 DEF Inv, OwnMarked, UnloadsOf
<1>5. "CAND" \in fl => "CAND" \in mod[m].flags
  OBVIOUS
<1> HIDE DEF fl
<1>6. /\ g.name = mod[m].name /\ g.trans = "no" /\ g.refs = mod[m].refs
      /\ g.deps = mod[m].deps /\ g.dep = mod[m].dep /\ g.saved = mod[m].saved
      /\ g.flags = fl
  BY <1>2 DEF ModRec
<1>7. r \in ProcRec /\ r.stk = <<>> /\ r.cred = pr[p].cred /\ r.pc = pc
  BY <1>2 DEF ProcRec, OnCpu
<1> HIDE DEF g, r, m
<1>8. pr'[p] = r /\ OnlyMoves(p)
  BY <1>2, <1>3, <1>7, WakeSet DEF Inv, OnlyMoves
<1>9. mod'[m] = g /\ \A o \in Ids \ {m} : mod'[o] = mod[o]
  BY <1>2, <1>3
<1>10. SameBut(mod, mod', m)
  BY <1>9 DEF SameBut, Keeps
<1>11. Unmarks(p, m)
  BY <1>1, <1>2, <1>3, <1>4, <1>5, <1>6, <1>7, <1>8, <1>9, <1>10 DEF Unmarks, NotShutting
<1> QED  BY <1>2, <1>11

LEMMA ModHoldHolds ==
  ASSUME Inv, NEW m \in Ids, ModHold(m) \/ ModRele(m)
  PROVE  Holds(m)
<1>1. /\ mod[m] \in ModRec /\ mod \in [Ids -> ModRec] /\ list' = list /\ pr' = pr
      /\ m \in list /\ mod[m].trans = "no"
  BY DEF Inv, TypeOK, ModHold, ModRele, Trans
<1>2. ASSUME NEW n, NEW fl,
             mod' = [mod EXCEPT ![m] = [mod[m] EXCEPT !.refs = n, !.flags = fl]],
             \/ n = mod[m].refs + 1 /\ "CAND" \notin fl
             \/ /\ mod[m].refs > 0 /\ n = mod[m].refs - 1
                /\ "CAND" \in fl =>
                     "CAND" \in mod[m].flags \/ (n = 0 /\ mod[m].deps = 0)
      PROVE  Holds(m)
  <2> DEFINE g == [mod[m] EXCEPT !.refs = n, !.flags = fl]
  <2>1. /\ g.name = mod[m].name /\ g.trans = mod[m].trans /\ g.refs = n
        /\ g.deps = mod[m].deps /\ g.dep = mod[m].dep /\ g.saved = mod[m].saved
        /\ g.flags = fl
    BY <1>1 DEF ModRec
  <2>2. mod' = [mod EXCEPT ![m] = g]
    BY <1>2
  <2> HIDE DEF g
  <2>3. mod'[m] = g /\ \A o \in Ids \ {m} : mod'[o] = mod[o]
    BY <1>1, <2>2
  <2>4. SameBut(mod, mod', m)
    BY <2>3 DEF SameBut, Keeps
  <2> QED  BY <1>1, <1>2, <2>1, <2>3, <2>4 DEF Holds
<1>3. CASE ModHold(m)
  <2> DEFINE n == mod[m].refs + 1
             fl == mod[m].flags \ {"CAND"}
  <2>1. mod' = [mod EXCEPT ![m] = [mod[m] EXCEPT !.refs = n, !.flags = fl]]
    BY <1>3, Zenon DEF ModHold, DlmHold, CandDel
  <2>2. "CAND" \notin fl
    OBVIOUS
  <2> QED  BY <1>2, <2>1, <2>2, Zenon
<1>4. CASE ModRele(m)
  <2> DEFINE n == mod[m].refs - 1
             fl == IF mod[m].refs = 1 /\ mod[m].deps = 0
                   THEN mod[m].flags \cup {"CAND"} ELSE mod[m].flags
  <2>1. mod' = [mod EXCEPT ![m] = [mod[m] EXCEPT !.refs = n, !.flags = fl]]
    BY <1>4, Zenon DEF ModRele, DlmRele, CandAdd
  <2>2. "CAND" \in fl => "CAND" \in mod[m].flags \/ (n = 0 /\ mod[m].deps = 0)
    BY <1>1 DEF ModRec
  <2>3. mod[m].refs > 0
    BY <1>4 DEF ModRele
  <2> QED  BY <1>2, <2>1, <2>2, <2>3, Zenon
<1> QED  BY <1>3, <1>4

LEMMA EveryStep ==
  ASSUME Inv, [Next]_vars
  PROVE  \/ \E p \in Procs : Acts(p)
         \/ \E m \in Ids : Holds(m)
         \/ UNCHANGED vars
<1>1. ASSUME NEW p \in Procs, LoadStep(p) PROVE Acts(p)
  <2>1. CASE \/ LoadRefused(p) \/ LoadAllocates(p) \/ OpenReturns(p)
             \/ ImageFails(p) \/ ModLoadFails(p) \/ Failed(p)
    BY <2>1, QuietLoads DEF Acts
  <2>2. CASE LoadWaits(p)
    BY <2>2, QuietFlags DEF Acts
  <2>3. CASE LoadFound(p)
    BY <2>3, QuietFlags, LoadFoundTakes DEF Acts
  <2>4. CASE LoadCreates(p) \/ Allocated(p)
    BY <2>4, CreatesBegins DEF Acts
  <2>5. CASE NextDep(p)
    BY <2>5, NextDepSteps DEF Acts
  <2>6. CASE ReadImage(p)
    BY <2>6, ReadImageCloses DEF Acts
  <2>7. CASE LoadSettles(p)
    BY <2>7, LoadSettlesSettles DEF Acts
  <2>8. CASE LinkFails(p) \/ FailSleeps(p)
    BY <2>8, LinkFailsPops DEF Acts
  <2>9. CASE FailUnloadReturns(p) \/ Fail(p) \/ FailCloses(p)
    BY <2>9, FreesRecord DEF Acts
  <2> QED  BY <1>1, <2>1, <2>2, <2>3, <2>4, <2>5, <2>6, <2>7, <2>8, <2>9 DEF LoadStep
<1>2. ASSUME NEW p \in Procs, UnloadStep(p) \/ Signal(p) PROVE Acts(p)
  <2>1. CASE Sweep(p)
    BY <2>1, UnloadStarts DEF Acts
  <2>2. CASE UnloadReturns(p)
    BY <2>2, FreesRecord DEF Acts
  <2>3. CASE UnloadFails(p) \/ UnloadInterrupted(p)
    BY <2>3, ReconnectUnmarks DEF Acts
  <2>4. CASE LoadInterrupted(p)
    BY <2>4, SignalQuiet DEF Acts
  <2> QED  BY <1>2, <2>1, <2>2, <2>3, <2>4 DEF UnloadStep, Signal
<1>3. ASSUME NEW p \in Procs, Call(p) \/ ModstatFill(p) \/ Return(p) PROVE Acts(p)
  <2>1. CASE \E m \in Ids : Moduload(p, m)
    BY <2>1, UnloadStarts DEF Acts
  <2>2. CASE \/ (\E n \in Names : Modload(p, n) \/ Loadname(p, n)) \/ ModuloadAll(p)
             \/ (\E m \in Ids : Modstat(p, m)) \/ ModstatFill(p) \/ Return(p)
    BY <2>2, QuietCalls DEF Acts
  <2> QED  BY <1>3, <2>1, <2>2 DEF Call
<1>4. ASSUME NEW m \in Ids, ModHold(m) \/ ModRele(m) PROVE Holds(m)
  BY <1>4, ModHoldHolds
<1> QED  BY <1>1, <1>2, <1>3, <1>4 DEF Next, Step
-----------------------------------------------------------------------------
(* The counts.                                                             *)

(* Steps that keep all of what the counts are about.                       *)
LEMMA KeptCounts ==
  ASSUME TypeOK, Counts(list, mod), list' = list, Same(mod, mod')
  PROVE  Counts(list', mod')
<1>1. \A o \in Ids : /\ mod'[o].dep = mod[o].dep /\ mod'[o].deps = mod[o].deps
                     /\ mod'[o].refs = mod[o].refs /\ mod'[o].trans = mod[o].trans
                     /\ ("CAND" \in mod'[o].flags => "CAND" \in mod[o].flags)
  BY DEF Same, Keeps
<1>2. list \in SUBSET Ids
  BY DEF TypeOK
<1>3. Quiet(list, mod')
  BY <1>1, <1>2 DEF Counts, Quiet
<1>4. Cand(list, mod')
  BY <1>1 DEF Counts, Cand
<1>5. Counts(list, mod')
  BY <1>1, <1>2, <1>3, <1>4, SameCounts
<1> QED  BY <1>5

(* Steps that change one record, but neither its count nor what it uses.   *)
LEMMA OneCounts ==
  ASSUME NEW f, NEW g, list \in SUBSET Ids, Counts(list, f), NEW m \in Ids,
         SameBut(f, g, m), g[m].deps = f[m].deps, g[m].dep = f[m].dep,
         g[m].trans # "no" => g[m].refs = 0 /\ g[m].deps = 0,
         "CAND" \in g[m].flags => m \in list /\ g[m].refs = 0 /\ g[m].deps = 0
  PROVE  Counts(list, g)
<1>1. \A o \in Ids \ {m} :
        /\ g[o].dep = f[o].dep /\ g[o].deps = f[o].deps
        /\ g[o].refs = f[o].refs /\ g[o].trans = f[o].trans
        /\ ("CAND" \in g[o].flags => "CAND" \in f[o].flags)
  BY DEF SameBut, Keeps
<1>2. Quiet(list, g)
  BY <1>1 DEF Counts, Quiet
<1>3. Cand(list, g)
  BY <1>1 DEF Counts, Cand
<1>4. \A o \in Ids : g[o].dep = f[o].dep /\ g[o].deps = f[o].deps
  BY <1>1
<1> QED  BY <1>2, <1>3, <1>4, SameCounts

LEMMA CountsStep ==
  ASSUME Inv, Counts(list, mod), [Next]_vars
  PROVE  Counts(list', mod')
<1>1. /\ TypeOK /\ list \in SUBSET Ids /\ mod \in [Ids -> ModRec]
      /\ \A m \in Ids : mod[m].refs \in Nat
  BY DEF Inv, TypeOK, ModRec
<1>2. \A m \in list : mod[m].trans # "no" => mod[m].refs = 0 /\ mod[m].deps = 0
  BY DEF Counts, Quiet
<1>3. \A m \in Ids : "CAND" \in mod[m].flags => m \in list /\ mod[m].refs = 0 /\ mod[m].deps = 0
  BY DEF Counts, Cand
<1>4. ASSUME NEW p \in Procs, Quietly(p) \/ Leaves(p) PROVE Counts(list', mod')
  BY <1>1, <1>4, KeptCounts DEF Quietly, Leaves
<1>5. ASSUME NEW p \in Procs, Begins(p) PROVE Counts(list', mod')
  <2>1. Counts(list \cup {nextid}, mod')
    BY <1>1, <1>5, NewCounts DEF Begins
  <2> QED  BY <1>5, <2>1 DEF Begins
<1>6. ASSUME NEW p \in Procs, NEW m \in Ids, Frees(p, m) PROVE Counts(list', mod')
  <2>1. FreeMod(m) /\ m \in list /\ mod[m].trans # "no"
    BY <1>6 DEF Frees
  <2> QED  BY <1>1, <2>1, FreeCounts
<1>7. ASSUME NEW p \in Procs, NEW m \in Ids, Marks(p, m) \/ Unmarks(p, m)
      PROVE  Counts(list', mod')
  <2>1. /\ SameBut(mod, mod', m) /\ mod'[m].deps = mod[m].deps /\ mod'[m].dep = mod[m].dep
        /\ (mod'[m].trans # "no" => mod'[m].refs = 0 /\ mod'[m].deps = 0)
        /\ mod'[m].refs = mod[m].refs /\ list' = list
        /\ ("CAND" \in mod'[m].flags => "CAND" \in mod[m].flags)
    BY <1>7 DEF Marks, Unmarks
  <2>2. Counts(list, mod')
    BY <1>1, <1>3, <2>1, OneCounts
  <2> QED  BY <2>1, <2>2
<1>8. ASSUME NEW m \in Ids, Holds(m) PROVE Counts(list', mod')
  <2>1. /\ SameBut(mod, mod', m) /\ mod'[m].deps = mod[m].deps /\ mod'[m].dep = mod[m].dep
        /\ mod'[m].trans = "no" /\ list' = list /\ m \in list
    BY <1>8 DEF Holds
  <2>2. "CAND" \in mod'[m].flags => mod'[m].refs = 0 /\ mod'[m].deps = 0
    BY <1>1, <1>3, <1>8 DEF Holds
  <2>3. Counts(list, mod')
    BY <1>1, <2>1, <2>2, OneCounts
  <2> QED  BY <2>1, <2>3
<1>9. ASSUME NEW p \in Procs, pr[p].stk # <<>>
      PROVE  /\ Head(pr[p].stk) \in Ids /\ Head(pr[p].stk) \in list
             /\ mod[Head(pr[p].stk)].trans = "loading"
             /\ Tail(pr[p].stk) # <<>> =>
                  /\ Head(Tail(pr[p].stk)) \in Ids /\ Head(Tail(pr[p].stk)) \in list
                  /\ mod[Head(Tail(pr[p].stk))].trans = "loading"
                  /\ Head(Tail(pr[p].stk)) # Head(pr[p].stk)
  <2> DEFINE s == pr[p].stk
  <2>1. s \in Seq(Ids) /\ s # <<>> /\ \A i, j \in DOMAIN s : s[i] = s[j] => i = j
    BY <1>9 DEF Inv, TypeOK, ProcRec, ProcOK, Placed
  <2>2. /\ Head(s) = s[1] /\ 1 \in DOMAIN s /\ Head(s) \in Ids
        /\ Tail(s) # <<>> => Head(Tail(s)) = s[2] /\ 2 \in DOMAIN s /\ s[2] \in Ids
    BY <2>1
  <2>3. \A i \in DOMAIN s : s[i] \in list /\ mod[s[i]].trans = "loading"
    BY DEF Inv, OwnMarked, LoadsOf, Frames
  <2> HIDE DEF s
  <2>4. Tail(s) # <<>> => s[2] # s[1]
    BY <2>1, <2>2
  <2>5. /\ Head(s) \in Ids /\ Head(s) \in list /\ mod[Head(s)].trans = "loading"
        /\ Tail(s) # <<>> =>
             /\ Head(Tail(s)) \in Ids /\ Head(Tail(s)) \in list
             /\ mod[Head(Tail(s))].trans = "loading" /\ Head(Tail(s)) # Head(s)
    BY <2>2, <2>3, <2>4
  <2> QED  BY <2>5 DEF s
<1>10. ASSUME NEW p \in Procs, pr[p].stk # <<>>, Steps(p) \/ Closes(p)
       PROVE  Counts(list', mod')
  <2> DEFINE m == Head(pr[p].stk)
  <2>1. /\ SameBut(mod, mod', m) /\ mod'[m].deps = mod[m].deps /\ mod'[m].dep = mod[m].dep
        /\ mod'[m].trans = mod[m].trans /\ mod'[m].refs = mod[m].refs /\ list' = list
        /\ ("CAND" \in mod'[m].flags => "CAND" \in mod[m].flags)
    BY <1>10 DEF Steps, Closes
  <2>2. m \in Ids /\ m \in list
    BY <1>9, <1>10
  <2> HIDE DEF m
  <2>3. Counts(list, mod')
    BY <1>1, <1>2, <1>3, <2>1, <2>2, OneCounts
  <2> QED  BY <2>1, <2>3
<1>11. ASSUME NEW p \in Procs, Pops(p) PROVE Counts(list', mod')
  BY <1>11 DEF Pops
<1>12. ASSUME NEW p \in Procs, pr[p].stk # <<>>, NEW m \in Ids, Takes(p, m)
       PROVE  Counts(list', mod')
  <2>1. /\ m \in list /\ mod[m].trans = "no" /\ list' = list
        /\ mod' = DepAdd(mod, Head(pr[p].stk), m)
    BY <1>12 DEF Takes
  <2>2. Head(pr[p].stk) \in list /\ mod[Head(pr[p].stk)].trans # "no"
    BY <1>9, <1>12
  <2>3. Counts(list, DepAdd(mod, Head(pr[p].stk), m))
    BY <1>1, <2>1, <2>2, AddCounts
  <2> QED  BY <2>1, <2>3
<1>13. ASSUME NEW p \in Procs, pr[p].stk # <<>>, NEW f, Settles(p, f)
       PROVE  Counts(list', mod')
  <2> DEFINE m == Head(pr[p].stk)
             s == Tail(pr[p].stk)
  <2>1. /\ m \in Ids /\ m \in list /\ mod[m].trans = "loading"
        /\ s # <<>> => /\ Head(s) \in Ids /\ Head(s) \in list
                       /\ mod[Head(s)].trans = "loading" /\ Head(s) # m
    BY <1>9, <1>13
  <2>2. /\ list' = list /\ f \in [Ids -> ModRec] /\ SameBut(mod, f, m) /\ f[m].trans = "no"
        /\ f[m].refs = mod[m].refs /\ f[m].deps = mod[m].deps /\ f[m].dep = mod[m].dep
        /\ ("CAND" \in f[m].flags => "CAND" \in mod[m].flags) /\ mod' = Taken(f, s, m)
    BY <1>13 DEF Settles
  <2> HIDE DEF m, s
  <2>3. Counts(list, f)
    BY <1>1, <1>3, <2>1, <2>2, OneCounts
  <2>4. CASE s = <<>>
    BY <2>2, <2>3, <2>4 DEF Taken
  <2>5. CASE s # <<>>
    <3>1. f[Head(s)].trans # "no"
      BY <2>1, <2>2, <2>5 DEF SameBut, Keeps
    <3>2. Counts(list, DepAdd(f, Head(s), m))
      BY <1>1, <2>1, <2>2, <2>3, <2>5, <3>1, AddCounts
    <3> QED  BY <2>2, <2>5, <3>2 DEF Taken
  <2> QED  BY <2>4, <2>5
<1>14. CASE UNCHANGED vars
  BY <1>14 DEF vars
<1> QED
  BY <1>4, <1>5, <1>6, <1>7, <1>8, <1>10, <1>11, <1>12, <1>13, <1>14, EveryStep DEF Acts

-----------------------------------------------------------------------------
(* Steps that keep the frames.                                             *)
LEMMA CredLike ==
  ASSUME NEW q \in ProcRec, NEW s \in ProcRec, CredOK(q, mod),
         s.stk = q.stk, s.cred = q.cred,
         \A i \in 1 .. Len(q.stk) : mod'[q.stk[i]].saved = mod[q.stk[i]].saved,
         \/ q.stk = <<>>
         \/ /\ s.op = q.op
            /\ \/ s.pc = "fail"
               \/ q.pc \notin {"inload", "fail"} /\ s.pc # "inload"
  PROVE  CredOK(s, mod')
<1> DEFINE n == Len(q.stk)
<1>1. q.stk \in Seq(Ids) /\ n \in Nat /\ (n = 0 <=> q.stk = <<>>)
  BY DEF ProcRec
<1>2. n > 0 => 1 \in 1 .. n
  BY <1>1
<1> QED  BY <1>1, <1>2 DEF CredOK

(* Steps that pop a frame, giving back what it saved.                      *)
LEMMA CredPop ==
  ASSUME NEW q \in ProcRec, NEW s \in ProcRec, CredOK(q, mod),
         q.stk # <<>>, s.stk = Tail(q.stk), s.op = q.op, s.pc # "inload",
         s.cred = IF mod[q.stk[1]].saved = "none" THEN q.cred ELSE mod[q.stk[1]].saved,
         \A i \in 2 .. Len(q.stk) : mod'[q.stk[i]].saved = mod[q.stk[i]].saved
  PROVE  CredOK(s, mod')
<1> DEFINE n == Len(q.stk)
<1>1. /\ q.stk \in Seq(Ids) /\ n \in Nat /\ n > 0 /\ Len(s.stk) = n - 1
      /\ \A i \in 1 .. n - 1 : s.stk[i] = q.stk[i + 1] /\ i + 1 \in 2 .. n
  BY DEF ProcRec
<1> HIDE DEF n
<1>2. ASSUME NEW i \in 1 .. n - 1
      PROVE  mod'[s.stk[i]].saved = Saves(s.op, n - 1, i)
  <2>1. i + 1 \in 1 .. n /\ i + 1 # 1
    BY <1>1
  <2>2. mod[q.stk[i + 1]].saved = Saves(q.op, n, i + 1)
    BY <2>1 DEF CredOK, n
  <2>3. Saves(q.op, n, i + 1) = Saves(q.op, n - 1, i)
    BY <1>1 DEF Saves, Before
  <2> QED  BY <1>1, <2>2, <2>3 DEF n
<1>3. /\ mod[q.stk[1]].saved = Saves(q.op, n, 1) \/ mod[q.stk[1]].saved = "none"
      /\ q.cred = IF mod[q.stk[1]].saved = "none" THEN Before(q.op, n, 1) ELSE "sys"
  BY <1>1 DEF CredOK, n
<1>4. n - 1 > 0 => mod'[s.stk[1]].saved = Saves(s.op, n - 1, 1)
  BY <1>1, <1>2
<1>5. s.cred = IF n - 1 = 0 THEN "user"
               ELSE IF mod'[s.stk[1]].saved = "none" THEN Before(s.op, n - 1, 1) ELSE "sys"
  BY <1>1, <1>3, <1>4 DEF Saves, Before
<1> QED  BY <1>1, <1>2, <1>5 DEF CredOK

(* Steps that push a frame.                                                *)
LEMMA CredPush ==
  ASSUME NEW q \in ProcRec, NEW s \in ProcRec, CredOK(q, mod), NEW x \in Ids,
         s.stk = <<x>> \o q.stk, s.op = q.op, s.pc = "open", q.pc \notin {"inload", "fail"},
         mod'[x].saved = IF q.op # "modload" \/ q.stk # <<>> THEN q.cred ELSE "none",
         s.cred = IF q.op # "modload" \/ q.stk # <<>> THEN "sys" ELSE q.cred,
         \A i \in 1 .. Len(q.stk) : mod'[q.stk[i]].saved = mod[q.stk[i]].saved
  PROVE  CredOK(s, mod')
<1> DEFINE n == Len(q.stk)
<1>1. /\ q.stk \in Seq(Ids) /\ n \in Nat /\ (n = 0 <=> q.stk = <<>>)
  BY DEF ProcRec
<1>2. /\ DOMAIN s.stk = 1 .. n + 1 /\ Len(s.stk) = n + 1 /\ s.stk[1] = x
      /\ \A i \in 2 .. n + 1 : s.stk[i] = q.stk[i - 1] /\ i - 1 \in 1 .. n
  <2>1. s.stk \in Seq(Ids)
    BY DEF ProcRec
  <2>2. /\ DOMAIN s.stk = 1 .. n + 1
        /\ \A i \in DOMAIN s.stk : s.stk[i] = IF i = 1 THEN x ELSE q.stk[i - 1]
    BY <1>1, PushFacts
  <2> QED  BY <1>1, <2>1, <2>2, LenProperties
<1> HIDE DEF n
<1>3. /\ n > 0 => mod[q.stk[1]].saved = Saves(q.op, n, 1)
      /\ q.cred = IF n = 0 THEN "user"
                  ELSE IF mod[q.stk[1]].saved = "none" THEN Before(q.op, n, 1) ELSE "sys"
  BY <1>1 DEF CredOK, n
<1>4. mod'[x].saved = Saves(s.op, n + 1, 1)
  BY <1>1, <1>3 DEF Saves, Before
<1>5. s.cred = IF mod'[x].saved = "none" THEN Before(s.op, n + 1, 1) ELSE "sys"
  BY <1>1, <1>3 DEF Saves, Before
<1>6. ASSUME NEW i \in 2 .. n + 1
      PROVE  mod'[s.stk[i]].saved = Saves(s.op, n + 1, i)
  <2>1. mod[q.stk[i - 1]].saved = Saves(q.op, n, i - 1)
    BY <1>2 DEF CredOK, n
  <2>2. Saves(q.op, n, i - 1) = Saves(q.op, n + 1, i)
    BY <1>1 DEF Saves, Before
  <2> QED  BY <1>2, <2>1, <2>2 DEF n
<1> QED  BY <1>1, <1>2, <1>4, <1>5, <1>6 DEF CredOK

(* What a process's frames are: distinct loading records of its own.       *)
LEMMA FramesFacts ==
  ASSUME Inv, NEW p \in Procs
  PROVE  /\ pr[p] \in ProcRec /\ pr[p].stk \in Seq(Ids)
         /\ \A i \in 1 .. Len(pr[p].stk) :
              /\ pr[p].stk[i] \in list /\ pr[p].stk[i] \in Ids
              /\ mod[pr[p].stk[i]].trans = "loading" /\ mod[pr[p].stk[i]].owner = p
              /\ i # 1 => pr[p].stk[i] # pr[p].stk[1]
         /\ pr[p].stk # <<>> =>
              1 \in 1 .. Len(pr[p].stk) /\ Head(pr[p].stk) = pr[p].stk[1]
<1> DEFINE s == pr[p].stk
<1>1. /\ pr[p] \in ProcRec /\ s \in Seq(Ids)
      /\ \A i, j \in DOMAIN s : s[i] = s[j] => i = j
  BY DEF Inv, TypeOK, ProcRec, ProcOK, Placed
<1>2. \A i \in DOMAIN s : s[i] \in list /\ mod[s[i]].trans = "loading" /\ mod[s[i]].owner = p
  BY DEF Inv, OwnMarked, LoadsOf, Frames
<1>3. /\ DOMAIN s = 1 .. Len(s) /\ Len(s) \in Nat
      /\ s # <<>> => 1 \in 1 .. Len(s) /\ Head(s) = s[1]
      /\ \A i \in 1 .. Len(s) : s[i] \in Ids
  BY <1>1
<1> HIDE DEF s
<1>4. \A i \in 1 .. Len(s) : i # 1 => s[i] # s[1]
  BY <1>1, <1>3
<1> QED  BY <1>1, <1>2, <1>3, <1>4 DEF s

LEMMA Rejoined ==
  ASSUME NEW k \in Seq(Ids), k # <<>>
  PROVE  <<Head(k)>> \o Tail(k) = k
<1>1. /\ Head(k) \in Ids /\ Tail(k) \in Seq(Ids) /\ Head(k) = k[1]
      /\ Len(Tail(k)) = Len(k) - 1 /\ Len(k) \in Nat
      /\ \A i \in 1 .. Len(k) : i = 1 \/ k[i] = Tail(k)[i - 1]
  BY TailFacts
<1> DEFINE j == <<Head(k)>> \o Tail(k)
<1>2. /\ j \in Seq(Ids) /\ DOMAIN j = 1 .. Len(k)
      /\ \A i \in 1 .. Len(k) : j[i] = IF i = 1 THEN k[1] ELSE Tail(k)[i - 1]
  BY <1>1, PushFacts
<1> HIDE DEF j
<1>3. \A i \in 1 .. Len(k) : j[i] = k[i]
  BY <1>1, <1>2
<1>4. Len(j) = Len(k)
  BY <1>1, <1>2, LenProperties
<1>5. j = k
  BY <1>2, <1>3, <1>4, SeqEqual
<1> QED  BY <1>5 DEF j

LEMMA TailJoined ==
  ASSUME NEW k \in Seq(Ids), NEW x \in Ids
  PROVE  Tail(<<x>> \o k) = k
<1> DEFINE j == <<x>> \o k
<1>1. /\ j \in Seq(Ids) /\ j # <<>> /\ DOMAIN j = 1 .. (Len(k) + 1) /\ Len(k) \in Nat
      /\ \A i \in 1 .. (Len(k) + 1) : j[i] = IF i = 1 THEN x ELSE k[i - 1]
  BY PushFacts
<1> HIDE DEF j
<1>2. Len(j) = Len(k) + 1
  BY <1>1, LenProperties
<1>3. /\ Tail(j) \in Seq(Ids) /\ DOMAIN Tail(j) = 1 .. Len(k)
      /\ \A i \in 1 .. Len(k) : Tail(j)[i] = j[i + 1]
  BY <1>1, <1>2, TailFacts
<1>4. \A i \in 1 .. Len(k) : Tail(j)[i] = k[i]
  BY <1>1, <1>3
<1>5. Len(Tail(j)) = Len(k)
  BY <1>1, <1>3, LenProperties
<1>6. Tail(j) = k
  BY <1>3, <1>4, <1>5, SeqEqual
<1> QED  BY <1>6 DEF j

(* What a process has while it closes the file of a load that failed.      *)
LEMMA ChainFields ==
  ASSUME NEW q \in ProcRec, q.pc = "failcl", q.cur \in Ids
  PROVE  LET c == Chained(q)
         IN  /\ c \in ProcRec /\ c.pc = "fail" /\ c.op = q.op /\ c.cred = q.cred
             /\ c.stk = <<q.cur>> \o q.stk /\ Tail(c.stk) = q.stk /\ c.stk # <<>>
             /\ c.stk[1] = q.cur /\ Len(c.stk) = Len(q.stk) + 1 /\ Len(q.stk) \in Nat
             /\ \A i \in 2 .. Len(c.stk) :
                  c.stk[i] = q.stk[i - 1] /\ i - 1 \in 1 .. Len(q.stk)
<1> DEFINE k == <<q.cur>> \o q.stk
           c == [q EXCEPT !.pc = "fail", !.stk = k]
<1>1. q.stk \in Seq(Ids) /\ Len(q.stk) \in Nat
  BY DEF ProcRec
<1>2. /\ k \in Seq(Ids) /\ k # <<>> /\ DOMAIN k = 1 .. (Len(q.stk) + 1)
      /\ \A i \in 1 .. (Len(q.stk) + 1) : k[i] = IF i = 1 THEN q.cur ELSE q.stk[i - 1]
  BY <1>1, PushFacts
<1>3. Tail(k) = q.stk
  BY <1>1, TailJoined
<1>4. Chained(q) = c
  BY DEF Chained
<1> HIDE DEF k
<1>5. Len(k) = Len(q.stk) + 1
  BY <1>1, <1>2, LenProperties
<1>6. c \in ProcRec /\ c.pc = "fail" /\ c.op = q.op /\ c.cred = q.cred /\ c.stk = k
  BY <1>2 DEF ProcRec, OnCpu
<1> HIDE DEF c
<1>7. k[1] = q.cur /\ \A i \in 2 .. Len(k) : k[i] = q.stk[i - 1] /\ i - 1 \in 1 .. Len(q.stk)
  BY <1>1, <1>2, <1>5
<1>8. c.stk = <<q.cur>> \o q.stk
  BY <1>6 DEF k
<1> QED  BY <1>1, <1>2, <1>3, <1>4, <1>5, <1>6, <1>7, <1>8

LEMMA ChainFacts ==
  ASSUME Inv, NEW p \in Procs, pr[p].pc = "failcl"
  PROVE  /\ pr[p].cur \in Ids /\ pr[p].cur \in list /\ mod[pr[p].cur].owner = p
         /\ mod[pr[p].cur].trans = "loading"
         /\ \A i \in 1 .. Len(pr[p].stk) : pr[p].stk[i] # pr[p].cur
<1>1. pr[p].cur \in Ids /\ pr[p].cur \notin Frames(p) /\ pr[p].stk \in Seq(Ids)
  BY FramesFacts DEF Inv, ProcOK, Placed
<1>2. pr[p].cur \in LoadsOf(p)
  BY DEF LoadsOf
<1> QED  BY <1>1, <1>2 DEF Inv, OwnMarked, Frames

(* A process that does not move keeps its credentials.                     *)
LEMMA OthersCred ==
  ASSUME Inv, Creds, NEW q \in Procs, WokenOrSame(q), NEW m,
         \A i \in 1 .. Len(pr[q].stk) : pr[q].stk[i] # m,
         pr[q].pc = "failcl" => pr[q].cur # m,
         \A o \in Ids \ {m} : mod'[o].saved = mod[o].saved
  PROVE  CredOK(Chained(pr'[q]), mod')
<1>1. pr[q] \in ProcRec /\ CredOK(Chained(pr[q]), mod)
  BY FramesFacts DEF Creds
<1>2. \A i \in 1 .. Len(pr[q].stk) : mod'[pr[q].stk[i]].saved = mod[pr[q].stk[i]].saved
  BY FramesFacts
<1>3. CASE pr'[q] = pr[q]
  <2> DEFINE c == Chained(pr[q])
  <2>1. /\ c \in ProcRec
        /\ \A i \in 1 .. Len(c.stk) : mod'[c.stk[i]].saved = mod[c.stk[i]].saved
    <3>1. CASE pr[q].pc = "failcl"
      <4>1. mod'[pr[q].cur].saved = mod[pr[q].cur].saved /\ pr[q].cur \in Ids
        BY <3>1, ChainFacts
      <4>2. /\ c \in ProcRec /\ c.stk[1] = pr[q].cur
            /\ Len(c.stk) = Len(pr[q].stk) + 1 /\ Len(pr[q].stk) \in Nat
            /\ \A i \in 2 .. Len(c.stk) :
                 c.stk[i] = pr[q].stk[i - 1] /\ i - 1 \in 1 .. Len(pr[q].stk)
        BY <1>1, <3>1, <4>1, ChainFields
      <4> HIDE DEF c
      <4>3. ASSUME NEW i \in 1 .. Len(c.stk)
            PROVE  mod'[c.stk[i]].saved = mod[c.stk[i]].saved
        <5>1. CASE i = 1
          BY <4>1, <4>2, <5>1
        <5>2. CASE i # 1
          <6>1. i \in 2 .. Len(c.stk)
            BY <4>2, <5>2
          <6>2. i - 1 \in 1 .. Len(pr[q].stk) /\ c.stk[i] = pr[q].stk[i - 1]
            BY <4>2, <6>1
          <6> QED  BY <1>2, <6>2
        <5> QED  BY <5>1, <5>2
      <4> QED  BY <4>2, <4>3
    <3>2. CASE pr[q].pc # "failcl"
      BY <1>1, <1>2, <3>2 DEF Chained
    <3> QED  BY <3>1, <3>2
  <2>2. c.stk \in Seq(Ids)
    BY <2>1 DEF ProcRec
  <2> HIDE DEF c
  <2>3. CredOK(c, mod')
    BY <1>1, <2>1, <2>2 DEF CredOK, c
  <2> QED  BY <1>3, <2>3 DEF c
<1>4. CASE pr[q].pc = "wait" /\ pr'[q] = [pr[q] EXCEPT !.pc = "woken", !.cur = 0]
  <2>1. /\ pr'[q] \in ProcRec /\ pr'[q].pc = "woken" /\ pr'[q].stk = pr[q].stk
        /\ pr'[q].cred = pr[q].cred /\ pr'[q].op = pr[q].op
    BY <1>1, <1>4 DEF ProcRec, Asleep
  <2>2. Chained(pr[q]) = pr[q] /\ Chained(pr'[q]) = pr'[q]
    BY <1>4, <2>1 DEF Chained
  <2> QED  BY <1>1, <1>2, <1>4, <2>1, <2>2, CredLike
<1> QED  BY <1>3, <1>4 DEF WokenOrSame

(* A load that takes a dependency touches no kept credentials, and no      *)
(* place but its own.                                                      *)
LEMMA SavedSame ==
  ASSUME Inv, NEW p \in Procs, pr[p].stk # <<>>,
         (\E f : Settles(p, f)) \/ (\E m \in Ids : Takes(p, m))
  PROVE  \A o \in Ids : /\ mod'[o].saved = mod[o].saved
                        /\ o # Head(pr[p].stk) => mod'[o].at = mod[o].at
<1> DEFINE h == Head(pr[p].stk)
<1>1. mod \in [Ids -> ModRec] /\ list \subseteq Ids /\ h \in Ids /\ mod[h].trans = "loading"
  BY FramesFacts DEF Inv, TypeOK
<1> HIDE DEF h
<1>2. ASSUME NEW m \in Ids, Takes(p, m)
      PROVE  \A o \in Ids : mod'[o].saved = mod[o].saved /\ mod'[o].at = mod[o].at
  <2>1. Depended(mod, h, m, mod')
    BY <1>1, <1>2, DepAddFields DEF Takes, h
  <2> QED  BY <2>1 DEF Depended
<1>3. ASSUME NEW f, Settles(p, f)
      PROVE  \A o \in Ids : mod'[o].saved = mod[o].saved /\ (o # h => mod'[o].at = mod[o].at)
  <2> DEFINE s == Tail(pr[p].stk)
  <2>1. s # <<>> => Head(s) \in Ids /\ Head(s) # h
    <3>1. s # <<>> => Head(s) = pr[p].stk[2] /\ 2 \in 1 .. Len(pr[p].stk)
      BY <1>3, FramesFacts
    <3> QED  BY <1>3, <3>1, FramesFacts DEF h
  <2>2. /\ f \in [Ids -> ModRec] /\ SameBut(mod, f, h)
        /\ f[h].saved = mod[h].saved /\ mod' = Taken(f, s, h)
    BY <1>3, Zenon DEF Settles, h
  <2> HIDE DEF s
  <2>3. \A o \in Ids : f[o].saved = mod[o].saved /\ (o # h => f[o].at = mod[o].at)
    BY <2>1, <2>2 DEF SameBut, Keeps
  <2>4. CASE s = <<>>
    BY <2>2, <2>3, <2>4 DEF Taken
  <2>5. CASE s # <<>>
    <3>1. Depended(f, Head(s), h, mod')
      BY <1>1, <2>1, <2>2, <2>5, DepAddFields DEF Taken
    <3> QED  BY <2>2, <2>3, <3>1 DEF Depended
  <2> QED  BY <2>4, <2>5
<1> QED  BY <1>2, <1>3 DEF h

LEMMA SavedKept ==
  ASSUME Inv, NEW p \in Procs, Acts(p)
  PROVE  OnlyMoves(p) /\ \E m \in Ids \cup {0} : Apart(p, m)
<1>1. \A q \in Procs : \A i \in 1 .. Len(pr[q].stk) :
        /\ pr[q].stk[i] \in list /\ pr[q].stk[i] \in Ids /\ pr[q].stk[i] # 0
        /\ mod[pr[q].stk[i]].owner = q /\ mod[pr[q].stk[i]].trans = "loading"
  BY FramesFacts DEF Ids
<1>8. \A q \in Procs : pr[q].pc = "failcl" =>
        /\ pr[q].cur \in list /\ pr[q].cur # 0
        /\ mod[pr[q].cur].owner = q /\ mod[pr[q].cur].trans = "loading"
  BY ChainFacts DEF Ids
<1>2. ASSUME NEW m \in Ids \cup {0},
             m = 0 \/ m \notin list \/ mod[m].trans # "loading" \/ mod[m].owner = p,
             \A o \in Ids \ {m} : mod'[o].saved = mod[o].saved /\ mod'[o].at = mod[o].at
      PROVE  Apart(p, m)
  BY <1>1, <1>2, <1>8 DEF Apart
<1>3. CASE Quietly(p) \/ Leaves(p)
  <2>1. \A o \in Ids \ {0} : mod'[o].saved = mod[o].saved /\ mod'[o].at = mod[o].at
    BY <1>3 DEF Quietly, Leaves, Same, Keeps
  <2>2. Apart(p, 0)
    BY <1>2, <2>1
  <2> QED  BY <1>3, <2>2 DEF Quietly, Leaves
<1>4. CASE Begins(p)
  <2>1. nextid \in Ids /\ Apart(p, nextid)
    BY <1>2, <1>4 DEF Begins
  <2> QED  BY <1>4, <2>1 DEF Begins
<1>5. ASSUME NEW m \in Ids, Marks(p, m) \/ Unmarks(p, m)
      PROVE  OnlyMoves(p) /\ Apart(p, m)
  <2>1. /\ OnlyMoves(p) /\ mod[m].trans # "loading"
        /\ \A o \in Ids \ {m} : mod'[o].saved = mod[o].saved /\ mod'[o].at = mod[o].at
    BY <1>5 DEF Marks, Unmarks, SameBut, Keeps
  <2> QED  BY <1>2, <2>1
<1>6. ASSUME NEW m \in Ids, Frees(p, m)
      PROVE  OnlyMoves(p) /\ Apart(p, m)
  <2>1. Freed(m, mod') /\ OnlyMoves(p)
    BY <1>6, FreeFields DEF Frees, Inv
  <2>2. \A o \in Ids \ {m} : mod'[o].saved = mod[o].saved /\ mod'[o].at = mod[o].at
    BY <2>1 DEF Freed
  <2>3. mod[m].trans = "unloading" \/ mod[m].owner = p
    <3>1. CASE pr[p].stk # <<>> /\ m = Head(pr[p].stk)
      BY <3>1, FramesFacts
    <3>2. CASE pr[p].pc \in {"failun", "failcl"} /\ m = pr[p].cur
      BY <3>2 DEF Inv, OwnMarked, LoadsOf
    <3> QED  BY <1>6, <3>1, <3>2 DEF Frees
  <2> QED  BY <1>2, <2>1, <2>2, <2>3
<1>7. CASE /\ pr[p].stk # <<>>
           /\ \/ Steps(p) \/ Closes(p) \/ Pops(p)
              \/ (\E f : Settles(p, f)) \/ (\E m \in Ids : Takes(p, m))
  <2> DEFINE m == Head(pr[p].stk)
  <2>1. m \in Ids /\ mod[m].owner = p
    BY <1>7, FramesFacts
  <2>2. OnlyMoves(p)
    BY <1>7, Zenon DEF Steps, Closes, Pops, Settles, Takes
  <2>3. \A o \in Ids \ {m} : mod'[o].saved = mod[o].saved /\ mod'[o].at = mod[o].at
    <3>1. CASE Steps(p) \/ Closes(p) \/ Pops(p)
      BY <3>1, Zenon DEF Steps, Closes, Pops, SameBut, Keeps
    <3>2. CASE (\E f : Settles(p, f)) \/ (\E o \in Ids : Takes(p, o))
      BY <1>7, <3>2, SavedSame
    <3> QED  BY <1>7, <3>1, <3>2
  <2> HIDE DEF m
  <2> QED  BY <1>2, <2>1, <2>2, <2>3
<1> QED  BY <1>3, <1>4, <1>5, <1>6, <1>7 DEF Acts

(* The process that moves: what it has is what its frames would give back. *)
LEMMA OwnCred ==
  ASSUME Inv, Inv', NEW p \in Procs, CredOK(pr[p], mod), NotShutting(p), Acts(p)
  PROVE  CredOK(pr'[p], mod')
<1> DEFINE k == pr[p].stk
<1>1. /\ pr[p] \in ProcRec /\ pr'[p] \in ProcRec /\ CredOK(pr[p], mod)
      /\ k \in Seq(Ids) /\ list \subseteq Ids /\ mod \in [Ids -> ModRec]
  BY FramesFacts DEF Inv, TypeOK
<1>2. \A i \in 1 .. Len(k) :
        /\ k[i] \in list /\ k[i] \in Ids /\ mod[k[i]].trans = "loading"
        /\ i # 1 => k[i] # k[1]
  BY FramesFacts
<1>3. k # <<>> => 1 \in 1 .. Len(k) /\ Head(k) = k[1]
  BY FramesFacts
<1> HIDE DEF k
<1>4. CASE Quietly(p)
  <2>1. \A i \in 1 .. Len(k) : mod'[k[i]].saved = mod[k[i]].saved
    BY <1>2, <1>4 DEF Quietly, Same, Keeps
  <2>2. \/ k = <<>>
        \/ /\ pr'[p].op = pr[p].op
           /\ \/ pr'[p].pc = "fail"
              \/ pr[p].pc \notin {"inload", "fail"} /\ pr'[p].pc # "inload"
    BY <1>4 DEF Quietly, Asks, k
  <2> QED  BY <1>1, <1>4, <2>1, <2>2, CredLike DEF Quietly, k
<1>5. CASE Begins(p)
  <2>1. \A i \in 1 .. Len(k) : mod'[k[i]].saved = mod[k[i]].saved
    BY <1>2, <1>5 DEF Begins
  <2> QED  BY <1>1, <1>5, <2>1, CredPush DEF Begins, IsSys, Asks, k
<1>6. ASSUME NEW m \in Ids, Marks(p, m) \/ Unmarks(p, m)
      PROVE  CredOK(pr'[p], mod')
  <2>1. k = <<>> /\ pr'[p].stk = k /\ pr'[p].cred = pr[p].cred
    BY <1>6 DEF Marks, Unmarks, k
  <2>2. \A i \in 1 .. Len(k) : mod'[k[i]].saved = mod[k[i]].saved
    BY <2>1
  <2> QED  BY <1>1, <2>1, <2>2, CredLike DEF k
<1>7. ASSUME NEW m \in Ids, Frees(p, m) PROVE CredOK(pr'[p], mod')
  <2>1. \A o \in Ids \ {m} : mod'[o].saved = mod[o].saved
    <3>1. Freed(m, mod')
      BY <1>7, FreeFields DEF Frees, Inv
    <3> QED  BY <3>1 DEF Freed
  <2>2. CASE /\ k # <<>> /\ m = Head(k) /\ pr'[p].stk = Tail(k) /\ pr'[p].pc = "fail"
             /\ pr'[p].op = pr[p].op /\ pr'[p].cred = Restored(p, m)
    <3>1. \A i \in 2 .. Len(k) : mod'[k[i]].saved = mod[k[i]].saved
      BY <1>1, <1>2, <1>3, <2>1, <2>2
    <3> QED  BY <1>1, <1>3, <2>2, <3>1, CredPop DEF Restored, k
  <2>3. CASE /\ pr'[p].pc = "fail" /\ m \notin Frames(p) /\ pr'[p].stk = k
             /\ pr'[p].op = pr[p].op /\ pr'[p].cred = pr[p].cred
    <3>1. \A i \in 1 .. Len(k) : k[i] # m
      BY <1>1, <2>3 DEF Frames, k
    <3>2. \A i \in 1 .. Len(k) : mod'[k[i]].saved = mod[k[i]].saved
      BY <1>2, <2>1, <3>1
    <3> QED  BY <1>1, <2>3, <3>2, CredLike DEF k
  <2>4. CASE k = <<>> /\ pr'[p].stk = <<>> /\ pr'[p].cred = pr[p].cred
    <3>1. \A i \in 1 .. Len(k) : mod'[k[i]].saved = mod[k[i]].saved
      BY <2>4
    <3> QED  BY <1>1, <2>4, <3>1, CredLike DEF k
  <2>5. pr[p].pc # "failcl"
    BY DEF NotShutting
  <2> QED  BY <1>7, <2>2, <2>3, <2>4, <2>5 DEF Frees, k
<1>8. CASE k # <<>> /\ Steps(p)
  <2>1. \A o \in Ids : mod'[o].saved = mod[o].saved
    BY <1>8 DEF Steps, SameBut, Keeps
  <2>2. /\ pr'[p].stk = k /\ pr'[p].cred = pr[p].cred /\ pr'[p].op = pr[p].op
        /\ pr[p].pc \notin {"inload", "fail"} /\ pr'[p].pc # "inload"
    BY <1>8 DEF Steps, k
  <2> QED  BY <1>1, <1>2, <2>1, <2>2, CredLike DEF k
<1>9. ASSUME k # <<>>, NEW m \in Ids, Takes(p, m) PROVE CredOK(pr'[p], mod')
  <2>1. \A o \in Ids : mod'[o].saved = mod[o].saved
    BY <1>9, SavedSame DEF k
  <2>2. /\ pr'[p].stk = k /\ pr'[p].cred = pr[p].cred /\ pr'[p].op = pr[p].op
        /\ pr[p].pc \notin {"inload", "fail"} /\ pr'[p].pc # "inload"
    BY <1>9 DEF Takes, k
  <2> QED  BY <1>1, <1>2, <2>1, <2>2, CredLike DEF k
<1>10. CASE k # <<>> /\ (Pops(p) \/ \E f : Settles(p, f))
  <2>1. \A o \in Ids : mod'[o].saved = mod[o].saved
    BY <1>10, SavedSame DEF Pops, k
  <2>2. /\ pr'[p].stk = Tail(k) /\ pr'[p].cred = pr[p].cred /\ pr'[p].op = pr[p].op
        /\ pr[p].pc = "inload" /\ pr'[p].pc # "inload"
    <3>1. CASE Pops(p)
      BY <3>1 DEF Pops, NotShutting, k
    <3>2. CASE \E f : Settles(p, f)
      BY <3>2 DEF Settles, k
    <3> QED  BY <1>10, <3>1, <3>2
  <2>3. mod[k[1]].saved = "none"
    BY <1>1, <1>3, <1>10, <2>2 DEF CredOK, k
  <2>4. \A i \in 2 .. Len(k) : mod'[k[i]].saved = mod[k[i]].saved
    BY <1>1, <1>2, <2>1
  <2> QED  BY <1>1, <1>10, <2>2, <2>3, <2>4, CredPop DEF k
<1>11. CASE k # <<>> /\ Closes(p)
  <2> DEFINE n == Len(k)
  <2>1. /\ mod'[k[1]].saved = "none" /\ pr'[p].cred = Restored(p, k[1])
        /\ \A o \in Ids \ {k[1]} : mod'[o].saved = mod[o].saved
        /\ pr[p].pc = "image" /\ pr'[p].pc = "inload"
        /\ pr'[p].stk = k /\ pr'[p].op = pr[p].op
    BY <1>3, <1>11 DEF Closes, SameBut, Keeps, k
  <2>2. \A i \in 1 .. n : i # 1 => mod'[k[i]].saved = mod[k[i]].saved
    BY <1>2, <2>1
  <2>3. /\ n \in Nat /\ n # 0
        /\ \A i \in 1 .. n : mod[k[i]].saved = Saves(pr[p].op, n, i)
        /\ pr[p].cred = IF mod[k[1]].saved = "none" THEN Before(pr[p].op, n, 1) ELSE "sys"
    BY <1>1, <1>3, <1>11, <2>1 DEF CredOK, k
  <2>4. pr'[p].cred = Before(pr[p].op, n, 1)
    BY <1>3, <1>11, <2>1, <2>3 DEF Restored, Saves, Before
  <2> QED  BY <2>1, <2>2, <2>3, <2>4 DEF CredOK
<1>12. ~Leaves(p)
  BY DEF Leaves, NotShutting
<1> QED
  BY <1>4, <1>5, <1>6, <1>7, <1>8, <1>9, <1>10, <1>11, <1>12 DEF Acts, k

(* Into the close of a load's file, and out of it.                         *)
LEMMA ShutsFile ==
  ASSUME NEW p \in Procs, Acts(p), ~NotShutting(p), "failcl" \notin Intr
  PROVE  \/ Pops(p) /\ pr[p].stk # <<>> /\ pr[p].pc = "fail"
         \/ \E m \in Ids : Frees(p, m) /\ pr[p].pc = "failcl"
<1>1. ~Quietly(p) /\ ~Leaves(p)
  BY DEF Quietly, Leaves
<1>2. ~Begins(p)
  BY DEF Begins, Asks, NotShutting
<1>3. ~Steps(p) /\ ~Closes(p)
  BY DEF Steps, Closes, NotShutting
<1>4. \A f : ~Settles(p, f)
  BY DEF Settles, NotShutting
<1>5. \A m \in Ids : ~Takes(p, m) /\ ~Marks(p, m) /\ ~Unmarks(p, m)
  BY DEF Takes, Marks, Unmarks, NotShutting
<1>6. ASSUME NEW m \in Ids, Frees(p, m) PROVE pr[p].pc = "failcl"
  BY <1>6 DEF Frees, NotShutting
<1>7. ASSUME Pops(p) PROVE pr[p].pc = "fail"
  BY <1>7 DEF Pops, NotShutting
<1> QED  BY <1>1, <1>2, <1>3, <1>4, <1>5, <1>6, <1>7 DEF Acts

LEMMA ShutCred ==
  ASSUME Inv, Inv', Creds, NEW p \in Procs, Acts(p), ~NotShutting(p), "failcl" \notin Intr
  PROVE  CredOK(Chained(pr'[p]), mod')
<1> DEFINE k == pr[p].stk
           c == Chained(pr[p])
           d == Chained(pr'[p])
<1>1. /\ pr[p] \in ProcRec /\ pr'[p] \in ProcRec /\ CredOK(c, mod) /\ k \in Seq(Ids)
  BY FramesFacts DEF Inv, TypeOK, Creds
<1>2. CASE Pops(p) /\ k # <<>> /\ pr[p].pc = "fail"
  <2>1. /\ pr'[p].pc = "failcl" /\ pr'[p].cur = Head(k) /\ pr'[p].stk = Tail(k)
        /\ pr'[p].op = pr[p].op /\ pr'[p].cred = pr[p].cred /\ mod' = mod
    BY <1>2 DEF Pops, k
  <2>2. Head(k) \in Ids
    BY <1>1, <1>2, TailFacts
  <2>3. /\ d \in ProcRec /\ d.pc = "fail" /\ d.op = pr'[p].op /\ d.cred = pr'[p].cred
        /\ d.stk = <<Head(k)>> \o Tail(k)
    BY <1>1, <2>1, <2>2, ChainFields
  <2>4. d.stk = k
    BY <1>1, <1>2, <2>3, Rejoined
  <2>5. c = pr[p]
    BY <1>2 DEF Chained
  <2> HIDE DEF c, d, k
  <2>6. CredOK(d, mod')
    BY <1>1, <2>1, <2>3, <2>4, <2>5, CredLike DEF k
  <2> QED  BY <2>6 DEF d
<1>3. ASSUME NEW m \in Ids, Frees(p, m), pr[p].pc = "failcl"
      PROVE  CredOK(Chained(pr'[p]), mod')
  <2>1. /\ pr[p].cur \in Ids /\ \A i \in 1 .. Len(k) : k[i] # pr[p].cur /\ k[i] \in Ids
    BY <1>3, ChainFacts, FramesFacts
  <2>2. /\ pr'[p].pc = "fail" /\ m = pr[p].cur /\ pr'[p].stk = k
        /\ pr'[p].op = pr[p].op /\ pr'[p].cred = Restored(p, m)
    BY <1>3 DEF Frees, NotShutting, k
  <2>3. \A o \in Ids \ {m} : mod'[o].saved = mod[o].saved
    <3>1. Freed(m, mod')
      BY <1>3, FreeFields DEF Frees, Inv
    <3> QED  BY <3>1 DEF Freed
  <2>4. /\ c \in ProcRec /\ c.pc = "fail" /\ c.op = pr[p].op /\ c.cred = pr[p].cred
        /\ Tail(c.stk) = k /\ c.stk # <<>> /\ c.stk[1] = m
        /\ \A i \in 2 .. Len(c.stk) : c.stk[i] = k[i - 1] /\ i - 1 \in 1 .. Len(k)
    BY <1>1, <1>3, <2>1, <2>2, ChainFields
  <2>5. d = pr'[p]
    BY <2>2 DEF Chained
  <2> HIDE DEF c, d, k
  <2>6. \A i \in 2 .. Len(c.stk) : mod'[c.stk[i]].saved = mod[c.stk[i]].saved
    BY <2>1, <2>2, <2>3, <2>4
  <2>7. pr'[p].cred = IF mod[c.stk[1]].saved = "none" THEN c.cred ELSE mod[c.stk[1]].saved
    BY <2>2, <2>4 DEF Restored
  <2>8. CredOK(pr'[p], mod')
    BY <1>1, <2>2, <2>4, <2>6, <2>7, CredPop
  <2> QED  BY <2>5, <2>8 DEF d
<1> QED  BY <1>2, <1>3, ShutsFile

LEMMA CredsStep ==
  ASSUME Inv, Inv', Creds, [Next]_vars, "failcl" \notin Intr
  PROVE  Creds'
<1>1. ASSUME NEW p \in Procs, Acts(p) PROVE Creds'
  <2>1. OnlyMoves(p)
    BY <1>1, SavedKept
  <2>2. PICK m \in Ids \cup {0} : Apart(p, m)
    BY <1>1, SavedKept
  <2>3. ASSUME NEW q \in Procs \ {p} PROVE CredOK(Chained(pr'[q]), mod')
    BY <2>1, <2>2, OthersCred DEF OnlyMoves, Apart
  <2>4. CredOK(Chained(pr'[p]), mod')
    <3>1. CASE NotShutting(p)
      <4>1. Chained(pr[p]) = pr[p] /\ Chained(pr'[p]) = pr'[p]
        BY <3>1 DEF NotShutting, Chained
      <4>2. CredOK(pr[p], mod)
        BY <4>1 DEF Creds
      <4>3. CredOK(pr'[p], mod')
        BY <1>1, <3>1, <4>2, OwnCred
      <4> QED  BY <4>1, <4>3
    <3>2. CASE ~NotShutting(p)
      BY <1>1, <3>2, ShutCred
    <3> QED  BY <3>1, <3>2
  <2> QED  BY <2>3, <2>4 DEF Creds
<1>2. ASSUME NEW m \in Ids, Holds(m) PROVE Creds'
  <2>1. pr' = pr /\ \A o \in Ids : mod'[o].saved = mod[o].saved
    BY <1>2 DEF Holds, SameBut, Keeps
  <2>2. ASSUME NEW q \in Procs PROVE CredOK(Chained(pr'[q]), mod')
    <3>1. WokenOrSame(q)
      BY <2>1 DEF WokenOrSame
    <3>2. \E o : /\ \A i \in 1 .. Len(pr[q].stk) : pr[q].stk[i] # o
                 /\ pr[q].pc = "failcl" => pr[q].cur # o
                 /\ \A x \in Ids \ {o} : mod'[x].saved = mod[x].saved
      <4>1. 0 \notin Ids /\ \A i \in 1 .. Len(pr[q].stk) : pr[q].stk[i] \in Ids
        BY FramesFacts DEF Ids
      <4>2. pr[q].pc = "failcl" => pr[q].cur # 0
        BY <4>1, ChainFacts
      <4> QED  BY <2>1, <4>1, <4>2
    <3> QED  BY <3>1, <3>2, OthersCred
  <2> QED  BY <2>2 DEF Creds
<1>3. CASE UNCHANGED vars
  <2>1. pr' = pr /\ mod' = mod
    BY <1>3 DEF vars
  <2> QED  BY <2>1 DEF Creds
<1> QED  BY <1>1, <1>2, <1>3, EveryStep

-----------------------------------------------------------------------------
(* Before any call there is nothing to count.                              *)
LEMMA InitCounts ==
  ASSUME ConstAssumption, Init
  PROVE  Counts(list, mod) /\ Creds
<1>1. list = {} /\ \A m \in Ids : mod[m] = NoRec
  BY DEF Init
<1>2. Counts(list, mod)
  BY <1>1 DEF Counts, Counted, Alive, Quiet, Cand, Off, NoRec
<1>3. Creds
  <2>1. \A p \in Procs : pr[p] = Idle
    BY DEF Init
  <2>2. Chained(Idle) = Idle /\ CredOK(Idle, mod)
    BY DEF Chained, CredOK, Idle
  <2> QED  BY <2>1, <2>2 DEF Creds
<1> QED  BY <1>2, <1>3

(* The counts the properties speak of are those of the invariant.          *)
LEMMA CountsGive ==
  ASSUME Inv, Counts(list, mod)
  PROVE  DepCount /\ DepsAlive /\ CandIdle
<1>1. /\ list \subseteq Ids /\ \A m \in Ids : mod[m].refs \in Nat /\ mod[m].deps \in Nat
  BY DEF Inv, TypeOK, ModRec
<1>2. DepCount
  BY DEF DepCount, UsesIn, Counts, Counted, Uses
<1>3. DepsAlive
  BY DEF DepsAlive, Counts, Alive
<1>4. CandIdle
  BY DEF CandIdle, Counts, Cand
<1> QED  BY <1>2, <1>3, <1>4

LEMMA CredsGive ==
  ASSUME Inv, Creds
  PROVE  CredRestored
<1> SUFFICES ASSUME NEW p \in Procs, pr[p].pc \in {"user", "ret"}
             PROVE  pr[p].cred = "user"
  BY DEF CredRestored
<1>1. pr[p].stk = <<>> /\ Chained(pr[p]) = pr[p]
  BY DEF Inv, ProcOK, Placed, Chained
<1> QED  BY <1>1 DEF Creds, CredOK

(* The counts agree with the lists they stand for whatever is loaded,      *)
(* fails, is interrupted wherever it sleeps or is unloaded, and however    *)
(* many modules and processes there are: m_deps is the number of m_dep     *)
(* entries that point to a record, what a record depends on is settled and *)
(* on the list, and the candidates are idle (dlm_core.c: dlm_depadd,       *)
(* freemod).                                                               *)
THEOREM CountsExact == Spec => [](DepCount /\ DepsAlive /\ CandIdle)
<1> USE ConstAssumption
<1>1. Init => Inv /\ Counts(list, mod)
  BY InitInv, InitCounts
<1>2. Inv /\ Counts(list, mod) /\ [Next]_vars => (Inv /\ Counts(list, mod))'
  BY NextInv, CountsStep
<1>3. Inv /\ Counts(list, mod) => DepCount /\ DepsAlive /\ CandIdle
  BY CountsGive
<1> QED  BY <1>1, <1>2, <1>3, PTL DEF Spec

(* The counts, and lf_cred that comes back, as long as no signal ends the  *)
(* close of the file of a load that failed: lf_close (VOP_CLOSE in         *)
(* particular) then never gets to the credentials (dlm_core.c: lf_close,   *)
(* lf_fail).                                                               *)
THEOREM CountsAlways ==
  ASSUME "failcl" \notin Intr
  PROVE  Spec => []CountsKept
<1> USE ConstAssumption
<1>1. Init => Inv /\ Counts(list, mod) /\ Creds
  BY InitInv, InitCounts
<1>2. Inv /\ Counts(list, mod) /\ Creds /\ [Next]_vars
      => (Inv /\ Counts(list, mod) /\ Creds)'
  <2> SUFFICES ASSUME Inv, Counts(list, mod), Creds, [Next]_vars
               PROVE  (Inv /\ Counts(list, mod) /\ Creds)'
    OBVIOUS
  <2>1. Inv'
    BY NextInv
  <2>2. Counts(list', mod')
    BY CountsStep
  <2>3. Creds'
    BY <2>1, CredsStep
  <2> QED  BY <2>1, <2>2, <2>3
<1>3. Inv /\ Counts(list, mod) /\ Creds => CountsKept
  BY CountsGive, CredsGive DEF CountsKept
<1> QED  BY <1>1, <1>2, <1>3, PTL DEF Spec

-----------------------------------------------------------------------------
LEMMA Remembered ==
  ASSUME Inv, Counts(list, mod), NEW m \in list, mod'[m].name = mod[m].name,
         \A i \in DOMAIN mod[m].dep :
           i \in DOMAIN mod'[m].dep /\ mod'[m].dep[i] = mod[m].dep[i],
         \A o \in list : mod[o].trans = "no" => mod'[o].name = mod[o].name
  PROVE  mod'[m].name = mod[m].name /\ \A d : Has(mod, m, d) => Has(mod', m, d)
<1>1. \A i \in DOMAIN mod[m].dep : mod'[mod[m].dep[i]].name = mod[mod[m].dep[i]].name
  BY DEF Counts, Alive
<1> QED  BY <1>1 DEF Has

(* Steps that keep names and dependencies.                                 *)
LEMMA SameRemembers ==
  ASSUME Inv, Counts(list, mod),
         \A o \in list : mod'[o].name = mod[o].name /\ mod'[o].dep = mod[o].dep
  PROVE  Remembers
  BY Remembered DEF Remembers

(* Steps that add a dependency.                                            *)
LEMMA AddRemembers ==
  ASSUME Inv, Counts(list, mod), NEW f \in [Ids -> ModRec], NEW a \in Ids, NEW b \in Ids,
         \A o \in Ids : f[o].name = mod[o].name /\ f[o].dep = mod[o].dep,
         Depended(f, a, b, mod')
  PROVE  Remembers
<1>1. list \subseteq Ids /\ \A o \in Ids : mod[o].dep \in Seq(Ids)
  BY DEF Inv, TypeOK, ModRec
<1>2. ASSUME NEW o \in Ids, NEW i \in DOMAIN mod[o].dep
      PROVE  i \in DOMAIN mod'[o].dep /\ mod'[o].dep[i] = mod[o].dep[i]
  <2>1. CASE o = a
    <3>1. mod'[o].dep = Append(mod[o].dep, b)
      BY <2>1 DEF Depended
    <3> QED  BY <1>1, <1>2, <3>1
  <2>2. CASE o # a
    BY <1>2, <2>2 DEF Depended
  <2> QED  BY <2>1, <2>2
<1>3. \A o \in Ids : mod'[o].name = mod[o].name
  BY DEF Depended
<1> QED  BY <1>1, <1>2, <1>3, Remembered DEF Remembers

LEMMA StepRemembers ==
  ASSUME Inv, Counts(list, mod), NEW p \in Procs, Acts(p)
  PROVE  Remembers
<1> DEFINE h == Head(pr[p].stk)
<1>1. /\ list \subseteq Ids /\ mod \in [Ids -> ModRec]
      /\ pr[p].stk # <<>> => h \in Ids /\ mod[h].trans = "loading"
  BY FramesFacts DEF Inv, TypeOK
<1>2. \A o \in list : \A i \in DOMAIN mod[o].dep :
        mod[o].dep[i] \in list /\ mod[mod[o].dep[i]].trans = "no"
  BY DEF Counts, Alive
<1> HIDE DEF h
<1>3. CASE Quietly(p) \/ Leaves(p)
  BY <1>1, <1>3, SameRemembers DEF Quietly, Leaves, Same, Keeps
<1>4. CASE Begins(p)
  BY <1>1, <1>4, SameRemembers DEF Begins
<1>5. ASSUME NEW m \in Ids, Marks(p, m) \/ Unmarks(p, m) PROVE Remembers
  BY <1>1, <1>5, SameRemembers DEF Marks, Unmarks, SameBut, Keeps
<1>6. ASSUME NEW m \in Ids, Frees(p, m) PROVE Remembers
  <2>1. Freed(m, mod') /\ m \notin list' /\ mod[m].trans # "no"
    BY <1>6, FreeFields DEF Frees, FreeMod, Inv
  <2>2. \A o \in list \cap list' :
          /\ mod'[o].name = mod[o].name /\ mod'[o].dep = mod[o].dep
    BY <1>1, <2>1 DEF Freed
  <2>3. \A o \in list : mod[o].trans = "no" => mod'[o].name = mod[o].name
    BY <1>1, <2>1 DEF Freed
  <2> QED  BY <2>2, <2>3, Remembered DEF Remembers
<1>7. CASE pr[p].stk # <<>> /\ (Steps(p) \/ Closes(p) \/ Pops(p))
  <2>1. \A o \in Ids : mod'[o].name = mod[o].name /\ mod'[o].dep = mod[o].dep
    BY <1>7, Zenon DEF Steps, Closes, Pops, SameBut, Keeps
  <2> QED  BY <1>1, <2>1, SameRemembers
<1>8. ASSUME pr[p].stk # <<>>, NEW m \in Ids, Takes(p, m) PROVE Remembers
  <2>1. Depended(mod, h, m, mod')
    BY <1>1, <1>8, DepAddFields DEF Takes, h
  <2> QED  BY <1>1, <1>8, <2>1, AddRemembers
<1>9. ASSUME pr[p].stk # <<>>, NEW f, Settles(p, f) PROVE Remembers
  <2> DEFINE s == Tail(pr[p].stk)
  <2>1. s # <<>> => Head(s) \in Ids /\ Head(s) # h
    <3>1. s # <<>> => Head(s) = pr[p].stk[2] /\ 2 \in 1 .. Len(pr[p].stk)
      BY <1>9, FramesFacts
    <3> QED  BY <1>9, <3>1, FramesFacts DEF h
  <2>2. /\ f \in [Ids -> ModRec] /\ SameBut(mod, f, h) /\ f[h].name = mod[h].name
        /\ f[h].dep = mod[h].dep /\ mod' = Taken(f, s, h)
    BY <1>9 DEF Settles, h
  <2> HIDE DEF s
  <2>3. \A o \in Ids : f[o].name = mod[o].name /\ f[o].dep = mod[o].dep
    BY <2>2 DEF SameBut, Keeps
  <2>4. CASE s = <<>>
    BY <1>1, <2>2, <2>3, <2>4, SameRemembers DEF Taken
  <2>5. CASE s # <<>>
    <3>1. Depended(f, Head(s), h, mod')
      BY <1>1, <1>9, <2>1, <2>2, <2>5, DepAddFields DEF Taken
    <3> QED  BY <1>1, <1>9, <2>1, <2>2, <2>3, <2>5, <3>1, AddRemembers
  <2> QED  BY <2>4, <2>5
<1> QED  BY <1>3, <1>4, <1>5, <1>6, <1>7, <1>8, <1>9 DEF Acts

-----------------------------------------------------------------------------
(* What a process has gained it keeps.                                     *)

(* A load that goes on where it was.                                       *)
LEMMA StillReached ==
  ASSUME Remembers, NEW q, NEW r, NEW i \in Nat, NEW k \in Nat,
         r.stk[k] = q.stk[i], q.stk[i] \in list \cap list',
         mod'[q.stk[i]].at = mod[q.stk[i]].at,
         Awaits(mod', r, k) = Awaits(mod, q, i), Reached(mod, q, i)
  PROVE  Reached(mod', r, k)
<1> DEFINE m == q.stk[i]
<1>1. /\ mod'[m].name = mod[m].name /\ \A d : Has(mod, m, d) => Has(mod', m, d)
      /\ m = r.stk[k] /\ mod'[m].at = mod[m].at
  BY DEF Remembers
<1> QED  BY <1>1 DEF Reached

(* A load that has got what it was waiting for.                            *)
LEMMA NowReached ==
  ASSUME Remembers, NEW q, NEW r, NEW i \in Nat, NEW k \in Nat,
         r.stk[k] = q.stk[i], q.stk[i] \in list \cap list',
         mod'[q.stk[i]].at = mod[q.stk[i]].at,
         Has(mod', q.stk[i], Awaits(mod, q, i)), Reached(mod, q, i)
  PROVE  Reached(mod', r, k)
<1> DEFINE m == q.stk[i]
<1>1. /\ mod'[m].name = mod[m].name /\ \A d : Has(mod, m, d) => Has(mod', m, d)
      /\ m = r.stk[k] /\ mod'[m].at = mod[m].at
  BY DEF Remembers
<1> QED  BY <1>1 DEF Reached

(* A process whose frames and question are as before.                      *)
LEMMA SameGained ==
  ASSUME Remembers, NEW q \in ProcRec, NEW r \in ProcRec, Gained(mod, q),
         r.stk = q.stk, q.pc \in GoingOn, r.pc \in {"image", "inload"} => r.stk # <<>>,
         r.pc \in Asks => q.pc \in Asks /\ r.want = q.want,
         q.pc \in Asks => r.pc \in Asks,
         r.pc \in {"image", "inload"} => q.pc \in {"image", "inload"},
         \A i \in 1 .. Len(q.stk) :
           q.stk[i] \in list \cap list' /\ mod'[q.stk[i]].at = mod[q.stk[i]].at
  PROVE  Gained(mod', r)
<1>1. /\ q.stk \in Seq(Ids) /\ Len(q.stk) \in Nat
      /\ \A i \in 1 .. Len(q.stk) : i \in Nat /\ (i > 1 => i - 1 \in 1 .. Len(q.stk))
  BY DEF ProcRec
<1>2. \A i \in 1 .. Len(q.stk) : mod'[q.stk[i]].name = mod[q.stk[i]].name
  BY DEF Remembers
<1>3. ASSUME NEW i \in 1 .. Len(q.stk) PROVE Reached(mod', r, i)
  <2>1. Awaits(mod', r, i) = Awaits(mod, q, i)
    BY <1>1, <1>2 DEF Awaits
  <2>2. Reached(mod, q, i)
    BY DEF Gained
  <2> QED  BY <1>1, <2>1, <2>2, StillReached
<1>4. ASSUME r.pc \in {"image", "inload"}, q.stk # <<>>
      PROVE  mod'[r.stk[1]].at > Len(Depends[mod'[r.stk[1]].name])
  <2>1. 1 \in 1 .. Len(q.stk)
    BY <1>1, <1>4
  <2> QED  BY <1>2, <1>4, <2>1 DEF Gained
<1> QED  BY <1>3, <1>4 DEF Gained

LEMMA FramesNext ==
  ASSUME Inv', NEW p \in Procs
  PROVE  /\ pr'[p] \in ProcRec
         /\ \A i \in 1 .. Len(pr'[p].stk) :
              pr'[p].stk[i] \in list' /\ mod'[pr'[p].stk[i]].trans = "loading"
         /\ pr'[p].pc \in {"image", "inload"} => pr'[p].stk # <<>>
<1>1. pr'[p] \in ProcRec /\ DOMAIN pr'[p].stk = 1 .. Len(pr'[p].stk)
  BY DEF Inv, TypeOK, ProcRec
<1>2. \A i \in DOMAIN pr'[p].stk :
        pr'[p].stk[i] \in list' /\ mod'[pr'[p].stk[i]].trans = "loading"
  BY DEF Inv, OwnMarked, LoadsOf, Frames
<1>3. pr'[p].pc \in {"image", "inload"} => pr'[p].stk # <<>>
  BY DEF Inv, ProcOK, Placed
<1> QED  BY <1>1, <1>2, <1>3

LEMMA OthersGained ==
  ASSUME Inv, Inv', Gains, Remembers, NEW p \in Procs, NEW m \in Ids \cup {0}, Apart(p, m),
         NEW q \in Procs \ {p}, WokenOrSame(q)
  PROVE  Gained(mod', pr'[q])
<1>1. /\ pr[q] \in ProcRec /\ pr'[q] \in ProcRec /\ Gained(mod, pr[q])
      /\ pr'[q].pc \in {"image", "inload"} => pr'[q].stk # <<>>
  BY FramesFacts, FramesNext DEF Gains
<1>2. /\ pr'[q].stk = pr[q].stk /\ pr'[q].want = pr[q].want
      /\ pr'[q].pc = pr[q].pc \/ (pr[q].pc \in Asks /\ pr'[q].pc \in Asks)
  BY <1>1 DEF WokenOrSame, ProcRec, Asks
<1>3. \A i \in 1 .. Len(pr[q].stk) :
        /\ pr[q].stk[i] \in list \cap list'
        /\ mod'[pr[q].stk[i]].at = mod[pr[q].stk[i]].at
  BY <1>2, FramesFacts, FramesNext DEF Apart
<1>4. CASE pr'[q].pc \notin GoingOn
  BY <1>4 DEF Gained
<1>5. CASE pr'[q].pc \in GoingOn
  <2>1. pr[q].pc \in GoingOn
    BY <1>2, <1>5 DEF GoingOn
  <2>2. /\ pr'[q].pc \in Asks <=> pr[q].pc \in Asks
        /\ pr'[q].pc \in {"image", "inload"} => pr[q].pc \in {"image", "inload"}
    BY <1>2 DEF Asks
  <2> QED  BY <1>1, <1>2, <1>3, <2>1, <2>2, SameGained
<1> QED  BY <1>4, <1>5

(* The dependencies are names, and no name is none.                        *)
LEMMA DepNames ==
  ASSUME NEW n \in Names, NEW j \in DOMAIN Depends[n]
  PROVE  /\ Depends[n][j] \in Names /\ Depends[n][j] # NoName
         /\ j \in Nat /\ j <= Len(Depends[n]) /\ Len(Depends[n]) \in Nat
<1>1. Depends[n] \in Seq(Names)
  BY ConstAssumption
<1> QED  BY <1>1, ConstAssumption

(* A load that has started has gained what its place says.                 *)
LEMMA BeginsGained ==
  ASSUME Inv, Inv', Counts(list, mod), Gains, NEW p \in Procs, Acts(p), Begins(p)
  PROVE  Gained(mod', pr'[p])
<1> DEFINE s == pr[p].stk
           t == pr'[p].stk
<1>1. /\ s \in Seq(Ids) /\ Len(s) \in Nat /\ nextid \in Ids \ list /\ t = <<nextid>> \o s
      /\ DOMAIN t = 1 .. Len(s) + 1 /\ Len(t) = Len(s) + 1 /\ t[1] = nextid
      /\ \A i \in 2 .. Len(t) : t[i] = s[i - 1] /\ i - 1 \in 1 .. Len(s)
  <2>1. s \in Seq(Ids) /\ nextid \in Ids \ list /\ t = <<nextid>> \o s
    BY FramesFacts DEF Begins
  <2>2. /\ t \in Seq(Ids) /\ DOMAIN t = 1 .. Len(s) + 1
        /\ \A i \in DOMAIN t : t[i] = IF i = 1 THEN nextid ELSE s[i - 1]
    BY <2>1, PushFacts
  <2> QED  BY <2>1, <2>2, LenProperties
<1>2. /\ pr[p].pc \in Asks /\ pr'[p].pc = "open" /\ Gained(mod, pr[p])
      /\ mod'[nextid].at = 1 /\ mod'[nextid].name = pr[p].want
      /\ \A o \in list : mod'[o] = mod[o] /\ o \in list \cap list'
  BY DEF Begins, Gains, Inv, TypeOK
<1>3. \A i \in 1 .. Len(s) : s[i] \in list /\ Reached(mod, pr[p], i)
  BY <1>2, FramesFacts DEF Gained, GoingOn
<1>4. Remembers
  BY StepRemembers
<1>5. ASSUME NEW i \in 2 .. Len(t) PROVE Reached(mod', pr'[p], i)
  <2>1. i - 1 \in 1 .. Len(s) /\ t[i] = s[i - 1] /\ s[i - 1] \in list
    BY <1>1, <1>3
  <2>2. Awaits(mod, pr[p], i - 1) = Awaits(mod', pr'[p], i)
    <3>1. CASE i = 2
      BY <1>1, <1>2, <3>1 DEF Awaits
    <3>2. CASE i # 2
      <4>1. t[i - 1] = s[i - 2] /\ i - 2 \in 1 .. Len(s)
        BY <1>1, <3>2
      <4>2. mod'[s[i - 2]].name = mod[s[i - 2]].name
        BY <1>2, <1>3, <4>1
      <4>3. i > 1 /\ i - 1 > 1 /\ (i - 1) - 1 = i - 2
        BY <3>2
      <4>4. Awaits(mod, pr[p], i - 1) = mod[s[i - 2]].name
        BY <4>3 DEF Awaits
      <4>5. Awaits(mod', pr'[p], i) = mod'[t[i - 1]].name
        BY <4>3 DEF Awaits
      <4> QED  BY <4>1, <4>2, <4>4, <4>5
    <3> QED  BY <3>1, <3>2
  <2>3. mod'[s[i - 1]].at = mod[s[i - 1]].at /\ s[i - 1] \in list \cap list'
    BY <1>2, <2>1
  <2>4. i \in Nat /\ i - 1 \in Nat
    BY <1>1
  <2> QED  BY <1>3, <1>4, <2>1, <2>2, <2>3, <2>4, StillReached
<1>6. Reached(mod', pr'[p], 1)
  <2>1. mod'[nextid].name \in Names
    BY <1>1, <1>2 DEF Inv, ProcOK, Placed, Asks
  <2> QED  BY <1>1, <1>2, <2>1, DepNames DEF Reached
<1> QED  BY <1>1, <1>2, <1>5, <1>6 DEF Gained

(* The loop over the dependencies: a static one needs nothing, any other   *)
(* is asked for, and past the last there is nothing left to ask for.       *)
LEMMA StepsGained ==
  ASSUME Inv, Inv', Counts(list, mod), Gains, NEW p \in Procs, Acts(p), pr[p].stk # <<>>,
         Steps(p)
  PROVE  Gained(mod', pr'[p])
<1> DEFINE s == pr[p].stk
           h == s[1]
           d == Depends[mod[h].name]
<1>1. /\ s \in Seq(Ids) /\ Len(s) \in Nat /\ 1 \in 1 .. Len(s) /\ Head(s) = h
      /\ \A i \in 1 .. Len(s) : s[i] \in list /\ (i # 1 => s[i] # h)
  BY FramesFacts
<1>2. /\ pr[p].pc = "next" /\ pr'[p].stk = s /\ Gained(mod, pr[p])
      /\ list' = list /\ \A o \in Ids \ {h} : mod'[o].at = mod[o].at
      /\ \A o \in Ids : mod'[o].name = mod[o].name
      /\ \/ mod'[h].at = mod[h].at /\ mod[h].at > Len(d) /\ pr'[p].pc = "image"
         \/ /\ mod'[h].at = mod[h].at + 1
            /\ \/ d[mod[h].at] \in Static /\ pr'[p].pc = "next"
               \/ pr'[p].pc = "enter" /\ pr'[p].want = d[mod[h].at]
  BY <1>1 DEF Gains, Steps, SameBut, Keeps
<1>3. \A i \in 1 .. Len(s) : Reached(mod, pr[p], i)
  BY <1>2 DEF Gained, GoingOn
<1>4. Remembers
  BY StepRemembers
<1>5. list \subseteq Ids
  BY DEF Inv, TypeOK
<1>6. ASSUME NEW i \in 2 .. Len(s) PROVE Reached(mod', pr'[p], i)
  <2>1. i \in 1 .. Len(s) /\ i - 1 \in 1 .. Len(s) /\ i # 1 /\ i \in Nat /\ i > 1
    BY <1>1
  <2>2. s[i] \in list \cap list' /\ mod'[s[i]].at = mod[s[i]].at
    BY <1>1, <1>2, <1>5, <2>1
  <2>3. Awaits(mod', pr'[p], i) = Awaits(mod, pr[p], i)
    BY <1>1, <1>2, <1>5, <2>1 DEF Awaits
  <2> QED  BY <1>2, <1>3, <1>4, <2>1, <2>2, <2>3, StillReached, Zenon
<1>7. /\ mod[h].name \in Names /\ mod[h].at \in Nat
      /\ mod'[h].name = mod[h].name /\ \A n : Has(mod, h, n) => Has(mod', h, n)
  <2>1. h \in list /\ h \in Ids /\ mod[h] \in ModRec
    BY <1>1, <1>5 DEF Inv, TypeOK
  <2> QED  BY <1>2, <1>4, <2>1, Zenon DEF Inv, RecOK, ModRec, Remembers
<1>8. \A j \in DOMAIN d : j < mod[h].at => d[j] \in Static \/ Has(mod', h, d[j])
  <2> SUFFICES ASSUME NEW j \in DOMAIN d, j < mod[h].at, d[j] \notin Static
               PROVE  Has(mod', h, d[j])
    OBVIOUS
  <2>1. Reached(mod, pr[p], 1) /\ Awaits(mod, pr[p], 1) = NoName
    <3>1. Reached(mod, pr[p], 1)
      BY <1>1, <1>3
    <3>2. pr[p].pc \notin Asks
      BY <1>2 DEF Asks
    <3> QED  BY <3>1, <3>2 DEF Awaits
  <2>2. Has(mod, h, d[j])
    BY <1>7, <2>1, DepNames, Zenon DEF Reached
  <2> QED  BY <1>7, <2>2
<1>9. Reached(mod', pr'[p], 1)
  <2> SUFFICES ASSUME NEW j \in DOMAIN d, j < mod'[h].at, d[j] \notin Static,
                      ~Has(mod', h, d[j])
               PROVE  j = mod'[h].at - 1 /\ d[j] = Awaits(mod', pr'[p], 1)
    BY <1>2, <1>7 DEF Reached
  <2>1. j \in Nat /\ ~ (j < mod[h].at)
    BY <1>7, <1>8, DepNames
  <2>2. \/ mod'[h].at = mod[h].at
        \/ /\ mod'[h].at = mod[h].at + 1
           /\ \/ d[mod[h].at] \in Static
              \/ pr'[p].pc = "enter" /\ pr'[p].want = d[mod[h].at]
    BY <1>2
  <2>3. mod[h].at \in Nat /\ j < mod'[h].at /\ d[j] \notin Static
    BY <1>7
  <2> HIDE DEF d, h
  <2>4. mod'[h].at = mod[h].at + 1 /\ j = mod[h].at
    BY <2>1, <2>2, <2>3
  <2>5. pr'[p].pc = "enter" /\ pr'[p].want = d[j]
    BY <2>2, <2>3, <2>4
  <2> QED  BY <2>3, <2>4, <2>5 DEF Awaits, Asks
<1>10. \A i \in 1 .. Len(s) : Reached(mod', pr'[p], i)
  BY <1>1, <1>6, <1>9
<1>11. pr'[p].pc \in {"image", "inload"} => mod'[h].at > Len(Depends[mod'[h].name])
  BY <1>2, <1>7
<1> QED  BY <1>2, <1>10, <1>11 DEF Gained

LEMMA Appended ==
  ASSUME NEW e \in Seq(Ids), NEW m \in Ids
  PROVE  \E i \in DOMAIN Append(e, m) : Append(e, m)[i] = m
<1>1. /\ Append(e, m) \in Seq(Ids) /\ Len(Append(e, m)) = Len(e) + 1
      /\ Append(e, m)[Len(e) + 1] = m /\ Len(e) \in Nat
  BY AppendProperties, LenProperties
<1>2. Len(e) + 1 \in DOMAIN Append(e, m)
  BY <1>1, LenProperties
<1> QED  BY <1>1, <1>2

(* A dependency that was loaded already is there.                          *)
LEMMA TakesGained ==
  ASSUME Inv, Inv', Counts(list, mod), Gains, NEW p \in Procs, Acts(p), pr[p].stk # <<>>,
         NEW m \in Ids, Takes(p, m)
  PROVE  Gained(mod', pr'[p])
<1> DEFINE s == pr[p].stk
           h == s[1]
<1>1. /\ s \in Seq(Ids) /\ Len(s) \in Nat /\ 1 \in 1 .. Len(s) /\ Head(s) = h
      /\ mod[h].trans = "loading" /\ h \in Ids
      /\ \A i \in 1 .. Len(s) : s[i] \in list /\ s[i] \in Ids
  BY FramesFacts
<1>2. /\ pr[p].pc \in Asks /\ pr'[p].stk = s /\ pr'[p].pc = "next" /\ Gained(mod, pr[p])
      /\ list' = list /\ mod[m].trans = "no" /\ mod[m].name = pr[p].want
      /\ mod' = DepAdd(mod, h, m) /\ mod \in [Ids -> ModRec]
  BY <1>1 DEF Gains, Takes, Asks, Inv, TypeOK
<1>3. Depended(mod, h, m, mod')
  BY <1>1, <1>2, DepAddFields
<1>4. /\ \A o \in Ids : mod'[o].name = mod[o].name /\ mod'[o].at = mod[o].at
      /\ mod'[h].dep = Append(mod[h].dep, m) /\ mod[h].dep \in Seq(Ids)
  BY <1>1, <1>2, <1>3 DEF Depended, ModRec
<1>5. \A i \in 1 .. Len(s) : Reached(mod, pr[p], i)
  BY <1>2 DEF Gained, GoingOn
<1>6. Remembers
  BY StepRemembers
<1>7. ASSUME NEW i \in 2 .. Len(s) PROVE Reached(mod', pr'[p], i)
  <2>1. i \in 1 .. Len(s) /\ i - 1 \in 1 .. Len(s) /\ i \in Nat /\ i > 1
    BY <1>1
  <2>2. s[i] \in list \cap list' /\ mod'[s[i]].at = mod[s[i]].at
    BY <1>1, <1>2, <1>4, <2>1
  <2>3. Awaits(mod', pr'[p], i) = Awaits(mod, pr[p], i)
    BY <1>1, <1>2, <1>4, <2>1 DEF Awaits
  <2> QED  BY <1>2, <1>5, <1>6, <2>1, <2>2, <2>3, StillReached
<1>8. Reached(mod', pr'[p], 1)
  <2>1. Awaits(mod, pr[p], 1) = mod[m].name
    BY <1>2 DEF Awaits
  <2>2. Has(mod', h, mod[m].name)
    <3>1. \E i \in DOMAIN mod'[h].dep : mod'[h].dep[i] = m
      <4>1. \E i \in DOMAIN Append(mod[h].dep, m) : Append(mod[h].dep, m)[i] = m
        BY <1>4, Appended, Zenon
      <4> QED  BY <1>4, <4>1, Zenon
    <3> QED  BY <1>4, <3>1, Zenon DEF Has
  <2>3. h \in list \cap list' /\ mod'[h].at = mod[h].at /\ Reached(mod, pr[p], 1)
    BY <1>1, <1>2, <1>4, <1>5
  <2> QED  BY <1>2, <1>6, <2>1, <2>2, <2>3, NowReached, Zenon
<1> QED  BY <1>1, <1>2, <1>7, <1>8 DEF Gained

LEMMA ClosesGained ==
  ASSUME Inv, Inv', Counts(list, mod), Gains, NEW p \in Procs, Acts(p), pr[p].stk # <<>>,
         Closes(p)
  PROVE  Gained(mod', pr'[p])
<1>1. /\ pr[p] \in ProcRec /\ pr'[p] \in ProcRec /\ Gained(mod, pr[p])
      /\ pr'[p].pc \in {"image", "inload"} => pr'[p].stk # <<>>
  BY FramesFacts, FramesNext DEF Gains
<1>2. /\ pr'[p].stk = pr[p].stk /\ pr[p].pc = "image" /\ pr'[p].pc = "inload"
      /\ list' = list /\ \A o \in Ids : mod'[o].at = mod[o].at
  BY DEF Closes, SameBut, Keeps
<1>3. \A i \in 1 .. Len(pr[p].stk) :
        /\ pr[p].stk[i] \in list \cap list'
        /\ mod'[pr[p].stk[i]].at = mod[pr[p].stk[i]].at
  BY <1>2, FramesFacts
<1>4. Remembers
  BY StepRemembers
<1> QED  BY <1>1, <1>2, <1>3, <1>4, SameGained DEF GoingOn, Asks

(* A settled load is the dependency the load below it was waiting for.     *)
LEMMA SettlesGained ==
  ASSUME Inv, Inv', Counts(list, mod), Gains, NEW p \in Procs, Acts(p), pr[p].stk # <<>>,
         NEW f, Settles(p, f)
  PROVE  Gained(mod', pr'[p])
<1> DEFINE s == pr[p].stk
           t == pr'[p].stk
           m == s[1]
<1>1. /\ s \in Seq(Ids) /\ Len(s) \in Nat /\ 1 \in 1 .. Len(s) /\ Head(s) = m
      /\ \A i \in 1 .. Len(s) : s[i] \in list /\ s[i] \in Ids /\ (i # 1 => s[i] # m)
  BY FramesFacts
<1>2. /\ pr[p].pc = "inload" /\ t = Tail(s) /\ Gained(mod, pr[p])
      /\ pr'[p].pc = (IF t = <<>> THEN "ret" ELSE "next")
      /\ list' = list /\ mod' = Taken(f, t, m) /\ f \in [Ids -> ModRec]
      /\ SameBut(mod, f, m) /\ f[m].name = mod[m].name
  BY <1>1 DEF Gains, Settles
<1>3. CASE t = <<>>
  BY <1>2, <1>3 DEF Gained, GoingOn, Asks
<1>4. CASE t # <<>>
  <2>1. /\ Len(t) = Len(s) - 1 /\ 1 \in 1 .. Len(t) /\ Head(t) = t[1]
        /\ \A i \in 1 .. Len(t) : t[i] = s[i + 1] /\ i + 1 \in 1 .. Len(s) /\ i \in Nat
    BY <1>1, <1>2, <1>4
  <2> DEFINE h == t[1]
  <2>2. h \in Ids /\ h # m /\ h = s[2] /\ m \in Ids
    <3>1. 1 + 1 \in 1 .. Len(s) /\ h = s[1 + 1]
      BY <2>1
    <3> HIDE DEF h, t, s, m
    <3>2. 2 \in 1 .. Len(s) /\ h = s[2]
      BY <3>1
    <3> QED  BY <1>1, <3>2 DEF m
  <2>3. Depended(f, h, m, mod')
    BY <1>2, <1>4, <2>1, <2>2, DepAddFields DEF Taken
  <2>4. /\ \A o \in Ids : mod'[o].name = mod[o].name
        /\ \A o \in Ids \ {m} : mod'[o].at = mod[o].at
        /\ mod'[h].dep = Append(f[h].dep, m) /\ f[h].dep \in Seq(Ids)
    <3>1. \A o \in Ids : f[o].name = mod[o].name /\ (o # m => f[o].at = mod[o].at)
      BY <1>2 DEF SameBut, Keeps
    <3>2. f[h] \in ModRec
      <4>1. f \in [Ids -> ModRec] /\ h \in Ids
        BY <1>2, <2>2
      <4> HIDE DEF h
      <4> QED  BY <4>1
    <3>3. f[h].dep \in Seq(Ids)
      BY <3>2 DEF ModRec
    <3>4. mod'[h].dep = Append(f[h].dep, m)
      BY <2>2, <2>3 DEF Depended
    <3>5. /\ \A o \in Ids : mod'[o].name = f[o].name
          /\ \A o \in Ids : mod'[o].at = f[o].at
      BY <2>3 DEF Depended
    <3> HIDE DEF h, m
    <3> QED  BY <3>1, <3>3, <3>4, <3>5
  <2>5. \A i \in 1 .. Len(s) : Reached(mod, pr[p], i)
    BY <1>2 DEF Gained, GoingOn
  <2>6. Remembers
    BY StepRemembers
  <2>7. \A i \in 1 .. Len(t) : t[i] \in list \cap list' /\ mod'[t[i]].at = mod[t[i]].at
    <3> TAKE i \in 1 .. Len(t)
    <3>1. t[i] = s[i + 1] /\ i + 1 \in 1 .. Len(s) /\ i + 1 # 1
      BY <2>1
    <3>2. s[i + 1] \in list /\ s[i + 1] \in Ids \ {m}
      BY <1>1, <3>1
    <3> QED  BY <1>2, <2>4, <3>1, <3>2, Zenon
  <2>8. ASSUME NEW i \in 2 .. Len(t) PROVE Reached(mod', pr'[p], i)
    <3>1. /\ i \in 1 .. Len(t) /\ i - 1 \in 1 .. Len(t) /\ i \in Nat /\ i > 1
          /\ i + 1 \in Nat /\ t[i] = s[i + 1] /\ t[i - 1] = s[i] /\ i \in 1 .. Len(s)
          /\ i + 1 \in 1 .. Len(s)
      BY <1>1, <2>1
    <3>2. Awaits(mod', pr'[p], i) = Awaits(mod, pr[p], i + 1)
      <4>1. s[i] \in Ids
        BY <1>1, <3>1
      <4>2. mod'[t[i - 1]].name = mod[s[i]].name
        BY <2>4, <3>1, <4>1, Zenon
      <4>3. i + 1 > 1 /\ (i + 1) - 1 = i
        BY <3>1
      <4> QED  BY <3>1, <4>2, <4>3 DEF Awaits
    <3> QED  BY <2>5, <2>6, <2>7, <3>1, <3>2, StillReached
  <2>9. Reached(mod', pr'[p], 1)
    <3>1. Awaits(mod, pr[p], 2) = mod[m].name
      BY DEF Awaits
    <3>2. Has(mod', h, mod[m].name)
      <4>1. \E i \in DOMAIN mod'[h].dep : mod'[h].dep[i] = m
        <5>1. \E i \in DOMAIN Append(f[h].dep, m) : Append(f[h].dep, m)[i] = m
          BY <2>2, <2>4, Appended, Zenon
        <5> QED  BY <2>4, <5>1, Zenon
      <4> QED  BY <2>2, <2>4, <4>1, Zenon DEF Has
    <3>3. h \in list \cap list' /\ mod'[h].at = mod[h].at /\ Reached(mod, pr[p], 2)
      BY <2>1, <2>5, <2>7
    <3> QED  BY <2>2, <2>6, <3>1, <3>2, <3>3, NowReached, Zenon
  <2>10. pr'[p].pc \notin {"image", "inload"}
    BY <1>2
  <2>11. \A i \in 1 .. Len(t) : Reached(mod', pr'[p], i)
    BY <2>1, <2>8, <2>9
  <2> QED  BY <2>10, <2>11 DEF Gained
<1> QED  BY <1>3, <1>4

LEMMA OwnGained ==
  ASSUME Inv, Inv', Counts(list, mod), Gains, NEW p \in Procs, Acts(p)
  PROVE  Gained(mod', pr'[p])
<1>1. /\ pr[p] \in ProcRec /\ pr'[p] \in ProcRec /\ Gained(mod, pr[p])
      /\ pr'[p].pc \in {"image", "inload"} => pr'[p].stk # <<>>
  BY FramesFacts, FramesNext DEF Gains
<1>2. pr'[p].stk = <<>> => Gained(mod', pr'[p])
  BY <1>1 DEF Gained
<1>3. CASE Quietly(p) /\ pr[p].stk # <<>>
  <2>1. \A i \in 1 .. Len(pr[p].stk) :
          /\ pr[p].stk[i] \in list \cap list'
          /\ mod'[pr[p].stk[i]].at = mod[pr[p].stk[i]].at
    BY <1>3, FramesFacts DEF Quietly, Same, Keeps
  <2>2. Remembers
    BY StepRemembers
  <2>3. CASE pr'[p].pc = "fail"
    BY <2>3 DEF Gained, GoingOn, Asks
  <2>4. CASE pr[p].pc \in Asks /\ pr'[p].pc \in Asks /\ pr'[p].want = pr[p].want
    BY <1>1, <1>3, <2>1, <2>2, <2>4, SameGained DEF Quietly, GoingOn, Asks
  <2>5. CASE pr[p].pc = "open" /\ pr'[p].pc = "next"
    BY <1>1, <1>3, <2>1, <2>2, <2>5, SameGained DEF Quietly, GoingOn, Asks
  <2> QED  BY <1>3, <2>3, <2>4, <2>5 DEF Quietly
<1>4. CASE Quietly(p) /\ pr[p].stk = <<>>
  BY <1>2, <1>4 DEF Quietly
<1>5. CASE \E m \in Ids : Frees(p, m) \/ Marks(p, m) \/ Unmarks(p, m)
  <2>1. pr'[p].pc = "fail" \/ pr'[p].stk = <<>>
    BY <1>5 DEF Frees, Marks, Unmarks
  <2> QED  BY <1>2, <2>1 DEF Gained, GoingOn, Asks
<1>6. CASE Pops(p)
  BY <1>6 DEF Pops, Gained, GoingOn, Asks
<1>7. CASE Leaves(p)
  BY <1>7 DEF Leaves, Gained, GoingOn, Asks
<1> QED
  BY <1>3, <1>4, <1>5, <1>6, <1>7, BeginsGained, StepsGained, TakesGained, ClosesGained,
     SettlesGained DEF Acts

-----------------------------------------------------------------------------
(* A loaded record has all its dependencies.                               *)

(* What a settling load writes besides: one dependency of the load below.  *)
LEMMA SettledFields ==
  ASSUME Inv, NEW p \in Procs, pr[p].stk # <<>>, NEW f, Settles(p, f)
  PROVE  \A o \in Ids : mod'[o].trans = f[o].trans /\ mod'[o].refs = f[o].refs
<1> DEFINE h == Head(pr[p].stk)
           s == Tail(pr[p].stk)
<1>1. h \in Ids /\ (s # <<>> => Head(s) \in Ids /\ Head(s) # h)
  <2>1. s # <<>> => Head(s) = pr[p].stk[2] /\ 2 \in 1 .. Len(pr[p].stk)
    BY FramesFacts
  <2> QED  BY <2>1, FramesFacts
<1>2. f \in [Ids -> ModRec] /\ mod' = Taken(f, s, h)
  BY DEF Settles
<1> HIDE DEF h, s
<1>3. CASE s # <<>>
  <2>1. Depended(f, Head(s), h, mod')
    BY <1>1, <1>2, <1>3, DepAddFields DEF Taken
  <2> QED  BY <2>1 DEF Depended
<1> QED  BY <1>2, <1>3 DEF Taken

(* A record leaves loading only when its load settles.                     *)
LEMMA LoadingStays ==
  ASSUME Inv, NEW p \in Procs, Acts(p), NEW m \in list', mod'[m].trans # "loading"
  PROVE  /\ m \in list
         /\ \/ mod[m].trans # "loading"
            \/ pr[p].stk # <<>> /\ m = Head(pr[p].stk) /\ \E f : Settles(p, f)
<1> DEFINE h == Head(pr[p].stk)
<1>1. /\ list \subseteq Ids /\ mod \in [Ids -> ModRec]
      /\ pr[p].stk # <<>> => h \in Ids /\ mod[h].trans = "loading"
  BY FramesFacts DEF Inv, TypeOK
<1> HIDE DEF h
<1>2. CASE Quietly(p) \/ Leaves(p)
  BY <1>1, <1>2 DEF Quietly, Leaves, Same, Keeps
<1>3. CASE Begins(p)
  BY <1>1, <1>3 DEF Begins
<1>4. ASSUME NEW o \in Ids, Marks(p, o) \/ Unmarks(p, o)
      PROVE  m \in list /\ mod[m].trans # "loading"
  BY <1>1, <1>4 DEF Marks, Unmarks, SameBut, Keeps
<1>5. ASSUME NEW o \in Ids, Frees(p, o)
      PROVE  m \in list /\ mod[m].trans # "loading"
  <2>1. Freed(o, mod') /\ list' = list \ {o}
    BY <1>5, FreeFields DEF Frees, FreeMod, Inv
  <2> QED  BY <1>1, <2>1 DEF Freed
<1>6. CASE pr[p].stk # <<>> /\ (Steps(p) \/ Closes(p) \/ Pops(p))
  <2>1. list' = list /\ \A o \in Ids : mod'[o].trans = mod[o].trans
    BY <1>6, Zenon DEF Steps, Closes, Pops, SameBut, Keeps
  <2> QED  BY <1>1, <2>1
<1>7. ASSUME pr[p].stk # <<>>, NEW o \in Ids, Takes(p, o)
      PROVE  m \in list /\ mod[m].trans # "loading"
  <2>1. Depended(mod, h, o, mod') /\ list' = list
    BY <1>1, <1>7, DepAddFields DEF Takes, h
  <2> QED  BY <1>1, <2>1 DEF Depended
<1>8. ASSUME pr[p].stk # <<>>, NEW f, Settles(p, f), m # h
      PROVE  m \in list /\ mod[m].trans # "loading"
  <2>1. list' = list /\ SameBut(mod, f, h) /\ \A o \in Ids : mod'[o].trans = f[o].trans
    BY <1>8, SettledFields, Zenon DEF Settles, h
  <2> QED  BY <1>1, <1>8, <2>1 DEF SameBut, Keeps
<1>9. ASSUME pr[p].stk # <<>>, NEW f, Settles(p, f), m = h PROVE m \in list
  BY <1>9 DEF Settles
<1> QED
  BY <1>2, <1>3, <1>4, <1>5, <1>6, <1>7, <1>8, <1>9 DEF Acts, h

(* When a load settles, there is nothing its record lacks.                 *)
LEMMA SettlesComplete ==
  ASSUME Inv, Gains, NEW p \in Procs, pr[p].stk # <<>>, pr[p].pc = "inload"
  PROVE  Complete(mod, Head(pr[p].stk))
<1> DEFINE m == pr[p].stk[1]
           d == Depends[mod[m].name]
<1>1. Head(pr[p].stk) = m /\ m \in list /\ 1 \in 1 .. Len(pr[p].stk)
  BY FramesFacts
<1>2. Reached(mod, pr[p], 1) /\ mod[m].at > Len(d) /\ Awaits(mod, pr[p], 1) = NoName
  BY <1>1 DEF Gains, Gained, GoingOn, Awaits, Asks
<1>3. mod[m].name \in Names /\ mod[m].at \in Nat
  BY <1>1 DEF Inv, RecOK, TypeOK, ModRec
<1>4. ASSUME NEW j \in DOMAIN d PROVE d[j] \in Static \/ Has(mod, m, d[j])
  <2>1. j < mod[m].at /\ d[j] # NoName
    BY <1>2, <1>3, DepNames
  <2> QED  BY <1>2, <2>1 DEF Reached
<1> QED  BY <1>1, <1>4 DEF Complete

LEMMA GainsStep ==
  ASSUME Inv, Inv', Counts(list, mod), Gains, [Next]_vars
  PROVE  Gains'
<1>1. ASSUME NEW p \in Procs, Acts(p) PROVE Gains'
  <2>1. Remembers /\ OnlyMoves(p)
    BY <1>1, StepRemembers, SavedKept
  <2>2. PICK c \in Ids \cup {0} : Apart(p, c)
    BY <1>1, SavedKept
  <2>3. ASSUME NEW q \in Procs PROVE Gained(mod', pr'[q])
    <3>1. CASE q = p
      BY <1>1, <3>1, OwnGained
    <3>2. CASE q # p
      BY <2>1, <2>2, <3>2, OthersGained DEF OnlyMoves
    <3> QED  BY <3>1, <3>2
  <2>4. ASSUME NEW m \in list', mod'[m].trans # "loading" PROVE Complete(mod', m)
    <3>1. m \in list \cap list'
      BY <1>1, <2>4, LoadingStays
    <3>2. Complete(mod, m)
      <4>1. CASE mod[m].trans # "loading"
        BY <3>1, <4>1 DEF Gains, Closed
      <4>2. CASE mod[m].trans = "loading"
        <5>1. pr[p].stk # <<>> /\ m = Head(pr[p].stk) /\ \E f : Settles(p, f)
          BY <1>1, <2>4, <4>2, LoadingStays
        <5>2. pr[p].pc = "inload"
          BY <5>1 DEF Settles
        <5> QED  BY <5>1, <5>2, SettlesComplete
      <4> QED  BY <4>1, <4>2
    <3>3. mod'[m].name = mod[m].name /\ \A d : Has(mod, m, d) => Has(mod', m, d)
      BY <2>1, <3>1 DEF Remembers
    <3> QED  BY <3>2, <3>3 DEF Complete
  <2> QED  BY <2>3, <2>4 DEF Gains, Closed
<1>2. ASSUME NEW m \in Ids, Holds(m) PROVE Gains'
  <2>1. /\ list' = list /\ pr' = pr
        /\ \A o \in list : /\ mod'[o].name = mod[o].name /\ mod'[o].dep = mod[o].dep
                           /\ mod'[o].trans = mod[o].trans
                           /\ mod[o].trans = "loading" => mod'[o].at = mod[o].at
    BY <1>2 DEF Holds, SameBut, Keeps, Inv, TypeOK
  <2>2. Remembers
    BY <2>1, SameRemembers
  <2>3. ASSUME NEW q \in Procs PROVE Gained(mod', pr'[q])
    <3>1. /\ pr[q] \in ProcRec /\ Gained(mod, pr[q])
          /\ pr[q].pc \in {"image", "inload"} => pr[q].stk # <<>>
      BY <2>1, FramesFacts, FramesNext DEF Gains
    <3>2. \A i \in 1 .. Len(pr[q].stk) :
            /\ pr[q].stk[i] \in list \cap list'
            /\ mod'[pr[q].stk[i]].at = mod[pr[q].stk[i]].at
      BY <2>1, FramesFacts
    <3>3. CASE pr[q].pc \notin GoingOn
      BY <2>1, <3>3 DEF Gained
    <3>4. CASE pr[q].pc \in GoingOn
      BY <2>1, <2>2, <3>1, <3>2, <3>4, SameGained
    <3> QED  BY <3>3, <3>4
  <2>4. ASSUME NEW o \in list', mod'[o].trans # "loading" PROVE Complete(mod', o)
    <3>1. o \in list \cap list' /\ Complete(mod, o)
      BY <2>1, <2>4 DEF Gains, Closed
    <3> QED  BY <2>2, <3>1 DEF Remembers, Complete
  <2> QED  BY <2>3, <2>4 DEF Gains, Closed
<1>3. CASE UNCHANGED vars
  <2>1. list' = list /\ mod' = mod /\ pr' = pr
    BY <1>3 DEF vars
  <2>2. Closed(list, mod)' = Closed(list, mod)
    BY <2>1 DEF Closed, Complete, Has
  <2>3. \A p \in Procs : Gained(mod', pr'[p]) = Gained(mod, pr[p])
    BY <2>1
  <2> QED  BY <2>2, <2>3 DEF Gains
<1> QED  BY <1>1, <1>2, <1>3, EveryStep

LEMMA InitGains ==
  ASSUME Init
  PROVE  Gains
BY DEF Init, Gains, Closed, Gained, GoingOn, Asks, Idle

-----------------------------------------------------------------------------
LEMMA Shown ==
  /\ LoadedNames = LoadedIn(list, mod) /\ LoadedNames' = LoadedIn(list', mod')
  /\ [n \in Names |-> RefsOf(n)] = Held(list, mod)
  /\ [n \in Names |-> RefsOf(n)]' = Held(list', mod')
  /\ UniqueName <=> Unique(list, mod)
  /\ UniqueName' <=> Unique(list', mod')
<1>1. LoadedNames = LoadedIn(list, mod) /\ LoadedNames' = LoadedIn(list', mod')
  BY Zenon DEF LoadedNames, LoadedIn
<1>2. [n \in Names |-> RefsOf(n)] = Held(list, mod)
  BY Zenon DEF Held, RefsOf, HeldIn, FindName, Named, NamedIn
<1>3. [n \in Names |-> RefsOf(n)]' = Held(list', mod')
  BY Zenon DEF Held, RefsOf, HeldIn, FindName, Named, NamedIn
<1> QED  BY <1>1, <1>2, <1>3 DEF UniqueName, Unique

(* With one record of a name, the registry's holds are that record's.      *)
LEMMA HeldOne ==
  ASSUME NEW L \in SUBSET Ids, NEW f, Unique(L, f), NEW m \in L
  PROVE  HeldIn(L, f, f[m].name) = f[m].refs
<1> DEFINE S == NamedIn(L, f, f[m].name)
<1>1. \A o : o \in S <=> o = m
  BY DEF NamedIn, Unique
<1>2. m <= m
  BY ConstAssumption DEF Ids
<1> HIDE DEF S
<1>3. (CHOOSE o \in S : \A x \in S : o <= x) = m
  BY <1>1, <1>2
<1> QED  BY <1>3 DEF HeldIn, S

LEMMA HeldNone ==
  ASSUME NEW L, NEW f, NEW n, \A m \in L : f[m].name # n
  PROVE  HeldIn(L, f, n) = 0
BY DEF HeldIn

(* Records that come and go with no holds do not show.                     *)
LEMMA HeldSame ==
  ASSUME NEW L \in SUBSET Ids, NEW K \in SUBSET Ids, NEW f, NEW g, Unique(L, f), Unique(K, g),
         \A o \in L \cap K : g[o].name = f[o].name /\ g[o].refs = f[o].refs,
         \A o \in L \ K : f[o].refs = 0, \A o \in K \ L : g[o].refs = 0
  PROVE  Held(K, g) = Held(L, f)
<1>1. ASSUME NEW n PROVE HeldIn(K, g, n) = HeldIn(L, f, n)
  <2>1. CASE \E m \in L \cap K : f[m].name = n
    <3>1. PICK m \in L \cap K : f[m].name = n
      BY <2>1
    <3>2. HeldIn(L, f, n) = f[m].refs
      BY <3>1, HeldOne
    <3>3. HeldIn(K, g, g[m].name) = g[m].refs
      BY HeldOne
    <3> QED  BY <3>1, <3>2, <3>3
  <2>2. CASE \A m \in L \cap K : f[m].name # n
    <3>1. HeldIn(L, f, n) = 0
      <4>1. CASE \E m \in L : f[m].name = n
        <5>1. PICK m \in L : f[m].name = n
          BY <4>1
        <5>2. HeldIn(L, f, n) = f[m].refs
          BY <5>1, HeldOne
        <5> QED  BY <2>2, <5>1, <5>2
      <4> QED  BY <4>1, HeldNone
    <3>2. HeldIn(K, g, n) = 0
      <4>1. CASE \E m \in K : g[m].name = n
        <5>1. PICK m \in K : g[m].name = n
          BY <4>1
        <5>2. HeldIn(K, g, n) = g[m].refs
          BY <5>1, HeldOne
        <5> QED  BY <2>2, <5>1, <5>2
      <4> QED  BY <4>1, HeldNone
    <3> QED  BY <3>1, <3>2
  <2> QED  BY <2>1, <2>2
<1> QED  BY <1>1 DEF Held

(* A loaded record stays loaded until it is freed after its _unload.       *)
LEMMA LoadedStays ==
  ASSUME Inv, NEW p \in Procs, Acts(p), NEW m \in list, mod[m].trans # "loading"
  PROVE  \/ m \in list' /\ mod'[m].trans # "loading"
         \/ mod[m].trans = "unloading" /\ Frees(p, m)
<1> DEFINE h == Head(pr[p].stk)
<1>1. /\ list \subseteq Ids /\ mod \in [Ids -> ModRec] /\ m \in Ids
      /\ pr[p].stk # <<>> => h \in Ids /\ mod[h].trans = "loading"
  BY FramesFacts DEF Inv, TypeOK
<1> HIDE DEF h
<1>2. CASE Quietly(p) \/ Leaves(p)
  BY <1>1, <1>2 DEF Quietly, Leaves, Same, Keeps
<1>3. CASE Begins(p)
  BY <1>1, <1>3 DEF Begins
<1>4. ASSUME NEW o \in Ids, Marks(p, o) \/ Unmarks(p, o)
      PROVE  m \in list' /\ mod'[m].trans # "loading"
  BY <1>1, <1>4 DEF Marks, Unmarks, SameBut, Keeps
<1>5. ASSUME NEW o \in Ids, Frees(p, o), o # m
      PROVE  m \in list' /\ mod'[m].trans # "loading"
  <2>1. Freed(o, mod') /\ list' = list \ {o}
    BY <1>5, FreeFields DEF Frees, FreeMod, Inv
  <2> QED  BY <1>1, <1>5, <2>1 DEF Freed
<1>6. CASE Frees(p, m)
  BY <1>6 DEF Frees
<1>7. CASE pr[p].stk # <<>> /\ (Steps(p) \/ Closes(p) \/ Pops(p))
  <2>1. list' = list /\ \A o \in Ids : mod'[o].trans = mod[o].trans
    BY <1>7, Zenon DEF Steps, Closes, Pops, SameBut, Keeps
  <2> QED  BY <1>1, <2>1
<1>8. ASSUME pr[p].stk # <<>>, NEW o \in Ids, Takes(p, o)
      PROVE  m \in list' /\ mod'[m].trans # "loading"
  <2>1. Depended(mod, h, o, mod') /\ list' = list
    BY <1>1, <1>8, DepAddFields DEF Takes, h
  <2> QED  BY <1>1, <2>1 DEF Depended
<1>9. ASSUME pr[p].stk # <<>>, NEW f, Settles(p, f)
      PROVE  m \in list' /\ mod'[m].trans # "loading"
  <2>1. list' = list /\ SameBut(mod, f, h) /\ \A o \in Ids : mod'[o].trans = f[o].trans
    BY <1>9, SettledFields, Zenon DEF Settles, h
  <2> QED  BY <1>1, <1>9, <2>1 DEF SameBut, Keeps
<1> QED  BY <1>4, <1>2, <1>3, <1>5, <1>6, <1>7, <1>8, <1>9 DEF Acts

(* No step of a process changes a hold.                                    *)
LEMMA HoldsStay ==
  ASSUME Inv, Counts(list, mod), NEW p \in Procs, Acts(p)
  PROVE  /\ \A o \in list \cap list' : mod'[o].refs = mod[o].refs
         /\ \A o \in list \ list' : mod[o].refs = 0
         /\ \A o \in list' \ list : mod'[o].refs = 0
<1> DEFINE h == Head(pr[p].stk)
<1>1. /\ list \subseteq Ids /\ mod \in [Ids -> ModRec]
      /\ pr[p].stk # <<>> => h \in Ids /\ mod[h].trans = "loading"
  BY FramesFacts DEF Inv, TypeOK
<1> HIDE DEF h
<1>2. CASE Begins(p)
  BY <1>1, <1>2 DEF Begins
<1>3. ASSUME NEW m \in Ids, Frees(p, m)
      PROVE  /\ \A o \in list \cap list' : mod'[o].refs = mod[o].refs
             /\ \A o \in list \ list' : mod[o].refs = 0
             /\ \A o \in list' \ list : mod'[o].refs = 0
  <2>1. Freed(m, mod') /\ list' = list \ {m} /\ mod[m].trans # "no" /\ m \in list
    BY <1>3, FreeFields DEF Frees, FreeMod, Inv
  <2>2. mod[m].refs = 0
    BY <2>1 DEF Counts, Quiet
  <2> QED  BY <1>1, <2>1, <2>2 DEF Freed
<1>4. ASSUME list' = list, \A o \in Ids : mod'[o].refs = mod[o].refs
      PROVE  /\ \A o \in list \cap list' : mod'[o].refs = mod[o].refs
             /\ \A o \in list \ list' : mod[o].refs = 0
             /\ \A o \in list' \ list : mod'[o].refs = 0
  BY <1>1, <1>4
<1>5. CASE Quietly(p) \/ Leaves(p)
  BY <1>4, <1>5 DEF Quietly, Leaves, Same, Keeps
<1>6. ASSUME NEW m \in Ids, Marks(p, m) \/ Unmarks(p, m)
      PROVE  list' = list /\ \A o \in Ids : mod'[o].refs = mod[o].refs
  BY <1>6 DEF Marks, Unmarks, SameBut, Keeps
<1>7. CASE pr[p].stk # <<>> /\ (Steps(p) \/ Closes(p) \/ Pops(p))
  <2>1. list' = list /\ \A o \in Ids : mod'[o].refs = mod[o].refs
    BY <1>7, Zenon DEF Steps, Closes, Pops, SameBut, Keeps
  <2> QED  BY <1>4, <2>1
<1>8. ASSUME pr[p].stk # <<>>, NEW o \in Ids, Takes(p, o)
      PROVE  list' = list /\ \A m \in Ids : mod'[m].refs = mod[m].refs
  <2>1. Depended(mod, h, o, mod') /\ list' = list
    BY <1>1, <1>8, DepAddFields DEF Takes, h
  <2> QED  BY <2>1 DEF Depended
<1>9. ASSUME pr[p].stk # <<>>, NEW f, Settles(p, f)
      PROVE  list' = list /\ \A m \in Ids : mod'[m].refs = mod[m].refs
  <2>1. /\ list' = list /\ SameBut(mod, f, h) /\ f[h].refs = mod[h].refs
        /\ \A o \in Ids : mod'[o].refs = f[o].refs
    BY <1>9, SettledFields, Zenon DEF Settles, h
  <2> QED  BY <2>1 DEF SameBut, Keeps
<1> QED  BY <1>2, <1>3, <1>4, <1>5, <1>6, <1>7, <1>8, <1>9 DEF Acts

-----------------------------------------------------------------------------
(* A record that settles is a load of its name.                            *)
LEMMA SettlesLoads ==
  ASSUME Inv, Counts(list, mod), Gains, UniqueName, UniqueName', NEW p \in Procs, Acts(p),
         pr[p].stk # <<>>, NEW f, Settles(p, f)
  PROVE  RegistryStep
<1> DEFINE m == Head(pr[p].stk)
           n == mod[m].name
<1>1. /\ list \subseteq Ids /\ m \in list /\ m \in Ids /\ mod[m].trans = "loading"
      /\ n \in Names /\ list' = list /\ pr[p].pc = "inload"
  BY FramesFacts DEF Inv, TypeOK, RecOK, Settles
<1>2. Complete(mod, m)
  BY <1>1, SettlesComplete
<1>3. /\ SameBut(mod, f, m) /\ f[m].trans = "no"
      /\ \A o \in Ids : mod'[o].trans = f[o].trans
  BY SettledFields, Zenon DEF Settles
<1> HIDE DEF m
<1>4. \A o \in list : mod'[o].name = mod[o].name
  BY <1>1, StepRemembers DEF Remembers
<1>5. n \notin LoadedIn(list, mod)
  BY <1>1 DEF UniqueName, LoadedIn
<1>6. \A d \in Names : Registry!DependsOn(n, d) => d \in LoadedIn(list, mod)
  <2> SUFFICES ASSUME NEW d \in Names, Registry!DependsOn(n, d)
               PROVE  d \in LoadedIn(list, mod)
    OBVIOUS
  <2>1. PICK j \in DOMAIN Depends[n] : Depends[n][j] = d /\ d \notin Static
    BY DEF Registry!DependsOn
  <2>2. PICK i \in DOMAIN mod[m].dep : mod[mod[m].dep[i]].name = d
    BY <1>2, <2>1 DEF Complete, Has
  <2>3. mod[m].dep[i] \in list /\ mod[mod[m].dep[i]].trans = "no"
    BY <1>1 DEF Counts, Alive
  <2> QED  BY <2>2, <2>3 DEF LoadedIn
<1>7. LoadedIn(list', mod') = LoadedIn(list, mod) \cup {n}
  <2>1. ASSUME NEW x PROVE x \in LoadedIn(list', mod') <=> x \in LoadedIn(list, mod) \cup {n}
    <3>1. \A o \in list : mod'[o].trans # "loading" <=> mod[o].trans # "loading" \/ o = m
      BY <1>1, <1>3 DEF SameBut, Keeps
    <3> QED  BY <1>1, <1>4, <3>1 DEF LoadedIn
  <2> QED  BY <2>1
<1>8. Held(list', mod') = Held(list, mod)
  <2>1. Unique(list, mod) /\ Unique(list', mod')
    BY Shown
  <2>2. /\ \A o \in list \cap list' : mod'[o].name = mod[o].name /\ mod'[o].refs = mod[o].refs
        /\ \A o \in list \ list' : mod[o].refs = 0
        /\ \A o \in list' \ list : mod'[o].refs = 0
    BY <1>1, <1>4, HoldsStay
  <2> QED  BY <1>1, <2>1, <2>2, HeldSame
<1>9. Registry!Load(n)
  BY <1>5, <1>6, <1>7, <1>8, Shown DEF Registry!Load
<1> QED  BY <1>1, <1>9 DEF RegistryStep

(* A record freed after its _unload is an unload of its name.              *)
LEMMA FreesUnloads ==
  ASSUME Inv, Inv', Counts(list, mod), Gains, UniqueName, UniqueName', NEW p \in Procs, Acts(p),
         NEW m \in Ids, Frees(p, m), mod[m].trans = "unloading"
  PROVE  RegistryStep
<1> DEFINE n == mod[m].name
<1>1. /\ list \subseteq Ids /\ list' \subseteq Ids /\ m \in list /\ n \in Names
      /\ list' = list \ {m}
  BY DEF Inv, TypeOK, RecOK, Frees, FreeMod
<1>2. Freed(m, mod')
  BY FreeFields DEF Frees, Inv
<1>3. \A o \in list' : mod'[o].name = mod[o].name /\ mod'[o].trans = mod[o].trans
  BY <1>1, <1>2 DEF Freed
<1>4. Unique(list, mod) /\ Unique(list', mod')
  BY Shown
<1>5. n \in LoadedIn(list, mod)
  BY <1>1 DEF LoadedIn
<1>6. Held(list, mod)[n] = 0
  <2>1. HeldIn(list, mod, n) = mod[m].refs
    BY <1>1, <1>4, HeldOne
  <2>2. mod[m].refs = 0
    BY <1>1 DEF Counts, Quiet
  <2> QED  BY <1>1, <2>1, <2>2 DEF Held
<1>7. \A d \in LoadedIn(list, mod) : ~Registry!DependsOn(d, n)
  <2> SUFFICES ASSUME NEW o \in list, mod[o].trans # "loading",
                      Registry!DependsOn(mod[o].name, n)
               PROVE  FALSE
    BY DEF LoadedIn
  <2>1. PICK j \in DOMAIN Depends[mod[o].name] :
          Depends[mod[o].name][j] = n /\ n \notin Static
    BY DEF Registry!DependsOn
  <2>2. Complete(mod, o)
    BY DEF Gains, Closed
  <2>3. PICK i \in DOMAIN mod[o].dep : mod[mod[o].dep[i]].name = n
    BY <2>1, <2>2 DEF Complete, Has
  <2>4. mod[o].dep[i] \in list /\ mod[mod[o].dep[i]].trans = "no"
    BY DEF Counts, Alive
  <2> QED  BY <1>1, <2>3, <2>4 DEF UniqueName
<1>8. LoadedIn(list', mod') = LoadedIn(list, mod) \ {n}
  <2>1. ASSUME NEW x PROVE x \in LoadedIn(list', mod') <=> x \in LoadedIn(list, mod) \ {n}
    BY <1>1, <1>3 DEF LoadedIn, UniqueName
  <2> QED  BY <2>1
<1>9. Held(list', mod') = Held(list, mod)
  <2>1. /\ \A o \in list \cap list' : mod'[o].name = mod[o].name /\ mod'[o].refs = mod[o].refs
        /\ \A o \in list \ list' : mod[o].refs = 0
        /\ \A o \in list' \ list : mod'[o].refs = 0
    BY <1>1, <1>3, HoldsStay
  <2> QED  BY <1>1, <1>4, <2>1, HeldSame
<1>10. Registry!Unload(n)
  BY <1>5, <1>6, <1>7, <1>8, <1>9, Shown DEF Registry!Unload
<1> QED  BY <1>1, <1>10 DEF RegistryStep

(* Nothing else a process does shows.                                      *)
LEMMA ElseStutters ==
  ASSUME Inv, Inv', Counts(list, mod), UniqueName, UniqueName', NEW p \in Procs, Acts(p),
         ~ (pr[p].stk # <<>> /\ \E f : Settles(p, f)),
         ~ (\E m \in Ids : Frees(p, m) /\ mod[m].trans = "unloading")
  PROVE  RegistryStep
<1>1. list \subseteq Ids /\ list' \subseteq Ids
  BY DEF Inv, TypeOK
<1>2. \A o \in list \cap list' : mod'[o].name = mod[o].name
  BY StepRemembers DEF Remembers
<1>3. Held(list', mod') = Held(list, mod)
  <2>1. Unique(list, mod) /\ Unique(list', mod')
    BY Shown
  <2>2. /\ \A o \in list \cap list' : mod'[o].name = mod[o].name /\ mod'[o].refs = mod[o].refs
        /\ \A o \in list \ list' : mod[o].refs = 0
        /\ \A o \in list' \ list : mod'[o].refs = 0
    BY <1>2, HoldsStay
  <2> QED  BY <1>1, <2>1, <2>2, HeldSame
<1>4. \A m \in list' : mod'[m].trans # "loading" => m \in list /\ mod[m].trans # "loading"
  BY LoadingStays
<1>5. \A m \in list : mod[m].trans # "loading" => m \in list' /\ mod'[m].trans # "loading"
  BY <1>1, LoadedStays
<1>6. LoadedIn(list', mod') = LoadedIn(list, mod)
  <2>1. ASSUME NEW x PROVE x \in LoadedIn(list', mod') <=> x \in LoadedIn(list, mod)
    BY <1>2, <1>4, <1>5 DEF LoadedIn
  <2> QED  BY <2>1
<1> QED  BY <1>3, <1>6, Shown DEF RegistryStep

(* mod_hold and mod_rele are the registry's own.                           *)
LEMMA HoldsShow ==
  ASSUME Inv, UniqueName, UniqueName', NEW m \in Ids, Holds(m)
  PROVE  RegistryStep
<1> DEFINE n == mod[m].name
<1>1. /\ list \subseteq Ids /\ m \in list /\ n \in Names /\ list' = list
      /\ mod[m].trans = "no" /\ mod[m].refs \in Nat
  BY DEF Inv, TypeOK, RecOK, Holds, ModRec
<1>2. \A o \in Ids : mod'[o].name = mod[o].name /\ mod'[o].trans = mod[o].trans
  BY DEF Holds, SameBut, Keeps
<1>3. \A o \in Ids \ {m} : mod'[o].refs = mod[o].refs
  BY DEF Holds, SameBut, Keeps
<1>4. Unique(list, mod) /\ Unique(list', mod')
  BY Shown
<1>5. HeldIn(list, mod, n) = mod[m].refs
  BY <1>1, <1>4, HeldOne
<1>6. HeldIn(list', mod', n) = mod'[m].refs
  BY <1>1, <1>2, <1>4, HeldOne
<1>7. ASSUME NEW x \in Names, x # n PROVE HeldIn(list', mod', x) = HeldIn(list, mod, x)
  <2>1. CASE \E o \in list : mod[o].name = x
    <3>1. PICK o \in list : mod[o].name = x
      BY <2>1
    <3>2. HeldIn(list, mod, x) = mod[o].refs
      BY <1>1, <1>4, <3>1, HeldOne
    <3>3. HeldIn(list', mod', mod'[o].name) = mod'[o].refs
      BY <1>1, <1>4, HeldOne
    <3>4. mod'[o].name = x /\ o # m
      BY <1>1, <1>2, <1>7, <3>1
    <3> QED  BY <1>1, <1>3, <3>2, <3>3, <3>4
  <2>2. CASE \A o \in list : mod[o].name # x
    <3>1. \A o \in list' : mod'[o].name # x
      BY <1>1, <1>2, <2>2
    <3> QED  BY <2>2, <3>1, HeldNone
  <2> QED  BY <2>1, <2>2
<1>8. Held(list', mod') = [Held(list, mod) EXCEPT ![n] = mod'[m].refs]
  BY <1>1, <1>6, <1>7 DEF Held
<1>9. LoadedIn(list', mod') = LoadedIn(list, mod) /\ n \in LoadedIn(list, mod)
  <2>1. ASSUME NEW x PROVE x \in LoadedIn(list', mod') <=> x \in LoadedIn(list, mod)
    BY <1>1, <1>2 DEF LoadedIn
  <2> QED  BY <1>1, <2>1 DEF LoadedIn
<1>10. Held(list, mod)[n] = mod[m].refs
  BY <1>1, <1>5 DEF Held
<1>11. CASE mod'[m].refs = mod[m].refs + 1
  <2>1. Registry!Hold(n)
    BY <1>8, <1>9, <1>10, <1>11, Shown DEF Registry!Hold
  <2> QED  BY <1>1, <2>1 DEF RegistryStep
<1>12. CASE mod[m].refs > 0 /\ mod'[m].refs = mod[m].refs - 1
  <2>1. Registry!Rele(n)
    BY <1>8, <1>9, <1>10, <1>12, Shown DEF Registry!Rele
  <2> QED  BY <1>1, <2>1 DEF RegistryStep
<1> QED  BY <1>11, <1>12 DEF Holds

LEMMA NextRegistry ==
  ASSUME Inv, Inv', Counts(list, mod), Gains, UniqueName, UniqueName', [Next]_vars
  PROVE  RegistryStep
<1>1. ASSUME NEW p \in Procs, Acts(p) PROVE RegistryStep
  BY <1>1, SettlesLoads, FreesUnloads, ElseStutters
<1>2. ASSUME NEW m \in Ids, Holds(m) PROVE RegistryStep
  BY <1>2, HoldsShow
<1>3. ASSUME UNCHANGED vars PROVE RegistryStep
  <2>1. list' = list /\ mod' = mod
    BY <1>3 DEF vars
  <2> QED  BY <2>1, Shown DEF RegistryStep
<1> QED  BY <1>1, <1>2, <1>3, EveryStep

(* The loader implements the registry whatever the modules, their          *)
(* dependencies and the processes: a name appears only with its            *)
(* dependencies, and leaves only unheld and undepended on, through every   *)
(* sleep, failure and interruption of dlm_load and dlm_unload              *)
(* (dlm_core.c), as long as kmem_zalloc(KM_SLEEP) finds memory at once.    *)
THEOREM ImplementsRegistry ==
  ASSUME ~AllocSleeps
  PROVE  Spec => RegistrySpec
<1> USE ConstAssumption
<1> DEFINE I == Inv /\ Counts(list, mod) /\ Gains /\ UniqueName
<1>1. Init => I
  BY InitInv, InitCounts, InitGains
<1>2. I /\ [Next]_vars => I'
  <2> SUFFICES ASSUME I, [Next]_vars PROVE I'
    OBVIOUS
  <2>1. Inv' /\ UniqueName'
    BY NextInv DEF SafeKept
  <2>2. Counts(list', mod')
    BY CountsStep
  <2>3. Gains'
    BY <2>1, GainsStep
  <2> QED  BY <2>1, <2>2, <2>3
<1>3. Init => Registry!Init
  <2> SUFFICES ASSUME Init PROVE Registry!Init
    OBVIOUS
  <2>1. list = {}
    BY DEF Init
  <2>2. LoadedNames = {} /\ \A n \in Names : RefsOf(n) = 0
    BY <2>1 DEF LoadedNames, RefsOf
  <2> QED  BY <2>2 DEF Registry!Init
<1>4. I /\ I' /\ [Next]_vars => [Registry!Next]_<<LoadedNames, [n \in Names |-> RefsOf(n)]>>
  BY NextRegistry DEF RegistryStep, Registry!Next
<1> QED  BY <1>1, <1>2, <1>3, <1>4, PTL DEF Spec, RegistrySpec, Registry!Spec
-----------------------------------------------------------------------------
(* The instance's own FiniteSets is the one of the proofs.                 *)
LEMMA SameFinite == \A S : Open!IsFiniteSet(S) <=> IsFiniteSet(S)
  BY DEF Open!IsFiniteSet, IsFiniteSet
LEMMA SameCardinality == \A S : Open!Cardinality(S) = Cardinality(S)
  BY DEF Open!Cardinality, Cardinality

(* Two sets that differ in one element at most.                            *)
LEMMA Recount ==
  ASSUME NEW A, IsFiniteSet(A), NEW B, NEW p, \A q : q # p => (q \in A <=> q \in B)
  PROVE  /\ Cardinality(A) \in Nat /\ Cardinality(B) \in Nat
         /\ p \in A /\ p \notin B => Cardinality(B) = Cardinality(A) - 1
         /\ p \notin A /\ p \in B => Cardinality(B) = Cardinality(A) + 1
         /\ (p \in A <=> p \in B) => B = A
<1>1. Cardinality(A) \in Nat
  BY FS_CardinalityType
<1>2. CASE p \in A /\ p \notin B
  <2>1. B = A \ {p}
    BY <1>2
  <2>2. IsFiniteSet(A \ {p}) /\ Cardinality(A \ {p}) = Cardinality(A) - 1
    BY <1>2, FS_RemoveElement
  <2>3. Cardinality(B) \in Nat
    BY <2>1, <2>2, FS_CardinalityType
  <2> QED  BY <1>1, <1>2, <2>1, <2>2, <2>3
<1>3. CASE p \notin A /\ p \in B
  <2>1. B = A \cup {p}
    BY <1>3
  <2>2. Cardinality(A \cup {p}) = Cardinality(A) + 1
    BY <1>3, FS_AddElement
  <2> QED  BY <1>1, <1>3, <2>1, <2>2
<1>4. CASE p \in A <=> p \in B
  <2>1. B = A
    BY <1>4
  <2> QED  BY <1>1, <1>4, <2>1
<1> QED  BY <1>2, <1>3, <1>4

LEMMA Tally ==
  ASSUME Open!OpenAssumption, NEW p \in Procs, NEW c, NEW k, Becomes(p, c, k)
  PROVE  Tallied(p, c, k)
<1>1. IsFiniteSet(Procs)
  BY SameFinite DEF Open!OpenAssumption
<1>2. /\ Opened \in Nat /\ Opened' \in Nat
      /\ Opened' = Opened + One(c = "open") - One(opr[p].pc = "open")
  <2> DEFINE A == Open!At("open")
             B == Open!At("open")'
  <2>1. IsFiniteSet(A) /\ (\A q : q # p => (q \in A <=> q \in B))
    BY <1>1, FS_Subset DEF Open!At, Becomes
  <2>2. (p \in A <=> opr[p].pc = "open") /\ (p \in B <=> c = "open")
    BY DEF Open!At, Becomes
  <2>3. Opened = Cardinality(A) /\ Opened' = Cardinality(B)
    BY DEF Opened
  <2> HIDE DEF A, B
  <2>4. /\ Cardinality(A) \in Nat /\ Cardinality(B) \in Nat
        /\ p \in A /\ p \notin B => Cardinality(B) = Cardinality(A) - 1
        /\ p \notin A /\ p \in B => Cardinality(B) = Cardinality(A) + 1
        /\ (p \in A <=> p \in B) => B = A
    BY <2>1, Recount
  <2> QED  BY <2>2, <2>3, <2>4 DEF One
<1>3. /\ DevClosed \in Nat /\ DevClosed' \in Nat
      /\ DevClosed' = DevClosed + One(c = "close") - One(opr[p].pc = "close")
  <2> DEFINE A == Open!At("close")
             B == Open!At("close")'
  <2>1. IsFiniteSet(A) /\ (\A q : q # p => (q \in A <=> q \in B))
    BY <1>1, FS_Subset DEF Open!At, Becomes
  <2>2. (p \in A <=> opr[p].pc = "close") /\ (p \in B <=> c = "close")
    BY DEF Open!At, Becomes
  <2>3. DevClosed = Cardinality(A) /\ DevClosed' = Cardinality(B)
    BY DEF DevClosed
  <2> HIDE DEF A, B
  <2>4. /\ Cardinality(A) \in Nat /\ Cardinality(B) \in Nat
        /\ p \in A /\ p \notin B => Cardinality(B) = Cardinality(A) - 1
        /\ p \notin A /\ p \in B => Cardinality(B) = Cardinality(A) + 1
        /\ (p \in A <=> p \in B) => B = A
    BY <2>1, Recount
  <2> QED  BY <2>2, <2>3, <2>4 DEF One
<1>4. /\ Open!Closing(Layered) \in Nat /\ Open!Closing(Layered)' \in Nat
      /\ Open!Closing(Layered)' = Open!Closing(Layered) + One(c = "close" /\ k = Layered) - One(opr[p].pc = "close" /\ opr[p].key = Layered)
  <2> DEFINE A == {q \in Open!At("close") : opr[q].key = Layered}
             B == {q \in Open!At("close") : opr[q].key = Layered}'
  <2>1. IsFiniteSet(A) /\ (\A q : q # p => (q \in A <=> q \in B))
    BY <1>1, FS_Subset DEF Open!At, Becomes
  <2>2. (p \in A <=> opr[p].pc = "close" /\ opr[p].key = Layered) /\ (p \in B <=> c = "close" /\ k = Layered)
    BY DEF Open!At, Becomes
  <2>3. Open!Closing(Layered) = Cardinality(A) /\ Open!Closing(Layered)' = Cardinality(B)
    BY SameCardinality DEF Open!Closing
  <2> HIDE DEF A, B
  <2>4. /\ Cardinality(A) \in Nat /\ Cardinality(B) \in Nat
        /\ p \in A /\ p \notin B => Cardinality(B) = Cardinality(A) - 1
        /\ p \notin A /\ p \in B => Cardinality(B) = Cardinality(A) + 1
        /\ (p \in A <=> p \in B) => B = A
    BY <2>1, Recount
  <2> QED  BY <2>2, <2>3, <2>4 DEF One
<1> QED  BY <1>2, <1>3, <1>4 DEF Tallied

(* The sums are of natural numbers.                                        *)
LEMMA Numbers ==
  ASSUME Open!OpenAssumption, Open!TypeOK
  PROVE  /\ IsFiniteSet(set) /\ Cardinality(set) \in Nat
         /\ refs \in Nat /\ incall \in Nat /\ good \in Nat
         /\ opens[Layered] \in Nat /\ left[Layered] \in Nat
<1>1. IsFiniteSet(Devs \cup Streams)
  BY SameFinite, FS_Union DEF Open!OpenAssumption
<1>2. IsFiniteSet(set)
  BY <1>1, FS_Subset DEF Open!TypeOK
<1>3. Layered \in Open!Keys
  BY DEF Open!Keys
<1>4. opens[Layered] \in Nat /\ left[Layered] \in Nat
  BY <1>3 DEF Open!TypeOK, Open!OpenAssumption
<1> QED  BY <1>2, <1>4, FS_CardinalityType DEF Open!TypeOK

(***************************************************************************)
(* The steps                                                               *)
(***************************************************************************)
(* What use is, process by process.                                        *)
LEMMA InUseIs ==
  /\ Open!InUse <=> (\E k \in Open!Keys : opens[k] > 0) \/ \E p \in Procs : opr[p].pc \in {"open", "close"}
  /\ Open!InUse' <=> (\E k \in Open!Keys : opens'[k] > 0) \/ \E p \in Procs : opr'[p].pc \in {"open", "close"}
  BY DEF Open!InUse, Open!At

(* A hold is taken to enter the module, and let go by an open that fails;  *)
(* nothing else changes.                                                   *)
LEMMA HoldsKept ==
  ASSUME Open!OpenAssumption, OInv, NEW p \in Procs, NEW c, NEW k, Becomes(p, c, k),
         opr[p].pc # "close", c # "close",
         set' = set, opens' = opens, left' = left, good' = good, incall' = incall,
         refs' = refs + One(c = "open") - One(opr[p].pc = "open")
  PROVE  CallsOK' /\ Open!HoldsExact' /\ refs' \in Nat
<1>1. Tallied(p, c, k)
  BY Tally
<1>2. /\ Cardinality(set) \in Nat /\ refs \in Nat /\ incall \in Nat /\ good \in Nat
      /\ opens[Layered] \in Nat /\ left[Layered] \in Nat
  BY Numbers DEF OInv
<1>3. /\ refs = Cardinality(set) + opens[Layered] + Open!Closing(Layered) + left[Layered] + Opened + good
      /\ incall >= DevClosed
  BY SameCardinality DEF OInv, Open!HoldsExact, CallsOK, Opened, DevClosed
<1>4. DevClosed' = DevClosed /\ Open!Closing(Layered)' = Open!Closing(Layered)
  BY <1>1 DEF Tallied, One
<1>5. refs' = Cardinality(set) + opens[Layered] + Open!Closing(Layered)' + left[Layered] + Opened' + good
  <2> DEFINE x == One(c = "open")
             y == One(opr[p].pc = "open")
             z == Open!Closing(Layered)
  <2>1. x \in Nat /\ y \in Nat /\ z \in Nat
    BY <1>1 DEF One, Tallied
  <2>2. refs' = refs + x - y /\ Opened \in Nat /\ Opened' = Opened + x - y
    BY <1>1 DEF Tallied
  <2>3. refs = Cardinality(set) + opens[Layered] + z + left[Layered] + Opened + good
    BY <1>3
  <2> HIDE DEF x, y, z
  <2>4. refs' = Cardinality(set) + opens[Layered] + z + left[Layered] + Opened' + good
    BY <1>2, <2>1, <2>2, <2>3
  <2> QED  BY <1>4, <2>4 DEF z
<1>6. refs' = Cardinality(set') + opens'[Layered] + Open!Closing(Layered)' + left'[Layered] + Opened' + good'
  BY <1>5
<1>7. Open!HoldsExact'
  BY SameCardinality, <1>6 DEF Open!HoldsExact, Opened
<1>8. CallsOK'
  BY <1>3, <1>4 DEF CallsOK, DevClosed
<1>9. refs' \in Nat
  BY <1>1, <1>2, <1>4, <1>5 DEF Tallied
<1> QED  BY <1>7, <1>8, <1>9

LEMMA OpenKept ==
  ASSUME Open!OpenAssumption, OInv, NEW p \in Procs, NEW k \in Open!Keys, Open!Open(p, k)
  PROVE  OInv'
<1> DEFINE c == IF linked THEN "open" ELSE "load"
<1>1. Becomes(p, c, k) /\ opr[p].pc = "user" /\ c \in {"open", "load"}
  BY DEF OInv, Open!TypeOK, Open!Open, Rec, Pcs, Becomes
<1>2. refs' = refs + One(c = "open") - One(opr[p].pc = "open")
  BY <1>1, Numbers DEF OInv, Open!Open, One
<1>3. CallsOK' /\ Open!HoldsExact' /\ refs' \in Nat
  <2>1. set' = set /\ opens' = opens /\ left' = left /\ good' = good /\ incall' = incall
    BY DEF Open!Open
  <2>2. opr[p].pc # "close" /\ c # "close"
    BY <1>1
  <2> HIDE DEF c
  <2> QED  BY <1>1, <1>2, <2>1, <2>2, HoldsKept
<1>4. Open!TypeOK'
  BY <1>1, <1>3 DEF OInv, Open!TypeOK, Open!Open, Becomes, Rec, Pcs
<1>5. LoaderOK'
  BY <1>1 DEF OInv, Open!Open, LoaderOK, Becomes
<1>6. KeysOK'
  <2>1. \A q \in Procs : opr[q].pc = "close" => opr[q].key # k
    BY <1>1 DEF Open!Open, Open!On
  <2> QED  BY <1>1, <2>1 DEF OInv, Open!Open, KeysOK, Becomes
<1>7. Open!UsedLoaded'
  BY <1>1, InUseIs DEF OInv, Open!Open, Open!UsedLoaded, LoaderOK, Becomes
<1> QED  BY <1>3, <1>4, <1>5, <1>6, <1>7 DEF OInv

LEMMA LoadStartsKept ==
  ASSUME Open!OpenAssumption, OInv, NEW p \in Procs, Open!LoadStarts(p)
  PROVE  OInv'
<1>1. Becomes(p, "loading", opr[p].key) /\ opr[p].pc = "load"
  BY DEF OInv, Open!TypeOK, Open!LoadStarts, Open!Goes, Rec, Pcs, Becomes
<1>2. CallsOK' /\ Open!HoldsExact' /\ refs' \in Nat
  <2>1. refs' = refs + One("loading" = "open") - One(opr[p].pc = "open")
    BY <1>1, Numbers DEF OInv, Open!LoadStarts, One
  <2> QED  BY <1>1, <2>1, HoldsKept DEF Open!LoadStarts
<1>3. Open!TypeOK'
  BY <1>1, <1>2 DEF OInv, Open!TypeOK, Open!LoadStarts, Becomes, Rec, Pcs
<1>4. LoaderOK'
  BY <1>1 DEF OInv, Open!LoadStarts, LoaderOK, Becomes
<1>5. KeysOK'
  BY <1>1 DEF OInv, Open!LoadStarts, KeysOK, Becomes
<1>6. Open!UsedLoaded'
  BY <1>1, InUseIs DEF OInv, Open!LoadStarts, Open!UsedLoaded, Becomes
<1> QED  BY <1>2, <1>3, <1>4, <1>5, <1>6 DEF OInv

LEMMA LoadFindsKept ==
  ASSUME Open!OpenAssumption, OInv, NEW p \in Procs, Open!LoadFinds(p)
  PROVE  OInv'
<1>1. Becomes(p, "open", opr[p].key) /\ opr[p].pc = "load" /\ linked
  BY DEF OInv, Open!TypeOK, Open!LoadFinds, Open!Enters, Open!Goes, Rec, Pcs, Becomes
<1>2. CallsOK' /\ Open!HoldsExact' /\ refs' \in Nat
  <2>1. refs' = refs + One("open" = "open") - One(opr[p].pc = "open")
    BY <1>1, Numbers DEF OInv, Open!LoadFinds, Open!Enters, One
  <2> QED  BY <1>1, <2>1, HoldsKept DEF Open!LoadFinds
<1>3. Open!TypeOK'
  BY <1>1, <1>2 DEF OInv, Open!TypeOK, Open!LoadFinds, Becomes, Rec, Pcs
<1>4. LoaderOK'
  BY <1>1 DEF OInv, Open!LoadFinds, LoaderOK, Becomes
<1>5. KeysOK'
  BY <1>1 DEF OInv, Open!LoadFinds, KeysOK, Becomes
<1>6. Open!UsedLoaded'
  BY <1>1, InUseIs DEF OInv, Open!LoadFinds, Open!UsedLoaded, Becomes
<1> QED  BY <1>2, <1>3, <1>4, <1>5, <1>6 DEF OInv

(* The load fails or is left: nothing but the loader's state changes.      *)
LEMMA LoadFailsKept ==
  ASSUME Open!OpenAssumption, OInv, NEW p \in Procs, opr[p].pc \in {"load", "loading"}, Open!Leaves(p),
         st' = IF opr[p].pc = "loading" THEN "none" ELSE st,
         UNCHANGED <<linked, refs, incall, set, good, opens, left>>
  PROVE  OInv'
<1>1. Becomes(p, "user", NoKey)
  BY DEF OInv, Open!TypeOK, Open!Leaves, Open!User, Rec, Pcs, Becomes
<1>2. CallsOK' /\ Open!HoldsExact' /\ refs' \in Nat
  <2>1. refs' = refs + One("user" = "open") - One(opr[p].pc = "open")
    BY <1>1, Numbers DEF OInv, One
  <2> QED  BY <1>1, <2>1, HoldsKept
<1>3. Open!TypeOK'
  BY <1>1, <1>2 DEF OInv, Open!TypeOK, Becomes, Rec, Pcs
<1>4. LoaderOK'
  BY <1>1 DEF OInv, LoaderOK, Becomes
<1>5. KeysOK'
  BY <1>1 DEF OInv, KeysOK, Becomes, Open!OpenAssumption, Open!Keys, Plain
<1>6. Open!UsedLoaded'
  BY <1>1, InUseIs DEF OInv, Open!UsedLoaded, LoaderOK, Becomes
<1> QED  BY <1>2, <1>3, <1>4, <1>5, <1>6 DEF OInv

LEMMA LoadEndsKept ==
  ASSUME Open!OpenAssumption, OInv, NEW p \in Procs, Open!LoadEnds(p)
  PROVE  OInv'
<1>1. CASE st' = "none" /\ Open!Leaves(p) /\ UNCHANGED <<linked, refs>>
  BY <1>1, LoadFailsKept DEF Open!LoadEnds
<1>2. CASE st' = "loaded" /\ linked' = TRUE /\ refs' = refs + 1 /\ Open!Goes(p, "open")
  <2>1. Becomes(p, "open", opr[p].key) /\ opr[p].pc = "loading"
    BY <1>2 DEF OInv, Open!TypeOK, Open!LoadEnds, Open!Goes, Rec, Pcs, Becomes
  <2>2. CallsOK' /\ Open!HoldsExact' /\ refs' \in Nat
    <3>1. refs' = refs + One("open" = "open") - One(opr[p].pc = "open")
      BY <1>2, <2>1, Numbers DEF OInv, One
    <3> QED  BY <2>1, <3>1, HoldsKept DEF Open!LoadEnds
  <2>3. Open!TypeOK'
    BY <1>2, <2>1, <2>2 DEF OInv, Open!TypeOK, Open!LoadEnds, Becomes, Rec, Pcs
  <2>4. LoaderOK'
    BY <1>2, <2>1 DEF OInv, LoaderOK, Becomes
  <2>5. KeysOK'
    BY <2>1 DEF OInv, Open!LoadEnds, KeysOK, Becomes
  <2>6. Open!UsedLoaded'
    BY <1>2 DEF Open!UsedLoaded
  <2> QED  BY <2>2, <2>3, <2>4, <2>5, <2>6 DEF OInv
<1> QED  BY <1>1, <1>2 DEF Open!LoadEnds

LEMMA LoadInterruptedKept ==
  ASSUME Open!OpenAssumption, OInv, NEW p \in Procs, Open!LoadInterrupted(p)
  PROVE  OInv'
  BY LoadFailsKept DEF Open!LoadInterrupted

LEMMA OpenFailsKept ==
  ASSUME Open!OpenAssumption, OInv, NEW p \in Procs, Open!OpenFails(p)
  PROVE  OInv'
<1>1. Becomes(p, "user", NoKey) /\ opr[p].pc = "open"
  BY DEF OInv, Open!TypeOK, Open!OpenFails, Open!Leaves, Open!User, Rec, Pcs, Becomes
<1>2. CallsOK' /\ Open!HoldsExact' /\ refs' \in Nat
  <2>1. refs' = refs + One("user" = "open") - One(opr[p].pc = "open")
    BY <1>1, Numbers DEF OInv, Open!OpenFails, One
  <2> QED  BY <1>1, <2>1, HoldsKept DEF Open!OpenFails
<1>3. Open!TypeOK'
  BY <1>1, <1>2 DEF OInv, Open!TypeOK, Open!OpenFails, Becomes, Rec, Pcs
<1>4. LoaderOK'
  BY <1>1 DEF OInv, Open!OpenFails, LoaderOK, Becomes
<1>5. KeysOK'
  BY <1>1 DEF OInv, Open!OpenFails, KeysOK, Becomes, Open!OpenAssumption, Open!Keys, Plain
<1>6. Open!UsedLoaded'
  BY <1>1, InUseIs DEF OInv, Open!OpenFails, Open!UsedLoaded, Becomes
<1> QED  BY <1>2, <1>3, <1>4, <1>5, <1>6 DEF OInv

(* An open that returns: its hold becomes the key's, a layered open's or   *)
(* one that stays, or is let go.                                           *)
LEMMA OpenReturnsCounts ==
  ASSUME Open!OpenAssumption, OInv, NEW p \in Procs, Open!OpenReturns(p)
  PROVE  CallsOK' /\ Open!HoldsExact' /\ refs' \in Nat
<1>1. Becomes(p, "user", NoKey) /\ opr[p].pc = "open" /\ opr[p].key \in Open!Keys
  BY DEF OInv, Open!TypeOK, KeysOK, Open!OpenReturns, Open!Leaves, Open!User, Rec, Pcs, Becomes
<1>2. PICK k \in Open!GoesTo(opr[p].key) :
        /\ refs' = IF Open!KeepsHold(k) THEN refs ELSE refs - 1
        /\ set' = IF Open!KeepsHold(k) /\ k # Layered /\ Open!Room(k) THEN set \cup {k} ELSE set
        /\ good' = IF Open!KeepsHold(k) /\ k # Layered /\ ~Open!Room(k) THEN good + 1 ELSE good
        /\ opens' = IF k \in Images THEN opens ELSE [opens EXCEPT ![k] = @ + 1]
  BY DEF Open!OpenReturns
<1>3. k \in Open!Keys /\ Layered \in Open!Keys /\ Layered \notin Images
  BY <1>1 DEF Open!GoesTo, Open!Keys, Open!OpenAssumption
<1> DEFINE z == Open!Closing(Layered)
           n == Cardinality(set)
<1>4. Opened' = Opened - 1 /\ Opened \in Nat /\ Opened' \in Nat /\ DevClosed' = DevClosed
      /\ Open!Closing(Layered)' = z /\ z \in Nat
  BY <1>1, Tally DEF Tallied, One
<1>5. /\ IsFiniteSet(set) /\ n \in Nat /\ refs \in Nat /\ incall \in Nat /\ good \in Nat
      /\ opens[Layered] \in Nat /\ left[Layered] \in Nat
  BY Numbers DEF OInv
<1>6. /\ refs = n + opens[Layered] + z + left[Layered] + Opened + good
      /\ incall >= DevClosed
  BY SameCardinality DEF OInv, Open!HoldsExact, CallsOK, Opened, DevClosed
<1>7. opens \in [Open!Keys -> Nat] /\ left' = left /\ incall' = incall
  BY DEF OInv, Open!TypeOK, Open!OpenReturns, Open!OpenAssumption
<1> HIDE DEF z, n
<1>8. refs' = Cardinality(set') + opens'[Layered] + z + left[Layered] + Opened' + good'
  <2>1. CASE k = Layered
    <3>1. opens'[Layered] = opens[Layered] + 1
      BY <1>2, <1>3, <1>7, <2>1
    <3>2. set' = set /\ good' = good /\ refs' = refs
      BY <1>2, <2>1 DEF Open!KeepsHold
    <3>3. Cardinality(set') = n
      BY <3>2 DEF n
    <3> QED  BY <1>4, <1>5, <1>6, <3>1, <3>2, <3>3
  <2>2. CASE k # Layered
    <3>1. opens'[Layered] = opens[Layered]
      BY <1>2, <1>3, <1>7, <2>2
    <3>2. CASE Open!KeepsHold(k) /\ Open!Room(k)
      <4>1. set' = set \cup {k} /\ good' = good /\ refs' = refs /\ k \notin set
        BY <1>2, <2>2, <3>2 DEF Open!KeepsHold
      <4>2. Cardinality(set') = n + 1
        BY <1>5, <4>1, FS_AddElement DEF n
      <4> QED  BY <1>4, <1>5, <1>6, <3>1, <4>1, <4>2
    <3>3. CASE Open!KeepsHold(k) /\ ~Open!Room(k)
      <4>1. set' = set /\ good' = good + 1 /\ refs' = refs
        BY <1>2, <2>2, <3>3
      <4>2. Cardinality(set') = n
        BY <4>1 DEF n
      <4> QED  BY <1>4, <1>5, <1>6, <3>1, <4>1, <4>2
    <3>4. CASE ~Open!KeepsHold(k)
      <4>1. set' = set /\ good' = good /\ refs' = refs - 1
        BY <1>2, <3>4
      <4>2. Cardinality(set') = n
        BY <4>1 DEF n
      <4> QED  BY <1>4, <1>5, <1>6, <3>1, <4>1, <4>2
    <3> QED  BY <3>2, <3>3, <3>4
  <2> QED  BY <2>1, <2>2
<1>9. Open!HoldsExact'
  BY SameCardinality, <1>4, <1>7, <1>8 DEF Open!HoldsExact, Opened
<1>10. CallsOK'
  BY <1>4, <1>6, <1>7 DEF CallsOK, DevClosed
<1>11. refs' \in Nat
  <2>1. refs >= Opened
    BY <1>4, <1>5, <1>6
  <2>2. Opened >= 1
    BY <1>4
  <2> QED  BY <1>2, <1>4, <1>5, <2>1, <2>2
<1> QED  BY <1>9, <1>10, <1>11

LEMMA OpenReturnsKept ==
  ASSUME Open!OpenAssumption, OInv, NEW p \in Procs, Open!OpenReturns(p)
  PROVE  OInv'
<1>1. Becomes(p, "user", NoKey) /\ opr[p].pc = "open" /\ opr[p].key \in Open!Keys
  BY DEF OInv, Open!TypeOK, KeysOK, Open!OpenReturns, Open!Leaves, Open!User, Rec, Pcs, Becomes
<1>2. PICK k \in Open!GoesTo(opr[p].key) :
        /\ set' = IF Open!KeepsHold(k) /\ k # Layered /\ Open!Room(k) THEN set \cup {k} ELSE set
        /\ good' = IF Open!KeepsHold(k) /\ k # Layered /\ ~Open!Room(k) THEN good + 1 ELSE good
        /\ opens' = IF k \in Images THEN opens ELSE [opens EXCEPT ![k] = @ + 1]
        /\ opens[k] < MaxOpens
  BY DEF Open!OpenReturns
<1>3. k \in Open!Keys /\ (k \in Images \/ k = Layered \/ k \in Plain)
  BY <1>1 DEF Open!GoesTo, Open!Keys, Plain
<1>4. CallsOK' /\ Open!HoldsExact' /\ refs' \in Nat
  BY OpenReturnsCounts
<1>5. opens' \in [Open!Keys -> 0 .. MaxOpens] /\ \A j \in Open!Keys : j # k => opens'[j] = opens[j]
  BY <1>2, <1>3 DEF OInv, Open!TypeOK, Open!OpenAssumption
<1>6. Open!TypeOK'
  <2>1. set' \in SUBSET (Devs \cup Streams)
    BY <1>2, <1>3 DEF OInv, Open!TypeOK, Open!KeepsHold, Plain
  <2>2. good' \in Nat
    BY <1>2 DEF OInv, Open!TypeOK
  <2> QED  BY <1>1, <1>4, <1>5, <2>1, <2>2 DEF OInv, Open!TypeOK, Open!OpenReturns, Becomes, Rec, Pcs
<1>7. LoaderOK'
  BY <1>1 DEF OInv, Open!OpenReturns, LoaderOK, Becomes
<1>8. KeysOK'
  <2>1. \A q \in Procs : opr[q].pc = "close" => opr[q].key # k \/ k = Layered
    <3> SUFFICES ASSUME NEW q \in Procs, opr[q].pc = "close", opr[q].key = k, k # Layered
                 PROVE  FALSE
      OBVIOUS
    <3>1. k \in Plain
      BY <1>3 DEF OInv, KeysOK
    <3>2. CASE k = opr[p].key
      BY <1>1, <3>1, <3>2 DEF OInv, KeysOK
    <3>3. CASE k # opr[p].key
      BY <1>2, <3>3 DEF Open!GoesTo, Open!On
    <3> QED  BY <3>2, <3>3
  <2>2. Layered \notin Plain /\ NoKey \notin Open!Keys /\ Plain \subseteq Open!Keys /\ Images \subseteq Open!Keys
        /\ Plain \cap Images = {}
    BY DEF Open!OpenAssumption, Plain, Open!Keys
  <2>3. \A j \in Images : opens'[j] = 0
    BY <1>2, <1>5, <2>2 DEF OInv, KeysOK
  <2>4. set \subseteq set' /\ good' >= good /\ good \in Nat
    BY <1>2 DEF OInv, Open!TypeOK
  <2>5. \A j \in Plain : opens'[j] > 0 => j \in set' \/ good' > 0
    <3> SUFFICES ASSUME NEW j \in Plain, opens'[j] > 0
                 PROVE  j \in set' \/ good' > 0
      OBVIOUS
    <3>1. CASE j # k
      <4>1. opens[j] > 0
        BY <1>5, <2>2, <3>1
      <4>2. j \in set \/ good > 0
        BY <4>1 DEF OInv, KeysOK
      <4>3. good > 0 => good' > 0
        BY <1>2, <2>4
      <4> QED  BY <2>4, <4>2, <4>3
    <3>2. CASE j = k
      <4>1. k # Layered /\ k \notin Images
        BY <2>2, <3>2
      <4>2. CASE Open!KeepsHold(k) /\ Open!Room(k)
        BY <1>2, <3>2, <4>1, <4>2
      <4>3. CASE Open!KeepsHold(k) /\ ~Open!Room(k)
        BY <1>2, <2>4, <4>1, <4>3
      <4>4. CASE ~Open!KeepsHold(k)
        BY <2>4, <3>2, <4>1, <4>4 DEF Open!KeepsHold
      <4> QED  BY <4>2, <4>3, <4>4
    <3> QED  BY <3>1, <3>2
  <2>6. \A q \in Procs : opr'[q].pc = "close" /\ opr'[q].key \in Plain => opens'[opr'[q].key] = 0
    BY <1>1, <1>5, <2>1, <2>2 DEF OInv, KeysOK, Becomes
  <2> QED  BY <1>1, <2>2, <2>3, <2>5, <2>6 DEF OInv, KeysOK, Becomes
<1>9. Open!UsedLoaded'
  BY <1>1, InUseIs DEF OInv, Open!OpenReturns, Open!UsedLoaded
<1> QED  BY <1>4, <1>6, <1>7, <1>8, <1>9 DEF OInv

(* A close: the driver's is called at the last one, in the module.         *)
LEMMA CloseKept ==
  ASSUME Open!OpenAssumption, OInv, NEW p \in Procs, NEW k \in Open!Keys, Open!Close(p, k)
  PROVE  OInv'
<1> DEFINE last == Open!LastClose(k)
           c == IF last THEN "close" ELSE "user"
           j == IF last THEN k ELSE NoKey
<1>1. /\ linked /\ st = "loaded" /\ opr[p].pc = "user" /\ opr[p].key = NoKey /\ k \notin Images
      /\ opens[k] > 0 /\ k \in Plain \cup {Layered}
  BY InUseIs DEF OInv, Open!Close, Open!UsedLoaded, KeysOK, Open!Keys, Plain
<1>2. /\ opens' = [opens EXCEPT ![k] = @ - 1] /\ refs' = refs /\ set' = set /\ good' = good
      /\ left' = left /\ st' = st /\ linked' = linked
      /\ incall' = incall + One(last)
      /\ last => opr' = [opr EXCEPT ![p] = [pc |-> "close", key |-> k]]
      /\ ~last => opr' = opr
  BY <1>1, Numbers DEF OInv, Open!Close, One
<1>3. Becomes(p, c, j)
  <2>1. CASE last
    BY <1>2, <2>1 DEF OInv, Open!TypeOK, Becomes, Rec, Pcs
  <2>2. CASE ~last
    BY <1>1, <1>2, <2>2 DEF OInv, Open!TypeOK, Becomes, Rec, Pcs
  <2> QED  BY <2>1, <2>2
<1>4. /\ Layered \notin Plain /\ Layered \in Open!Keys /\ NoKey \notin Open!Keys /\ Plain \subseteq Open!Keys
      /\ Images \subseteq Open!Keys /\ Plain \cap Images = {}
  BY DEF Open!OpenAssumption, Plain, Open!Keys
<1>5. /\ opens' \in [Open!Keys -> 0 .. MaxOpens] /\ opens'[k] = opens[k] - 1 /\ opens[k] \in Nat
      /\ \A i \in Open!Keys : i # k => opens'[i] = opens[i]
  BY <1>1, <1>2 DEF OInv, Open!TypeOK, Open!OpenAssumption
<1>6. /\ IsFiniteSet(set) /\ Cardinality(set) \in Nat /\ refs \in Nat /\ incall \in Nat
      /\ good \in Nat /\ opens[Layered] \in Nat /\ left[Layered] \in Nat
  BY Numbers DEF OInv
<1>7. Tallied(p, c, j)
  BY <1>3, Tally
<1>8. CallsOK'
  <2>1. DevClosed \in Nat /\ DevClosed' = DevClosed + One(last)
    BY <1>1, <1>7 DEF Tallied, One
  <2> QED  BY <1>2, <1>6, <2>1 DEF OInv, CallsOK, DevClosed, One
<1>9. Open!HoldsExact'
  <2> DEFINE x == One(k = Layered)
  <2>1. opens'[Layered] = opens[Layered] - x
    BY <1>4, <1>5 DEF One
  <2>2. Open!Closing(Layered)' = Open!Closing(Layered) + x /\ Open!Closing(Layered) \in Nat
    BY <1>1, <1>4, <1>7 DEF Tallied, One, Open!LastClose
  <2>3. Opened' = Opened /\ Opened \in Nat /\ x \in Nat
    BY <1>1, <1>7 DEF Tallied, One
  <2>4. refs = Cardinality(set) + opens[Layered] + Open!Closing(Layered) + left[Layered] + Opened + good
    BY SameCardinality DEF OInv, Open!HoldsExact, Opened
  <2> HIDE DEF x
  <2>5. refs = Cardinality(set) + opens'[Layered] + Open!Closing(Layered)' + left[Layered] + Opened' + good
    BY <1>6, <2>1, <2>2, <2>3, <2>4
  <2> QED  BY SameCardinality, <1>2, <2>5 DEF Open!HoldsExact, Opened
<1>10. Open!TypeOK'
  BY <1>2, <1>3, <1>5, <1>6 DEF OInv, Open!TypeOK, Becomes, Rec, Pcs, One
<1>11. LoaderOK'
  BY <1>1, <1>2, <1>3 DEF OInv, LoaderOK, Becomes
<1>12. KeysOK'
  <2>1. \A q \in Procs : opr[q].pc = "close" => opr[q].key # k \/ k = Layered
    BY <1>1, <1>4 DEF OInv, KeysOK
  <2>2. last /\ k # Layered => opens'[k] = 0 /\ \A q \in Procs : opr[q].key # k
    BY <1>1, <1>4, <1>5 DEF OInv, KeysOK, Open!Close, Open!LastClose, Open!On
  <2>3. \A q \in Procs : opr'[q].pc = "close" /\ opr'[q].key \in Plain => opens'[opr'[q].key] = 0
    BY <1>1, <1>3, <1>4, <1>5, <2>1, <2>2 DEF OInv, KeysOK, Becomes
  <2>4. \A q, r \in Procs : opr'[q].pc = "close" /\ opr'[q].key \in Plain /\ opr'[r].key = opr'[q].key => q = r
    <3> SUFFICES ASSUME NEW q \in Procs, NEW r \in Procs, opr'[q].pc = "close",
                        opr'[q].key \in Plain, opr'[r].key = opr'[q].key, q # r
                 PROVE  FALSE
      OBVIOUS
    <3>1. CASE p \notin {q, r} \/ ~last
      BY <1>2, <1>3, <3>1 DEF OInv, KeysOK, Becomes
    <3>2. CASE last /\ q = p
      BY <1>3, <1>4, <2>2, <3>2 DEF Becomes
    <3>3. CASE last /\ r = p
      BY <1>3, <1>4, <2>2, <3>3 DEF Becomes
    <3> QED  BY <3>1, <3>2, <3>3
  <2>5. \A q \in Procs :
          /\ opr'[q].pc \in {"user", "unload"} => opr'[q].key = NoKey
          /\ opr'[q].pc \notin {"user", "unload"} => opr'[q].key \in Open!Keys
          /\ opr'[q].pc = "close" => opr'[q].key \notin Images
    BY <1>1, <1>3 DEF OInv, KeysOK, Becomes
  <2>6. /\ \A i \in Images : opens'[i] = 0
        /\ \A i \in Plain : opens'[i] > 0 => i \in set' \/ good' > 0
    BY <1>1, <1>2, <1>4, <1>5 DEF OInv, KeysOK
  <2> QED  BY <2>3, <2>4, <2>5, <2>6 DEF KeysOK
<1>13. Open!UsedLoaded'
  BY <1>1, <1>2 DEF Open!UsedLoaded
<1> QED  BY <1>8, <1>9, <1>10, <1>11, <1>12, <1>13 DEF OInv

LEMMA CloseReturnsKept ==
  ASSUME Open!OpenAssumption, OInv, NEW p \in Procs, Open!CloseReturns(p)
  PROVE  OInv'
<1> DEFINE k == opr[p].key
           x == One(k = Layered)
           y == One(k \in set)
<1>1. Becomes(p, "user", NoKey) /\ opr[p].pc = "close"
  BY DEF OInv, Open!TypeOK, Open!CloseReturns, Open!Leaves, Open!User, Rec, Pcs, Becomes
<1>2. /\ incall' = incall - 1 /\ set' = set \ {k} /\ UNCHANGED <<st, linked, good, opens, left>>
      /\ refs' = IF k = Layered \/ k \in set THEN refs - 1 ELSE refs
  BY DEF Open!CloseReturns
<1>3. /\ Layered \notin Plain /\ Layered \in Open!Keys /\ NoKey \notin Open!Keys /\ Plain \subseteq Open!Keys
      /\ set \subseteq Plain /\ k \in Open!Keys
  BY <1>1 DEF OInv, Open!TypeOK, KeysOK, Open!OpenAssumption, Plain, Open!Keys
<1>4. /\ IsFiniteSet(set) /\ Cardinality(set) \in Nat /\ refs \in Nat /\ incall \in Nat
      /\ good \in Nat /\ opens[Layered] \in Nat /\ left[Layered] \in Nat
  BY Numbers DEF OInv
<1>5. Tallied(p, "user", NoKey)
  BY <1>1, Tally
<1>6. DevClosed' = DevClosed - 1 /\ DevClosed \in Nat /\ DevClosed' \in Nat /\ incall >= DevClosed
  BY <1>1, <1>5 DEF OInv, CallsOK, DevClosed, Tallied, One
<1>7. CallsOK' /\ incall' \in Nat
  <2>1. incall' >= DevClosed' /\ incall' \in Nat
    BY <1>2, <1>4, <1>6
  <2> QED  BY <2>1 DEF CallsOK, DevClosed
<1>8. Open!HoldsExact' /\ refs' \in Nat
  <2>1. Open!Closing(Layered)' = Open!Closing(Layered) - x /\ Open!Closing(Layered)' \in Nat /\ Open!Closing(Layered) \in Nat
    BY <1>1, <1>5 DEF Tallied, One
  <2>2. Opened' = Opened /\ Opened \in Nat
    BY <1>1, <1>5 DEF Tallied, One
  <2>3. Cardinality(set') = Cardinality(set) - y /\ Cardinality(set') \in Nat
    <3>1. IsFiniteSet(set') /\ Cardinality(set') = IF k \in set THEN Cardinality(set) - 1 ELSE Cardinality(set)
      BY <1>2, <1>4, FS_RemoveElement
    <3>2. Cardinality(set') \in Nat
      BY <3>1, FS_CardinalityType
    <3> QED  BY <1>4, <3>1, <3>2 DEF One
  <2>4. refs' = refs - x - y
    BY <1>2, <1>3, <1>4 DEF One
  <2>5. refs = Cardinality(set) + opens[Layered] + Open!Closing(Layered) + left[Layered] + Opened + good
    BY SameCardinality DEF OInv, Open!HoldsExact, Opened
  <2>6. x \in Nat /\ y \in Nat
    BY DEF One
  <2> DEFINE n == Cardinality(set)
             m == Cardinality(set')
             z == Open!Closing(Layered)
             w == Open!Closing(Layered)'
             o == opens[Layered]
             l == left[Layered]
  <2>7. /\ n \in Nat /\ m \in Nat /\ z \in Nat /\ w \in Nat /\ o \in Nat /\ l \in Nat
        /\ m = n - y /\ w = z - x /\ refs = n + o + z + l + Opened + good
    BY <1>4, <2>1, <2>3, <2>5
  <2> HIDE DEF x, y, n, m, z, w, o, l
  <2>8. refs' = m + o + w + l + Opened' + good /\ refs' \in Nat
    BY <1>4, <2>2, <2>4, <2>6, <2>7
  <2> QED  BY SameCardinality, <1>2, <2>8 DEF Open!HoldsExact, Opened, m, o, w, l
<1>9. Open!TypeOK'
  BY <1>1, <1>2, <1>7, <1>8 DEF OInv, Open!TypeOK, Becomes, Rec, Pcs
<1>10. LoaderOK'
  BY <1>1, <1>2 DEF OInv, LoaderOK, Becomes
<1>11. KeysOK'
  <2>1. k \in Plain => opens[k] = 0
    BY <1>1 DEF OInv, KeysOK
  <2> QED  BY <1>1, <1>2, <1>3, <2>1 DEF OInv, KeysOK, Becomes
<1>12. Open!UsedLoaded'
  BY <1>1, <1>2, InUseIs DEF OInv, Open!UsedLoaded
<1> QED  BY <1>7, <1>8, <1>9, <1>10, <1>11, <1>12 DEF OInv

LEMMA CloseInterruptedKept ==
  ASSUME Open!OpenAssumption, OInv, NEW p \in Procs, Open!CloseInterrupted(p)
  PROVE  OInv'
<1> DEFINE k == opr[p].key
           x == One(k = Layered)
<1>1. Becomes(p, "user", NoKey) /\ opr[p].pc = "close"
  BY DEF OInv, Open!TypeOK, Open!CloseInterrupted, Open!Leaves, Open!User, Rec, Pcs, Becomes
<1>2. UNCHANGED <<st, linked, refs, incall, set, good, opens>> /\ left' = [left EXCEPT ![k] = @ + 1]
  BY DEF Open!CloseInterrupted
<1>3. /\ Layered \in Open!Keys /\ NoKey \notin Open!Keys /\ Plain \subseteq Open!Keys /\ k \in Open!Keys
  BY <1>1 DEF OInv, KeysOK, Open!OpenAssumption, Plain, Open!Keys
<1>4. /\ Cardinality(set) \in Nat /\ refs \in Nat /\ incall \in Nat
      /\ good \in Nat /\ opens[Layered] \in Nat /\ left[Layered] \in Nat
  BY Numbers DEF OInv
<1>5. Tallied(p, "user", NoKey)
  BY <1>1, Tally
<1>6. CallsOK'
  <2>1. DevClosed' = DevClosed - 1 /\ DevClosed \in Nat /\ incall >= DevClosed
    BY <1>1, <1>5 DEF OInv, CallsOK, DevClosed, Tallied, One
  <2> QED  BY <1>2, <1>4, <2>1 DEF CallsOK, DevClosed
<1>7. Open!HoldsExact'
  <2>1. Open!Closing(Layered)' = Open!Closing(Layered) - x /\ Open!Closing(Layered) \in Nat /\ x \in Nat
    BY <1>1, <1>5 DEF Tallied, One
  <2>2. Opened' = Opened /\ Opened \in Nat
    BY <1>1, <1>5 DEF Tallied, One
  <2>3. left'[Layered] = left[Layered] + x
    BY <1>2, <1>3 DEF OInv, Open!TypeOK, One
  <2>4. refs = Cardinality(set) + opens[Layered] + Open!Closing(Layered) + left[Layered] + Opened + good
    BY SameCardinality DEF OInv, Open!HoldsExact, Opened
  <2> HIDE DEF x
  <2>5. refs = Cardinality(set) + opens[Layered] + Open!Closing(Layered)' + left'[Layered] + Opened' + good
    BY <1>4, <2>1, <2>2, <2>3, <2>4
  <2> QED  BY SameCardinality, <1>2, <2>5 DEF Open!HoldsExact, Opened
<1>8. Open!TypeOK'
  <2>1. left' \in [Open!Keys -> Nat]
    BY <1>2, <1>3 DEF OInv, Open!TypeOK
  <2> QED  BY <1>1, <1>2, <2>1 DEF OInv, Open!TypeOK, Becomes, Rec, Pcs
<1>9. LoaderOK'
  BY <1>1, <1>2 DEF OInv, LoaderOK, Becomes
<1>10. KeysOK'
  BY <1>1, <1>2, <1>3 DEF OInv, KeysOK, Becomes
<1>11. Open!UsedLoaded'
  BY <1>1, <1>2, InUseIs DEF OInv, Open!UsedLoaded
<1> QED  BY <1>6, <1>7, <1>8, <1>9, <1>10, <1>11 DEF OInv

(* moduload's test: without holds and calls nothing is in use.             *)
LEMMA UnloadKept ==
  ASSUME Open!OpenAssumption, OInv, NEW p \in Procs, Open!Unload(p)
  PROVE  OInv'
<1>1. Becomes(p, "unload", NoKey) /\ opr[p].pc = "user" /\ opr[p].key = NoKey
  BY DEF OInv, Open!TypeOK, KeysOK, Open!Unload, Open!Goes, Rec, Pcs, Becomes
<1>2. st = "loaded" /\ st' = "unloading" /\ linked' = FALSE /\ set' = {}
      /\ UNCHANGED <<refs, incall, good, opens, left>>
  BY DEF Open!Unload
<1>3. /\ IsFiniteSet(set) /\ Cardinality(set) \in Nat /\ refs \in Nat /\ incall \in Nat
      /\ good \in Nat /\ opens[Layered] \in Nat /\ left[Layered] \in Nat
  BY Numbers DEF OInv
<1>4. refs = 0 /\ incall = 0
  BY <1>3 DEF Open!Unload, Open!Busy
<1>5. Tallied(p, "unload", NoKey)
  BY <1>1, Tally
<1>6. Cardinality(set) = 0 /\ opens[Layered] = 0 /\ Opened = 0 /\ good = 0 /\ DevClosed = 0
  <2>1. /\ refs = Cardinality(set) + opens[Layered] + Open!Closing(Layered) + left[Layered] + Opened + good
        /\ incall >= DevClosed
    BY SameCardinality DEF OInv, Open!HoldsExact, CallsOK, Opened, DevClosed
  <2>2. Opened \in Nat /\ DevClosed \in Nat /\ Open!Closing(Layered) \in Nat
    BY <1>5 DEF Tallied
  <2> DEFINE n == Cardinality(set)
             z == Open!Closing(Layered)
             o == opens[Layered]
             l == left[Layered]
  <2>3. /\ n \in Nat /\ z \in Nat /\ o \in Nat /\ l \in Nat
        /\ refs = n + o + z + l + Opened + good
    BY <1>3, <2>1, <2>2
  <2>4. DevClosed = 0
    BY <1>4, <2>1, <2>2
  <2> HIDE DEF n, z, o, l
  <2>5. n = 0 /\ o = 0 /\ Opened = 0 /\ good = 0
    BY <1>3, <1>4, <2>2, <2>3
  <2> QED  BY <2>4, <2>5 DEF n, o
<1>7. set = {} /\ Open!At("open") = {} /\ Open!At("close") = {}
  <2>1. IsFiniteSet(Open!At("open")) /\ IsFiniteSet(Open!At("close"))
    BY SameFinite, FS_Subset DEF Open!At, Open!OpenAssumption
  <2> QED  BY <1>3, <1>6, <2>1, FS_EmptySet DEF Opened, DevClosed
<1>8. CallsOK' /\ Open!HoldsExact' /\ refs' \in Nat
  <2>1. refs' = refs + One("unload" = "open") - One(opr[p].pc = "open")
    BY <1>1, <1>2, <1>3 DEF One
  <2> QED  BY <1>1, <1>2, <1>7, <2>1, HoldsKept
<1>9. Open!TypeOK'
  BY <1>1, <1>2, <1>8 DEF OInv, Open!TypeOK, Becomes, Rec, Pcs
<1>10. LoaderOK'
  BY <1>1, <1>2 DEF OInv, LoaderOK, Becomes
<1>11. KeysOK'
  BY <1>1, <1>2, <1>7 DEF OInv, KeysOK, Becomes, Plain, Open!Keys, Open!OpenAssumption
<1>12. Open!UsedLoaded'
  <2>1. \A k \in Open!Keys : opens[k] = 0
    BY <1>6, <1>7 DEF OInv, Open!TypeOK, KeysOK, Open!Keys, Plain, Open!OpenAssumption
  <2>2. \A q \in Procs : opr[q].pc \notin {"open", "close"}
    BY <1>7 DEF Open!At
  <2>3. ~Open!InUse'
    BY <1>1, <1>2, <2>1, <2>2, InUseIs DEF Becomes
  <2> QED  BY <2>3 DEF Open!UsedLoaded
<1> QED  BY <1>8, <1>9, <1>10, <1>11, <1>12 DEF OInv

LEMMA UnloadEndsKept ==
  ASSUME Open!OpenAssumption, OInv, NEW p \in Procs, Open!UnloadEnds(p)
  PROVE  OInv'
<1>1. Becomes(p, "user", NoKey) /\ opr[p].pc = "unload" /\ st = "unloading" /\ ~linked
  BY DEF OInv, Open!TypeOK, LoaderOK, Open!UnloadEnds, Open!Leaves, Open!User, Rec, Pcs, Becomes
<1>2. CallsOK' /\ Open!HoldsExact' /\ refs' \in Nat
  <2>1. refs' = refs + One("user" = "open") - One(opr[p].pc = "open")
    BY <1>1, Numbers DEF OInv, Open!UnloadEnds, One
  <2> QED  BY <1>1, <2>1, HoldsKept DEF Open!UnloadEnds
<1>3. Open!TypeOK'
  BY <1>1, <1>2 DEF OInv, Open!TypeOK, Open!UnloadEnds, Becomes, Rec, Pcs
<1>4. LoaderOK'
  BY <1>1 DEF OInv, Open!UnloadEnds, LoaderOK, Becomes
<1>5. KeysOK'
  BY <1>1 DEF OInv, Open!UnloadEnds, KeysOK, Becomes, Open!OpenAssumption, Open!Keys, Plain
<1>6. Open!UsedLoaded'
  <2>1. ~Open!InUse
    BY <1>1 DEF OInv, Open!UsedLoaded
  <2> QED  BY <1>1, <2>1, InUseIs DEF Open!UnloadEnds, Open!UsedLoaded, Becomes
<1> QED  BY <1>2, <1>3, <1>4, <1>5, <1>6 DEF OInv

(***************************************************************************)
(* The theorems                                                            *)
(***************************************************************************)
LEMMA InvStarts ==
  ASSUME Open!OpenAssumption, Open!Init
  PROVE  OInv
<1>1. Open!TypeOK
  <2>1. /\ 0 \in 0 .. MaxOpens /\ {} \in SUBSET (Devs \cup Streams)
        /\ Open!User \in [pc: {"user", "load", "loading", "open", "close", "unload"}, key: Open!Keys \cup {NoKey}]
    BY DEF Open!OpenAssumption, Open!User
  <2>2. /\ opens \in [Open!Keys -> 0 .. MaxOpens] /\ left \in [Open!Keys -> Nat]
        /\ opr \in [Procs -> [pc: {"user", "load", "loading", "open", "close", "unload"},
                             key: Open!Keys \cup {NoKey}]]
    BY <2>1 DEF Open!Init
  <2> QED  BY <2>1, <2>2 DEF Open!Init, Open!TypeOK
<1>2. LoaderOK /\ KeysOK /\ Open!UsedLoaded
  BY DEF Open!OpenAssumption, Open!Init, LoaderOK, KeysOK, Open!UsedLoaded, Open!InUse, Open!At, Open!User, Open!Keys, Plain
<1>3. Open!At("open") = {} /\ Open!At("close") = {} /\ {p \in Open!At("close") : opr[p].key = Layered} = {}
  BY DEF Open!Init, Open!At, Open!User
<1>4. Cardinality({}) = 0
  BY FS_EmptySet
<1>5. Layered \in Open!Keys
  BY DEF Open!Keys
<1>6. opens[Layered] = 0 /\ left[Layered] = 0 /\ refs = 0 /\ incall = 0 /\ set = {} /\ good = 0
  BY <1>5 DEF Open!Init
<1>7. CallsOK /\ Open!HoldsExact
  BY SameCardinality, <1>3, <1>4, <1>6 DEF CallsOK, Open!HoldsExact, Open!Closing
<1> QED  BY <1>1, <1>2, <1>7 DEF OInv

LEMMA InvKept ==
  ASSUME Open!OpenAssumption, OInv, [Open!Next]_(Open!vars)
  PROVE  OInv'
<1>1. CASE UNCHANGED Open!vars
  BY SameCardinality, <1>1 DEF Open!vars, OInv, Open!TypeOK, LoaderOK, KeysOK, CallsOK, Open!HoldsExact, Open!UsedLoaded, Open!InUse, Open!At, Open!Closing
<1>2. ASSUME NEW p \in Procs, NEW k \in Open!Keys, Open!Open(p, k) \/ Open!Close(p, k)
      PROVE  OInv'
  BY <1>2, OpenKept, CloseKept
<1>3. ASSUME NEW p \in Procs,
             \/ Open!LoadStarts(p) \/ Open!LoadFinds(p) \/ Open!LoadEnds(p) \/ Open!LoadInterrupted(p)
             \/ Open!OpenReturns(p) \/ Open!OpenFails(p)
             \/ Open!CloseReturns(p) \/ Open!CloseInterrupted(p)
             \/ Open!Unload(p) \/ Open!UnloadEnds(p)
      PROVE  OInv'
  BY <1>3, LoadStartsKept, LoadFindsKept, LoadEndsKept, LoadInterruptedKept, OpenReturnsKept,
     OpenFailsKept, CloseReturnsKept, CloseInterruptedKept, UnloadKept, UnloadEndsKept
<1> QED  BY <1>1, <1>2, <1>3 DEF Open!Next

LEMMA Always ==
  ASSUME Open!OpenAssumption
  PROVE  Open!Spec => []OInv
<1>1. Open!Init => OInv
  BY InvStarts
<1>2. OInv /\ [Open!Next]_(Open!vars) => OInv'
  BY InvKept
<1> QED  BY <1>1, <1>2, PTL DEF Open!Spec

(* A module that has a device, a stream or a layered open open, or a       *)
(* routine of which is running, is loaded and linked: moduload's test of   *)
(* m_refs and m_incall (src/dlm/upstream/dlm_core.c:863) is enough,        *)
(* whatever signals end opens, loads and closes.                           *)
THEOREM UsedIsLoaded ==
  ASSUME Open!OpenAssumption
  PROVE  Open!Spec => []Open!UsedLoaded
<1>1. OInv => Open!UsedLoaded
  BY DEF OInv
<1> QED  BY <1>1, Always, PTL

(* Every hold of the trampolines has its reason, for any number of opens.  *)
THEOREM HoldsAreExact ==
  ASSUME Open!OpenAssumption
  PROVE  Open!Spec => []Open!HoldsExact
<1>1. OInv => Open!HoldsExact
  BY DEF OInv
<1> QED  BY <1>1, Always, PTL

(***************************************************************************)
(* cs_set                                                                  *)
(***************************************************************************)
LEMMA SetKept ==
  ASSUME Open!OpenAssumption, OInv, Open!SetIsOpen, [Open!Next]_(Open!vars)
  PROVE  Open!SetIsOpen'
<1> SUFFICES ASSUME NEW k \in Plain, k \in set'
             PROVE  opens'[k] > 0 \/ left'[k] > 0 \/ \E q \in Procs : opr'[q].pc = "close" /\ opr'[q].key = k
  BY DEF Open!SetIsOpen, Open!On, Plain
<1>1. k \in set => opens[k] > 0 \/ left[k] > 0 \/ \E q \in Procs : opr[q].pc = "close" /\ opr[q].key = k
  BY DEF Open!SetIsOpen, Open!On, Plain
<1>2. /\ k \in Open!Keys /\ k # Layered /\ k \notin Images /\ opr \in [Procs -> Rec]
      /\ opens \in [Open!Keys -> Nat] /\ left \in [Open!Keys -> Nat] /\ MaxOpens \in Nat
  BY DEF OInv, Open!TypeOK, Open!OpenAssumption, Open!Keys, Plain, Rec, Pcs
<1>3. CASE UNCHANGED Open!vars
  BY <1>1, <1>3 DEF Open!vars
<1>4. ASSUME NEW p \in Procs, NEW j \in Open!Keys, Open!Open(p, j)
      PROVE  opens'[k] > 0 \/ left'[k] > 0 \/ \E q \in Procs : opr'[q].pc = "close" /\ opr'[q].key = k
  BY <1>1, <1>2, <1>4 DEF Open!Open
<1>5. ASSUME NEW p \in Procs, NEW j \in Open!Keys, Open!Close(p, j)
      PROVE  opens'[k] > 0 \/ left'[k] > 0 \/ \E q \in Procs : opr'[q].pc = "close" /\ opr'[q].key = k
  <2>1. linked /\ set' = set /\ left' = left /\ opr[p].pc = "user"
    BY <1>5, InUseIs DEF OInv, Open!Close, Open!UsedLoaded
  <2>2. \A q \in Procs : opr[q].pc = "close" => opr'[q] = opr[q]
    BY <1>2, <1>5, <2>1 DEF Open!Close
  <2>3. CASE j = k
    <3>1. opens'[k] = opens[k] - 1 /\ opens[k] > 0 /\ opens[k] \in Nat
      BY <1>2, <1>5, <2>3 DEF Open!Close
    <3>2. CASE opens[k] = 1
      <4>1. opr'[p] = [pc |-> "close", key |-> k]
        BY <1>2, <1>5, <2>1, <2>3, <3>2 DEF Open!Close, Open!LastClose
      <4> QED  BY <4>1
    <3>3. CASE opens[k] # 1
      BY <3>1, <3>3
    <3> QED  BY <3>2, <3>3
  <2>4. CASE j # k
    <3>1. opens'[k] = opens[k]
      BY <1>2, <1>5, <2>4 DEF Open!Close
    <3> QED  BY <1>1, <2>1, <2>2, <3>1
  <2> QED  BY <2>3, <2>4
<1>6. ASSUME NEW p \in Procs,
             Open!LoadStarts(p) \/ Open!LoadFinds(p) \/ Open!LoadEnds(p) \/ Open!LoadInterrupted(p) \/ Open!OpenFails(p)
      PROVE  opens'[k] > 0 \/ left'[k] > 0 \/ \E q \in Procs : opr'[q].pc = "close" /\ opr'[q].key = k
  <2>1. /\ set' = set /\ opens' = opens /\ left' = left
        /\ \A q \in Procs : opr[q].pc = "close" => opr'[q] = opr[q]
    BY <1>2, <1>6 DEF Open!LoadStarts, Open!LoadFinds, Open!LoadEnds, Open!LoadInterrupted, Open!OpenFails, Open!Enters, Open!Goes, Open!Leaves
  <2> QED  BY <1>1, <2>1
<1>7. ASSUME NEW p \in Procs, Open!OpenReturns(p)
      PROVE  opens'[k] > 0 \/ left'[k] > 0 \/ \E q \in Procs : opr'[q].pc = "close" /\ opr'[q].key = k
  <2>1. left' = left /\ \A q \in Procs : opr[q].pc = "close" => opr'[q] = opr[q]
    BY <1>2, <1>7 DEF Open!OpenReturns, Open!Leaves
  <2>2. PICK j \in Open!GoesTo(opr[p].key) :
          /\ set' = IF Open!KeepsHold(j) /\ j # Layered /\ Open!Room(j) THEN set \cup {j} ELSE set
          /\ opens' = IF j \in Images THEN opens ELSE [opens EXCEPT ![j] = @ + 1]
    BY <1>7 DEF Open!OpenReturns
  <2>3. CASE j = k
    BY <1>2, <2>2, <2>3
  <2>4. CASE j # k
    BY <1>1, <1>2, <2>1, <2>2, <2>4
  <2> QED  BY <2>3, <2>4
<1>8. ASSUME NEW p \in Procs, Open!CloseReturns(p)
      PROVE  opens'[k] > 0 \/ left'[k] > 0 \/ \E q \in Procs : opr'[q].pc = "close" /\ opr'[q].key = k
  <2>1. /\ opens' = opens /\ left' = left /\ set' = set \ {opr[p].key}
        /\ \A q \in Procs : opr[q].pc = "close" /\ opr[q].key = k => opr'[q] = opr[q]
    BY <1>2, <1>8 DEF Open!CloseReturns, Open!Leaves
  <2> QED  BY <1>1, <2>1
<1>9. ASSUME NEW p \in Procs, Open!CloseInterrupted(p)
      PROVE  opens'[k] > 0 \/ left'[k] > 0 \/ \E q \in Procs : opr'[q].pc = "close" /\ opr'[q].key = k
  <2>1. set' = set /\ opens' = opens
        /\ \A q \in Procs : q # p => opr'[q] = opr[q]
    BY <1>2, <1>9 DEF Open!CloseInterrupted, Open!Leaves
  <2>2. opr[p].key = k => left'[k] > 0
    BY <1>2, <1>9 DEF Open!CloseInterrupted
  <2>3. left[k] > 0 => left'[k] > 0
    BY <1>2, <1>9 DEF Open!CloseInterrupted
  <2>4. CASE opr[p].key = k
    BY <2>2, <2>4
  <2>5. CASE opr[p].key # k
    BY <1>1, <2>1, <2>3, <2>5
  <2> QED  BY <2>4, <2>5
<1>10. ASSUME NEW p \in Procs, Open!Unload(p) \/ Open!UnloadEnds(p)
       PROVE  opens'[k] > 0 \/ left'[k] > 0 \/ \E q \in Procs : opr'[q].pc = "close" /\ opr'[q].key = k
  <2>1. /\ k \in set /\ opens' = opens /\ left' = left
        /\ \A q \in Procs : opr[q].pc = "close" => opr'[q] = opr[q]
    BY <1>2, <1>10 DEF Open!Unload, Open!UnloadEnds, Open!Goes, Open!Leaves
  <2> QED  BY <1>1, <2>1
<1> QED  BY <1>3, <1>4, <1>5, <1>6, <1>7, <1>8, <1>9, <1>10 DEF Open!Next

(* A key in cs_set is open, or being closed, or its close was left by a    *)
(* signal: with none left, the next open of a closed device takes a hold.  *)
THEOREM KeysAreOpen ==
  ASSUME Open!OpenAssumption
  PROVE  Open!Spec => []Open!SetIsOpen
<1>1. Open!Init => Open!SetIsOpen
  BY DEF Open!Init, Open!SetIsOpen
<1>2. OInv /\ Open!SetIsOpen /\ [Open!Next]_(Open!vars) => Open!SetIsOpen'
  BY SetKept
<1> QED  BY <1>1, <1>2, Always, PTL DEF Open!Spec

LEMMA CallsKept ==
  ASSUME Open!OpenAssumption, OInv, CallsExact, [Open!Next]_(Open!vars)
  PROVE  CallsExact'
<1> SUFFICES ASSUME NoneLeft'
             PROVE  incall' = DevClosed'
  BY DEF CallsExact
<1>1. opr \in [Procs -> Rec] /\ left \in [Open!Keys -> Nat] /\ incall \in Nat
  BY DEF OInv, Open!TypeOK, Rec, Pcs
<1>2. CASE left' # left
  <2>1. PICK p \in Procs : Open!CloseInterrupted(p)
    BY <1>2 DEF Open!Next, Open!vars, Open!Open, Open!Close, Open!LoadStarts, Open!LoadFinds, Open!LoadEnds, Open!LoadInterrupted,
                Open!OpenReturns, Open!OpenFails, Open!CloseReturns, Open!Unload, Open!UnloadEnds
  <2>2. opr[p].key \in Open!Keys
    BY <2>1 DEF OInv, KeysOK, Open!CloseInterrupted
  <2>3. left'[opr[p].key] = left[opr[p].key] + 1 /\ left[opr[p].key] \in Nat
    BY <1>1, <2>1, <2>2 DEF Open!CloseInterrupted
  <2> QED  BY <2>2, <2>3 DEF NoneLeft
<1>3. CASE left' = left
  <2>1. incall = DevClosed
    BY <1>3 DEF CallsExact, NoneLeft
  <2>2. CASE UNCHANGED Open!vars
    BY <2>1, <2>2 DEF Open!vars, DevClosed, Open!At
  <2>3. ASSUME NEW p \in Procs, NEW c, NEW k, Becomes(p, c, k), c # "close", opr[p].pc # "close",
               incall' = incall
        PROVE  incall' = DevClosed'
    <3>1. Tallied(p, c, k)
      BY <2>3, Tally
    <3> QED  BY <2>1, <2>3, <3>1 DEF Tallied, One
  <2>4. ASSUME NEW p \in Procs, NEW k \in Open!Keys, Open!Open(p, k)
        PROVE  incall' = DevClosed'
    <3> DEFINE c == IF linked THEN "open" ELSE "load"
    <3>1. Becomes(p, c, k) /\ opr[p].pc # "close" /\ c # "close" /\ incall' = incall
      BY <1>1, <2>4 DEF Open!Open, Rec, Pcs, Becomes
    <3> HIDE DEF c
    <3> QED  BY <2>3, <3>1
  <2>5. ASSUME NEW p \in Procs, NEW k \in Open!Keys, Open!Close(p, k)
        PROVE  incall' = DevClosed'
    <3>1. linked /\ opr[p].pc = "user"
      BY <2>5, InUseIs DEF OInv, Open!Close, Open!UsedLoaded
    <3>2. CASE Open!LastClose(k)
      <4>1. Becomes(p, "close", k) /\ incall' = incall + 1
        BY <1>1, <2>5, <3>1, <3>2 DEF Open!Close, Rec, Pcs, Becomes
      <4>2. Tallied(p, "close", k)
        BY <4>1, Tally
      <4> QED  BY <1>1, <2>1, <3>1, <4>1, <4>2 DEF Tallied, One
    <3>3. CASE ~Open!LastClose(k)
      BY <2>1, <2>5, <3>3 DEF Open!Close, DevClosed, Open!At
    <3> QED  BY <3>2, <3>3
  <2>6. ASSUME NEW p \in Procs, Open!CloseReturns(p)
        PROVE  incall' = DevClosed'
    <3>1. Becomes(p, "user", NoKey) /\ opr[p].pc = "close" /\ incall' = incall - 1
      BY <1>1, <2>6 DEF Open!CloseReturns, Open!Leaves, Open!User, Rec, Pcs, Becomes
    <3>2. Tallied(p, "user", NoKey)
      BY <3>1, Tally
    <3> QED  BY <1>1, <2>1, <3>1, <3>2 DEF Tallied, One
  <2>7. ASSUME NEW p \in Procs,
               Open!LoadStarts(p) \/ Open!LoadFinds(p) \/ Open!LoadEnds(p) \/ Open!LoadInterrupted(p)
               \/ Open!OpenReturns(p) \/ Open!OpenFails(p) \/ Open!Unload(p) \/ Open!UnloadEnds(p)
        PROVE  incall' = DevClosed'
    <3>1. /\ incall' = incall /\ opr[p].pc # "close" /\ opr'[p].pc # "close"
          /\ Becomes(p, opr'[p].pc, opr'[p].key)
      BY <1>1, <2>7 DEF Open!LoadStarts, Open!LoadFinds, Open!LoadEnds, Open!LoadInterrupted, Open!OpenReturns, Open!OpenFails,
         Open!Unload, Open!UnloadEnds, Open!Enters, Open!Goes, Open!Leaves, Open!User, Rec, Pcs, Becomes
    <3> QED  BY <2>3, <3>1
  <2>8. \A p \in Procs : ~Open!CloseInterrupted(p)
    <3> SUFFICES ASSUME NEW p \in Procs, Open!CloseInterrupted(p)
                 PROVE  FALSE
      OBVIOUS
    <3>1. opr[p].key \in Open!Keys
      BY DEF OInv, KeysOK, Open!CloseInterrupted
    <3> QED  BY <1>1, <1>3, <3>1 DEF Open!CloseInterrupted
  <2> QED  BY <2>2, <2>4, <2>5, <2>6, <2>7, <2>8 DEF Open!Next
<1> QED  BY <1>2, <1>3

(* When the last close has returned the module may be unloaded             *)
(* (dlm-spec.md:289), holds that stay for good apart, unless a signal left *)
(* a close: then its call and its hold stay.                               *)
THEOREM LastCloseFreesQuietly ==
  ASSUME Open!OpenAssumption
  PROVE  Open!Spec => [](NoneLeft => Open!LastCloseFrees)
<1>1. Open!Init => CallsExact
  <2>1. ASSUME Open!Init
        PROVE  Open!At("close") = {}
    BY <2>1 DEF Open!Init, Open!At, Open!User
  <2> QED  BY <2>1, FS_EmptySet DEF Open!Init, CallsExact, DevClosed
<1>2. OInv /\ CallsExact /\ [Open!Next]_(Open!vars) => CallsExact'
  BY CallsKept
<1>3. Open!Init => Open!SetIsOpen
  BY DEF Open!Init, Open!SetIsOpen
<1>4. OInv /\ Open!SetIsOpen /\ [Open!Next]_(Open!vars) => Open!SetIsOpen'
  BY SetKept
<1>5. OInv /\ Open!SetIsOpen /\ CallsExact => (NoneLeft => Open!LastCloseFrees)
  <2> SUFFICES ASSUME OInv, Open!SetIsOpen, CallsExact, NoneLeft, Open!AllClosed
               PROVE  refs = good /\ incall = 0
    BY DEF Open!LastCloseFrees
  <2>1. Open!At("open") = {} /\ Open!At("close") = {} /\ {p \in Open!At("close") : opr[p].key = Layered} = {}
    BY DEF Open!AllClosed, Open!At
  <2>2. Layered \in Open!Keys /\ Plain \subseteq Open!Keys
    BY DEF Open!Keys, Plain
  <2>3. set = {}
    BY <2>1, <2>2 DEF OInv, Open!TypeOK, Open!SetIsOpen, Open!AllClosed, NoneLeft, Open!On, Open!At, Plain
  <2>4. Cardinality({}) = 0
    BY FS_EmptySet
  <2>5. opens[Layered] = 0 /\ left[Layered] = 0 /\ good \in Nat
    BY <2>2 DEF OInv, Open!TypeOK, Open!AllClosed, NoneLeft
  <2>6. refs = good
    BY SameCardinality, <2>1, <2>3, <2>4, <2>5 DEF OInv, Open!HoldsExact, Open!Closing
  <2>7. incall = 0
    BY <2>1, <2>4 DEF CallsExact, DevClosed
  <2> QED  BY <2>6, <2>7
<1> QED  BY <1>1, <1>2, <1>3, <1>4, <1>5, Always, PTL DEF Open!Spec

-----------------------------------------------------------------------------
(* The row that a major has or is given.                                   *)
LEMMA RowGiven ==
  ASSUME Reg!RegisterAssumption, Reg!TypeOK, NEW e \in Exts, Reg!RowsOf(e) # {} \/ Reg!FreeRows # {}
  PROVE  /\ Reg!AsvRow(e) \in Reg!Rows
         /\ Reg!RowsOf(e) # {} => ext[Reg!AsvRow(e)] = e
         /\ Reg!RowsOf(e) = {} => ext[Reg!AsvRow(e)] = NoExt
<1> DEFINE from == IF Reg!RowsOf(e) # {} THEN Reg!RowsOf(e) ELSE Reg!FreeRows
<1>1. from # {} /\ from \subseteq Reg!Rows
  BY DEF Reg!RowsOf, Reg!FreeRows
<1>2. from \subseteq Nat
  BY <1>1 DEF Reg!Rows, Reg!RegisterAssumption
<1>3. \E r \in from : \A o \in from : r <= o
  BY <1>1, <1>2, HasMin
<1>4. Reg!AsvRow(e) \in from
  <2>1. Reg!AsvRow(e) = CHOOSE r \in from : \A o \in from : r <= o
    BY DEF Reg!AsvRow
  <2> QED  BY <1>3, <2>1
<1> QED  BY <1>1, <1>4 DEF Reg!RowsOf, Reg!FreeRows

(* A row taken for a major takes nothing from another, and a registration  *)
(* that finds no slot puts the rows back as they were.                     *)
LEMMA RowTaken ==
  ASSUME Reg!RegisterAssumption, RInv, NEW e \in Exts, Reg!HasRow(e), ext' = Reg!TakenRow(e)
  PROVE  /\ ext' \in [Reg!Rows -> (Exts \ OwnMajors) \cup {NoExt}]
         /\ ext'[Reg!AsvRow(e)] = e
         /\ \A r \in Reg!Rows : ext[r] # NoExt \/ r # Reg!AsvRow(e) => ext'[r] = ext[r]
         /\ RowsApart'
<1> DEFINE a == Reg!AsvRow(e)
<1>1. /\ a \in Reg!Rows /\ e \notin OwnMajors /\ e # NoExt
      /\ Reg!RowsOf(e) # {} => ext[a] = e
      /\ Reg!RowsOf(e) = {} => ext[a] = NoExt
  BY RowGiven DEF RInv, Reg!HasRow, Reg!RegisterAssumption
<1>2. ext \in [Reg!Rows -> (Exts \ OwnMajors) \cup {NoExt}] /\ ext' = [ext EXCEPT ![a] = e]
  BY DEF RInv, Reg!TypeOK, Reg!TakenRow
<1> HIDE DEF a
<1>3. /\ ext' \in [Reg!Rows -> (Exts \ OwnMajors) \cup {NoExt}] /\ ext'[a] = e
      /\ \A r \in Reg!Rows : r # a => ext'[r] = ext[r]
  BY <1>1, <1>2
<1>4. \A r \in Reg!Rows : ext[r] = e => ext[a] = e
  BY <1>1 DEF Reg!RowsOf
<1>5. \A r \in Reg!Rows : ext[r] # NoExt \/ r # a => ext'[r] = ext[r]
  BY <1>1, <1>3
<1>6. RowsApart'
  <2> SUFFICES ASSUME NEW r \in Reg!Rows, NEW q \in Reg!Rows, ext'[r] # NoExt, ext'[q] = ext'[r], r # q
               PROVE  FALSE
    BY DEF RowsApart, Reg!Rows
  <2>1. CASE r # a /\ q # a
    BY <1>3, <2>1 DEF RInv, RowsApart
  <2>2. CASE r = a
    <3>1. ext[q] = e
      BY <1>3, <2>2
    <3>2. ext[a] = e
      BY <1>4, <3>1
    <3> QED  BY <1>1, <2>2, <3>1, <3>2 DEF RInv, RowsApart
  <2>3. CASE q = a
    <3>1. ext[r] = e
      BY <1>3, <2>3
    <3>2. ext[a] = e
      BY <1>4, <3>1
    <3> QED  BY <1>1, <2>3, <3>1, <3>2 DEF RInv, RowsApart
  <2> QED  BY <2>1, <2>2, <2>3
<1> QED  BY <1>3, <1>5, <1>6 DEF a

(* A slot on a row keeps registrations of the other kind away from it.     *)
LEMMA KindsApart ==
  ASSUME Reg!RegisterAssumption, OneKind, RInv
  PROVE  /\ \A r \in Reg!Rows, k \in SdSlots :
              cs[r].name # NoName /\ sd[k].name # NoName => sd[k].row # r
         /\ \A p \in Procs, k \in SdSlots :
              rpr[p].pc = "alloc" /\ sd[k].name # NoName => sd[k].row # rpr[p].row
         /\ \A r \in Reg!Rows, n \in Names, e \in Exts :
              <<"sdev", n, e>> \in Requests /\ ext[r] = e => ~Reg!Empty(r) /\ cs[r].name = NoName
<1>1. \A m, f : \A n \in Names, e \in Exts :
        <<"sdev", n, e>> \in Requests /\ <<"cdev", m, f>> \in Requests => m \in Names /\ f \in Exts /\ f # e
  BY DEF OneKind, Reg!RegisterAssumption, Reg!Kinds
<1>2. \A m, f : <<"sdev", m, f>> \in Requests => m \in Names /\ f \in Exts
  BY DEF Reg!RegisterAssumption, Reg!Kinds
<1>3. \A r \in Reg!Rows, k \in SdSlots : cs[r].name # NoName /\ sd[k].name # NoName => sd[k].row # r
  <2> SUFFICES ASSUME NEW r \in Reg!Rows, NEW k \in SdSlots, cs[r].name # NoName, sd[k].name # NoName, sd[k].row = r
               PROVE  FALSE
    OBVIOUS
  <2>1. <<"sdev", sd[k].name, sd[k].for>> \in Requests /\ ext[r] = sd[k].for
    BY DEF RInv, SSlots
  <2>2. <<"cdev", cs[r].name, cs[r].for>> \in Requests /\ ext[r] = cs[r].for
    BY DEF RInv, CSlots
  <2> QED  BY <1>1, <1>2, <2>1, <2>2
<1>4. \A p \in Procs, k \in SdSlots : rpr[p].pc = "alloc" /\ sd[k].name # NoName => sd[k].row # rpr[p].row
  <2> SUFFICES ASSUME NEW p \in Procs, NEW k \in SdSlots, rpr[p].pc = "alloc", sd[k].name # NoName, sd[k].row = rpr[p].row
               PROVE  FALSE
    OBVIOUS
  <2>1. <<"sdev", sd[k].name, sd[k].for>> \in Requests /\ ext[sd[k].row] = sd[k].for
    BY DEF RInv, SSlots
  <2>2. <<"cdev", rpr[p].name, rpr[p].for>> \in Requests /\ ext[rpr[p].row] = rpr[p].for
    BY DEF RInv, Sleepers
  <2> QED  BY <1>1, <1>2, <2>1, <2>2
<1>5. \A r \in Reg!Rows, n \in Names, e \in Exts :
        <<"sdev", n, e>> \in Requests /\ ext[r] = e => ~Reg!Empty(r) /\ cs[r].name = NoName
  <2> SUFFICES ASSUME NEW r \in Reg!Rows, NEW n \in Names, NEW e \in Exts, <<"sdev", n, e>> \in Requests, ext[r] = e
               PROVE  ~Reg!Empty(r) /\ cs[r].name = NoName
    OBVIOUS
  <2>1. cs[r].name = NoName
    BY <1>1 DEF RInv, CSlots
  <2>2. \A p \in Procs : rpr[p].pc = "alloc" => rpr[p].row # r
    BY <1>1 DEF RInv, Sleepers
  <2>3. e # NoExt
    BY DEF Reg!RegisterAssumption
  <2> QED  BY <2>1, <2>2, <2>3 DEF RInv, Reg!RowsUsed
<1> QED  BY <1>3, <1>4, <1>5

(* A slot that has a name has a module that it may have.                   *)
LEMMA Served ==
  ASSUME RInv, Reg!RegisterAssumption
  PROVE  /\ \A r \in Reg!Rows : cs[r] \in Reg!CSlot /\ (cs[r].name # NoName => ext[r] # NoExt)
         /\ \A k \in SdSlots : sd[k] \in Reg!SSlot /\ (sd[k].name # NoName => sd[k].row \in Reg!Rows /\ ext[sd[k].row] # NoExt)
         /\ \A r \in Reg!Rows : ~Reg!Empty(r) => ext[r] # NoExt
         /\ \A p \in Procs : rpr[p].pc = "alloc" => ext[rpr[p].row] # NoExt
         /\ NoExt \notin Exts /\ NoName \notin Names
         /\ \A t, n, e : <<t, n, e>> \in Requests => t \in Reg!Kinds /\ n \in Names /\ e \in Exts
<1>1. NoExt \notin Exts /\ NoName \notin Names /\ \A t, n, e : <<t, n, e>> \in Requests => t \in Reg!Kinds /\ n \in Names /\ e \in Exts
  BY DEF Reg!RegisterAssumption
<1>2. \A r \in Reg!Rows : cs[r] \in Reg!CSlot /\ (cs[r].name # NoName => ext[r] # NoExt)
  BY <1>1 DEF RInv, Reg!TypeOK, CSlots
<1>3. \A k \in SdSlots : sd[k] \in Reg!SSlot /\ (sd[k].name # NoName => sd[k].row \in Reg!Rows /\ ext[sd[k].row] # NoExt)
  BY <1>1 DEF RInv, Reg!TypeOK, SSlots
<1>4. \A r \in Reg!Rows : ~Reg!Empty(r) => ext[r] # NoExt
  BY <1>2, <1>3 DEF Reg!Empty, Reg!SdOn
<1>5. \A p \in Procs : rpr[p].pc = "alloc" => ext[rpr[p].row] # NoExt
  BY <1>1 DEF RInv, Sleepers
<1> QED  BY <1>1, <1>2, <1>3, <1>4, <1>5

(* dlm_creg: to its allocation                                             *)
LEMMA CregKept ==
  ASSUME Reg!RegisterAssumption, OneKind, RInv,
         NEW p \in Procs, NEW n \in Names, NEW e \in Exts, Reg!Creg(p, n, e)
  PROVE  RInv' /\ RowsGrow
<1> DEFINE a == Reg!AsvRow(e)
<1>1. /\ Reg!HasRow(e) /\ ext' = Reg!TakenRow(e) /\ cs' = cs /\ sd' = sd
      /\ <<"cdev", n, e>> \in Requests /\ rpr[p].pc = "user"
      /\ rpr' = IF Reg!Empty(a) THEN [rpr EXCEPT ![p] = [pc |-> "alloc", name |-> n, for |-> e, row |-> a]] ELSE rpr
  BY DEF Reg!Creg
<1>2. /\ ext' \in [Reg!Rows -> (Exts \ OwnMajors) \cup {NoExt}] /\ ext'[a] = e /\ RowsApart'
      /\ \A r \in Reg!Rows : ext[r] # NoExt \/ r # a => ext'[r] = ext[r]
  BY <1>1, RowTaken
<1>3. a \in Reg!Rows
  BY <1>1, RowGiven DEF RInv, Reg!HasRow
<1> HIDE DEF a
<1>4. /\ \A q \in Procs : q # p \/ ~Reg!Empty(a) => rpr'[q] = rpr[q]
      /\ Reg!Empty(a) => rpr'[p] = [pc |-> "alloc", name |-> n, for |-> e, row |-> a]
  BY <1>1 DEF RInv, Reg!TypeOK
<1>5. Reg!TypeOK'
  <2>1. [pc |-> "alloc", name |-> n, for |-> e, row |-> a]
          \in [pc: {"user", "alloc"}, name: Names \cup {NoName}, for: Exts \cup {NoExt}, row: Reg!Rows \cup {0}]
    BY <1>3
  <2>2. rpr' \in [Procs -> [pc: {"user", "alloc"}, name: Names \cup {NoName}, for: Exts \cup {NoExt}, row: Reg!Rows \cup {0}]]
    BY <1>1, <2>1 DEF RInv, Reg!TypeOK
  <2> QED  BY <1>1, <1>2, <2>2 DEF RInv, Reg!TypeOK, Reg!Rows, Reg!CSlot, Reg!SSlot
<1>6. CSlots' /\ SSlots'
  <2>1. \A r \in Reg!Rows : cs[r].mod # NoName => cs[r].name # NoName
    BY DEF RInv, CSlots
  <2>2. \A k \in SdSlots : sd[k].mod # NoName => sd[k].name # NoName
    BY DEF RInv, SSlots
  <2>3. CSlots'
    BY <1>1, <1>2, <2>1, Served DEF RInv, CSlots, Reg!Rows
  <2>4. SSlots'
    BY <1>1, <1>2, <2>2, Served DEF RInv, SSlots, Reg!Rows
  <2> QED  BY <2>3, <2>4
<1>7. Sleepers'
  <2> SUFFICES ASSUME NEW q \in Procs, rpr'[q].pc = "alloc"
               PROVE  /\ <<"cdev", rpr'[q].name, rpr'[q].for>> \in Requests /\ rpr'[q].row \in Reg!Rows
                      /\ ext'[rpr'[q].row] = rpr'[q].for
    BY DEF Sleepers, Reg!Rows
  <2>1. CASE q # p \/ ~Reg!Empty(a)
    BY <1>2, <1>4, <2>1, Served DEF RInv, Sleepers
  <2>2. CASE q = p /\ Reg!Empty(a)
    BY <1>1, <1>2, <1>3, <1>4, <2>2
  <2> QED  BY <2>1, <2>2
<1>8. Reg!RowsUsed'
  <2>1. \A r : Reg!Empty(r)' <=> Reg!Empty(r)
    BY <1>1 DEF Reg!Empty, Reg!SdOn
  <2> SUFFICES ASSUME NEW r \in Reg!Rows, ext'[r] # NoExt, Reg!Empty(r)
               PROVE  \E q \in Procs : rpr'[q].pc = "alloc" /\ rpr'[q].row = r
    BY <2>1 DEF Reg!RowsUsed, Reg!Rows
  <2>2. CASE r = a
    BY <1>4, <2>2
  <2>3. CASE r # a
    <3>1. PICK q \in Procs : rpr[q].pc = "alloc" /\ rpr[q].row = r
      BY <1>2, <2>3 DEF RInv, Reg!RowsUsed
    <3> QED  BY <1>1, <1>4, <3>1
  <2> QED  BY <2>2, <2>3
<1> QED  BY <1>1, <1>2, <1>5, <1>6, <1>7, <1>8 DEF RInv, RowsGrow

(* and after it: no call takes the row back                                *)
LEMMA CregResumesKept ==
  ASSUME Reg!RegisterAssumption, OneKind, RInv, NEW p \in Procs, Reg!CregResumes(p)
  PROVE  RInv' /\ RowsGrow
<1>0. PICK r : r = rpr[p].row
  OBVIOUS
<1>1. /\ rpr[p].pc = "alloc" /\ r \in Reg!Rows /\ ext[r] = rpr[p].for
      /\ <<"cdev", rpr[p].name, rpr[p].for>> \in Requests
      /\ rpr[p].name \in Names /\ rpr[p].for \in Exts
  BY <1>0, Served DEF RInv, Sleepers, Reg!CregResumes
<1>2. ~Reg!Empty(r) => cs[r].name # NoName
  BY <1>0, <1>1, KindsApart DEF Reg!Empty, Reg!SdOn
<1>3. /\ ext' = ext /\ sd' = sd /\ rpr' = [rpr EXCEPT ![p] = Reg!Out]
      /\ cs' = IF Reg!Empty(r) THEN [cs EXCEPT ![r] = [name |-> rpr[p].name, for |-> rpr[p].for, mod |-> NoName]] ELSE cs
  BY <1>0, <1>2 DEF Reg!CregResumes
<1>4. /\ \A q \in Reg!Rows : q # r \/ ~Reg!Empty(r) => cs'[q] = cs[q]
      /\ Reg!Empty(r) => cs'[r] = [name |-> rpr[p].name, for |-> rpr[p].for, mod |-> NoName]
      /\ rpr'[p].pc = "user" /\ \A q \in Procs : q # p => rpr'[q] = rpr[q]
  BY <1>1, <1>3 DEF RInv, Reg!TypeOK, Reg!Out
<1>5. Reg!Empty(r) => cs[r].name = NoName
  BY DEF Reg!Empty
<1>6. Reg!TypeOK'
  <2>1. [name |-> rpr[p].name, for |-> rpr[p].for, mod |-> NoName] \in Reg!CSlot
    BY <1>1 DEF Reg!CSlot
  <2>2. cs' \in [Reg!Rows -> Reg!CSlot]
    BY <1>3, <2>1 DEF RInv, Reg!TypeOK
  <2>3. rpr' \in [Procs -> [pc: {"user", "alloc"}, name: Names \cup {NoName}, for: Exts \cup {NoExt}, row: Reg!Rows \cup {0}]]
    BY <1>3 DEF RInv, Reg!TypeOK, Reg!Out
  <2> QED  BY <1>3, <2>2, <2>3 DEF RInv, Reg!TypeOK, Reg!Rows, Reg!CSlot, Reg!SSlot
<1>7. CSlots'
  <2> SUFFICES ASSUME NEW q \in Reg!Rows
               PROVE  /\ cs'[q].name = NoName => cs'[q].mod = NoName
                      /\ cs'[q].name # NoName => <<"cdev", cs'[q].name, cs'[q].for>> \in Requests /\ ext'[q] = cs'[q].for
                      /\ cs'[q].mod # NoName => cs'[q].mod = cs'[q].name /\ ext'[q] = Driver[cs'[q].mod][2]
    BY Zenon DEF CSlots, Reg!Rows
  <2>1. CASE q # r \/ ~Reg!Empty(r)
    BY <1>3, <1>4, <2>1 DEF RInv, CSlots
  <2>2. CASE q = r /\ Reg!Empty(r)
    BY <1>1, <1>3, <1>4, <2>2
  <2> QED  BY <2>1, <2>2
<1>8. SSlots' /\ Sleepers' /\ RowsApart'
  BY <1>3, <1>4 DEF RInv, SSlots, Sleepers, RowsApart, Reg!Rows
<1>9. Reg!RowsUsed'
  <2>1. \A q \in Reg!Rows : ~Reg!Empty(q) => ~Reg!Empty(q)'
    <3> SUFFICES ASSUME NEW q \in Reg!Rows, Reg!Empty(q)'
                 PROVE  Reg!Empty(q)
      BY DEF Reg!Rows
    <3>1. Reg!SdOn(q) = {} /\ cs'[q].name = NoName
      BY <1>3 DEF Reg!Empty, Reg!SdOn
    <3> QED  BY <1>4, <3>1 DEF Reg!Empty
  <2>2. ~Reg!Empty(r)'
    <3>1. CASE Reg!Empty(r)
      <4>1. cs'[r].name # NoName
        BY <1>1, <1>4, <3>1, Served
      <4> QED  BY <4>1 DEF Reg!Empty
    <3> QED  BY <1>1, <2>1, <3>1
  <2> SUFFICES ASSUME NEW q \in Reg!Rows, ext[q] # NoExt, Reg!Empty(q), q # r
               PROVE  \E s \in Procs : rpr'[s].pc = "alloc" /\ rpr'[s].row = q
    BY <1>3, <2>1, <2>2 DEF Reg!RowsUsed, Reg!Rows
  <2>3. PICK s \in Procs : rpr[s].pc = "alloc" /\ rpr[s].row = q
    BY DEF RInv, Reg!RowsUsed
  <2> QED  BY <1>0, <1>4, <2>3
<1>10. RowsGrow
  BY <1>1, <1>3, <1>4, <1>5 DEF RowsGrow
<1> QED  BY <1>6, <1>7, <1>8, <1>9, <1>10 DEF RInv

(* dlm_sreg: a row of its major has a slot already, so one it gives back   *)
(* was free before.                                                        *)
LEMMA SregKept ==
  ASSUME Reg!RegisterAssumption, OneKind, RInv,
         NEW p \in Procs, NEW n \in Names, NEW e \in Exts, Reg!Sreg(p, n, e)
  PROVE  RInv' /\ RowsGrow
<1>0. PICK a : a = Reg!AsvRow(e)
  OBVIOUS
<1>1. Reg!HasRow(e) /\ cs' = cs /\ rpr' = rpr /\ <<"sdev", n, e>> \in Requests /\ a \in Reg!Rows
  BY <1>0, RowGiven DEF RInv, Reg!HasRow, Reg!Sreg
<1>2. Reg!Empty(a) => ext[a] = NoExt
  <2>1. CASE Reg!RowsOf(e) # {}
    BY <1>0, <1>1, <2>1, RowGiven, KindsApart DEF RInv, Reg!HasRow
  <2>2. CASE Reg!RowsOf(e) = {}
    BY <1>0, <1>1, <2>2, RowGiven DEF RInv, Reg!HasRow
  <2> QED  BY <2>1, <2>2
<1>3. ~Reg!Empty(a) => ext[a] = e
  BY <1>0, <1>1, Served, RowGiven DEF RInv, Reg!HasRow
<1>4. CASE sd' = sd /\ ext' = ext
  <2>1. Reg!TypeOK' /\ CSlots' /\ SSlots' /\ Sleepers' /\ RowsApart' /\ Reg!RowsUsed'
    <3>1. Reg!TypeOK'
      BY <1>1, <1>4 DEF RInv, Reg!TypeOK, Reg!Rows, Reg!CSlot, Reg!SSlot
    <3>2. CSlots' /\ SSlots'
      BY <1>1, <1>4 DEF RInv, CSlots, SSlots, Reg!Rows
    <3>3. Sleepers' /\ RowsApart'
      BY <1>1, <1>4 DEF RInv, Sleepers, RowsApart, Reg!Rows
    <3>4. Reg!RowsUsed'
      BY <1>1, <1>4 DEF RInv, Reg!RowsUsed, Reg!Empty, Reg!SdOn, Reg!Rows
    <3> QED  BY <3>1, <3>2, <3>3, <3>4
  <2> QED  BY <1>1, <1>4, <2>1 DEF RInv, RowsGrow
<1>5. CASE ~Reg!Empty(a) /\ ext' = Reg!TakenRow(e) /\ sd' = sd
  <2>1. ext' = ext
    BY <1>0, <1>1, <1>3, <1>5 DEF RInv, Reg!TypeOK, Reg!TakenRow
  <2> QED  BY <1>4, <1>5, <2>1
<1>6. CASE Reg!Empty(a) /\ ext' = Reg!Unrow(Reg!TakenRow(e), a) /\ sd' = sd
  <2>1. ext' = ext
    BY <1>0, <1>1, <1>2, <1>6 DEF RInv, Reg!TypeOK, Reg!TakenRow, Reg!Unrow
  <2> QED  BY <1>4, <1>6, <2>1
<1>7. ASSUME NEW k \in Reg!FreeSd, Reg!Empty(a), ext' = Reg!TakenRow(e),
             sd' = [sd EXCEPT ![k] = [name |-> n, for |-> e, mod |-> NoName, row |-> a]]
      PROVE  RInv' /\ RowsGrow
  <2>1. /\ ext' \in [Reg!Rows -> (Exts \ OwnMajors) \cup {NoExt}] /\ ext'[a] = e /\ RowsApart'
        /\ \A r \in Reg!Rows : ext[r] # NoExt => ext'[r] = ext[r]
        /\ \A r \in Reg!Rows : r # a => ext'[r] = ext[r]
    BY <1>0, <1>1, <1>7, RowTaken
  <2>2. k \in SdSlots /\ sd[k].name = NoName
    BY <1>7 DEF Reg!FreeSd
  <2>3. /\ sd'[k] = [name |-> n, for |-> e, mod |-> NoName, row |-> a]
        /\ \A j \in SdSlots : j # k => sd'[j] = sd[j]
    BY <1>7, <2>2 DEF RInv, Reg!TypeOK
  <2>4. Reg!TypeOK'
    <3>1. [name |-> n, for |-> e, mod |-> NoName, row |-> a] \in Reg!SSlot
      BY <1>1 DEF Reg!SSlot
    <3>2. sd' \in [SdSlots -> Reg!SSlot]
      BY <1>7, <2>2, <3>1 DEF RInv, Reg!TypeOK
    <3> QED  BY <1>1, <2>1, <3>2 DEF RInv, Reg!TypeOK, Reg!Rows, Reg!CSlot, Reg!SSlot
  <2>5. CSlots'
    <3>1. \A r \in Reg!Rows : cs[r].mod # NoName => cs[r].name # NoName
      BY DEF RInv, CSlots
    <3> QED  BY <1>1, <2>1, <3>1, Served DEF RInv, CSlots, Reg!Rows
  <2>6. SSlots'
    <3> SUFFICES ASSUME NEW j \in SdSlots
                 PROVE  /\ sd'[j].name = NoName => sd'[j].mod = NoName
                        /\ sd'[j].name # NoName => /\ <<"sdev", sd'[j].name, sd'[j].for>> \in Requests
                                                   /\ sd'[j].row \in Reg!Rows /\ ext'[sd'[j].row] = sd'[j].for
                        /\ sd'[j].mod # NoName => sd'[j].mod = sd'[j].name /\ ext'[sd'[j].row] = Driver[sd'[j].mod][2]
      BY Zenon DEF SSlots, Reg!Rows
    <3>1. CASE j = k
      BY <1>1, <2>1, <2>3, <3>1
    <3>2. CASE j # k
      <4>1. sd[j].mod # NoName => sd[j].name # NoName
        BY DEF RInv, SSlots
      <4> QED  BY <2>1, <2>3, <3>2, <4>1, Served DEF RInv, SSlots
    <3> QED  BY <3>1, <3>2
  <2>7. Sleepers'
    BY <1>1, <2>1, Served DEF RInv, Sleepers, Reg!Rows
  <2>8. Reg!RowsUsed'
    <3>1. \A r \in Reg!Rows : ~Reg!Empty(r) => ~Reg!Empty(r)'
      <4> SUFFICES ASSUME NEW r \in Reg!Rows, Reg!Empty(r)'
                   PROVE  Reg!Empty(r)
        BY DEF Reg!Rows
      <4>1. \A j \in SdSlots : sd'[j].name # NoName => sd'[j].row # r
        BY DEF Reg!Empty, Reg!SdOn
      <4>2. \A j \in SdSlots : sd[j].name # NoName => sd[j].row # r
        BY <2>2, <2>3, <4>1
      <4> QED  BY <1>1, <4>2 DEF Reg!Empty, Reg!SdOn
    <3>2. ~Reg!Empty(a)'
      <4>1. sd'[k].name # NoName /\ sd'[k].row = a
        BY <2>3, Served
      <4> QED  BY <2>2, <4>1 DEF Reg!Empty, Reg!SdOn
    <3> QED  BY <1>1, <2>1, <3>1, <3>2 DEF RInv, Reg!RowsUsed, Reg!Rows
  <2>9. RowsGrow
    BY <1>1, <2>1, <2>2, <2>3 DEF RowsGrow
  <2> QED  BY <2>1, <2>4, <2>5, <2>6, <2>7, <2>8, <2>9 DEF RInv
<1> QED  BY <1>0, <1>5, <1>6, <1>7 DEF Reg!Sreg

LEMMA LinkKept ==
  ASSUME RInv, Relinked
  PROVE  RInv' /\ RowsGrow
<1>1. Reg!TypeOK'
  BY DEF RInv, Relinked, Reg!TypeOK, Reg!Rows, Reg!CSlot, Reg!SSlot
<1>2. CSlots'
  BY DEF RInv, Relinked, CSlots, Reg!Rows
<1>3. SSlots'
  BY DEF RInv, Relinked, SSlots, Reg!Rows
<1>4. Sleepers' /\ RowsApart'
  BY DEF RInv, Relinked, Sleepers, RowsApart, Reg!Rows
<1>5. Reg!RowsUsed'
  <2>1. \A r \in Reg!Rows : Reg!Empty(r)' <=> Reg!Empty(r)
    BY DEF Relinked, Reg!Empty, Reg!SdOn, Reg!Rows
  <2> QED  BY <2>1 DEF RInv, Relinked, Reg!RowsUsed, Reg!Rows
<1> QED  BY <1>1, <1>2, <1>3, <1>4, <1>5 DEF RInv, Relinked, RowsGrow

LEMMA InstallKept ==
  ASSUME Reg!RegisterAssumption, RInv, NEW n \in Names, Reg!Install(n)
  PROVE  RInv' /\ RowsGrow
<1>0. PICK a : a = Reg!AsvRow(Driver[n][2])
  OBVIOUS
<1>1. /\ Driver[n][2] \in Exts /\ a \in Reg!Rows /\ ext[a] = Driver[n][2] /\ ext' = ext /\ rpr' = rpr /\ NoName \notin Names
  BY <1>0, RowGiven DEF RInv, Reg!RegisterAssumption, Reg!Install
<1>2. cs \in [Reg!Rows -> Reg!CSlot] /\ sd \in [SdSlots -> Reg!SSlot]
  BY DEF RInv, Reg!TypeOK
<1>3. CASE Reg!InstallC(n, a)
  <2>1. cs' = [cs EXCEPT ![a].mod = n] /\ sd' = sd /\ cs[a].name = n
    BY <1>3 DEF Reg!InstallC, Reg!MayLink
  <2>2. /\ cs'[a].name = cs[a].name /\ cs'[a].for = cs[a].for /\ cs'[a].mod = n /\ cs'[a] \in Reg!CSlot
        /\ \A r \in Reg!Rows : r # a => cs'[r] = cs[r]
        /\ cs' \in [Reg!Rows -> Reg!CSlot]
    BY <1>1, <1>2, <2>1 DEF Reg!CSlot
  <2>3. Relinked
    BY <1>1, <1>2, <2>1, <2>2 DEF Relinked
  <2> QED  BY <2>3, LinkKept
<1>4. CASE Reg!InstallS(n, a)
  <2>1. PICK k \in SdSlots : sd' = [sd EXCEPT ![k].mod = n] /\ sd[k].name = n /\ sd[k].row = a /\ cs' = cs
    BY <1>4 DEF Reg!InstallS, Reg!MayLink, Reg!SdOn
  <2>2. /\ sd'[k].name = sd[k].name /\ sd'[k].for = sd[k].for /\ sd'[k].row = sd[k].row /\ sd'[k].mod = n
        /\ \A j \in SdSlots : j # k => sd'[j] = sd[j]
        /\ sd' \in [SdSlots -> Reg!SSlot]
    BY <1>1, <1>2, <2>1 DEF Reg!SSlot
  <2>3. Relinked
    BY <1>1, <1>2, <2>1, <2>2 DEF Relinked
  <2> QED  BY <2>3, LinkKept
<1> QED  BY <1>0, <1>3, <1>4 DEF Reg!Install

LEMMA RemoveKept ==
  ASSUME RInv, NEW n \in Names, Reg!Remove(n)
  PROVE  RInv' /\ RowsGrow
<1>1. /\ ext' = ext /\ rpr' = rpr
      /\ cs' = [r \in Reg!Rows |-> IF cs[r].mod = n THEN [cs[r] EXCEPT !.mod = NoName] ELSE cs[r]]
      /\ sd' = [k \in SdSlots |-> IF sd[k].mod = n THEN [sd[k] EXCEPT !.mod = NoName] ELSE sd[k]]
  BY DEF Reg!Remove, Reg!SdevRemove, Reg!PlacedC, Reg!PlacedS
<1>2. cs \in [Reg!Rows -> Reg!CSlot] /\ sd \in [SdSlots -> Reg!SSlot]
  BY DEF RInv, Reg!TypeOK
<1>3. /\ cs' \in [Reg!Rows -> Reg!CSlot]
      /\ \A r \in Reg!Rows : cs'[r].name = cs[r].name /\ cs'[r].for = cs[r].for /\ cs'[r].mod \in {cs[r].mod, NoName}
  BY <1>1, <1>2 DEF Reg!CSlot
<1>4. /\ sd' \in [SdSlots -> Reg!SSlot]
      /\ \A k \in SdSlots : sd'[k].name = sd[k].name /\ sd'[k].for = sd[k].for /\ sd'[k].row = sd[k].row
                            /\ sd'[k].mod \in {sd[k].mod, NoName}
  BY <1>1, <1>2 DEF Reg!SSlot
<1>5. Relinked
  BY <1>1, <1>3, <1>4 DEF Relinked
<1> QED  BY <1>5, LinkKept

LEMMA RInvStarts ==
  ASSUME Reg!RegisterAssumption, Reg!Init
  PROVE  RInv
<1>1. Reg!NoCSlot \in Reg!CSlot /\ Reg!NoSSlot \in Reg!SSlot
  BY DEF Reg!NoCSlot, Reg!NoSSlot, Reg!CSlot, Reg!SSlot
<1>2. Reg!TypeOK
  BY <1>1 DEF Reg!Init, Reg!TypeOK, Reg!Out
<1>3. CSlots /\ SSlots /\ Sleepers /\ RowsApart /\ Reg!RowsUsed
  BY DEF Reg!Init, CSlots, SSlots, Sleepers, RowsApart, Reg!RowsUsed, Reg!NoCSlot, Reg!NoSSlot, Reg!Out
<1> QED  BY <1>2, <1>3 DEF RInv

LEMMA RInvKept ==
  ASSUME Reg!RegisterAssumption, OneKind, RInv, [Reg!Next]_(Reg!vars)
  PROVE  RInv' /\ RowsGrow
<1>1. CASE UNCHANGED Reg!vars
  <2>1. ext' = ext /\ cs' = cs /\ sd' = sd /\ rpr' = rpr
    BY <1>1 DEF Reg!vars
  <2>2. cs' \in [Reg!Rows -> Reg!CSlot] /\ sd' \in [SdSlots -> Reg!SSlot]
    BY <2>1 DEF RInv, Reg!TypeOK
  <2>3. Relinked
    BY <2>1, <2>2 DEF Relinked
  <2> QED  BY <2>3, LinkKept
<1>2. ASSUME NEW p \in Procs, Reg!CregResumes(p)
      PROVE  RInv' /\ RowsGrow
  BY <1>2, CregResumesKept
<1>3. ASSUME NEW p \in Procs, NEW n \in Names, NEW e \in Exts, Reg!Creg(p, n, e) \/ Reg!Sreg(p, n, e)
      PROVE  RInv' /\ RowsGrow
  BY <1>3, CregKept, SregKept
<1>4. ASSUME NEW n \in Names, Reg!Install(n) \/ Reg!Remove(n)
      PROVE  RInv' /\ RowsGrow
  BY <1>4, InstallKept, RemoveKept
<1> QED  BY <1>1, <1>2, <1>3, <1>4 DEF Reg!Next

LEMMA RegistersAlways ==
  ASSUME Reg!RegisterAssumption, OneKind
  PROVE  Reg!Spec => []RInv
<1>1. Reg!Init => RInv
  BY RInvStarts
<1>2. RInv /\ [Reg!Next]_(Reg!vars) => RInv'
  BY RInvKept
<1> QED  BY <1>1, <1>2, PTL DEF Reg!Spec

(* A registration that was reported done stays on a row that its major     *)
(* reaches: no call that slept meanwhile takes the row back or gives it    *)
(* away (dlm_asv.c:9-12), if no major is asked for by both kinds.          *)
THEOREM SlotsAreReached ==
  ASSUME Reg!RegisterAssumption, OneKind
  PROVE  Reg!Spec => []Reg!SlotReached
<1>1. RInv => Reg!SlotReached
  BY DEF RInv, CSlots, SSlots, Reg!SlotReached
<1> QED  BY <1>1, RegistersAlways, PTL

(* The spare rows are not used up by registrations that fail.              *)
THEOREM RowsAreUsed ==
  ASSUME Reg!RegisterAssumption, OneKind
  PROVE  Reg!Spec => []Reg!RowsUsed
<1>1. RInv => Reg!RowsUsed
  BY DEF RInv
<1> QED  BY <1>1, RegistersAlways, PTL

(* A module is linked only under its own name, into the row that the major *)
(* of its own data reaches, and one row has slots of one kind.             *)
THEOREM LinksAreOwn ==
  ASSUME Reg!RegisterAssumption, OneKind
  PROVE  Reg!Spec => []Reg!LinkOwn
<1>1. RInv => Reg!LinkOwn
  <2> SUFFICES ASSUME RInv
               PROVE  Reg!LinkOwn
    OBVIOUS
  <2>1. \A r \in Reg!Rows : cs[r].mod # NoName => cs[r].name = cs[r].mod /\ ext[r] = Driver[cs[r].mod][2]
    BY DEF RInv, CSlots
  <2>2. \A k \in SdSlots : sd[k].mod # NoName => sd[k].name = sd[k].mod /\ ext[sd[k].row] = Driver[sd[k].mod][2]
    BY DEF RInv, SSlots
  <2>3. \A k \in SdSlots : sd[k].mod # NoName => cs[sd[k].row].name = NoName
    BY KindsApart DEF RInv, SSlots
  <2> QED  BY <2>1, <2>2, <2>3 DEF Reg!LinkOwn
<1> QED  BY <1>1, RegistersAlways, PTL

(* What a module was granted no other registration takes back: once its    *)
(* name is registered for a major, opens of that major go to its slot.     *)
THEOREM GrantsAreKept ==
  ASSUME Reg!RegisterAssumption, OneKind
  PROVE  Reg!Spec => [][Reg!KeptStep]_(Reg!vars)
<1>1. RInv /\ [Reg!Next]_(Reg!vars) => [Reg!KeptStep]_(Reg!vars)
  <2> SUFFICES ASSUME RInv, [Reg!Next]_(Reg!vars), NEW n \in Names, NEW e \in Exts, Reg!Serves(n, e)
               PROVE  Reg!Serves(n, e)'
    BY DEF Reg!KeptStep
  <2>1. RowsGrow
    BY RInvKept
  <2>2. e # NoExt /\ n # NoName
    BY DEF Reg!RegisterAssumption
  <2>3. PICK r \in Reg!Rows : ext[r] = e /\ (cs[r].name = n \/ \E k \in SdSlots : sd[k].name = n /\ sd[k].row = r)
    BY DEF Reg!Serves, Reg!RowsOf, Reg!SdOn
  <2>4. ext'[r] = e
    BY <2>1, <2>2, <2>3 DEF RowsGrow
  <2>5. CASE cs[r].name = n
    <3>1. cs'[r].name = n
      BY <2>1, <2>2, <2>5 DEF RowsGrow
    <3> QED  BY <2>4, <3>1 DEF Reg!Serves, Reg!RowsOf, Reg!Rows
  <2>6. ASSUME NEW k \in SdSlots, sd[k].name = n, sd[k].row = r
        PROVE  Reg!Serves(n, e)'
    <3>1. sd'[k].name = n /\ sd'[k].row = r
      BY <2>1, <2>2, <2>6 DEF RowsGrow
    <3> QED  BY <2>2, <2>4, <3>1 DEF Reg!Serves, Reg!RowsOf, Reg!Rows, Reg!SdOn
  <2> QED  BY <2>3, <2>5, <2>6
<1> QED  BY <1>1, RegistersAlways, PTL DEF Reg!Spec
-----------------------------------------------------------------------------
LEMMA TablesFinite == \A S : Tables!IsFiniteSet(S) <=> IsFiniteSet(S)
  BY DEF Tables!IsFiniteSet, IsFiniteSet
LEMMA TablesCount == \A S : Tables!Cardinality(S) = Cardinality(S)
  BY DEF Tables!Cardinality, Cardinality

LEMMA InCounted ==
  ASSUME Tables!LinksAssumption, NEW m
  PROVE  Cardinality(Pushed(m)) \in Nat /\ Cardinality(In(m)) \in Nat /\ IsFiniteSet(Pushed(m)) /\ IsFiniteSet(In(m))
<1>1. IsFiniteSet(Streams) /\ IsFiniteSet(Procs)
  BY TablesFinite DEF Tables!LinksAssumption
<1>2. Pushed(m) \subseteq Streams /\ In(m) \subseteq Procs
  BY DEF Pushed, In
<1> QED  BY <1>1, <1>2, FS_Subset, FS_CardinalityType

LEMMA HoldsAre ==
  /\ Tables!HoldsExact <=> \A m \in Mods : refs[m] = Cardinality(Pushed(m)) + Cardinality(In(m)) + stays[m]
  /\ Tables!HoldsExact' <=> \A m \in Mods : refs'[m] = Cardinality(Pushed(m)') + Cardinality(In(m)') + stays'[m]
<1>1. Tables!HoldsExact <=> \A m \in Mods : refs[m] = Cardinality(Pushed(m)) + Cardinality(In(m)) + stays[m]
  BY TablesCount DEF Tables!HoldsExact, Pushed, In, Works
<1>2. Tables!HoldsExact' <=> \A m \in Mods : refs'[m] = Cardinality(Pushed(m)') + Cardinality(In(m)') + stays'[m]
  BY TablesCount DEF Tables!HoldsExact, Pushed, In, Works
<1> QED  BY <1>1, <1>2

(* Nothing holds a module that may go; who holds one has it loaded         *)
LEMMA Unheld ==
  ASSUME Tables!LinksAssumption, TTypes, Tables!HoldsExact, NEW m \in Mods
  PROVE  /\ refs[m] = 0 => Pushed(m) = {} /\ In(m) = {}
         /\ refs[m] = 0 => (\A s \in Streams : st[s].mod # m) /\ \A p \in Procs : ~Works(tpr[p], m)
<1>1. refs[m] = Cardinality(Pushed(m)) + Cardinality(In(m)) + stays[m]
  BY HoldsAre
<1>2. Cardinality(Pushed(m)) \in Nat /\ Cardinality(In(m)) \in Nat /\ IsFiniteSet(Pushed(m)) /\ IsFiniteSet(In(m))
  BY InCounted
<1>3. refs[m] = 0 => Cardinality(Pushed(m)) = 0 /\ Cardinality(In(m)) = 0
  <2>1. stays[m] \in Nat
    BY DEF TTypes
  <2> QED  BY <1>1, <1>2, <2>1
<1>4. refs[m] = 0 => Pushed(m) = {} /\ In(m) = {}
  BY <1>2, <1>3, FS_EmptySet
<1>5. refs[m] = 0 => (\A s \in Streams : st[s].mod # m) /\ \A p \in Procs : ~Works(tpr[p], m)
  BY <1>4 DEF Pushed, In
<1> QED  BY <1>4, <1>5

(* What one process's move does to the count, and one stream's             *)
LEMMA Walked ==
  ASSUME Tables!LinksAssumption, TTypes, NEW p \in Procs, NEW r, tpr' = [tpr EXCEPT ![p] = r], NEW m
  PROVE  Cardinality(In(m)') = (Cardinality(In(m)) + (IF Works(r, m) THEN 1 ELSE 0)) - (IF Works(tpr[p], m) THEN 1 ELSE 0)
<1> DEFINE A == In(m)
           B == In(m)'
<1>1. tpr'[p] = r /\ \A q \in Procs : q # p => tpr'[q] = tpr[q]
  BY DEF TTypes
<1>2. p \in A <=> Works(tpr[p], m)
  BY DEF In
<1>3. B = {q \in Procs : Works(tpr'[q], m)}
  BY DEF In, Works
<1>4. p \in B <=> Works(r, m)
  BY <1>1, <1>3
<1>5. \A q : q # p => (q \in A <=> q \in B)
  BY <1>1, <1>3 DEF In
<1>6. IsFiniteSet(A)
  BY InCounted
<1> HIDE DEF A, B
<1>7. /\ Cardinality(A) \in Nat /\ Cardinality(B) \in Nat
      /\ p \in A /\ p \notin B => Cardinality(B) = Cardinality(A) - 1
      /\ p \notin A /\ p \in B => Cardinality(B) = Cardinality(A) + 1
      /\ (p \in A <=> p \in B) => B = A
  BY <1>5, <1>6, Recount
<1>8. Cardinality(B) = (Cardinality(A) + (IF Works(r, m) THEN 1 ELSE 0)) - (IF Works(tpr[p], m) THEN 1 ELSE 0)
  BY <1>2, <1>4, <1>7
<1> QED  BY <1>8 DEF A, B

LEMMA Streamed ==
  ASSUME Tables!LinksAssumption, TTypes, NEW s \in Streams, \A q \in Streams : q # s => st'[q] = st[q], NEW m
  PROVE  Cardinality(Pushed(m)') = (Cardinality(Pushed(m)) + (IF st'[s].mod = m THEN 1 ELSE 0)) - (IF st[s].mod = m THEN 1 ELSE 0)
<1> DEFINE A == Pushed(m)
           B == Pushed(m)'
<1>1. \A q \in Streams : q # s => st'[q] = st[q]
  OBVIOUS
<1>2. s \in A <=> st[s].mod = m
  BY DEF Pushed
<1>3. B = {q \in Streams : st'[q].mod = m}
  BY DEF Pushed
<1>4. s \in B <=> st'[s].mod = m
  BY <1>3
<1>5. \A q : q # s => (q \in A <=> q \in B)
  BY <1>1, <1>3 DEF Pushed
<1>6. IsFiniteSet(A)
  BY InCounted
<1> HIDE DEF A, B
<1>7. /\ Cardinality(A) \in Nat /\ Cardinality(B) \in Nat
      /\ s \in A /\ s \notin B => Cardinality(B) = Cardinality(A) - 1
      /\ s \notin A /\ s \in B => Cardinality(B) = Cardinality(A) + 1
      /\ (s \in A <=> s \in B) => B = A
  BY <1>5, <1>6, Recount
<1>8. Cardinality(B) = (Cardinality(A) + (IF st'[s].mod = m THEN 1 ELSE 0)) - (IF st[s].mod = m THEN 1 ELSE 0)
  BY <1>2, <1>4, <1>7
<1> QED  BY <1>8 DEF A, B

(* One process moves                                                       *)
LEMMA Walks ==
  ASSUME TTypes, AtStreams, AtSlots, Tables!StockTried, kind' = kind,
         NEW p \in Procs, NEW r \in Doing, tpr' = [tpr EXCEPT ![p] = r],
         AtStream(r, kind, frows', st'), AtSlot(r, kind, slots'),
         \A q \in Procs : q # p => AtStream(tpr[q], kind, frows', st') /\ AtSlot(tpr[q], kind, slots'),
         r.pc = "noexec" /\ OfStock(r.magic) => r.stock,
         r.s # No => \A q \in Procs : q # p => tpr[q].s # r.s
  PROVE  AtStreams' /\ AtSlots' /\ Tables!StockTried'
<1>1. tpr'[p] = r /\ \A q \in Procs : q # p => tpr'[q] = tpr[q]
  BY DEF TTypes
<1>2. \A q \in Procs : AtStream(tpr'[q], kind', frows', st') /\ AtSlot(tpr'[q], kind', slots')
  BY <1>1
<1>3. \A a, b \in Procs : tpr'[a].s # No /\ tpr'[a].s = tpr'[b].s => a = b
  BY <1>1 DEF AtStreams
<1>4. \A q \in Procs : tpr'[q].pc = "noexec" /\ OfStock(tpr'[q].magic) => tpr'[q].stock
  <2>1. \A q \in Procs : tpr[q].pc = "noexec" /\ OfStock(tpr[q].magic) => tpr[q].stock
    BY DEF Tables!StockTried, OfStock
  <2> QED  BY <1>1, <2>1
<1>5. AtStreams'
  BY <1>2, <1>3 DEF AtStreams
<1>6. AtSlots'
  BY <1>2 DEF AtSlots
<1>7. Tables!StockTried'
  BY <1>4 DEF Tables!StockTried, OfStock
<1> QED  BY <1>5, <1>6, <1>7

(* It moves and holds nothing, before or after                             *)
LEMMA OnlyWalks ==
  ASSUME Tables!LinksAssumption, TInv, UNCHANGED <<kind, loaded, refs, stays, rows, slots, frows, st>>,
         NEW p \in Procs, NEW r \in Doing, tpr' = [tpr EXCEPT ![p] = r],
         AtStream(r, kind, frows, st), AtSlot(r, kind, slots),
         r.pc = "noexec" /\ OfStock(r.magic) => r.stock,
         r.s # No => \A q \in Procs : q # p => tpr[q].s # r.s,
         r.pc \notin {"run", "open"}, tpr[p].pc \notin {"run", "open"}
  PROVE  TInv'
<1>1. /\ TTypes /\ InTables /\ OfStreams /\ AtStreams /\ AtSlots /\ RowsOrder
      /\ Tables!HoldsExact /\ Tables!StockTried
  BY DEF TInv
<1>2. TTypes'
  BY <1>1 DEF TTypes
<1>3. InTables' /\ OfStreams' /\ RowsOrder'
  BY <1>1 DEF InTables, OfStreams, RowsOrder
<1>4. AtStreams' /\ AtSlots' /\ Tables!StockTried'
  <2>1. \A q \in Procs : q # p => AtStream(tpr[q], kind, frows', st') /\ AtSlot(tpr[q], kind, slots')
    BY <1>1 DEF AtStreams, AtSlots
  <2>2. AtStream(r, kind, frows', st') /\ AtSlot(r, kind, slots') /\ kind' = kind
    OBVIOUS
  <2> QED  BY <1>1, <2>1, <2>2, Walks
<1>5. Tables!HoldsExact'
  <2>1. ASSUME NEW m \in Mods
        PROVE  refs'[m] = Cardinality(Pushed(m)') + Cardinality(In(m)') + stays'[m]
    <3>1. Pushed(m)' = Pushed(m)
      BY DEF Pushed
    <3>2. ~Works(r, m) /\ ~Works(tpr[p], m)
      BY DEF Works
    <3>3. Cardinality(In(m)') = Cardinality(In(m)) /\ Cardinality(In(m)) \in Nat
      <4>1. Cardinality(In(m)') = (Cardinality(In(m)) + (IF Works(r, m) THEN 1 ELSE 0)) - (IF Works(tpr[p], m) THEN 1 ELSE 0)
        BY <1>1, Walked
      <4>2. Cardinality(In(m)) \in Nat
        BY InCounted
      <4> QED  BY <3>2, <4>1, <4>2
    <3>4. refs[m] = Cardinality(Pushed(m)) + Cardinality(In(m)) + stays[m]
      BY <1>1, HoldsAre
    <3> QED  BY <3>1, <3>3, <3>4
  <2> QED  BY <2>1, HoldsAre
<1> QED  BY <1>2, <1>3, <1>4, <1>5 DEF TInv

LEMMA RowSlots ==
  ASSUME Slots \in Nat, NEW rs \in Seq(ExecRow), NEW i \in 1 .. Len(rs)
  PROVE  rs[i].slot \in 0 .. Slots /\ rs[i].magic \in Magics /\ (rs[i].slot # 0 => rs[i].slot \in 1 .. Slots)
<1>1. rs[i] \in ExecRow
  OBVIOUS
<1>2. rs[i].slot \in 0 .. Slots /\ rs[i].magic \in Magics
  BY <1>1 DEF ExecRow
<1> QED  BY <1>2

(* A module comes, a module goes                                           *)
LEMMA Installed ==
  ASSUME Tables!LinksAssumption, TInv, NEW m \in Mods, Tables!Install(m)
  PROVE  /\ kind' = kind /\ loaded' = loaded \cup {m} /\ rows' = rows /\ st' = st /\ stays' = stays /\ m \notin loaded
         /\ slots' \in [1 .. Slots -> Slot] /\ frows' \in Seq(StrRow)
         /\ \A k \in 1 .. Slots : /\ slots'[k].mod = slots[k].mod /\ slots'[k].magic = slots[k].magic
                                  /\ slots'[k].first = slots[k].first
                                  /\ slots'[k].on => slots'[k].mod \in loaded'
                                  /\ slots[k].mod = No => ~slots'[k].on
                                  /\ slots[k].on => slots'[k].on
         /\ Len(frows) <= Len(frows')
         /\ \A j \in 1 .. Len(frows) : frows'[j].own # frows[j].own => frows[j].own = No
         /\ \A j \in 1 .. Len(frows') : frows'[j].own # No => frows'[j].own \in loaded'
<1>1. /\ TTypes /\ InTables /\ RowsOrder /\ m \notin loaded /\ m # No
  BY DEF TInv, Tables!Install, Tables!LinksAssumption, Tables!None, No
<1>2. kind' = kind /\ loaded' = loaded \cup {m} /\ rows' = rows /\ st' = st /\ stays' = stays
  BY DEF Tables!Install, Tables!left
<1>3. CASE kind = "exec"
  <2>1. slots' = Tables!OnIn(Tables!SlotsOf(m), TRUE) /\ frows' = frows
    BY <1>3 DEF Tables!Install
  <2>2. ASSUME NEW k \in 1 .. Slots
        PROVE  /\ slots'[k] \in Slot /\ slots'[k].mod = slots[k].mod /\ slots'[k].magic = slots[k].magic
               /\ slots'[k].first = slots[k].first
               /\ slots'[k].on => slots'[k].mod \in loaded'
               /\ slots[k].mod = No => ~slots'[k].on
               /\ slots[k].on => slots'[k].on
    <3>1. slots[k] \in Slot /\ (slots[k].on => slots[k].mod \in loaded) /\ (slots[k].mod = No => ~slots[k].on)
      BY <1>1 DEF TTypes, InTables, RowsOrder
    <3>2. slots'[k] = IF slots[k].mod = m THEN [slots[k] EXCEPT !.on = TRUE] ELSE slots[k]
      BY <2>1 DEF Tables!OnIn, Tables!SlotsOf
    <3>3. CASE slots[k].mod = m
      BY <1>1, <1>2, <3>1, <3>2, <3>3 DEF Slot
    <3>4. CASE slots[k].mod # m
      BY <1>2, <3>1, <3>2, <3>4
    <3> QED  BY <3>3, <3>4
  <2>3. slots' \in [1 .. Slots -> Slot]
    <3>1. slots' = [k \in 1 .. Slots |-> slots'[k]]
      BY <2>1 DEF Tables!OnIn
    <3> QED  BY <2>2, <3>1
  <2>4. frows \in Seq(StrRow)
    BY <1>1 DEF TTypes
  <2>5. Len(frows) \in Nat
    BY <2>4
  <2>6. \A j \in 1 .. Len(frows) : frows[j].own # No => frows[j].own \in loaded'
    BY <1>1, <1>2 DEF InTables
  <2>7. /\ Len(frows) <= Len(frows')
        /\ \A j \in 1 .. Len(frows) : frows'[j].own # frows[j].own => frows[j].own = No
        /\ \A j \in 1 .. Len(frows') : frows'[j].own # No => frows'[j].own \in loaded'
    BY <2>1, <2>5, <2>6
  <2>8. frows' \in Seq(StrRow)
    BY <2>1, <2>4
  <2> QED  BY <1>1, <1>2, <2>2, <2>3, <2>7, <2>8
<1>4. CASE kind # "exec"
  <2>1. slots' = slots /\ Tables!StrInstall(m)
    BY <1>4 DEF Tables!Install
  <2>2. slots \in [1 .. Slots -> Slot] /\ frows \in Seq(StrRow) /\ Len(frows) \in Nat
    BY <1>1 DEF TTypes
  <2>3. /\ frows' \in Seq(StrRow) /\ Len(frows) <= Len(frows')
        /\ \A j \in 1 .. Len(frows) : frows'[j].own # frows[j].own => frows[j].own = No
        /\ \A j \in 1 .. Len(frows') : frows'[j].own # No => frows'[j].own \in loaded'
    <3>1. CASE \E j \in Tables!Gets(m) : frows' = [frows EXCEPT ![j].own = m]
      <4>1. PICK i \in 1 .. Len(frows) : frows[i].own = No /\ frows' = [frows EXCEPT ![i].own = m]
        <5>1. DOMAIN frows = 1 .. Len(frows)
          BY <2>2
        <5>2. PICK j \in Tables!Gets(m) : frows' = [frows EXCEPT ![j].own = m]
          BY <3>1
        <5>3. j \in DOMAIN frows /\ frows[j].own = No
          BY <5>2 DEF Tables!Gets, No
        <5> QED  BY <5>1, <5>2, <5>3
      <4> DEFINE y == [frows[i] EXCEPT !.own = m]
      <4>2. y \in StrRow /\ y.own = m
        <5>1. frows[i] \in StrRow
          BY <2>2
        <5> QED  BY <5>1 DEF StrRow
      <4>3. frows' = [frows EXCEPT ![i] = y]
        BY <4>1
      <4> HIDE DEF y
      <4>4. frows' \in Seq(StrRow) /\ Len(frows') = Len(frows) /\ frows'[i] = y
            /\ \A j \in 1 .. Len(frows) : j # i => frows'[j] = frows[j]
        BY <2>2, <4>2, <4>3
      <4>5. \A j \in 1 .. Len(frows) : frows[j].own # No => frows[j].own \in loaded
        BY <1>1 DEF InTables
      <4> QED  BY <1>2, <2>2, <4>1, <4>2, <4>4, <4>5
    <3>2. CASE Len(frows) < Reserve /\ frows' = Append(frows, [name |-> StrName[m], own |-> m])
      <4> DEFINE y == [name |-> StrName[m], own |-> m]
      <4>1. y \in StrRow /\ y.own = m
        BY DEF StrRow
      <4> HIDE DEF y
      <4>2. frows' = Append(frows, y)
        BY <3>2 DEF y
      <4>3. frows' \in Seq(StrRow) /\ Len(frows') = Len(frows) + 1 /\ frows'[Len(frows) + 1] = y
            /\ \A j \in 1 .. Len(frows) : frows'[j] = frows[j]
        BY <2>2, <4>1, <4>2
      <4>4. \A j \in 1 .. Len(frows) : frows[j].own # No => frows[j].own \in loaded
        BY <1>1 DEF InTables
      <4>5. \A j \in 1 .. Len(frows') : j = Len(frows) + 1 \/ j \in 1 .. Len(frows)
        BY <2>2, <4>3
      <4> QED  BY <1>2, <2>2, <4>1, <4>3, <4>4, <4>5
    <3> QED  BY <2>1, <3>1, <3>2 DEF Tables!StrInstall
  <2> QED  BY <1>1, <1>2, <2>1, <2>2, <2>3 DEF InTables, RowsOrder
<1> QED  BY <1>3, <1>4

(* What it leaves of the invariant                                         *)
LEMMA InstallKeeps ==
  ASSUME Tables!LinksAssumption, TInv, NEW m \in Mods, Tables!Install(m)
  PROVE  /\ OfStreams' /\ RowsOrder'
         /\ \A q \in Procs : AtStream(tpr[q], kind, frows', st') /\ AtSlot(tpr[q], kind, slots')
<1>1. /\ TTypes /\ InTables /\ OfStreams /\ AtStreams /\ AtSlots /\ RowsOrder
  BY DEF TInv
<1> DEFINE F == frows'
           Z == slots'
<1>2. /\ kind' = kind /\ rows' = rows /\ st' = st
      /\ \A k \in 1 .. Slots : Z[k].mod = slots[k].mod /\ Z[k].magic = slots[k].magic /\ Z[k].first = slots[k].first
      /\ \A k \in 1 .. Slots : slots[k].mod = No => ~Z[k].on
      /\ Len(frows) <= Len(F) /\ F \in Seq(StrRow)
      /\ \A j \in 1 .. Len(frows) : F[j].own # frows[j].own => frows[j].own = No
  BY Installed
<1>3. frows \in Seq(StrRow) /\ rows \in Seq(ExecRow) /\ Slots \in Nat
  BY <1>1 DEF TTypes, Tables!LinksAssumption
<1> HIDE DEF F, Z
<1>4. \A j \in 1 .. Len(frows) : j \in 1 .. Len(F) /\ (frows[j].own # No => F[j].own = frows[j].own)
  BY <1>2, <1>3
<1>5. No \notin Mods
  BY DEF No, Tables!None, Tables!LinksAssumption
<1>6. \A s \in Streams : /\ st[s].row # 0 => st[s].row \in 1 .. Len(F)
                         /\ st[s].had => F[st[s].row].own = st[s].mod
  BY <1>1, <1>4, <1>5 DEF OfStreams
<1>7. OfStreams'
  BY <1>1, <1>2, <1>6 DEF OfStreams, F
<1>8. RowsOrder'
  <2>1. \A i \in 1 .. Len(rows) : rows[i].slot # 0 => rows[i].slot \in 1 .. Slots
    BY <1>3, RowSlots
  <2>2. \A k \in 1 .. Slots : Z[k].mod # No =>
          /\ Z[k].magic \in Magics /\ (~Z[k].first => ~OfStock(Z[k].magic))
          /\ \E i \in 1 .. Len(rows) : rows[i].slot = k
    BY <1>1, <1>2 DEF RowsOrder
  <2>3. \A k \in 1 .. Slots : Z[k].mod = No => ~Z[k].on
    BY <1>1, <1>2 DEF RowsOrder
  <2>4. \A i \in 1 .. Len(rows) : rows[i].slot # 0 =>
          /\ Z[rows[i].slot].mod # No /\ Z[rows[i].slot].magic = rows[i].magic
          /\ \A j \in 1 .. Len(rows) : j # i /\ rows[j].magic = rows[i].magic => i < j /\ rows[j].slot = 0
    BY <1>1, <1>2, <2>1 DEF RowsOrder
  <2>5. \A mg \in Magics : OfStock(mg) => \E i \in 1 .. Len(rows) : rows[i].magic = mg /\ rows[i].slot = 0
    BY <1>1 DEF RowsOrder
  <2>6. rows' = rows /\ \A mg : OfStock(mg)' = OfStock(mg)
    BY <1>2 DEF OfStock
  <2> QED  BY <2>2, <2>3, <2>4, <2>5, <2>6 DEF RowsOrder, Z
<1>9. \A q \in Procs : AtStream(tpr[q], kind, F, st)
  <2> SUFFICES ASSUME NEW q \in Procs
               PROVE  AtStream(tpr[q], kind, F, st)
    OBVIOUS
  <2>1. AtStream(tpr[q], kind, frows, st)
    BY <1>1 DEF AtStreams
  <2> QED  BY <1>4, <1>5, <2>1 DEF AtStream
<1>10. \A q \in Procs : AtSlot(tpr[q], kind, Z)
  <2> SUFFICES ASSUME NEW q \in Procs
               PROVE  AtSlot(tpr[q], kind, Z)
    OBVIOUS
  <2>1. AtSlot(tpr[q], kind, slots)
    BY <1>1 DEF AtSlots
  <2> QED  BY <1>2, <2>1 DEF AtSlot
<1> QED  BY <1>2, <1>7, <1>8, <1>9, <1>10 DEF F, Z

LEMMA LoadKept ==
  ASSUME Tables!LinksAssumption, TInv, NEW m \in Mods, Tables!Load(m)
  PROVE  TInv'
<1>1. /\ TTypes /\ InTables /\ AtStreams /\ AtSlots /\ Tables!HoldsExact /\ Tables!StockTried
  BY DEF TInv
<1>2. Tables!Install(m) /\ refs' = refs /\ tpr' = tpr
  BY DEF Tables!Load
<1>3. /\ kind' = kind /\ loaded' = loaded \cup {m} /\ rows' = rows /\ st' = st /\ stays' = stays
      /\ slots' \in [1 .. Slots -> Slot] /\ frows' \in Seq(StrRow)
      /\ \A k \in 1 .. Slots : slots'[k].on => slots'[k].mod \in loaded'
      /\ \A j \in 1 .. Len(frows') : frows'[j].own # No => frows'[j].own \in loaded'
  BY <1>2, Installed
<1>4. TTypes'
  BY <1>1, <1>2, <1>3 DEF TTypes
<1>5. InTables'
  BY <1>1, <1>2, <1>3 DEF InTables
<1>6. /\ OfStreams' /\ RowsOrder'
      /\ \A q \in Procs : AtStream(tpr[q], kind, frows', st') /\ AtSlot(tpr[q], kind, slots')
  BY <1>2, InstallKeeps
<1>7. AtStreams' /\ AtSlots'
  BY <1>1, <1>2, <1>3, <1>6 DEF AtStreams, AtSlots
<1>8. Tables!HoldsExact' /\ Tables!StockTried'
  BY <1>1, <1>2, <1>3 DEF Tables!HoldsExact, Tables!StockTried
<1> QED  BY <1>4, <1>5, <1>6, <1>7, <1>8 DEF TInv

LEMMA ModuleGone ==
  ASSUME Tables!LinksAssumption, TInv, NEW m \in Mods, Tables!Unload(m)
  PROVE  TInv'
<1>1. /\ TTypes /\ InTables /\ OfStreams /\ AtStreams /\ AtSlots /\ RowsOrder
      /\ Tables!HoldsExact /\ Tables!StockTried
  BY DEF TInv
<1>2. /\ refs[m] = 0 /\ loaded' = loaded \ {m} /\ slots' = Tables!OnIn(Tables!SlotsOf(m), FALSE)
      /\ frows' = [j \in DOMAIN frows |-> IF frows[j].own = m THEN [frows[j] EXCEPT !.own = No] ELSE frows[j]]
      /\ UNCHANGED <<kind, refs, stays, rows, st, tpr>>
  BY DEF Tables!Unload, Tables!left, No
<1>3. (\A s \in Streams : st[s].mod # m) /\ \A p \in Procs : ~Works(tpr[p], m)
  BY <1>1, <1>2, Unheld
<1> DEFINE F == frows'
           Z == slots'
<1>4. /\ F \in Seq(StrRow) /\ Len(F) = Len(frows)
      /\ \A j \in 1 .. Len(frows) : F[j].own = IF frows[j].own = m THEN No ELSE frows[j].own
  <2>1. frows \in Seq(StrRow) /\ DOMAIN frows = 1 .. Len(frows) /\ Len(frows) \in Nat
    BY <1>1 DEF TTypes
  <2>2. ASSUME NEW j \in 1 .. Len(frows)
        PROVE  F[j] \in StrRow /\ F[j].own = IF frows[j].own = m THEN No ELSE frows[j].own
    <3>1. F[j] = IF frows[j].own = m THEN [frows[j] EXCEPT !.own = No] ELSE frows[j]
      BY <1>2, <2>1
    <3>2. frows[j] \in StrRow
      BY <2>1
    <3>3. CASE frows[j].own = m
      BY <3>1, <3>2, <3>3 DEF StrRow
    <3>4. CASE frows[j].own # m
      BY <3>1, <3>2, <3>4
    <3> QED  BY <3>3, <3>4
  <2>3. F = [j \in 1 .. Len(frows) |-> F[j]]
    BY <1>2, <2>1
  <2> HIDE DEF F
  <2>4. F \in [1 .. Len(frows) -> StrRow]
    BY <2>2, <2>3
  <2> QED  BY <2>1, <2>2, <2>4
<1>5. /\ Z \in [1 .. Slots -> Slot]
      /\ \A k \in 1 .. Slots : /\ Z[k].mod = slots[k].mod /\ Z[k].magic = slots[k].magic /\ Z[k].first = slots[k].first
                               /\ Z[k].on => slots[k].on /\ Z[k].mod # m
  <2>1. ASSUME NEW k \in 1 .. Slots
        PROVE  /\ Z[k] \in Slot /\ Z[k].mod = slots[k].mod /\ Z[k].magic = slots[k].magic /\ Z[k].first = slots[k].first
               /\ Z[k].on => slots[k].on /\ Z[k].mod # m
    <3>1. slots[k] \in Slot
      BY <1>1 DEF TTypes
    <3>2. Z[k] = IF slots[k].mod = m THEN [slots[k] EXCEPT !.on = FALSE] ELSE slots[k]
      BY <1>2 DEF Tables!OnIn, Tables!SlotsOf
    <3>3. CASE slots[k].mod = m
      BY <3>1, <3>2, <3>3 DEF Slot
    <3>4. CASE slots[k].mod # m
      BY <3>1, <3>2, <3>4
    <3> QED  BY <3>3, <3>4
  <2>2. Z = [k \in 1 .. Slots |-> Z[k]]
    BY <1>2 DEF Tables!OnIn
  <2> HIDE DEF Z
  <2> QED  BY <2>1, <2>2
<1> HIDE DEF F, Z
<1>6. TTypes'
  BY <1>1, <1>2, <1>4, <1>5 DEF TTypes, F, Z
<1>7. InTables'
  <2>1. \A k \in 1 .. Slots : Z[k].on => Z[k].mod \in loaded'
    BY <1>1, <1>2, <1>5 DEF InTables
  <2>2. \A j \in 1 .. Len(F) : F[j].own # No => F[j].own \in loaded'
    BY <1>1, <1>2, <1>4 DEF InTables
  <2>3. \A n \in Mods : refs'[n] # 0 => n \in loaded'
    BY <1>1, <1>2 DEF InTables
  <2> QED  BY <2>1, <2>2, <2>3 DEF InTables, F, Z
<1>8. OfStreams'
  BY <1>1, <1>2, <1>3, <1>4 DEF OfStreams, F
<1>9. RowsOrder'
  <2>1. \A i \in 1 .. Len(rows) : rows[i].slot # 0 => rows[i].slot \in 1 .. Slots
    BY <1>1, RowSlots DEF TTypes, Tables!LinksAssumption
  <2>2. \A k \in 1 .. Slots : Z[k].mod # No =>
          /\ Z[k].magic \in Magics /\ (~Z[k].first => ~OfStock(Z[k].magic))
          /\ \E i \in 1 .. Len(rows) : rows[i].slot = k
    BY <1>1, <1>5 DEF RowsOrder
  <2>3. \A k \in 1 .. Slots : Z[k].mod = No => ~Z[k].on
    BY <1>1, <1>5 DEF RowsOrder
  <2>4. \A i \in 1 .. Len(rows) : rows[i].slot # 0 =>
          /\ Z[rows[i].slot].mod # No /\ Z[rows[i].slot].magic = rows[i].magic
          /\ \A j \in 1 .. Len(rows) : j # i /\ rows[j].magic = rows[i].magic => i < j /\ rows[j].slot = 0
    BY <1>1, <1>5, <2>1 DEF RowsOrder
  <2>5. \A mg \in Magics : OfStock(mg) => \E i \in 1 .. Len(rows) : rows[i].magic = mg /\ rows[i].slot = 0
    BY <1>1 DEF RowsOrder
  <2>6. rows' = rows /\ \A mg : OfStock(mg)' = OfStock(mg)
    BY <1>2 DEF OfStock
  <2> QED  BY <2>2, <2>3, <2>4, <2>5, <2>6 DEF RowsOrder, Z
<1>10. AtStreams'
  <2>1. ASSUME NEW q \in Procs
        PROVE  AtStream(tpr[q], kind, F, st)
    <3>1. AtStream(tpr[q], kind, frows, st)
      BY <1>1 DEF AtStreams
    <3>2. tpr[q].pc = "open" => tpr[q].mod # m
      BY <1>3 DEF Works
    <3> QED  BY <1>4, <3>1, <3>2 DEF AtStream
  <2> QED  BY <1>1, <1>2, <2>1 DEF AtStreams, F
<1>11. AtSlots'
  <2>1. ASSUME NEW q \in Procs
        PROVE  AtSlot(tpr[q], kind, Z)
    <3>1. AtSlot(tpr[q], kind, slots)
      BY <1>1 DEF AtSlots
    <3> QED  BY <1>5, <3>1 DEF AtSlot
  <2> QED  BY <1>2, <2>1 DEF AtSlots, Z
<1>12. Tables!HoldsExact' /\ Tables!StockTried'
  BY <1>1, <1>2 DEF Tables!HoldsExact, Tables!StockTried
<1> QED  BY <1>6, <1>7, <1>8, <1>9, <1>10, <1>11, <1>12 DEF TInv
-----------------------------------------------------------------------------
LEMMA Inserted ==
  ASSUME NEW rs \in Seq(ExecRow), NEW e \in ExecRow, NEW i \in 1 .. Len(rs) + 1
  PROVE  /\ Put(rs, e, i) \in Seq(ExecRow) /\ Len(Put(rs, e, i)) = Len(rs) + 1 /\ Put(rs, e, i)[i] = e
         /\ \A j \in 1 .. Len(rs) : (j < i => Put(rs, e, i)[j] = rs[j]) /\ (~(j < i) => Put(rs, e, i)[j + 1] = rs[j])
<1>1. Len(rs) \in Nat /\ i \in Nat
  OBVIOUS
<1> DEFINE f == SubSeq(rs, 1, i - 1)
           g == SubSeq(rs, i, Len(rs))
           h == f \o <<e>>
           n == Put(rs, e, i)
<1>2. f \in Seq(ExecRow) /\ Len(f) = i - 1 /\ \A j \in 1 .. i - 1 : f[j] = rs[j]
  <2>1. \A x \in 1 .. i - 1 : rs[x] \in ExecRow
    BY <1>1
  <2> QED  BY <1>1, <2>1, SubSeqProperties
<1>3. g \in Seq(ExecRow) /\ Len(g) = Len(rs) - i + 1 /\ \A j \in 1 .. Len(rs) - i + 1 : g[j] = rs[i + j - 1]
  <2>1. \A x \in i .. Len(rs) : rs[x] \in ExecRow
    BY <1>1
  <2> QED  BY <1>1, <2>1, SubSeqProperties
<1> HIDE DEF f, g
<1>4. <<e>> \in Seq(ExecRow) /\ Len(<<e>>) = 1 /\ <<e>>[1] = e
  OBVIOUS
<1>5. /\ h \in Seq(ExecRow) /\ Len(h) = i /\ h[i] = e
      /\ \A j \in 1 .. i - 1 : h[j] = rs[j]
  <2> DEFINE o == <<e>>
  <2> HIDE DEF o
  <2>1. o \in Seq(ExecRow) /\ Len(o) = 1 /\ o[1] = e /\ h = f \o o
    BY <1>4 DEF o
  <2>2. /\ f \o o \in Seq(ExecRow) /\ Len(f \o o) = Len(f) + Len(o)
        /\ \A j \in 1 .. Len(f) + Len(o) : (f \o o)[j] = IF j <= Len(f) THEN f[j] ELSE o[j - Len(f)]
    BY <1>2, <2>1, ConcatProperties
  <2> HIDE DEF h
  <2>3. h \in Seq(ExecRow) /\ Len(h) = i /\ \A j \in 1 .. i : h[j] = IF j <= i - 1 THEN f[j] ELSE o[j - (i - 1)]
    BY <1>1, <1>2, <2>1, <2>2
  <2>4. i \in 1 .. i /\ ~(i <= i - 1) /\ i - (i - 1) = 1
    BY <1>1
  <2>5. h[i] = e
    BY <2>1, <2>3, <2>4
  <2>6. \A j \in 1 .. i - 1 : j \in 1 .. i /\ j <= i - 1
    BY <1>1
  <2> QED  BY <1>2, <2>3, <2>5, <2>6
<1> HIDE DEF h
<1>6. n = h \o g
  BY DEF h, f, g, Put
<1> HIDE DEF n
<1>7. /\ n \in Seq(ExecRow) /\ Len(n) = Len(rs) + 1
      /\ \A j \in 1 .. i : n[j] = h[j]
      /\ \A j \in 1 .. Len(rs) - i + 1 : n[i + j] = g[j]
  <2>1. /\ h \o g \in Seq(ExecRow) /\ Len(h \o g) = Len(h) + Len(g)
        /\ \A j \in 1 .. Len(h) + Len(g) : (h \o g)[j] = IF j <= Len(h) THEN h[j] ELSE g[j - Len(h)]
    BY <1>3, <1>5, ConcatProperties
  <2>2. /\ n \in Seq(ExecRow) /\ Len(n) = Len(rs) + 1
        /\ \A j \in 1 .. Len(rs) + 1 : n[j] = IF j <= i THEN h[j] ELSE g[j - i]
    <3>1. Len(h) = i /\ Len(h) + Len(g) = Len(rs) + 1
      BY <1>1, <1>3, <1>5
    <3> QED  BY <1>6, <2>1, <3>1
  <2>3. \A j \in 1 .. i : j \in 1 .. Len(rs) + 1 /\ j <= i
    BY <1>1
  <2>4. \A j \in 1 .. Len(rs) - i + 1 : i + j \in 1 .. Len(rs) + 1 /\ ~(i + j <= i) /\ (i + j) - i = j
    BY <1>1
  <2> QED  BY <2>2, <2>3, <2>4
<1>8. ASSUME NEW j \in 1 .. Len(rs)
      PROVE  (j < i => n[j] = rs[j]) /\ (~(j < i) => n[j + 1] = rs[j])
  <2>1. CASE j < i
    <3>1. j \in 1 .. i - 1 /\ j \in 1 .. i
      BY <1>1, <2>1
    <3> QED  BY <1>5, <1>7, <2>1, <3>1
  <2>2. CASE ~(j < i)
    <3>1. (j - i) + 1 \in 1 .. Len(rs) - i + 1 /\ i + ((j - i) + 1) = j + 1 /\ i + ((j - i) + 1) - 1 = j
      BY <1>1, <2>2
    <3>2. n[j + 1] = g[(j - i) + 1] /\ g[(j - i) + 1] = rs[j]
      BY <1>3, <1>7, <3>1
    <3> QED  BY <2>2, <3>2
  <2> QED  BY <2>1, <2>2
<1>9. n[i] = e
  <2>1. i \in 1 .. i
    BY <1>1
  <2> QED  BY <1>5, <1>7, <2>1
<1> QED  BY <1>7, <1>8, <1>9 DEF n

LEMMA LeastIs ==
  ASSUME NEW S \in SUBSET Nat, S # {}
  PROVE  Tables!Least(S) \in S /\ \A j \in S : Tables!Least(S) <= j
<1>1. \E i \in S : \A j \in S : i <= j
  BY HasMin
<1> QED  BY <1>1 DEF Tables!Least
(* dlm_xreg gives a free slot and puts its row before its magic's others   *)
LEMMA XregKept ==
  ASSUME Tables!LinksAssumption, TInv, NEW m \in Mods, NEW mg \in Magics, NEW first \in BOOLEAN,
         Tables!Xreg(m, mg, first)
  PROVE  TInv'
<1>1. /\ TTypes /\ InTables /\ OfStreams /\ AtStreams /\ AtSlots /\ RowsOrder
      /\ Tables!HoldsExact /\ Tables!StockTried
  BY DEF TInv
<1>2. No \notin Mods /\ No \notin Magics /\ Slots \in Nat
  BY DEF No, Tables!None, Tables!LinksAssumption
<1>3. /\ \A k \in 1 .. Slots : slots[k].magic # mg
      /\ Tables!RowsOf(mg) # {} => first
      /\ UNCHANGED <<kind, loaded, refs, stays, frows, st, tpr>>
  BY DEF Tables!Xreg, Tables!core, Tables!left, Tables!strs
<1> DEFINE new == [mod |-> m, magic |-> mg, first |-> first, on |-> FALSE]
           S == Tables!RowsOf(mg) \cup {Len(rows) + 1}
           i == Tables!Least(S)
<1>4. PICK k \in 1 .. Slots :
        /\ slots[k].mod = No /\ slots' = [slots EXCEPT ![k] = new]
        /\ rows' = SubSeq(rows, 1, i - 1) \o <<[magic |-> mg, slot |-> k]>> \o SubSeq(rows, i, Len(rows))
  BY DEF Tables!Xreg, No
<1>5. rows \in Seq(ExecRow) /\ Len(rows) \in Nat /\ DOMAIN rows = 1 .. Len(rows)
  BY <1>1 DEF TTypes
<1> DEFINE n == rows'
           Z == slots'
<1>6. /\ i \in 1 .. Len(rows) + 1
      /\ \A j \in 1 .. Len(rows) : rows[j].magic = mg => ~(j < i)
  <2>1. Tables!RowsOf(mg) = {j \in 1 .. Len(rows) : rows[j].magic = mg}
    BY <1>5 DEF Tables!RowsOf
  <2>2. S \subseteq 1 .. Len(rows) + 1 /\ S \subseteq Nat /\ S # {}
    BY <1>5, <2>1
  <2>3. i \in S /\ \A j \in S : i <= j
    BY <2>2, LeastIs
  <2>4. i \in 1 .. Len(rows) + 1
    BY <2>2, <2>3
  <2>5. \A j \in 1 .. Len(rows) : rows[j].magic = mg => i <= j
    BY <2>1, <2>3
  <2> HIDE DEF i, S
  <2> QED  BY <1>5, <2>4, <2>5
<1>7. /\ Z \in [1 .. Slots -> Slot] /\ Z[k] = new
      /\ \A l \in 1 .. Slots : l # k => Z[l] = slots[l]
  <2>1. new \in Slot
    BY DEF Slot
  <2> HIDE DEF new
  <2> QED  BY <1>1, <1>4, <2>1 DEF TTypes
<1>8. new.mod = m /\ new.magic = mg /\ new.first = first /\ new.on = FALSE
  OBVIOUS
<1> HIDE DEF i, new
<1> DEFINE e == [magic |-> mg, slot |-> k]
           up(j) == IF j < i THEN j ELSE j + 1
<1>9. e \in ExecRow /\ e.magic = mg /\ e.slot = k
  BY <1>2 DEF ExecRow
<1>10. /\ n \in Seq(ExecRow) /\ Len(n) = Len(rows) + 1 /\ n[i] = e
       /\ \A j \in 1 .. Len(rows) : n[up(j)] = rows[j]
       /\ \A a \in 1 .. Len(n) : a = i \/ \E j \in 1 .. Len(rows) : a = up(j)
  <2>1. n = SubSeq(rows, 1, i - 1) \o <<e>> \o SubSeq(rows, i, Len(rows))
    BY <1>4
  <2> HIDE DEF n, e
  <2>2. /\ n \in Seq(ExecRow) /\ Len(n) = Len(rows) + 1 /\ n[i] = e
        /\ \A j \in 1 .. Len(rows) : (j < i => n[j] = rows[j]) /\ (~(j < i) => n[j + 1] = rows[j])
        /\ \A a \in 1 .. Len(n) : (a < i => a \in 1 .. Len(rows)) /\ (i < a => a - 1 \in 1 .. Len(rows))
    <3> HIDE DEF S, Z, up
    <3>1. rows \in Seq(ExecRow) /\ e \in ExecRow /\ i \in 1 .. Len(rows) + 1
      BY <1>5, <1>6, <1>9
    <3>2. n = Put(rows, e, i)
      BY <2>1 DEF Put
    <3>3. n \in Seq(ExecRow) /\ Len(n) = Len(rows) + 1
      BY <3>1, <3>2, Inserted
    <3>4. n[i] = e
      BY <3>1, <3>2, Inserted
    <3>5. \A j \in 1 .. Len(rows) : (j < i => n[j] = rows[j]) /\ (~(j < i) => n[j + 1] = rows[j])
      BY <3>1, <3>2, Inserted
    <3>6. \A a \in 1 .. Len(n) : (a < i => a \in 1 .. Len(rows)) /\ (i < a => a - 1 \in 1 .. Len(rows))
      BY <1>5, <3>1, <3>3
    <3> QED  BY <3>3, <3>4, <3>5, <3>6
  <2>3. \A j \in 1 .. Len(rows) : n[up(j)] = rows[j]
    BY <2>2
  <2>4. ASSUME NEW a \in 1 .. Len(n), a # i
        PROVE  \E j \in 1 .. Len(rows) : a = up(j)
    <3>1. CASE a < i
      BY <2>2, <3>1
    <3>2. CASE i < a
      <4>1. a - 1 \in 1 .. Len(rows) /\ ~(a - 1 < i) /\ a = (a - 1) + 1
        BY <1>5, <1>6, <2>2, <3>2
      <4> QED  BY <4>1
    <3>3. a < i \/ i < a
      BY <1>5, <1>6, <2>2, <2>4
    <3> QED  BY <3>1, <3>2, <3>3
  <2> QED  BY <2>2, <2>3, <2>4
<1>11. /\ \A j \in 1 .. Len(rows) : up(j) \in 1 .. Len(n) /\ up(j) # i /\ (~(j < i) => i < up(j))
       /\ \A a, b \in 1 .. Len(rows) : (up(a) = up(b) => a = b) /\ (a < b => up(a) < up(b))
  BY <1>5, <1>6, <1>10
<1> HIDE DEF n, Z, e, up
<1>12. ASSUME NEW j \in 1 .. Len(rows), rows[j].slot # 0
       PROVE  /\ rows[j].slot \in 1 .. Slots /\ rows[j].slot # k /\ rows[j].magic # mg
              /\ slots[rows[j].slot].mod # No /\ slots[rows[j].slot].magic = rows[j].magic
  <2>1. rows[j].slot \in 1 .. Slots
    BY <1>2, <1>5, <1>12, RowSlots
  <2>2. slots[rows[j].slot].mod # No /\ slots[rows[j].slot].magic = rows[j].magic
    BY <1>1, <1>12 DEF RowsOrder
  <2> QED  BY <1>3, <1>4, <2>1, <2>2
<1>13. RowsOrder'
  <2>1. ASSUME NEW l \in 1 .. Slots, Z[l].mod # No
        PROVE  /\ Z[l].magic \in Magics /\ (~Z[l].first => ~OfStock(Z[l].magic))
               /\ \E a \in 1 .. Len(n) : n[a].slot = l
    <3>1. CASE l = k
      <4>1. OfStock(mg) => first
        <5>1. OfStock(mg) => \E j \in 1 .. Len(rows) : rows[j].magic = mg
          BY <1>1 DEF RowsOrder
        <5>2. (\E j \in 1 .. Len(rows) : rows[j].magic = mg) => Tables!RowsOf(mg) # {}
          BY <1>5 DEF Tables!RowsOf
        <5> QED  BY <1>3, <5>1, <5>2
      <4>2. i \in 1 .. Len(n) /\ n[i].slot = k
        BY <1>5, <1>6, <1>9, <1>10
      <4> QED  BY <1>7, <1>8, <3>1, <4>1, <4>2
    <3>2. CASE l # k
      <4>1. slots[l].mod # No /\ Z[l] = slots[l]
        BY <1>7, <2>1, <3>2
      <4>2. /\ slots[l].magic \in Magics /\ (~slots[l].first => ~OfStock(slots[l].magic))
            /\ \E j \in 1 .. Len(rows) : rows[j].slot = l
        BY <1>1, <4>1 DEF RowsOrder
      <4> QED  BY <1>10, <1>11, <4>1, <4>2
    <3> QED  BY <3>1, <3>2
  <2>2. \A l \in 1 .. Slots : Z[l].mod = No => ~Z[l].on
    BY <1>1, <1>7, <1>8 DEF RowsOrder
  <2>3. ASSUME NEW a \in 1 .. Len(n), n[a].slot # 0
        PROVE  /\ Z[n[a].slot].mod # No /\ Z[n[a].slot].magic = n[a].magic
               /\ \A b \in 1 .. Len(n) : b # a /\ n[b].magic = n[a].magic => a < b /\ n[b].slot = 0
    <3>1. CASE a = i
      <4>1. n[a].slot = k /\ n[a].magic = mg
        BY <1>9, <1>10, <3>1
      <4>2. Z[n[a].slot].mod # No /\ Z[n[a].slot].magic = n[a].magic
        BY <1>2, <1>7, <1>8, <4>1
      <4>3. ASSUME NEW b \in 1 .. Len(n), b # a, n[b].magic = n[a].magic
            PROVE  a < b /\ n[b].slot = 0
        <5>1. PICK j \in 1 .. Len(rows) : b = up(j) /\ n[b] = rows[j]
          BY <1>10, <3>1, <4>3
        <5>2. rows[j].magic = mg
          BY <4>1, <4>3, <5>1
        <5>3. i < up(j)
          BY <1>6, <1>11, <5>2
        <5>4. rows[j].slot = 0
          BY <1>12, <5>2
        <5> QED  BY <3>1, <5>1, <5>3, <5>4
      <4> QED  BY <4>2, <4>3
    <3>2. CASE a # i
      <4>1. PICK j \in 1 .. Len(rows) : a = up(j) /\ n[a] = rows[j]
        BY <1>10, <3>2
      <4>2. /\ rows[j].slot \in 1 .. Slots /\ rows[j].slot # k /\ rows[j].magic # mg
            /\ slots[rows[j].slot].mod # No /\ slots[rows[j].slot].magic = rows[j].magic
        BY <1>12, <2>3, <4>1
      <4>3. Z[n[a].slot].mod # No /\ Z[n[a].slot].magic = n[a].magic
        BY <1>7, <4>1, <4>2
      <4>4. ASSUME NEW b \in 1 .. Len(n), b # a, n[b].magic = n[a].magic
            PROVE  a < b /\ n[b].slot = 0
        <5>1. b # i
          BY <1>9, <1>10, <4>1, <4>2, <4>4
        <5>2. PICK c \in 1 .. Len(rows) : b = up(c) /\ n[b] = rows[c]
          BY <1>10, <5>1
        <5>3. c # j /\ rows[c].magic = rows[j].magic
          BY <4>1, <4>4, <5>2
        <5>4. j < c /\ rows[c].slot = 0
          BY <1>1, <2>3, <4>1, <5>3 DEF RowsOrder
        <5> QED  BY <1>11, <4>1, <5>2, <5>4
      <4> QED  BY <4>3, <4>4
    <3> QED  BY <3>1, <3>2
  <2>4. ASSUME NEW g \in Magics, OfStock(g)
        PROVE  \E a \in 1 .. Len(n) : n[a].magic = g /\ n[a].slot = 0
    <3>1. PICK j \in 1 .. Len(rows) : rows[j].magic = g /\ rows[j].slot = 0
      BY <1>1, <2>4 DEF RowsOrder
    <3> QED  BY <1>10, <1>11, <3>1
  <2>5. \A g : OfStock(g)' = OfStock(g)
    BY DEF OfStock
  <2> QED  BY <2>1, <2>2, <2>3, <2>4, <2>5 DEF RowsOrder, n, Z
<1>14. TTypes'
  BY <1>1, <1>3, <1>7, <1>10 DEF TTypes, n, Z
<1>15. InTables'
  <2>1. \A l \in 1 .. Slots : Z[l].on => Z[l].mod \in loaded
    BY <1>1, <1>7, <1>8 DEF InTables
  <2>2. /\ \A j \in 1 .. Len(frows) : frows[j].own # No => frows[j].own \in loaded
        /\ \A o \in Mods : refs[o] # 0 => o \in loaded
    BY <1>1 DEF InTables
  <2> QED  BY <1>3, <2>1, <2>2 DEF InTables, Z
<1>16. OfStreams' /\ AtStreams'
  BY <1>1, <1>3 DEF OfStreams, AtStreams
<1>17. AtSlots'
  <2>1. ASSUME NEW q \in Procs
        PROVE  AtSlot(tpr[q], kind, Z)
    <3>1. AtSlot(tpr[q], kind, slots)
      BY <1>1 DEF AtSlots
    <3>2. \A l \in 1 .. Slots : slots[l].mod \in Mods => Z[l] = slots[l]
      BY <1>2, <1>4, <1>7
    <3> QED  BY <3>1, <3>2 DEF AtSlot
  <2> QED  BY <1>3, <2>1 DEF AtSlots, Z
<1>18. Tables!HoldsExact' /\ Tables!StockTried'
  BY <1>1, <1>3 DEF Tables!HoldsExact, Tables!StockTried
<1> QED  BY <1>13, <1>14, <1>15, <1>16, <1>17, <1>18 DEF TInv
(* It goes home from where it held nothing                                 *)
LEMMA HomeIs ==
  ASSUME Slots \in Nat
  PROVE  /\ Tables!User \in Doing /\ Tables!User.pc = "user" /\ Tables!User.s = No
         /\ \A kd, fr, x, sl : AtStream(Tables!User, kd, fr, x) /\ AtSlot(Tables!User, kd, sl)
         /\ \A m : ~Works(Tables!User, m)
<1>1. Tables!User.pc = "user" /\ Tables!User.s = No
  BY DEF Tables!User, No
<1>2. Tables!User \in Doing
  BY DEF Tables!User, No, Doing
<1>3. \A kd, fr, x, sl : AtStream(Tables!User, kd, fr, x) /\ AtSlot(Tables!User, kd, sl)
  BY <1>1 DEF AtStream, AtSlot
<1>4. \A m : ~Works(Tables!User, m)
  BY <1>1 DEF Works
<1> QED  BY <1>1, <1>2, <1>3, <1>4

LEMMA HomeKept ==
  ASSUME Tables!LinksAssumption, TInv, UNCHANGED <<kind, loaded, refs, stays, rows, slots, frows, st>>,
         NEW p \in Procs, tpr' = [tpr EXCEPT ![p] = Tables!User], tpr[p].pc \notin {"run", "open"}
  PROVE  TInv'
<1> DEFINE r == Tables!User
<1>1. r \in Doing /\ r.pc = "user" /\ r.s = No /\ AtStream(r, kind, frows, st) /\ AtSlot(r, kind, slots)
  BY HomeIs DEF Tables!LinksAssumption
<1> HIDE DEF r
<1>2. tpr' = [tpr EXCEPT ![p] = r]
  BY DEF r
<1>3. r.pc \notin {"run", "open"} /\ (r.pc = "noexec" /\ OfStock(r.magic) => r.stock)
  BY <1>1
<1> QED  BY <1>1, <1>2, <1>3, OnlyWalks

(* What a move of a process does to the holds, if refs follows it          *)
LEMMA WalkCounts ==
  ASSUME Tables!LinksAssumption, TTypes, Tables!HoldsExact, st' = st, stays' = stays,
         NEW p \in Procs, NEW r, tpr' = [tpr EXCEPT ![p] = r], refs' = [m \in Mods |-> refs'[m]],
         \A m \in Mods : refs'[m] = (refs[m] + (IF Works(r, m) THEN 1 ELSE 0)) - (IF Works(tpr[p], m) THEN 1 ELSE 0)
  PROVE  refs' \in [Mods -> Nat] /\ Tables!HoldsExact'
<1>1. ASSUME NEW m \in Mods
      PROVE  refs'[m] \in Nat /\ refs'[m] = Cardinality(Pushed(m)') + Cardinality(In(m)') + stays'[m]
  <2>1. Cardinality(In(m)') = (Cardinality(In(m)) + (IF Works(r, m) THEN 1 ELSE 0)) - (IF Works(tpr[p], m) THEN 1 ELSE 0)
    BY Walked
  <2>2. Pushed(m)' = Pushed(m)
    BY DEF Pushed
  <2>3. refs[m] = Cardinality(Pushed(m)) + Cardinality(In(m)) + stays[m]
    BY HoldsAre
  <2>4. Cardinality(Pushed(m)) \in Nat /\ Cardinality(In(m)) \in Nat
    BY InCounted
  <2>5. refs'[m] = (refs[m] + (IF Works(r, m) THEN 1 ELSE 0)) - (IF Works(tpr[p], m) THEN 1 ELSE 0)
    OBVIOUS
  <2>6. p \in In(m) <=> Works(tpr[p], m)
    BY DEF In
  <2>7. Works(tpr[p], m) => Cardinality(In(m)) # 0
    BY <2>6, InCounted, FS_EmptySet
  <2>8. stays'[m] = stays[m] /\ stays[m] \in Nat
    BY DEF TTypes
  <2> QED  BY <2>1, <2>2, <2>3, <2>4, <2>5, <2>7, <2>8
<1>2. refs' \in [Mods -> Nat]
  BY <1>1
<1> QED  BY <1>1, <1>2, HoldsAre

(* exec(2) finds a row                                                     *)
LEMMA ExecKept ==
  ASSUME Tables!LinksAssumption, TInv, NEW p \in Procs, NEW mg \in Magics, Tables!Exec(p, mg)
  PROVE  TInv'
<1>1. TTypes /\ RowsOrder /\ Slots \in Nat
  BY DEF TInv, Tables!LinksAssumption
<1> DEFINE i == Tables!Least(Tables!RowsOf(mg))
           k == rows[i].slot
           r == [Tables!User EXCEPT !.pc = IF k = 0 THEN "noexec" ELSE "found", !.slot = k, !.magic = mg, !.stock = k = 0]
<1>2. /\ kind = "exec" /\ tpr[p].pc = "user" /\ Tables!RowsOf(mg) # {} /\ tpr' = [tpr EXCEPT ![p] = r]
      /\ UNCHANGED <<kind, loaded, refs, stays, rows, slots, frows, st>>
  BY DEF Tables!Exec, Tables!To, Tables!core, Tables!left, Tables!execs, Tables!strs
<1>3. rows \in Seq(ExecRow) /\ DOMAIN rows = 1 .. Len(rows)
  BY <1>1 DEF TTypes
<1>4. i \in 1 .. Len(rows) /\ rows[i].magic = mg
  <2>1. Tables!RowsOf(mg) \subseteq 1 .. Len(rows) /\ Tables!RowsOf(mg) \in SUBSET Nat
    BY <1>3 DEF Tables!RowsOf
  <2>2. i \in Tables!RowsOf(mg)
    BY <1>2, <2>1, LeastIs
  <2> QED  BY <1>3, <2>2 DEF Tables!RowsOf
<1> HIDE DEF i
<1>5. k \in 0 .. Slots /\ (k # 0 => k \in 1 .. Slots /\ slots[k].mod \in Mods /\ slots[k].magic = mg)
  <2>1. k \in 0 .. Slots /\ (k # 0 => k \in 1 .. Slots)
    BY <1>1, <1>3, <1>4, RowSlots
  <2>2. k # 0 => slots[k].mod # No /\ slots[k].magic = mg
    BY <1>1, <1>4 DEF RowsOrder
  <2>3. k # 0 => slots[k] \in Slot
    BY <1>1, <2>1 DEF TTypes
  <2> QED  BY <2>1, <2>2, <2>3 DEF Slot
<1> HIDE DEF k
<1>6. /\ r.pc = (IF k = 0 THEN "noexec" ELSE "found") /\ r.slot = k /\ r.magic = mg /\ r.stock = (k = 0)
      /\ r.s = No /\ r.mod = No /\ r.row = 0 /\ r \in Doing
  BY <1>5 DEF Tables!User, No, Doing
<1> HIDE DEF r
<1>7. AtStream(r, kind, frows, st) /\ AtSlot(r, kind, slots)
  BY <1>2, <1>5, <1>6 DEF AtStream, AtSlot
<1>8. (r.pc = "noexec" /\ OfStock(r.magic) => r.stock) /\ r.pc \notin {"run", "open"} /\ tpr[p].pc \notin {"run", "open"}
  BY <1>2, <1>6
<1> QED  BY <1>2, <1>6, <1>7, <1>8, OnlyWalks

(* It goes on after a slot's row                                           *)
LEMMA XnextKept ==
  ASSUME Tables!LinksAssumption, TInv, NEW p \in Procs, Tables!Xnext(p)
  PROVE  TInv'
<1>1. TTypes /\ RowsOrder /\ AtStreams /\ AtSlots
  BY DEF TInv
<1> DEFINE k == tpr[p].slot
           mg == tpr[p].magic
           S == Tables!NextRows(k)
           i == Tables!Least(S)
           r == [tpr[p] EXCEPT !.pc = "noexec", !.stock = S # {} /\ rows[i].slot = 0]
<1>2. /\ tpr[p].pc = "xnext" /\ (tpr' = [tpr EXCEPT ![p] = Tables!User] \/ tpr' = [tpr EXCEPT ![p] = r])
      /\ UNCHANGED <<kind, loaded, refs, stays, rows, slots, frows, st>>
  BY DEF Tables!Xnext, Tables!To, Tables!core, Tables!left, Tables!execs, Tables!strs
<1>3. rows \in Seq(ExecRow) /\ DOMAIN rows = 1 .. Len(rows) /\ tpr[p] \in Doing /\ Len(rows) \in Nat
  BY <1>1 DEF TTypes
<1>4. k \in 1 .. Slots /\ slots[k].mod # No /\ slots[k].magic = mg /\ tpr[p].s = No /\ mg \in Magics
  <2>1. AtSlot(tpr[p], kind, slots) /\ AtStream(tpr[p], kind, frows, st)
    BY <1>1 DEF AtSlots, AtStreams
  <2>2. k \in 1 .. Slots /\ slots[k].mod \in Mods /\ slots[k].magic = mg
    BY <1>2, <2>1 DEF AtSlot
  <2>3. tpr[p].s = No
    BY <1>2, <2>1 DEF AtStream
  <2>4. slots[k].mod # No
    BY <2>2 DEF Tables!LinksAssumption, Tables!None, No
  <2> QED  BY <1>1, <2>2, <2>3, <2>4 DEF RowsOrder
<1>5. OfStock(mg) => S # {} /\ rows[i].slot = 0
  <2> SUFFICES ASSUME OfStock(mg)
               PROVE  S # {} /\ rows[i].slot = 0
    OBVIOUS
  <2> DEFINE a == Tables!RowOf(k)
  <2>1. a \in 1 .. Len(rows) /\ rows[a].slot = k
    <3>1. \E b \in DOMAIN rows : rows[b].slot = k
      BY <1>1, <1>3, <1>4 DEF RowsOrder
    <3> QED  BY <1>3, <3>1 DEF Tables!RowOf
  <2> HIDE DEF a
  <2>2. /\ rows[a].magic = mg /\ rows[a].slot # 0
        /\ \A b \in 1 .. Len(rows) : b # a /\ rows[b].magic = mg => a < b /\ rows[b].slot = 0
    <3>1. rows[a].slot # 0
      BY <1>4, <2>1
    <3> QED  BY <1>1, <1>4, <2>1, <3>1 DEF RowsOrder
  <2>3. S = {b \in 1 .. Len(rows) : rows[b].magic = mg /\ b > a}
    BY <1>3, <1>4 DEF Tables!NextRows, Tables!RowsOf, a
  <2>4. PICK c \in 1 .. Len(rows) : rows[c].magic = mg /\ rows[c].slot = 0
    BY <1>1, <1>4 DEF RowsOrder
  <2>5. c \in S
    BY <2>2, <2>3, <2>4
  <2>6. S \in SUBSET Nat
    BY <2>3
  <2> HIDE DEF S
  <2>7. i \in S
    BY <2>5, <2>6, LeastIs
  <2> HIDE DEF i
  <2> QED  BY <2>1, <2>2, <2>3, <2>5, <2>7
<1> HIDE DEF S, i
<1>6. CASE tpr' = [tpr EXCEPT ![p] = r]
  <2>1. /\ r.pc = "noexec" /\ r.magic = mg /\ r.stock = (S # {} /\ rows[i].slot = 0)
        /\ r.s = No /\ r \in Doing
    BY <1>3, <1>4 DEF Doing
  <2> HIDE DEF r
  <2>2. AtStream(r, kind, frows, st) /\ AtSlot(r, kind, slots)
    BY <2>1 DEF AtStream, AtSlot
  <2>3. (r.pc = "noexec" /\ OfStock(r.magic) => r.stock) /\ r.pc \notin {"run", "open"} /\ tpr[p].pc \notin {"run", "open"}
    BY <1>2, <1>5, <2>1
  <2> QED  BY <1>2, <1>6, <2>1, <2>2, <2>3, OnlyWalks
<1>7. CASE tpr' = [tpr EXCEPT ![p] = Tables!User]
  BY <1>2, <1>7, HomeKept
<1> QED  BY <1>2, <1>6, <1>7
LEMMA EnoexecKept ==
  ASSUME Tables!LinksAssumption, TInv, NEW p \in Procs, Tables!Enoexec(p)
  PROVE  TInv'
<1>1. /\ tpr[p].pc = "noexec" /\ tpr' = [tpr EXCEPT ![p] = Tables!User]
      /\ UNCHANGED <<kind, loaded, refs, stays, rows, slots, frows, st>>
  BY DEF Tables!Enoexec, Tables!To, Tables!core, Tables!left, Tables!execs, Tables!strs
<1> QED  BY <1>1, HomeKept

(* The module declines: on to the next row, if the slot had the first      *)
LEMMA DeclinesIs ==
  ASSUME Tables!LinksAssumption, TInv, kind = "exec", NEW p \in Procs, tpr[p].pc \in {"found", "run"}
  PROVE  LET r == Tables!Declines(p)
         IN  /\ r \in Doing /\ r.pc \in {"xnext", "noexec"} /\ r.s = No
             /\ AtStream(r, kind, frows, st) /\ AtSlot(r, kind, slots)
             /\ (r.pc = "noexec" /\ OfStock(r.magic) => r.stock) /\ \A m : ~Works(r, m)
<1> DEFINE r == Tables!Declines(p)
<1>1. TTypes /\ AtStreams /\ AtSlots /\ RowsOrder /\ tpr[p] \in Doing
  BY DEF TInv, TTypes
<1>2. AtSlot(tpr[p], kind, slots) /\ AtStream(tpr[p], kind, frows, st)
  BY <1>1 DEF AtSlots, AtStreams
<1>3. tpr[p].slot \in 1 .. Slots /\ slots[tpr[p].slot].mod \in Mods /\ slots[tpr[p].slot].magic = tpr[p].magic
  BY <1>2 DEF AtSlot
<1>4. tpr[p].s = No
  BY <1>2 DEF AtStream
<1>5. slots[tpr[p].slot].mod # No
  BY <1>3 DEF Tables!LinksAssumption, Tables!None, No
<1>6. ~slots[tpr[p].slot].first => ~OfStock(tpr[p].magic)
  BY <1>1, <1>3, <1>5 DEF RowsOrder
<1>7. /\ r.pc = (IF slots[tpr[p].slot].first THEN "xnext" ELSE "noexec") /\ r.slot = tpr[p].slot
      /\ r.magic = tpr[p].magic /\ r.s = No /\ r.mod = No /\ r \in Doing
  BY <1>1, <1>4 DEF Tables!Declines, Doing, No
<1> HIDE DEF r
<1>8. AtStream(r, kind, frows, st)
  BY <1>7 DEF AtStream
<1>9. AtSlot(r, kind, slots)
  BY <1>3, <1>7 DEF AtSlot
<1>10. \A m : ~Works(r, m)
  BY <1>7 DEF Works
<1> QED  BY <1>6, <1>7, <1>8, <1>9, <1>10 DEF r

LEMMA XcallReturnsKept ==
  ASSUME Tables!LinksAssumption, TInv, NEW p \in Procs, Tables!XcallReturns(p)
  PROVE  TInv'
<1>1. /\ TTypes /\ InTables /\ OfStreams /\ AtStreams /\ AtSlots /\ RowsOrder
      /\ Tables!HoldsExact /\ Tables!StockTried
  BY DEF TInv
<1> DEFINE m == tpr[p].mod
<1>2. /\ kind = "exec" /\ tpr[p].pc = "run" /\ refs' = [refs EXCEPT ![m] = @ - 1]
      /\ tpr' = [tpr EXCEPT ![p] = Tables!User] \/ tpr' = [tpr EXCEPT ![p] = Tables!Declines(p)]
      /\ UNCHANGED <<kind, loaded, stays, rows, slots, frows, st>>
  BY DEF Tables!XcallReturns, Tables!Rele, Tables!To, Tables!core, Tables!left, Tables!execs, Tables!strs
<1>3. m \in Mods
  BY <1>1, <1>2 DEF AtSlots, AtSlot
<1>4. PICK r : /\ tpr' = [tpr EXCEPT ![p] = r] /\ r \in Doing /\ r.s = No
               /\ AtStream(r, kind, frows, st) /\ AtSlot(r, kind, slots)
               /\ (r.pc = "noexec" /\ OfStock(r.magic) => r.stock) /\ \A n : ~Works(r, n)
  <2>1. CASE tpr' = [tpr EXCEPT ![p] = Tables!User]
    BY <2>1, HomeIs DEF Tables!LinksAssumption
  <2>2. CASE tpr' = [tpr EXCEPT ![p] = Tables!Declines(p)]
    BY <1>2, <2>2, DeclinesIs
  <2> QED  BY <1>2, <2>1, <2>2
<1>5. refs' \in [Mods -> Nat] /\ Tables!HoldsExact'
  <2>1. refs' = [n \in Mods |-> refs'[n]]
    BY <1>1, <1>2 DEF TTypes
  <2>2. ASSUME NEW n \in Mods
        PROVE  refs'[n] = (refs[n] + (IF Works(r, n) THEN 1 ELSE 0)) - (IF Works(tpr[p], n) THEN 1 ELSE 0)
    <3>1. ~Works(r, n) /\ (Works(tpr[p], n) <=> n = m) /\ refs[n] \in Nat
      BY <1>1, <1>2, <1>4 DEF Works, TTypes
    <3>2. refs'[n] = IF n = m THEN refs[n] - 1 ELSE refs[n]
      BY <1>1, <1>2 DEF TTypes
    <3> QED  BY <3>1, <3>2
  <2> QED  BY <1>1, <1>2, <1>4, <2>1, <2>2, WalkCounts
<1>6. AtStreams' /\ AtSlots' /\ Tables!StockTried'
  <2>1. \A q \in Procs : q # p => AtStream(tpr[q], kind, frows', st') /\ AtSlot(tpr[q], kind, slots')
    BY <1>1, <1>2 DEF AtStreams, AtSlots
  <2>2. AtStream(r, kind, frows', st') /\ AtSlot(r, kind, slots') /\ kind' = kind
    BY <1>2, <1>4
  <2> QED  BY <1>1, <1>4, <2>1, <2>2, Walks
<1>7. TTypes'
  BY <1>1, <1>2, <1>4, <1>5 DEF TTypes
<1>8. InTables'
  <2>1. \A n \in Mods : refs'[n] # 0 => refs[n] # 0
    BY <1>1, <1>2, <1>3, <1>5 DEF TTypes
  <2> QED  BY <1>1, <1>2, <2>1 DEF InTables
<1>9. OfStreams' /\ RowsOrder'
  BY <1>1, <1>2 DEF OfStreams, RowsOrder, OfStock
<1> QED  BY <1>5, <1>6, <1>7, <1>8, <1>9 DEF TInv

(* xcall loads the module, or finds it loaded, and holds it                *)
LEMMA XcallKept ==
  ASSUME Tables!LinksAssumption, TInv, NEW p \in Procs, Tables!Xcall(p)
  PROVE  TInv'
<1>1. /\ TTypes /\ InTables /\ OfStreams /\ AtStreams /\ AtSlots /\ RowsOrder
      /\ Tables!HoldsExact /\ Tables!StockTried
  BY DEF TInv
<1> DEFINE k == tpr[p].slot
           m == slots[k].mod
           r == Tables!Runs(p, m)
<1>2. kind = "exec" /\ tpr[p].pc = "found" /\ tpr[p] \in Doing
  BY <1>1 DEF Tables!Xcall, TTypes
<1>3. k \in 1 .. Slots /\ m \in Mods /\ slots[k].magic = tpr[p].magic /\ tpr[p].s = No
  <2>1. AtSlot(tpr[p], kind, slots) /\ AtStream(tpr[p], kind, frows, st)
    BY <1>1 DEF AtSlots, AtStreams
  <2>2. tpr[p].s = No
    BY <1>2, <2>1 DEF AtStream
  <2> QED  BY <1>2, <2>1, <2>2 DEF AtSlot
<1>4. /\ r.pc = "run" /\ r.slot = k /\ r.mod = m /\ r.magic = tpr[p].magic /\ r.s = No /\ r \in Doing
  BY <1>2, <1>3 DEF Tables!Runs, Doing
<1> HIDE DEF r
<1>5. CASE Tables!Hold(m) /\ Tables!To(p, r) /\ (Tables!Install(m) \/ (slots[k].on /\ UNCHANGED <<kind, loaded, stays, rows, slots, frows, st>>))
  <2>1. refs' = [refs EXCEPT ![m] = @ + 1] /\ tpr' = [tpr EXCEPT ![p] = r]
    BY <1>5 DEF Tables!Hold, Tables!To
  <2>2. /\ kind' = kind /\ rows' = rows /\ st' = st /\ stays' = stays /\ m \in loaded' /\ loaded \subseteq loaded' /\ loaded' \subseteq Mods
        /\ slots' \in [1 .. Slots -> Slot] /\ frows' \in Seq(StrRow)
        /\ slots'[k].mod = slots[k].mod /\ slots'[k].magic = slots[k].magic
        /\ \A l \in 1 .. Slots : slots'[l].on => slots'[l].mod \in loaded'
        /\ \A j \in 1 .. Len(frows') : frows'[j].own # No => frows'[j].own \in loaded'
    <3>1. CASE Tables!Install(m)
      BY <1>1, <1>3, <3>1, Installed DEF TTypes
    <3>2. CASE slots[k].on /\ UNCHANGED <<kind, loaded, stays, rows, slots, frows, st>>
      BY <1>1, <1>3, <3>2 DEF TTypes, InTables
    <3> QED  BY <1>5, <3>1, <3>2
  <2>3. /\ OfStreams' /\ RowsOrder'
        /\ \A q \in Procs : AtStream(tpr[q], kind, frows', st') /\ AtSlot(tpr[q], kind, slots')
    <3>1. CASE Tables!Install(m)
      BY <1>3, <3>1, InstallKeeps
    <3>2. CASE slots[k].on /\ UNCHANGED <<kind, loaded, stays, rows, slots, frows, st>>
      BY <1>1, <3>2 DEF OfStreams, RowsOrder, AtStreams, AtSlots, OfStock
    <3> QED  BY <1>5, <3>1, <3>2
  <2>4. refs' \in [Mods -> Nat] /\ Tables!HoldsExact'
    <3>1. refs' = [n \in Mods |-> refs'[n]]
      BY <1>1, <2>1 DEF TTypes
    <3>2. ASSUME NEW n \in Mods
          PROVE  refs'[n] = (refs[n] + (IF Works(r, n) THEN 1 ELSE 0)) - (IF Works(tpr[p], n) THEN 1 ELSE 0)
      <4>1. ~Works(tpr[p], n) /\ (Works(r, n) <=> n = m) /\ refs[n] \in Nat
        BY <1>1, <1>2, <1>4 DEF Works, TTypes
      <4>2. refs'[n] = IF n = m THEN refs[n] + 1 ELSE refs[n]
        BY <1>1, <2>1 DEF TTypes
      <4> QED  BY <4>1, <4>2
    <3> QED  BY <1>1, <2>1, <2>2, <3>1, <3>2, WalkCounts, Zenon
  <2>5. AtStreams' /\ AtSlots' /\ Tables!StockTried'
    <3>1. AtStream(r, kind, frows', st')
      BY <1>4 DEF AtStream
    <3>2. AtSlot(r, kind, slots')
      BY <1>3, <1>4, <2>2 DEF AtSlot
    <3>3. kind' = kind /\ (r.pc = "noexec" /\ OfStock(r.magic) => r.stock)
      BY <1>4, <2>2
    <3> QED  BY <1>1, <1>4, <2>1, <2>3, <3>1, <3>2, <3>3, Walks
  <2>6. TTypes'
    BY <1>1, <1>4, <2>1, <2>2, <2>4 DEF TTypes
  <2>7. InTables'
    <3>1. ASSUME NEW n \in Mods, refs'[n] # 0
          PROVE  n \in loaded'
      <4>1. CASE n = m
        BY <2>2, <4>1
      <4>2. CASE n # m
        BY <1>1, <2>1, <2>2, <3>1, <4>2 DEF TTypes, InTables
      <4> QED  BY <4>1, <4>2
    <3> QED  BY <2>2, <3>1 DEF InTables
  <2> QED  BY <2>3, <2>4, <2>5, <2>6, <2>7 DEF TInv
<1>6. CASE Tables!To(p, Tables!Declines(p)) /\ UNCHANGED <<kind, loaded, refs, stays, rows, slots, frows, st>>
  <2> DEFINE d == Tables!Declines(p)
  <2>1. /\ d \in Doing /\ d.pc \in {"xnext", "noexec"} /\ d.s = No
        /\ AtStream(d, kind, frows, st) /\ AtSlot(d, kind, slots)
        /\ (d.pc = "noexec" /\ OfStock(d.magic) => d.stock)
    BY <1>2, DeclinesIs
  <2>2. tpr' = [tpr EXCEPT ![p] = d]
    BY <1>6 DEF Tables!To
  <2> HIDE DEF d
  <2>3. d.pc \notin {"run", "open"} /\ tpr[p].pc \notin {"run", "open"}
    BY <1>2, <2>1
  <2> QED  BY <1>6, <2>1, <2>2, <2>3, OnlyWalks
<1> QED  BY <1>5, <1>6 DEF Tables!Xcall, Tables!core, Tables!left, Tables!execs, Tables!strs, r
-----------------------------------------------------------------------------
(* STREAMS modules                                                         *)
LEMMA BothCount ==
  ASSUME Tables!LinksAssumption, TTypes, Tables!HoldsExact,
         NEW p \in Procs, tpr' = [tpr EXCEPT ![p] = tpr'[p]], NEW s \in Streams,
         \A q \in Streams : q # s => st'[q] = st[q],
         refs' = [m \in Mods |-> refs'[m]], stays' \in [Mods -> Nat],
         \A m \in Mods :
           refs'[m] = (refs[m] + (IF Works(tpr'[p], m) THEN 1 ELSE 0) + (IF st'[s].mod = m THEN 1 ELSE 0) + stays'[m])
                      - ((IF Works(tpr[p], m) THEN 1 ELSE 0) + (IF st[s].mod = m THEN 1 ELSE 0) + stays[m])
  PROVE  refs' \in [Mods -> Nat] /\ Tables!HoldsExact'
<1>1. ASSUME NEW m \in Mods
      PROVE  refs'[m] \in Nat /\ refs'[m] = Cardinality(Pushed(m)') + Cardinality(In(m)') + stays'[m]
  <2>1. Cardinality(In(m)') = (Cardinality(In(m)) + (IF Works(tpr'[p], m) THEN 1 ELSE 0)) - (IF Works(tpr[p], m) THEN 1 ELSE 0)
    BY Walked
  <2>2. Cardinality(Pushed(m)') = (Cardinality(Pushed(m)) + (IF st'[s].mod = m THEN 1 ELSE 0)) - (IF st[s].mod = m THEN 1 ELSE 0)
    BY Streamed
  <2>3. refs[m] = Cardinality(Pushed(m)) + Cardinality(In(m)) + stays[m]
    BY HoldsAre
  <2>4. Cardinality(Pushed(m)) \in Nat /\ Cardinality(In(m)) \in Nat
    BY InCounted
  <2>5. /\ refs'[m] = (refs[m] + (IF Works(tpr'[p], m) THEN 1 ELSE 0) + (IF st'[s].mod = m THEN 1 ELSE 0) + stays'[m])
                      - ((IF Works(tpr[p], m) THEN 1 ELSE 0) + (IF st[s].mod = m THEN 1 ELSE 0) + stays[m])
        /\ stays[m] \in Nat /\ stays'[m] \in Nat
    BY DEF TTypes
  <2>6. (p \in In(m) <=> Works(tpr[p], m)) /\ (s \in Pushed(m) <=> st[s].mod = m)
    BY DEF In, Pushed
  <2>7. (Works(tpr[p], m) => Cardinality(In(m)) # 0) /\ (st[s].mod = m => Cardinality(Pushed(m)) # 0)
    BY <2>6, InCounted, FS_EmptySet
  <2> DEFINE w == IF Works(tpr[p], m) THEN 1 ELSE 0
             v == IF Works(tpr'[p], m) THEN 1 ELSE 0
             a == IF st[s].mod = m THEN 1 ELSE 0
             b == IF st'[s].mod = m THEN 1 ELSE 0
             P == Cardinality(Pushed(m))
             I == Cardinality(In(m))
  <2>8. /\ w \in Nat /\ v \in Nat /\ a \in Nat /\ b \in Nat /\ P \in Nat /\ I \in Nat /\ w <= I /\ a <= P
    BY <2>4, <2>7
  <2>9. /\ Cardinality(In(m)') = (I + v) - w /\ Cardinality(Pushed(m)') = (P + b) - a
        /\ refs'[m] = (refs[m] + v + b + stays'[m]) - (w + a + stays[m]) /\ refs[m] = P + I + stays[m]
    BY <2>1, <2>2, <2>3, <2>5
  <2> HIDE DEF w, v, a, b, P, I
  <2> QED  BY <2>5, <2>8, <2>9
<1>2. refs' \in [Mods -> Nat]
  BY <1>1
<1> QED  BY <1>1, <1>2, HoldsAre

(* The process at a stream leaves it, and leaves it as it will             *)
LEMMA StreamLeft ==
  ASSUME Tables!LinksAssumption, TInv, NEW p \in Procs, tpr[p].s \in Streams, tpr' = [tpr EXCEPT ![p] = Tables!User],
         NEW x, st' = [st EXCEPT ![tpr[p].s] = x], UNCHANGED <<kind, slots, frows>>
  PROVE  AtStreams' /\ AtSlots' /\ Tables!StockTried'
<1>1. TTypes /\ AtStreams /\ AtSlots /\ Tables!StockTried
  BY DEF TInv
<1> DEFINE r == Tables!User
<1>2. r \in Doing /\ r.pc = "user" /\ r.s = No /\ AtStream(r, kind, frows', st') /\ AtSlot(r, kind, slots')
  BY HomeIs DEF Tables!LinksAssumption
<1> HIDE DEF r
<1>3. No \notin Streams
  BY DEF No, Tables!None, Tables!LinksAssumption
<1>4. ASSUME NEW q \in Procs, q # p
      PROVE  AtStream(tpr[q], kind, frows', st') /\ AtSlot(tpr[q], kind, slots')
  <2>1. AtStream(tpr[q], kind, frows, st) /\ AtSlot(tpr[q], kind, slots)
    BY <1>1 DEF AtStreams, AtSlots
  <2>2. tpr[q].s # tpr[p].s
    BY <1>1, <1>3, <1>4 DEF AtStreams
  <2>3. \A t \in Streams : t # tpr[p].s => st'[t] = st[t]
    BY <1>1 DEF TTypes
  <2>4. AtStream(tpr[q], kind, frows, st')
    BY <2>1, <2>2, <2>3 DEF AtStream
  <2> QED  BY <2>1, <2>4
<1>5. tpr' = [tpr EXCEPT ![p] = r] /\ kind' = kind
  BY DEF r
<1> QED  BY <1>1, <1>2, <1>4, <1>5, Walks

LEMMA PushKept ==
  ASSUME Tables!LinksAssumption, TInv, NEW p \in Procs, NEW s \in Streams, NEW j \in DOMAIN frows, Tables!Push(p, s, j)
  PROVE  TInv'
<1> DEFINE r == [Tables!User EXCEPT !.pc = "found", !.s = s, !.row = j]
<1>1. /\ kind = "str" /\ tpr[p].pc = "user" /\ ~Tables!Busy(s) /\ st[s].row = 0 /\ tpr' = [tpr EXCEPT ![p] = r]
      /\ UNCHANGED <<kind, loaded, refs, stays, rows, slots, frows, st>>
  BY DEF Tables!Push, Tables!To, Tables!core, Tables!left, Tables!execs, Tables!strs
<1>2. j \in 1 .. Len(frows) /\ j \in Nat /\ Slots \in Nat
  BY DEF TInv, TTypes, Tables!LinksAssumption
<1>3. r.pc = "found" /\ r.s = s /\ r.row = j /\ r \in Doing
  <2>1. Tables!User \in Doing
    BY <1>2, HomeIs
  <2> QED  BY <1>2, <2>1 DEF Doing
<1> HIDE DEF r
<1>4. AtStream(r, kind, frows, st) /\ AtSlot(r, kind, slots)
  BY <1>1, <1>2, <1>3 DEF AtStream, AtSlot
<1>5. \A q \in Procs : q # p => tpr[q].s # r.s
  BY <1>1, <1>3 DEF Tables!Busy
<1> QED  BY <1>1, <1>3, <1>4, <1>5, OnlyWalks

LEMMA AgainKept ==
  ASSUME Tables!LinksAssumption, TInv, NEW p \in Procs, NEW s \in Streams, Tables!Again(p, s)
  PROVE  TInv'
<1> DEFINE r == [Tables!User EXCEPT !.pc = "found", !.s = s, !.row = st[s].row]
<1>1. /\ kind = "str" /\ tpr[p].pc = "user" /\ ~Tables!Busy(s) /\ st[s].row # 0 /\ tpr' = [tpr EXCEPT ![p] = r]
      /\ UNCHANGED <<kind, loaded, refs, stays, rows, slots, frows, st>>
  BY DEF Tables!Again, Tables!To, Tables!core, Tables!left, Tables!execs, Tables!strs
<1>2. st[s].row \in 1 .. Len(frows) /\ st[s].row \in Nat /\ Slots \in Nat
  <2>1. TTypes /\ OfStreams
    BY DEF TInv
  <2>2. st[s].row \in 1 .. Len(frows)
    BY <1>1, <2>1 DEF OfStreams
  <2>3. st[s] \in Stream
    BY <2>1 DEF TTypes
  <2> QED  BY <2>2, <2>3 DEF Stream, Tables!LinksAssumption
<1>3. r.pc = "found" /\ r.s = s /\ r.row = st[s].row /\ r \in Doing
  <2>1. Tables!User \in Doing
    BY <1>2, HomeIs
  <2> QED  BY <1>2, <2>1 DEF Doing
<1> HIDE DEF r
<1>4. AtStream(r, kind, frows, st) /\ AtSlot(r, kind, slots)
  BY <1>1, <1>2, <1>3 DEF AtStream, AtSlot
<1>5. \A q \in Procs : q # p => tpr[q].s # r.s
  BY <1>1, <1>3 DEF Tables!Busy
<1> QED  BY <1>1, <1>3, <1>4, <1>5, OnlyWalks

(* What a stream is set to                                                 *)
LEMMA StreamSet ==
  ASSUME TTypes, OfStreams, NEW s \in Streams, NEW x \in Stream, st' = [st EXCEPT ![s] = x], frows' = frows,
         x.row = 0 => x.mod = No /\ ~x.had, x.row # 0 => x.row \in 1 .. Len(frows),
         x.had => x.mod \in Mods /\ frows[x.row].own = x.mod, ~x.had => x.mod = No
  PROVE  /\ OfStreams' /\ st' \in [Streams -> Stream]
         /\ st'[s] = x /\ \A t \in Streams : t # s => st'[t] = st[t]
<1>1. st' \in [Streams -> Stream] /\ st'[s] = x /\ \A t \in Streams : t # s => st'[t] = st[t]
  BY DEF TTypes
<1>2. ASSUME NEW t \in Streams
      PROVE  /\ st'[t].row = 0 => st'[t].mod = No /\ ~st'[t].had
             /\ st'[t].row # 0 => st'[t].row \in 1 .. Len(frows)
             /\ st'[t].had => st'[t].mod \in Mods /\ frows[st'[t].row].own = st'[t].mod
             /\ ~st'[t].had => st'[t].mod = No
  <2>1. CASE t = s
    BY <1>1, <2>1
  <2>2. CASE t # s
    BY <1>1, <2>2 DEF OfStreams
  <2> QED  BY <2>1, <2>2
<1>3. OfStreams'
  BY <1>2 DEF OfStreams
<1> QED  BY <1>1, <1>3

LEMMA StrCloseKept ==
  ASSUME Tables!LinksAssumption, TInv, NEW p \in Procs, NEW s \in Streams, Tables!StrClose(p, s)
  PROVE  TInv'
<1> DEFINE m == frows[st[s].row].own
           r == [Tables!User EXCEPT !.pc = "close", !.s = s, !.mod = m]
<1>1. /\ kind = "str" /\ tpr[p].pc = "user" /\ ~Tables!Busy(s) /\ st[s].row # 0
      /\ UNCHANGED <<kind, loaded, refs, stays, rows, slots, frows>>
  BY DEF Tables!StrClose, Tables!left, Tables!execs
<1>2. /\ TTypes /\ InTables /\ OfStreams /\ AtStreams /\ AtSlots /\ RowsOrder
      /\ Tables!HoldsExact /\ Tables!StockTried
  BY DEF TInv
<1>3. st[s].row \in 1 .. Len(frows) /\ m \in Mods \cup {No} /\ Slots \in Nat /\ No \notin Mods
      /\ (st[s].had => st[s].mod = m) /\ (m = No => ~st[s].had /\ st[s].mod = No)
  <2>1. st[s].row \in 1 .. Len(frows)
    BY <1>1, <1>2 DEF OfStreams
  <2>2. frows[st[s].row] \in StrRow
    BY <1>2, <2>1 DEF TTypes
  <2>3. Slots \in Nat /\ No \notin Mods
    BY DEF Tables!LinksAssumption, Tables!None, No
  <2>4. (st[s].had => st[s].mod \in Mods /\ st[s].mod = m) /\ (~st[s].had => st[s].mod = No)
    BY <1>2 DEF OfStreams
  <2> QED  BY <2>1, <2>2, <2>3, <2>4 DEF StrRow
<1>4. CASE m # No
  <2>1. tpr' = [tpr EXCEPT ![p] = r] /\ st' = st
    BY <1>4 DEF Tables!StrClose, Tables!To, No
  <2> HIDE DEF m
  <2>2. r.pc = "close" /\ r.s = s /\ r.mod = m /\ r \in Doing
    <3>1. Tables!User \in Doing
      BY <1>3, HomeIs
    <3> QED  BY <1>3, <3>1 DEF Doing
  <2> HIDE DEF r
  <2>3. AtStream(r, kind, frows, st) /\ AtSlot(r, kind, slots)
    BY <1>1, <1>3, <1>4, <2>2 DEF AtStream, AtSlot
  <2>4. \A q \in Procs : q # p => tpr[q].s # r.s
    BY <1>1, <2>2 DEF Tables!Busy
  <2> QED  BY <1>1, <2>1, <2>2, <2>3, <2>4, OnlyWalks
<1>5. CASE m = No
  <2> DEFINE x == Tables!Str0
  <2>1. st' = [st EXCEPT ![s] = x] /\ tpr' = tpr
    BY <1>5 DEF Tables!StrClose, No
  <2>2. x.row = 0 /\ x.mod = No /\ ~x.had /\ x \in Stream
    BY DEF Tables!Str0, Stream, No
  <2> HIDE DEF x
  <2>3. /\ OfStreams' /\ st' \in [Streams -> Stream]
        /\ st'[s] = x /\ \A t \in Streams : t # s => st'[t] = st[t]
    BY <1>1, <1>2, <2>1, <2>2, StreamSet
  <2>4. ASSUME NEW q \in Procs
        PROVE  AtStream(tpr[q], kind, frows, st')
    <3>1. AtStream(tpr[q], kind, frows, st) /\ tpr[q].s # s
      BY <1>1, <1>2 DEF AtStreams, Tables!Busy
    <3> QED  BY <2>3, <3>1 DEF AtStream
  <2>5. AtStreams'
    BY <1>1, <1>2, <2>1, <2>4 DEF AtStreams
  <2>8. AtSlots' /\ RowsOrder'
    BY <1>1, <1>2, <2>1 DEF AtSlots, RowsOrder, OfStock
  <2>6. Tables!HoldsExact'
    <3>1. \A t \in Streams : st'[t].mod = st[t].mod
      BY <1>3, <1>5, <2>2, <2>3
    <3>2. \A n : Pushed(n)' = Pushed(n) /\ In(n)' = In(n)
      BY <2>1, <3>1 DEF Pushed, In
    <3> QED  BY <1>1, <1>2, <3>2, HoldsAre
  <2>7. Tables!StockTried' /\ InTables' /\ TTypes'
    BY <1>1, <1>2, <2>1, <2>3 DEF Tables!StockTried, InTables, TTypes
  <2> QED  BY <2>3, <2>5, <2>6, <2>7, <2>8 DEF TInv
<1> QED  BY <1>4, <1>5

LEMMA StrOpenKept ==
  ASSUME Tables!LinksAssumption, TInv, NEW p \in Procs, Tables!StrOpen(p)
  PROVE  TInv'
<1>1. /\ TTypes /\ InTables /\ OfStreams /\ AtStreams /\ AtSlots /\ RowsOrder
      /\ Tables!HoldsExact /\ Tables!StockTried
  BY DEF TInv
<1> DEFINE j == tpr[p].row
           m == frows[j].own
           r == [tpr[p] EXCEPT !.pc = "open", !.mod = m]
<1>2. kind = "str" /\ tpr[p].pc = "found" /\ tpr[p] \in Doing /\ UNCHANGED <<kind, loaded, stays, rows, slots, frows, st>>
  BY <1>1 DEF Tables!StrOpen, TTypes, Tables!core, Tables!left, Tables!execs, Tables!strs
<1>3. tpr[p].s \in Streams /\ j \in 1 .. Len(frows) /\ (st[tpr[p].s].row # 0 => st[tpr[p].s].row = j)
  <2>1. AtStream(tpr[p], kind, frows, st)
    BY <1>1 DEF AtStreams
  <2> QED  BY <1>2, <2>1 DEF AtStream
<1>4. CASE m = No
  <2>1. tpr' = [tpr EXCEPT ![p] = Tables!User] /\ refs' = refs
    BY <1>4 DEF Tables!StrOpen, Tables!Entered, Tables!To, No
  <2> QED  BY <1>2, <2>1, HomeKept
<1>5. CASE m # No
  <2>1. tpr' = [tpr EXCEPT ![p] = r] /\ refs' = [refs EXCEPT ![m] = @ + 1]
    BY <1>5 DEF Tables!StrOpen, Tables!Entered, Tables!To, Tables!Hold, No
  <2>2. m \in Mods /\ m \in loaded
    <3>1. frows[j] \in StrRow
      BY <1>1, <1>3 DEF TTypes
    <3>2. m \in Mods
      BY <1>5, <3>1 DEF StrRow
    <3> QED  BY <1>1, <1>3, <1>5, <3>2 DEF InTables
  <2>3. r.pc = "open" /\ r.mod = m /\ r.s = tpr[p].s /\ r.row = j /\ r \in Doing
    BY <1>2, <2>2 DEF Doing
  <2> HIDE DEF r
  <2>4. refs' \in [Mods -> Nat] /\ Tables!HoldsExact'
    <3>1. refs' = [n \in Mods |-> refs'[n]]
      BY <1>1, <2>1 DEF TTypes
    <3>2. ASSUME NEW n \in Mods
          PROVE  refs'[n] = (refs[n] + (IF Works(r, n) THEN 1 ELSE 0)) - (IF Works(tpr[p], n) THEN 1 ELSE 0)
      <4>1. ~Works(tpr[p], n) /\ (Works(r, n) <=> n = m) /\ refs[n] \in Nat
        BY <1>1, <1>2, <2>3 DEF Works, TTypes
      <4>2. refs'[n] = IF n = m THEN refs[n] + 1 ELSE refs[n]
        BY <1>1, <2>1 DEF TTypes
      <4> QED  BY <4>1, <4>2
    <3>3. st' = st /\ stays' = stays
      BY <1>2
    <3> QED  BY <1>1, <2>1, <3>1, <3>2, <3>3, WalkCounts
  <2>5. AtStreams' /\ AtSlots' /\ Tables!StockTried'
    <3>1. \A q \in Procs : q # p => AtStream(tpr[q], kind, frows', st') /\ AtSlot(tpr[q], kind, slots')
      BY <1>1, <1>2 DEF AtStreams, AtSlots
    <3>2. AtStream(r, kind, frows, st) /\ AtSlot(r, kind, slots)
      BY <1>3, <2>2, <2>3 DEF AtStream, AtSlot
    <3>3. AtStream(r, kind, frows', st') /\ AtSlot(r, kind, slots') /\ kind' = kind
      BY <1>2, <3>2
    <3>4. \A q \in Procs : q # p => tpr[q].s # r.s
      <4>1. tpr[p].s # No
        BY <1>3 DEF No, Tables!None, Tables!LinksAssumption
      <4> QED  BY <1>1, <2>3, <4>1 DEF AtStreams
    <3>5. r.pc = "noexec" /\ OfStock(r.magic) => r.stock
      BY <2>3
    <3> QED  BY <1>1, <2>1, <2>3, <3>1, <3>3, <3>4, <3>5, Walks
  <2>6. TTypes'
    BY <1>1, <1>2, <2>1, <2>3, <2>4 DEF TTypes
  <2>7. InTables'
    <3>1. ASSUME NEW n \in Mods, refs'[n] # 0
          PROVE  n \in loaded
      <4>1. CASE n = m
        BY <2>2, <4>1
      <4>2. CASE n # m
        BY <1>1, <2>1, <3>1, <4>2 DEF TTypes, InTables
      <4> QED  BY <4>1, <4>2
    <3> QED  BY <1>1, <1>2, <3>1 DEF InTables
  <2>8. OfStreams' /\ RowsOrder'
    BY <1>1, <1>2 DEF OfStreams, RowsOrder, OfStock
  <2> QED  BY <2>4, <2>5, <2>6, <2>7, <2>8 DEF TInv
<1> QED  BY <1>4, <1>5
(* The module's open is over: the first keeps its hold                     *)
LEMMA StrOpensKept ==
  ASSUME Tables!LinksAssumption, TInv, NEW p \in Procs, Tables!StrOpens(p)
  PROVE  TInv'
<1>1. /\ TTypes /\ InTables /\ OfStreams /\ AtStreams /\ AtSlots /\ RowsOrder
      /\ Tables!HoldsExact /\ Tables!StockTried
  BY DEF TInv
<1> DEFINE s == tpr[p].s
           m == tpr[p].mod
           y == [row |-> tpr[p].row, mod |-> m, had |-> TRUE]
           z == [Tables!Str0 EXCEPT !.row = tpr[p].row]
           r == Tables!User
           Less == refs' = [refs EXCEPT ![m] = @ - 1]
           OpenOk == (IF ~st[s].had THEN refs' = refs ELSE Less) /\ st' = [st EXCEPT ![s] = y]
           Bare == ~st[s].had /\ Less /\ st' = [st EXCEPT ![s] = z]
           OpenFails == Less /\ st' = st
<1>2. /\ tpr[p].pc = "open" /\ tpr' = [tpr EXCEPT ![p] = r] /\ (OpenOk \/ Bare \/ OpenFails)
      /\ UNCHANGED <<kind, loaded, stays, rows, slots, frows>>
  BY DEF Tables!StrOpens, Tables!Rele, Tables!Keeps, Tables!To, Tables!core, Tables!left, Tables!execs
<1>3. /\ s \in Streams /\ m \in Mods /\ tpr[p].row \in 1 .. Len(frows) /\ frows[tpr[p].row].own = m
      /\ st[s].row # 0 => st[s].row = tpr[p].row
  <2>1. AtStream(tpr[p], kind, frows, st)
    BY <1>1 DEF AtStreams
  <2> QED  BY <1>2, <2>1 DEF AtStream
<1>4. r \in Doing /\ r.s = No /\ \A n : ~Works(r, n)
  BY HomeIs DEF Tables!LinksAssumption
<1> HIDE DEF r
<1>5. \A n \in Mods : refs[n] \in Nat /\ (Works(tpr[p], n) <=> n = m)
  BY <1>1, <1>2 DEF Works, TTypes
<1>6. CASE OpenOk \/ Bare
  <2>1. PICK x \in Stream :
          /\ st' = [st EXCEPT ![s] = x] /\ x.row = tpr[p].row
          /\ (x.had /\ x.mod = m) \/ (~x.had /\ x.mod = No /\ ~st[s].had)
          /\ \A n \in Mods : refs'[n] = IF n = m /\ (st[s].had \/ ~x.had) THEN refs[n] - 1 ELSE refs[n]
          /\ refs' = [n \in Mods |-> refs'[n]]
    <3>1. tpr[p].row \in Nat
      <4>1. tpr[p] \in Doing
        BY <1>1 DEF TTypes
      <4> QED  BY <4>1 DEF Doing
    <3>2. y.row = tpr[p].row /\ y.mod = m /\ y.had /\ y \in Stream
      BY <1>3, <3>1 DEF Stream
    <3>3. z.row = tpr[p].row /\ z.mod = No /\ ~z.had /\ z \in Stream
      BY <3>1 DEF Stream, Tables!Str0, No
    <3> HIDE DEF y, z
    <3>4. CASE OpenOk
      <4>1. \A n \in Mods : refs'[n] = IF n = m /\ st[s].had THEN refs[n] - 1 ELSE refs[n]
        BY <1>1, <3>4 DEF TTypes
      <4>2. refs' = [n \in Mods |-> refs'[n]]
        BY <1>1, <3>4 DEF TTypes
      <4> QED  BY <3>2, <3>4, <4>1, <4>2
    <3>5. CASE Bare
      <4>1. \A n \in Mods : refs'[n] = IF n = m THEN refs[n] - 1 ELSE refs[n]
        BY <1>1, <3>5 DEF TTypes
      <4>2. refs' = [n \in Mods |-> refs'[n]]
        BY <1>1, <3>5 DEF TTypes
      <4> QED  BY <3>3, <3>5, <4>1, <4>2
    <3> QED  BY <1>6, <3>4, <3>5
  <2>2. (st[s].had => st[s].mod = m) /\ (~st[s].had => st[s].mod = No)
    BY <1>1, <1>3 DEF OfStreams
  <2>3. No \notin Mods
    BY DEF No, Tables!None, Tables!LinksAssumption
  <2>6. /\ OfStreams' /\ st'[s] = x /\ st' \in [Streams -> Stream]
        /\ \A t \in Streams : t # s => st'[t] = st[t]
    <3>1. tpr[p].row # 0
      BY <1>3
    <3> QED  BY <1>1, <1>2, <1>3, <2>1, <3>1, StreamSet
  <2>4. refs' \in [Mods -> Nat] /\ Tables!HoldsExact'
    <3>1. refs' = [n \in Mods |-> refs'[n]] /\ stays' \in [Mods -> Nat]
      BY <1>1, <1>2, <2>1 DEF TTypes
    <3>2. ASSUME NEW n \in Mods
          PROVE  refs'[n] = (refs[n] + (IF Works(tpr'[p], n) THEN 1 ELSE 0) + (IF st'[s].mod = n THEN 1 ELSE 0) + stays'[n])
                            - ((IF Works(tpr[p], n) THEN 1 ELSE 0) + (IF st[s].mod = n THEN 1 ELSE 0) + stays[n])
      <4>1. refs'[n] = IF n = m /\ (st[s].had \/ ~x.had) THEN refs[n] - 1 ELSE refs[n]
        BY <2>1
      <4>2. /\ ~Works(tpr'[p], n) /\ (Works(tpr[p], n) <=> n = m) /\ refs[n] \in Nat
            /\ stays'[n] = stays[n] /\ stays[n] \in Nat
        BY <1>1, <1>2, <1>4, <1>5 DEF TTypes
      <4>3. (st'[s].mod = n <=> n = m /\ x.had) /\ (st[s].mod = n <=> n = m /\ st[s].had)
        BY <2>1, <2>2, <2>3, <2>6
      <4> QED  BY <2>1, <4>1, <4>2, <4>3
    <3>3. tpr' = [tpr EXCEPT ![p] = tpr'[p]] /\ s \in Streams
      BY <1>1, <1>2, <1>3 DEF TTypes
    <3>4. \A t \in Streams : t # s => st'[t] = st[t]
      BY <2>6
    <3>5. TTypes /\ Tables!HoldsExact
      BY <1>1
    <3> HIDE DEF OpenOk, Bare, OpenFails
    <3> QED  BY <3>1, <3>2, <3>3, <3>4, <3>5, BothCount
  <2>5. AtStreams' /\ AtSlots' /\ Tables!StockTried'
    BY <1>2, <1>3, <2>1, StreamLeft DEF r
  <2>7. TTypes'
    BY <1>1, <1>2, <1>4, <2>4, <2>6 DEF TTypes
  <2>8. InTables'
    <3>1. \A n \in Mods : refs'[n] # 0 => refs[n] # 0
      BY <1>1, <1>3, <2>1, <2>4 DEF TTypes
    <3> QED  BY <1>1, <1>2, <3>1 DEF InTables
  <2>10. RowsOrder'
    BY <1>1, <1>2 DEF RowsOrder, OfStock
  <2> QED  BY <2>4, <2>5, <2>6, <2>7, <2>8, <2>10 DEF TInv
<1>7. CASE OpenFails
  <2>1. refs' \in [Mods -> Nat] /\ Tables!HoldsExact'
    <3>1. refs' = [n \in Mods |-> refs'[n]]
      BY <1>1, <1>7 DEF TTypes
    <3>2. ASSUME NEW n \in Mods
          PROVE  refs'[n] = (refs[n] + (IF Works(r, n) THEN 1 ELSE 0)) - (IF Works(tpr[p], n) THEN 1 ELSE 0)
      <4>1. refs'[n] = IF n = m THEN refs[n] - 1 ELSE refs[n]
        BY <1>1, <1>7 DEF TTypes
      <4> QED  BY <1>4, <1>5, <4>1
    <3>3. st' = st
      BY <1>7
    <3>4. stays' = stays
      BY <1>2
    <3> HIDE DEF s, m, OpenFails
    <3> QED  BY <1>1, <1>2, <3>1, <3>2, <3>3, <3>4, WalkCounts
  <2>2. AtStreams' /\ AtSlots' /\ Tables!StockTried'
    <3>1. st' = [st EXCEPT ![tpr[p].s] = st[tpr[p].s]]
      BY <1>1, <1>3, <1>7 DEF TTypes
    <3> QED  BY <1>2, <1>3, <3>1, StreamLeft DEF r
  <2>3. TTypes'
    BY <1>1, <1>2, <1>4, <1>7, <2>1 DEF TTypes
  <2>4. InTables'
    <3>1. \A n \in Mods : refs'[n] # 0 => refs[n] # 0
      BY <1>1, <1>3, <1>7, <2>1 DEF TTypes
    <3> QED  BY <1>1, <1>2, <3>1 DEF InTables
  <2>5. OfStreams' /\ RowsOrder'
    BY <1>1, <1>2, <1>7 DEF OfStreams, RowsOrder, OfStock
  <2> QED  BY <2>1, <2>2, <2>3, <2>4, <2>5 DEF TInv
<1> QED  BY <1>2, <1>6, <1>7

LEMMA StrClosesKept ==
  ASSUME Tables!LinksAssumption, TInv, NEW p \in Procs, Tables!StrCloses(p) \/ Tables!StrCloseLeft(p)
  PROVE  TInv'
<1>1. /\ TTypes /\ InTables /\ OfStreams /\ AtStreams /\ AtSlots /\ RowsOrder
      /\ Tables!HoldsExact /\ Tables!StockTried
  BY DEF TInv
<1> DEFINE s == tpr[p].s
           m == tpr[p].mod
           x == Tables!Str0
           r == Tables!User
<1>2. /\ tpr[p].pc = "close" /\ tpr' = [tpr EXCEPT ![p] = r] /\ st' = [st EXCEPT ![s] = x]
      /\ UNCHANGED <<kind, loaded, rows, slots, frows>>
      /\ \/ st[s].had /\ refs' = [refs EXCEPT ![m] = @ - 1] /\ stays' = stays
         \/ st[s].had /\ refs' = refs /\ stays' = [stays EXCEPT ![m] = @ + 1]
         \/ ~st[s].had /\ refs' = refs /\ stays' = stays
  <2>1. CASE Tables!StrCloses(p)
    BY <2>1 DEF Tables!StrCloses, Tables!Rele, Tables!To, Tables!execs, Tables!left
  <2>2. CASE Tables!StrCloseLeft(p)
    BY <2>2 DEF Tables!StrCloseLeft, Tables!To, Tables!execs
  <2> QED  BY <2>1, <2>2
<1>3. s \in Streams /\ m \in Mods /\ (st[s].had => st[s].mod = m) /\ (~st[s].had => st[s].mod = No)
  <2>1. AtStream(tpr[p], kind, frows, st)
    BY <1>1 DEF AtStreams
  <2>2. s \in Streams /\ m \in Mods /\ (st[s].had => st[s].mod = m)
    BY <1>2, <2>1 DEF AtStream
  <2> QED  BY <1>1, <2>2 DEF OfStreams
<1>5. r \in Doing /\ r.s = No /\ \A n : ~Works(r, n)
  BY HomeIs DEF Tables!LinksAssumption
<1>6. x.row = 0 /\ x.mod = No /\ ~x.had /\ x \in Stream /\ No \notin Mods
  BY DEF Tables!Str0, Stream, No, Tables!None, Tables!LinksAssumption
<1>8. AtStreams' /\ AtSlots' /\ Tables!StockTried'
  BY <1>2, <1>3, StreamLeft
<1> HIDE DEF r, x
<1>9. /\ OfStreams' /\ st'[s] = x /\ st' \in [Streams -> Stream]
      /\ \A t \in Streams : t # s => st'[t] = st[t]
  BY <1>1, <1>2, <1>3, <1>6, StreamSet
<1>4. stays' \in [Mods -> Nat] /\ refs' = [n \in Mods |-> refs'[n]]
  BY <1>1, <1>2, <1>3 DEF TTypes
<1>7. refs' \in [Mods -> Nat] /\ Tables!HoldsExact'
  <2>2. ASSUME NEW n \in Mods
        PROVE  refs'[n] = (refs[n] + (IF Works(tpr'[p], n) THEN 1 ELSE 0) + (IF st'[s].mod = n THEN 1 ELSE 0) + stays'[n])
                          - ((IF Works(tpr[p], n) THEN 1 ELSE 0) + (IF st[s].mod = n THEN 1 ELSE 0) + stays[n])
    <3>1. /\ refs[n] \in Nat /\ stays[n] \in Nat
          /\ \/ st[s].had /\ refs'[n] = (IF n = m THEN refs[n] - 1 ELSE refs[n]) /\ stays'[n] = stays[n]
             \/ st[s].had /\ refs'[n] = refs[n] /\ stays'[n] = (IF n = m THEN stays[n] + 1 ELSE stays[n])
             \/ ~st[s].had /\ refs'[n] = refs[n] /\ stays'[n] = stays[n]
      BY <1>1, <1>2 DEF TTypes
    <3>2. ~Works(tpr'[p], n) /\ ~Works(tpr[p], n) /\ st'[s].mod # n /\ (st[s].mod = n <=> n = m /\ st[s].had)
      <4>1. tpr'[p] = r
        BY <1>1, <1>2 DEF TTypes
      <4> QED  BY <1>2, <1>3, <1>5, <1>6, <1>9, <4>1 DEF Works
    <3> QED  BY <3>1, <3>2
  <2>3. tpr' = [tpr EXCEPT ![p] = tpr'[p]] /\ s \in Streams
    BY <1>1, <1>2, <1>3 DEF TTypes
  <2>4. \A t \in Streams : t # s => st'[t] = st[t]
    BY <1>9
  <2>5. TTypes /\ Tables!HoldsExact
    BY <1>1
  <2> HIDE DEF s, m
  <2> QED  BY <1>4, <2>2, <2>3, <2>4, <2>5, BothCount
<1>10. TTypes'
  BY <1>1, <1>2, <1>4, <1>5, <1>7, <1>9 DEF TTypes
<1>11. InTables'
  <2>1. \A n \in Mods : refs'[n] # 0 => refs[n] # 0
    BY <1>1, <1>2, <1>3, <1>7 DEF TTypes
  <2> QED  BY <1>1, <1>2, <2>1 DEF InTables
<1>13. RowsOrder'
  BY <1>1, <1>2 DEF RowsOrder, OfStock
<1> QED  BY <1>7, <1>8, <1>9, <1>10, <1>11, <1>13 DEF TInv

-----------------------------------------------------------------------------
LEMMA TablesInit ==
  ASSUME Tables!LinksAssumption, Tables!Init
  PROVE  TInv
<1>1. /\ loaded = {} /\ refs = [m \in Mods |-> 0] /\ stays = [m \in Mods |-> 0] /\ rows = [i \in DOMAIN Stock |-> [magic |-> Stock[i], slot |-> 0]]
      /\ slots = [k \in 1 .. Slots |-> Tables!Slot0] /\ frows = <<>>
      /\ st = [s \in Streams |-> Tables!Str0] /\ tpr = [p \in Procs |-> Tables!User]
  BY DEF Tables!Init
<1>2. /\ Tables!Slot0 \in Slot /\ Tables!Slot0.mod = No /\ ~Tables!Slot0.on
      /\ Tables!Str0 \in Stream /\ Tables!Str0.row = 0 /\ Tables!Str0.mod = No /\ ~Tables!Str0.had
      /\ No \notin Mods /\ Slots \in Nat /\ Stock \in Seq(Magics)
  BY DEF Tables!Slot0, Tables!Str0, Slot, Stream, No, Tables!None, Tables!LinksAssumption
<1>3. /\ Tables!User \in Doing /\ Tables!User.pc = "user" /\ Tables!User.s = No
      /\ \A kd, fr, x, sl : AtStream(Tables!User, kd, fr, x) /\ AtSlot(Tables!User, kd, sl)
      /\ \A m : ~Works(Tables!User, m)
  BY <1>2, HomeIs
<1>4. /\ rows \in Seq(ExecRow) /\ Len(rows) = Len(Stock)
      /\ \A i \in 1 .. Len(Stock) : rows[i].magic = Stock[i] /\ rows[i].slot = 0
  <2>1. DOMAIN Stock = 1 .. Len(Stock) /\ Len(Stock) \in Nat /\ \A i \in 1 .. Len(Stock) : Stock[i] \in Magics
    BY <1>2
  <2>2. \A i \in 1 .. Len(Stock) : [magic |-> Stock[i], slot |-> 0] \in ExecRow
    BY <1>2, <2>1 DEF ExecRow
  <2>3. rows \in [1 .. Len(Stock) -> ExecRow]
    BY <1>1, <2>1, <2>2
  <2> QED  BY <1>1, <2>1, <2>3
<1>5. TTypes
  <2>1. frows \in Seq(StrRow)
    BY <1>1
  <2> QED  BY <1>1, <1>2, <1>3, <1>4, <2>1 DEF TTypes
<1>6. InTables /\ OfStreams
  BY <1>1, <1>2 DEF InTables, OfStreams
<1>7. AtStreams /\ AtSlots
  BY <1>1, <1>3 DEF AtStreams, AtSlots
<1>8. RowsOrder
  BY <1>1, <1>2, <1>4 DEF RowsOrder, OfStock
<1>9. Tables!HoldsExact
  <2>1. ASSUME NEW m \in Mods
        PROVE  refs[m] = Cardinality(Pushed(m)) + Cardinality(In(m)) + stays[m]
    <3>1. Pushed(m) = {} /\ In(m) = {}
      BY <1>1, <1>2, <1>3 DEF Pushed, In
    <3>2. Cardinality(Pushed(m)) = 0 /\ Cardinality(In(m)) = 0
      BY <3>1, FS_EmptySet
    <3> QED  BY <1>1, <3>2
  <2> QED  BY <2>1, HoldsAre
<1>10. Tables!StockTried
  BY <1>1, <1>3 DEF Tables!StockTried
<1> QED  BY <1>5, <1>6, <1>7, <1>8, <1>9, <1>10 DEF TInv

LEMMA TablesStep ==
  ASSUME Tables!LinksAssumption, TInv, [Tables!Next]_(Tables!vars)
  PROVE  TInv'
<1>1. CASE \E m \in Mods : Tables!Load(m) \/ Tables!Unload(m)
  BY <1>1, LoadKept, ModuleGone
<1>2. CASE \E m \in Mods, mg \in Magics, first \in BOOLEAN : Tables!Xreg(m, mg, first)
  BY <1>2, XregKept
<1>3. CASE \E p \in Procs : \/ \E mg \in Magics : Tables!Exec(p, mg)
                            \/ Tables!Xcall(p) \/ Tables!XcallReturns(p) \/ Tables!Xnext(p) \/ Tables!Enoexec(p)
  BY <1>3, ExecKept, XcallKept, XcallReturnsKept, XnextKept, EnoexecKept
<1>4. CASE \E p \in Procs : Tables!StrOpen(p) \/ Tables!StrOpens(p) \/ Tables!StrCloses(p) \/ Tables!StrCloseLeft(p)
  BY <1>4, StrOpenKept, StrOpensKept, StrClosesKept
<1>5. CASE \E p \in Procs, s \in Streams :
             (\E j \in DOMAIN frows : Tables!Push(p, s, j)) \/ Tables!Again(p, s) \/ Tables!StrClose(p, s)
  BY <1>5, PushKept, AgainKept, StrCloseKept
<1>6. CASE UNCHANGED Tables!vars
  <2>1. UNCHANGED <<kind, loaded, refs, stays, rows, slots, frows, st, tpr>>
    BY <1>6 DEF Tables!vars
  <2>2. /\ TTypes /\ InTables /\ OfStreams /\ AtStreams /\ AtSlots /\ RowsOrder
        /\ Tables!HoldsExact /\ Tables!StockTried
    BY DEF TInv
  <2>3. TTypes' /\ InTables' /\ OfStreams'
    BY <2>1, <2>2 DEF TTypes, InTables, OfStreams
  <2>4. AtStreams' /\ AtSlots' /\ RowsOrder'
    BY <2>1, <2>2 DEF AtStreams, AtSlots, RowsOrder, OfStock
  <2>5. Tables!HoldsExact' /\ Tables!StockTried'
    BY <2>1, <2>2 DEF Tables!HoldsExact, Tables!StockTried
  <2> QED  BY <2>3, <2>4, <2>5 DEF TInv
<1> QED  BY <1>1, <1>2, <1>3, <1>4, <1>5, <1>6 DEF Tables!Next

(* The invariant holds from the first state on                             *)
THEOREM TablesInductive ==
  ASSUME Tables!LinksAssumption
  PROVE  Tables!Spec => []TInv
<1>1. Tables!Init => TInv
  BY TablesInit
<1>2. TInv /\ [Tables!Next]_(Tables!vars) => TInv'
  BY TablesStep
<1> QED  BY <1>1, <1>2, PTL DEF Tables!Spec

-----------------------------------------------------------------------------
LEMMA TablesCounted ==
  ASSUME Tables!LinksAssumption, NEW m
  PROVE  Cardinality(Closing(m)) \in Nat /\ IsFiniteSet(Closing(m))
<1>1. IsFiniteSet(Procs)
  BY TablesFinite DEF Tables!LinksAssumption
<1>2. Closing(m) \subseteq Procs
  BY DEF Closing
<1> QED  BY <1>1, <1>2, FS_Subset, FS_CardinalityType

LEMMA ClosingMoves ==
  ASSUME Tables!LinksAssumption, TTypes, CInv, NEW p \in Procs, NEW r, tpr' = [tpr EXCEPT ![p] = r],
         incall' \in [Mods -> Nat], stuck' \in [Mods -> Nat],
         \A m \in Mods : incall'[m] + (IF Shuts(tpr[p], m) THEN 1 ELSE 0) + stuck[m]
                          = incall[m] + (IF Shuts(r, m) THEN 1 ELSE 0) + stuck'[m],
         \A m \in Mods : incall'[m] # 0 => m \in loaded'
  PROVE  CInv'
<1>1. ASSUME NEW m \in Mods
      PROVE  incall'[m] = Cardinality(Closing(m)') + stuck'[m]
  <2> DEFINE A == Closing(m)
             B == Closing(m)'
  <2>1. tpr'[p] = r /\ \A q \in Procs : q # p => tpr'[q] = tpr[q]
    BY DEF TTypes
  <2>2. p \in A <=> Shuts(tpr[p], m)
    BY DEF Closing
  <2>3. B = {q \in Procs : Shuts(tpr'[q], m)}
    BY DEF Closing, Shuts
  <2>4. p \in B <=> Shuts(r, m)
    BY <2>1, <2>3
  <2>5. \A q : q # p => (q \in A <=> q \in B)
    BY <2>1, <2>3 DEF Closing
  <2>6. IsFiniteSet(A)
    BY TablesCounted
  <2>7. incall[m] = Cardinality(A) + stuck[m] /\ stuck[m] \in Nat /\ incall'[m] \in Nat /\ stuck'[m] \in Nat
    BY DEF CInv
  <2> HIDE DEF A, B
  <2>8. /\ Cardinality(A) \in Nat /\ Cardinality(B) \in Nat
        /\ p \in A /\ p \notin B => Cardinality(B) = Cardinality(A) - 1
        /\ p \notin A /\ p \in B => Cardinality(B) = Cardinality(A) + 1
        /\ (p \in A <=> p \in B) => B = A
    BY <2>5, <2>6, Recount
  <2>9. incall'[m] = Cardinality(B) + stuck'[m]
    BY <2>2, <2>4, <2>7, <2>8
  <2> QED  BY <2>9 DEF B
<1> QED  BY <1>1 DEF CInv

(* A step that neither enters a close nor leaves one                       *)
LEMMA ClosesNot ==
  ASSUME Tables!LinksAssumption, TTypes, CInv, UNCHANGED <<incall, stuck>>, loaded \subseteq loaded',
         NEW p \in Procs, tpr' = [tpr EXCEPT ![p] = tpr'[p]], tpr[p].pc # "close", tpr'[p].pc # "close"
  PROVE  CInv'
<1>1. \A m : ~Shuts(tpr[p], m) /\ ~Shuts(tpr'[p], m)
  BY DEF Shuts
<1>2. /\ incall' \in [Mods -> Nat] /\ stuck' \in [Mods -> Nat]
      /\ \A m \in Mods : incall'[m] # 0 => m \in loaded'
      /\ \A m \in Mods : incall[m] \in Nat /\ stuck[m] \in Nat
  BY DEF CInv
<1>3. \A m \in Mods : incall'[m] + (IF Shuts(tpr[p], m) THEN 1 ELSE 0) + stuck[m]
                       = incall[m] + (IF Shuts(tpr'[p], m) THEN 1 ELSE 0) + stuck'[m]
  BY <1>1, <1>2
<1> QED  BY <1>2, <1>3, ClosingMoves

LEMMA CallsStep ==
  ASSUME Tables!LinksAssumption, TInv, CInv, [Tables!Next]_(Tables!vars)
  PROVE  CInv'
<1>1. TTypes /\ InTables /\ OfStreams /\ AtStreams
  BY DEF TInv
<1>2. Tables!User.pc = "user" /\ \A p \in Procs : tpr[p] \in Doing
  BY <1>1 DEF TTypes, Tables!User
<1>3. ASSUME NEW m \in Mods, Tables!Load(m)
      PROVE  CInv'
  <2>1. tpr' = tpr /\ loaded' = loaded \cup {m} /\ UNCHANGED <<incall, stuck>>
    BY <1>3 DEF Tables!Load, Tables!Install, Tables!left
  <2> QED  BY <2>1 DEF CInv, Closing
<1>4. ASSUME NEW m \in Mods, Tables!Unload(m)
      PROVE  CInv'
  <2>1. tpr' = tpr /\ loaded' = loaded \ {m} /\ incall[m] = 0 /\ UNCHANGED <<incall, stuck>>
    BY <1>4 DEF Tables!Unload, Tables!left
  <2> QED  BY <2>1 DEF CInv, Closing
<1>5. ASSUME NEW m \in Mods, NEW mg \in Magics, NEW first \in BOOLEAN, Tables!Xreg(m, mg, first)
      PROVE  CInv'
  <2>1. UNCHANGED <<tpr, loaded, incall, stuck>>
    BY <1>5 DEF Tables!Xreg, Tables!core, Tables!left
  <2> QED  BY <2>1 DEF CInv, Closing
<1>6. ASSUME NEW p \in Procs, NEW r, tpr' = [tpr EXCEPT ![p] = r], r.pc # "close", tpr[p].pc # "close",
             UNCHANGED <<incall, stuck>>, loaded \subseteq loaded'
      PROVE  CInv'
  <2>1. tpr'[p] = r
    BY <1>1, <1>6 DEF TTypes
  <2> QED  BY <1>1, <1>6, <2>1, ClosesNot
<1>7. ASSUME NEW p \in Procs, NEW mg \in Magics, Tables!Exec(p, mg)
      PROVE  CInv'
  <2> DEFINE k == rows[Tables!Least(Tables!RowsOf(mg))].slot
             r == [Tables!User EXCEPT !.pc = IF k = 0 THEN "noexec" ELSE "found", !.slot = k, !.magic = mg, !.stock = k = 0]
  <2>1. r.pc # "close"
    BY DEF Tables!User
  <2>2. tpr' = [tpr EXCEPT ![p] = r] /\ tpr[p].pc # "close" /\ UNCHANGED <<loaded, incall, stuck>>
    BY <1>7 DEF Tables!Exec, Tables!To, Tables!core, Tables!left
  <2> HIDE DEF r
  <2> QED  BY <1>6, <2>1, <2>2
<1>8. ASSUME NEW p \in Procs, Tables!Xcall(p)
      PROVE  CInv'
  <2> DEFINE r == Tables!Runs(p, slots[tpr[p].slot].mod)
             d == Tables!Declines(p)
  <2>1. r.pc # "close" /\ d.pc # "close"
    BY <1>2 DEF Tables!Runs, Tables!Declines, Doing
  <2>2. /\ tpr' = [tpr EXCEPT ![p] = r] \/ tpr' = [tpr EXCEPT ![p] = d]
        /\ tpr[p].pc # "close" /\ UNCHANGED <<incall, stuck>> /\ loaded \subseteq loaded'
    BY <1>8 DEF Tables!Xcall, Tables!Install, Tables!To, Tables!core, Tables!left
  <2> QED  BY <1>6, <2>1, <2>2
<1>9. ASSUME NEW p \in Procs, Tables!XcallReturns(p)
      PROVE  CInv'
  <2> DEFINE d == Tables!Declines(p)
  <2>1. d.pc # "close"
    BY <1>2 DEF Tables!Declines, Doing
  <2>2. /\ tpr' = [tpr EXCEPT ![p] = Tables!User] \/ tpr' = [tpr EXCEPT ![p] = d]
        /\ tpr[p].pc # "close" /\ UNCHANGED <<loaded, incall, stuck>>
    BY <1>9 DEF Tables!XcallReturns, Tables!To, Tables!core, Tables!left
  <2> QED  BY <1>2, <1>6, <2>1, <2>2
<1>10. ASSUME NEW p \in Procs, Tables!Xnext(p)
       PROVE  CInv'
  <2>1. PICK d \in BOOLEAN : tpr' = [tpr EXCEPT ![p] = Tables!User]
                              \/ tpr' = [tpr EXCEPT ![p] = [tpr[p] EXCEPT !.pc = "noexec", !.stock = d]]
    <3> DEFINE S == Tables!NextRows(tpr[p].slot)
               d == S # {} /\ rows[Tables!Least(S)].slot = 0
    <3>1. \/ tpr' = [tpr EXCEPT ![p] = Tables!User]
          \/ tpr' = [tpr EXCEPT ![p] = [tpr[p] EXCEPT !.pc = "noexec", !.stock = d]]
      BY <1>10 DEF Tables!Xnext, Tables!To
    <3>2. d \in BOOLEAN
      OBVIOUS
    <3> HIDE DEF d
    <3> QED  BY <3>1, <3>2
  <2> DEFINE r == [tpr[p] EXCEPT !.pc = "noexec", !.stock = d]
  <2>2. r.pc # "close"
    BY <1>2 DEF Doing
  <2>3. tpr[p].pc # "close" /\ UNCHANGED <<loaded, incall, stuck>>
    BY <1>10 DEF Tables!Xnext, Tables!core, Tables!left
  <2> HIDE DEF r
  <2>4. tpr' = [tpr EXCEPT ![p] = Tables!User] \/ tpr' = [tpr EXCEPT ![p] = r]
    BY <2>1 DEF r
  <2> QED  BY <1>2, <1>6, <2>2, <2>3, <2>4
<1>11. ASSUME NEW p \in Procs, Tables!Enoexec(p) \/ Tables!StrOpens(p)
       PROVE  CInv'
  <2>1. tpr' = [tpr EXCEPT ![p] = Tables!User] /\ tpr[p].pc # "close" /\ UNCHANGED <<loaded, incall, stuck>>
    BY <1>11 DEF Tables!Enoexec, Tables!StrOpens, Tables!To, Tables!core, Tables!left
  <2> QED  BY <1>2, <1>6, <2>1
<1>12. ASSUME NEW p \in Procs, Tables!StrOpen(p)
       PROVE  CInv'
  <2> DEFINE r == [tpr[p] EXCEPT !.pc = "open", !.mod = frows[tpr[p].row].own]
  <2>1. r.pc # "close"
    BY <1>2 DEF Doing
  <2>2. /\ tpr' = [tpr EXCEPT ![p] = Tables!User] \/ tpr' = [tpr EXCEPT ![p] = r]
        /\ tpr[p].pc # "close" /\ UNCHANGED <<loaded, incall, stuck>>
    BY <1>12 DEF Tables!StrOpen, Tables!To, Tables!core, Tables!left
  <2> QED  BY <1>2, <1>6, <2>1, <2>2
<1>13. ASSUME NEW p \in Procs, NEW s \in Streams, (\E j \in DOMAIN frows : Tables!Push(p, s, j)) \/ Tables!Again(p, s)
       PROVE  CInv'
  <2>1. PICK j : tpr' = [tpr EXCEPT ![p] = [Tables!User EXCEPT !.pc = "found", !.s = s, !.row = j]]
    <3>1. CASE \E j \in DOMAIN frows : Tables!Push(p, s, j)
      BY <3>1 DEF Tables!Push, Tables!To
    <3>2. CASE Tables!Again(p, s)
      BY <3>2 DEF Tables!Again, Tables!To
    <3> QED  BY <1>13, <3>1, <3>2
  <2> DEFINE r == [Tables!User EXCEPT !.pc = "found", !.s = s, !.row = j]
  <2>2. r.pc # "close"
    BY DEF Tables!User
  <2>3. tpr[p].pc # "close" /\ UNCHANGED <<loaded, incall, stuck>>
    BY <1>13 DEF Tables!Push, Tables!Again, Tables!core, Tables!left
  <2> QED  BY <1>6, <2>1, <2>2, <2>3
<1>14. ASSUME NEW p \in Procs, NEW s \in Streams, Tables!StrClose(p, s)
       PROVE  CInv'
  <2> DEFINE m == frows[st[s].row].own
             r == [Tables!User EXCEPT !.pc = "close", !.s = s, !.mod = m]
  <2>1. tpr[p].pc = "user" /\ st[s].row # 0 /\ UNCHANGED <<loaded, stuck>>
    BY <1>14 DEF Tables!StrClose, Tables!left
  <2>2. CASE m = No
    <3>1. tpr' = tpr /\ incall' = incall
      BY <1>14, <2>2 DEF Tables!StrClose, No
    <3> QED  BY <2>1, <3>1 DEF CInv, Closing
  <2>3. CASE m # No
    <3>1. tpr' = [tpr EXCEPT ![p] = r] /\ incall' = [incall EXCEPT ![m] = @ + 1]
      BY <1>14, <2>3 DEF Tables!StrClose, Tables!To, No
    <3>2. m \in loaded /\ m \in Mods
      <4>1. st[s].row \in 1 .. Len(frows)
        BY <1>1, <2>1 DEF OfStreams
      <4> QED  BY <1>1, <2>3, <4>1 DEF InTables, TTypes
    <3> HIDE DEF m
    <3>3. r.pc = "close" /\ r.mod = m
      BY DEF Tables!User
    <3> HIDE DEF r
    <3>4. /\ incall' \in [Mods -> Nat] /\ stuck' \in [Mods -> Nat]
          /\ \A n \in Mods : incall'[n] # 0 => n \in loaded'
      BY <2>1, <3>1, <3>2 DEF CInv
    <3>5. ASSUME NEW n \in Mods
          PROVE  incall'[n] + (IF Shuts(tpr[p], n) THEN 1 ELSE 0) + stuck[n]
                 = incall[n] + (IF Shuts(r, n) THEN 1 ELSE 0) + stuck'[n]
      <4>1. ~Shuts(tpr[p], n) /\ (Shuts(r, n) <=> n = m)
        BY <2>1, <3>3 DEF Shuts
      <4>2. incall[n] \in Nat /\ stuck[n] \in Nat /\ incall'[n] = IF n = m THEN incall[n] + 1 ELSE incall[n]
        BY <3>1 DEF CInv
      <4> QED  BY <2>1, <4>1, <4>2
    <3> QED  BY <1>1, <3>1, <3>4, <3>5, ClosingMoves
  <2> QED  BY <2>2, <2>3
<1>15. ASSUME NEW p \in Procs, Tables!StrCloses(p) \/ Tables!StrCloseLeft(p)
       PROVE  CInv'
  <2> DEFINE m == tpr[p].mod
             r == Tables!User
  <2>1. tpr[p].pc = "close" /\ tpr' = [tpr EXCEPT ![p] = r] /\ loaded' = loaded
    BY <1>15 DEF Tables!StrCloses, Tables!StrCloseLeft, Tables!To
  <2>2. m \in Mods
    <3>1. AtStream(tpr[p], kind, frows, st)
      BY <1>1 DEF AtStreams
    <3> QED  BY <2>1, <3>1 DEF AtStream
  <2>3. p \in Closing(m) /\ Cardinality(Closing(m)) \in Nat /\ Cardinality(Closing(m)) # 0
    <3>1. p \in Closing(m)
      BY <2>1 DEF Closing, Shuts
    <3> QED  BY <3>1, TablesCounted, FS_EmptySet
  <2>4. incall[m] \in Nat /\ stuck[m] \in Nat /\ incall[m] # 0 /\ incall \in [Mods -> Nat] /\ stuck \in [Mods -> Nat]
        /\ incall[m] - 1 \in Nat
    <3>1. /\ incall[m] = Cardinality(Closing(m)) + stuck[m]
          /\ incall \in [Mods -> Nat] /\ stuck \in [Mods -> Nat]
      BY <2>2 DEF CInv
    <3> QED  BY <2>2, <2>3, <3>1
  <2>5. \/ incall' = [incall EXCEPT ![m] = @ - 1] /\ stuck' = stuck
        \/ incall' = incall /\ stuck' = [stuck EXCEPT ![m] = @ + 1]
    BY <1>15 DEF Tables!StrCloses, Tables!StrCloseLeft, Tables!left
  <2>6. \A n : ~Shuts(r, n) /\ (Shuts(tpr[p], n) <=> n = m)
    BY <1>2, <2>1 DEF Shuts
  <2> HIDE DEF m, r
  <2>7. incall' \in [Mods -> Nat] /\ stuck' \in [Mods -> Nat]
    BY <2>2, <2>4, <2>5
  <2>8. \A n \in Mods : incall'[n] # 0 => n \in loaded'
    BY <2>1, <2>2, <2>4, <2>5 DEF CInv
  <2>9. ASSUME NEW n \in Mods
        PROVE  incall'[n] + (IF Shuts(tpr[p], n) THEN 1 ELSE 0) + stuck[n]
               = incall[n] + (IF Shuts(r, n) THEN 1 ELSE 0) + stuck'[n]
    <3>1. /\ incall[n] \in Nat /\ stuck[n] \in Nat
          /\ \/ incall'[n] = (IF n = m THEN incall[n] - 1 ELSE incall[n]) /\ stuck'[n] = stuck[n]
             \/ incall'[n] = incall[n] /\ stuck'[n] = (IF n = m THEN stuck[n] + 1 ELSE stuck[n])
      BY <2>2, <2>4, <2>5
    <3> QED  BY <2>6, <3>1
  <2>10. tpr' = [tpr EXCEPT ![p] = tpr'[p]] /\ tpr'[p] = r
    BY <1>1, <2>1 DEF TTypes
  <2> QED  BY <1>1, <2>7, <2>8, <2>9, <2>10, ClosingMoves
<1>16. CASE UNCHANGED Tables!vars
  <2>1. UNCHANGED <<tpr, loaded, incall, stuck>>
    BY <1>16 DEF Tables!vars
  <2> QED  BY <2>1 DEF CInv, Closing
<1> QED  BY <1>3, <1>4, <1>5, <1>7, <1>8, <1>9, <1>10, <1>11, <1>12, <1>13, <1>14, <1>15, <1>16 DEF Tables!Next

LEMMA CallsInductive ==
  ASSUME Tables!LinksAssumption
  PROVE  Tables!Spec => []CInv
<1>1. Tables!Init => CInv
  <2> SUFFICES ASSUME Tables!Init
               PROVE  CInv
    OBVIOUS
  <2>1. /\ incall = [m \in Mods |-> 0] /\ stuck = [m \in Mods |-> 0] /\ \A p \in Procs : tpr[p].pc = "user"
    BY DEF Tables!Init, Tables!User
  <2>2. ASSUME NEW m \in Mods
        PROVE  Cardinality(Closing(m)) = 0
    <3>1. Closing(m) = {}
      BY <2>1 DEF Closing, Shuts
    <3> QED  BY <3>1, FS_EmptySet
  <2> QED  BY <2>1, <2>2 DEF CInv
<1>2. TInv /\ CInv /\ [Tables!Next]_(Tables!vars) => CInv'
  BY CallsStep
<1> QED  BY <1>1, <1>2, TablesInductive, PTL DEF Tables!Spec

(* Nobody runs in a module that is not loaded, and the module of an open stream
   whose q_ptr is set is loaded and still its row's. (dlm_str_open, dlm_str_close, xcall) *)
THEOREM TableRunsLoaded ==
  ASSUME Tables!LinksAssumption
  PROVE  Tables!Spec => []Tables!RunsLoaded
<1>1. TInv /\ CInv => Tables!RunsLoaded
  <2> SUFFICES ASSUME TInv, CInv
               PROVE  Tables!RunsLoaded
    OBVIOUS
  <2>1. TTypes /\ InTables /\ OfStreams /\ AtStreams /\ AtSlots /\ Tables!HoldsExact
    BY DEF TInv
  <2>2. ASSUME NEW p \in Procs, tpr[p].pc \in {"run", "open", "close"}
        PROVE  tpr[p].mod \in loaded
    <3>1. AtStream(tpr[p], kind, frows, st) /\ AtSlot(tpr[p], kind, slots)
      BY <2>1 DEF AtStreams, AtSlots
    <3>2. tpr[p].mod \in Mods
      BY <2>2, <3>1 DEF AtStream, AtSlot
    <3>3. CASE tpr[p].pc \in {"run", "open"}
      BY <2>1, <3>2, <3>3, Unheld DEF Works, InTables
    <3>4. CASE tpr[p].pc = "close"
      <4>1. p \in Closing(tpr[p].mod)
        BY <3>4 DEF Closing, Shuts
      <4>2. Cardinality(Closing(tpr[p].mod)) \in Nat /\ Cardinality(Closing(tpr[p].mod)) # 0
        BY <4>1, TablesCounted, FS_EmptySet
      <4>3. incall[tpr[p].mod] # 0
        BY <3>2, <4>2 DEF CInv
      <4> QED  BY <3>2, <4>3 DEF CInv
    <3> QED  BY <2>2, <3>3, <3>4
  <2>3. ASSUME NEW s \in Streams, st[s].had
        PROVE  st[s].mod \in loaded /\ frows[st[s].row].own = st[s].mod
    <3>1. st[s].mod \in Mods /\ frows[st[s].row].own = st[s].mod
      BY <2>1, <2>3 DEF OfStreams
    <3> QED  BY <2>1, <3>1, Unheld DEF InTables
  <2> QED  BY <2>2, <2>3 DEF Tables!RunsLoaded
<1> QED  BY <1>1, TablesInductive, CallsInductive, PTL

(* A module's holds are its open streams, the calls that run in it and what
   signals left of its closes. (dlm_str_open, dlm_str_close, xcall)        *)
THEOREM TableHoldsExact ==
  ASSUME Tables!LinksAssumption
  PROVE  Tables!Spec => []Tables!HoldsExact
<1>1. TInv => Tables!HoldsExact
  BY DEF TInv
<1> QED  BY <1>1, TablesInductive, PTL

(* A module's calls are its closes under way and those that signals left.
   (dlm_str_close)                                                         *)
THEOREM TableCallsExact ==
  ASSUME Tables!LinksAssumption
  PROVE  Tables!Spec => []Tables!CallsExact
<1>1. CInv => Tables!CallsExact
  BY TablesCount DEF CInv, Tables!CallsExact, Closing, Shuts
<1> QED  BY <1>1, CallsInductive, PTL

(* An image that nobody took has been shown to the stock row of its magic,
   wherever registrations have moved the rows. (xcall, xnext, dlm_xreg)    *)
THEOREM StockIsTried ==
  ASSUME Tables!LinksAssumption
  PROVE  Tables!Spec => []Tables!StockTried
<1>1. TInv => Tables!StockTried
  BY DEF TInv
<1> QED  BY <1>1, TablesInductive, PTL
=============================================================================
