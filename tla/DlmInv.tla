------------------------------- MODULE DlmInv -------------------------------
(***************************************************************************)
(* What the proofs of DlmProofs are made of: the inductive invariants of   *)
(* the loader's parts, and what their lemmas say of a step.                *)
(*                                                                         *)
(* The inductive invariant of DlmCore is Inv: the types, what each place   *)
(* in the code says of the process that is there (ProcOK), the order in    *)
(* which records are made and the place a load has in its dependencies     *)
(* (RecOK), and OwnMarked: whoever works on a record is alone with it and  *)
(* has it marked.  TransOwned, the converse, is not inductive without it:  *)
(* that a step settles or frees a record only when it was the owner        *)
(* follows from OwnMarked.  Kept carries all of it and the safety          *)
(* invariants that ride along (SlotOK, UniqueName).                        *)
(***************************************************************************)
EXTENDS DlmCore

(* What the pcs say of a process's own frames and arguments.               *)
Placed(p) ==
  /\ pr[p].pc \in {"open", "next", "image", "inload"} => pr[p].stk # <<>>
  /\ pr[p].pc \in {"enter", "woken", "alloc", "wait"} => pr[p].want \in Names
  /\ pr[p].pc \in {"failun", "failcl", "inunl"} => pr[p].cur \in Ids
  /\ pr[p].pc \in {"user", "sweep", "inunl", "stat", "ret"} => pr[p].stk = <<>>
  /\ \A i, j \in DOMAIN pr[p].stk : pr[p].stk[i] = pr[p].stk[j] => i = j
  /\ pr[p].pc \in {"failun", "failcl"} => pr[p].cur \notin Frames(p)
  /\ pr[p].pc = "alloc" => AllocSleeps
ProcOK == \A p \in Procs : Placed(p)

(* Records carry a name, are older than nextid and, while loading, keep a  *)
(* place in their dependencies.                                            *)
RecOK ==
  \A m \in list :
    /\ m < nextid /\ mod[m].name \in Names
    /\ mod[m].trans = "loading" => mod[m].at >= 1

Inv == TypeOK /\ ProcOK /\ RecOK /\ OwnMarked

(* A module that settled was let into every entry it fills.                *)
Allowed ==
  \A m \in list : mod[m].trans # "loading" =>
    \A k \in Links[mod[m].name] : mod[m].name \in Owners[k]
SlotOK == SlotLive /\ Allowed /\ InService

(* What a step keeps; all of it but the owners of marked records survives  *)
(* the interruption of the _unload or the close that undoes a load.        *)
SafeKept ==
  /\ SlotOK => SlotOK'
  /\ UniqueName /\ ~AllocSleeps => UniqueName'
Kept == Inv' /\ SafeKept /\ (AllOwned => AllOwned')

-----------------------------------------------------------------------------
SameMarks(f, g) ==
  /\ g \in [Ids -> ModRec]
  /\ \A m \in Ids : /\ g[m].name = f[m].name /\ g[m].trans = f[m].trans
                   /\ g[m].owner = f[m].owner /\ g[m].at >= f[m].at

-----------------------------------------------------------------------------
WokenOrSame(q) ==
  \/ pr'[q] = pr[q]
  \/ pr[q].pc = "wait" /\ pr'[q] = [pr[q] EXCEPT !.pc = "woken", !.cur = 0]

-----------------------------------------------------------------------------
FlagSets == SUBSET {"DEMAND", "CAND", "WANTED"}
TransSet == {"no", "loading", "unloading"}
OwnerSet == Procs \cup {NoProc}
Remark(x, fl, tr, ow) == [x EXCEPT !.flags = fl, !.trans = tr, !.owner = ow]

-----------------------------------------------------------------------------
(* With no shared hooks, a step sets panic only in the sight of a second   *)
(* record of a name, and nothing runs after it.                            *)
TwinIfPanic == panic => ~UniqueName

-----------------------------------------------------------------------------
(***************************************************************************)
(* The counts, the candidates and the credentials.  What one step needs of *)
(* the records is Counts, stated of a list L and of records f so that the  *)
(* two halves of a step that settles a record and then takes it as a       *)
(* dependency can be proved one after the other; what it needs of a        *)
(* process is CredOK.                                                      *)
(***************************************************************************)
(* The dependencies on r of the records f on the list L.                   *)
Uses(L, f, r) ==
  UNION {{<<m, i>> : i \in {j \in DOMAIN f[m].dep : f[m].dep[j] = r}} : m \in L}

(* Nothing holds or depends on a record in a transition; every dependency  *)
(* is listed and settled and counted; nothing off the list is counted.     *)
Quiet(L, f) == \A m \in L : f[m].trans # "no" => f[m].refs = 0 /\ f[m].deps = 0
Cand(L, f) == \A m \in Ids : "CAND" \in f[m].flags =>
                m \in L /\ f[m].refs = 0 /\ f[m].deps = 0
Alive(L, f) ==
  \A m \in L : \A i \in DOMAIN f[m].dep :
    f[m].dep[i] \in L /\ f[f[m].dep[i]].trans = "no"
Counted(L, f) ==
  \A r \in L : IsFiniteSet(Uses(L, f, r)) /\ f[r].deps = Cardinality(Uses(L, f, r))
Off(L, f) == \A m \in Ids \ L : f[m].deps = 0
Counts(L, f) == Quiet(L, f) /\ Cand(L, f) /\ Alive(L, f) /\ Counted(L, f) /\ Off(L, f)

(* What dlm_depadd writes, field by field.                                 *)
Depended(f, parent, m, g) ==
  \A o \in Ids :
    /\ g[o].refs = f[o].refs /\ g[o].trans = f[o].trans
    /\ g[o].name = f[o].name /\ g[o].at = f[o].at /\ g[o].saved = f[o].saved
    /\ g[o].deps = IF o = m THEN f[m].deps + 1 ELSE f[o].deps
    /\ g[o].dep = IF o = parent THEN Append(f[parent].dep, m) ELSE f[o].dep
    /\ g[o].flags = IF o = m THEN f[m].flags \ {"CAND"} ELSE f[o].flags

(* What freemod writes, field by field.                                    *)
Freed(m, g) ==
  /\ g[m] = NoRec
  /\ \A r \in Ids \ {m} :
       /\ g[r].refs = mod[r].refs /\ g[r].trans = mod[r].trans
       /\ g[r].name = mod[r].name /\ g[r].at = mod[r].at
       /\ g[r].saved = mod[r].saved /\ g[r].dep = mod[r].dep
       /\ g[r].deps = IF mod[r].deps > TimesIn(m, r) THEN mod[r].deps - TimesIn(m, r) ELSE 0
       /\ "CAND" \in g[r].flags =>
            \/ "CAND" \in mod[r].flags
            \/ mod[r].deps \in 1 .. TimesIn(m, r) /\ mod[r].refs = 0

-----------------------------------------------------------------------------
(* What each step does to the records and to its process.                  *)

(* A record keeps all that counts and the registry read.                   *)
Keeps(f, g, o) ==
  /\ g[o].name = f[o].name /\ g[o].trans = f[o].trans /\ g[o].refs = f[o].refs
  /\ g[o].deps = f[o].deps /\ g[o].dep = f[o].dep /\ g[o].at = f[o].at
  /\ g[o].saved = f[o].saved /\ ("CAND" \in g[o].flags => "CAND" \in f[o].flags)
Same(f, g) == \A o \in Ids : Keeps(f, g, o)
SameBut(f, g, m) == \A o \in Ids \ {m} : Keeps(f, g, o)

(* Only p moves, and those it wakes.                                       *)
OnlyMoves(p) == \A q \in Procs \ {p} : WokenOrSame(q)

Asks == {"enter", "woken", "wait", "alloc"}

(* p is closing the file of a load that failed neither before nor after.   *)
NotShutting(p) == pr[p].pc # "failcl" /\ pr'[p].pc # "failcl"

(* A step of p that changes no record: it is between calls, or it gives a  *)
(* load up, or it goes on asking for the same name, or it has opened the   *)
(* file.                                                                   *)
Quietly(p) ==
  /\ list' = list /\ Same(mod, mod') /\ OnlyMoves(p) /\ NotShutting(p)
  /\ pr'[p].stk = pr[p].stk /\ pr'[p].cred = pr[p].cred
  /\ pr[p].stk # <<>> =>
       /\ pr'[p].op = pr[p].op
       /\ \/ pr'[p].pc = "fail"
          \/ /\ pr[p].pc \in Asks /\ pr'[p].pc \in Asks
             /\ pr'[p].want = pr[p].want
          \/ pr[p].pc = "open" /\ pr'[p].pc = "next"

(* A signal takes p out of the close that undoes a load.                   *)
Leaves(p) ==
  /\ list' = list /\ Same(mod, mod') /\ OnlyMoves(p)
  /\ pr[p].pc = "failcl" /\ "failcl" \in Intr
  /\ pr'[p].pc = "fail" \/ (pr'[p].pc = "ret" /\ pr'[p].stk = <<>>)

(* p asks for its next dependency, passes over a static one, or has all.   *)
Steps(p) ==
  LET m == Head(pr[p].stk)
      d == Depends[mod[m].name]
  IN  /\ list' = list /\ OnlyMoves(p) /\ m \in list /\ SameBut(mod, mod', m)
      /\ pr[p].pc = "next" /\ pr'[p].stk = pr[p].stk
      /\ pr'[p].cred = pr[p].cred /\ pr'[p].op = pr[p].op
      /\ mod'[m].name = mod[m].name /\ mod'[m].trans = mod[m].trans
      /\ mod'[m].refs = mod[m].refs /\ mod'[m].deps = mod[m].deps
      /\ mod'[m].dep = mod[m].dep /\ mod'[m].saved = mod[m].saved
      /\ ("CAND" \in mod'[m].flags => "CAND" \in mod[m].flags)
      /\ \/ mod'[m].at = mod[m].at /\ mod[m].at > Len(d) /\ pr'[p].pc = "image"
         \/ /\ mod'[m].at = mod[m].at + 1
            /\ \/ d[mod[m].at] \in Static /\ pr'[p].pc = "next"
               \/ pr'[p].pc = "enter" /\ pr'[p].want = d[mod[m].at]

(* p's load takes a settled record of the name it asked for.               *)
Takes(p, m) ==
  /\ list' = list /\ OnlyMoves(p) /\ m \in list /\ mod[m].trans = "no"
  /\ mod[m].name = pr[p].want /\ pr[p].pc \in {"enter", "woken"}
  /\ mod' = DepAdd(mod, Head(pr[p].stk), m)
  /\ pr'[p].stk = pr[p].stk /\ pr'[p].cred = pr[p].cred /\ pr'[p].op = pr[p].op
  /\ pr'[p].pc = "next"

(* p starts a load: a new record and a new frame.                          *)
Begins(p) ==
  /\ OnlyMoves(p) /\ nextid \in Ids \ list /\ list' = list \cup {nextid}
  /\ \A o \in Ids \ {nextid} : mod'[o] = mod[o]
  /\ mod'[nextid].name = pr[p].want /\ mod'[nextid].trans = "loading"
  /\ mod'[nextid].dep = <<>> /\ mod'[nextid].at = 1
  /\ mod'[nextid].refs = 0 /\ mod'[nextid].deps = 0
  /\ "CAND" \notin mod'[nextid].flags
  /\ mod'[nextid].saved = (IF IsSys(p) THEN pr[p].cred ELSE "none")
  /\ pr[p].pc \in Asks /\ pr'[p].pc = "open" /\ pr'[p].op = pr[p].op
  /\ pr'[p].stk = <<nextid>> \o pr[p].stk
  /\ pr'[p].cred = (IF IsSys(p) THEN "sys" ELSE pr[p].cred)

(* p closes the file of its innermost load and calls _load.                *)
Closes(p) ==
  LET m == Head(pr[p].stk)
  IN  /\ list' = list /\ OnlyMoves(p) /\ m \in list /\ SameBut(mod, mod', m)
      /\ mod'[m].name = mod[m].name /\ mod'[m].trans = mod[m].trans
      /\ mod'[m].refs = mod[m].refs /\ mod'[m].deps = mod[m].deps
      /\ mod'[m].dep = mod[m].dep /\ mod'[m].at = mod[m].at
      /\ ("CAND" \in mod'[m].flags => "CAND" \in mod[m].flags)
      /\ mod'[m].saved = "none" /\ pr'[p].cred = Restored(p, m)
      /\ pr[p].pc = "image" /\ pr'[p].pc = "inload"
      /\ pr'[p].stk = pr[p].stk /\ pr'[p].op = pr[p].op

(* The innermost load of p settles; f is the records before the load below *)
(* it takes the settled one as a dependency.                               *)
Settles(p, f) ==
  LET m == Head(pr[p].stk)
      s == Tail(pr[p].stk)
  IN  /\ list' = list /\ OnlyMoves(p) /\ m \in list /\ mod[m].trans = "loading"
      /\ f \in [Ids -> ModRec] /\ SameBut(mod, f, m)
      /\ f[m].name = mod[m].name /\ f[m].trans = "no"
      /\ f[m].refs = mod[m].refs /\ f[m].deps = mod[m].deps
      /\ f[m].dep = mod[m].dep /\ f[m].saved = mod[m].saved
      /\ ("CAND" \in f[m].flags => "CAND" \in mod[m].flags)
      /\ mod' = Taken(f, s, m) /\ s \in Seq(Ids)
      /\ pr[p].pc = "inload" /\ pr'[p].pc = (IF s = <<>> THEN "ret" ELSE "next")
      /\ pr'[p].stk = s /\ pr'[p].op = pr[p].op /\ pr'[p].cred = pr[p].cred

(* p frees a record it was loading or unloading.                           *)
Frees(p, m) ==
  /\ FreeMod(m) /\ m \in list /\ m \in Ids /\ OnlyMoves(p)
  /\ \/ /\ pr[p].pc = "fail" /\ pr'[p].pc = "fail" /\ mod[m].trans = "loading"
        /\ pr[p].stk # <<>> /\ m = Head(pr[p].stk) /\ pr'[p].stk = Tail(pr[p].stk)
        /\ pr'[p].op = pr[p].op /\ pr'[p].cred = Restored(p, m)
     \/ /\ pr[p].pc = "failun" /\ pr'[p].pc = "fail" /\ mod[m].trans = "loading"
        /\ m = pr[p].cur /\ m \notin Frames(p) /\ pr'[p].stk = pr[p].stk
        /\ pr'[p].op = pr[p].op /\ pr'[p].cred = pr[p].cred
     \/ /\ pr[p].pc = "failcl" /\ pr'[p].pc = "fail" /\ mod[m].trans = "loading"
        /\ m = pr[p].cur /\ m \notin Frames(p) /\ pr'[p].stk = pr[p].stk
        /\ pr'[p].op = pr[p].op /\ pr'[p].cred = Restored(p, m)
     \/ /\ mod[m].trans = "unloading" /\ pr[p].stk = <<>> /\ NotShutting(p)
        /\ pr'[p].stk = <<>> /\ pr'[p].cred = pr[p].cred

(* link_install refused, or the file of a load that failed is to be        *)
(* closed: the frame goes, the record stays for now.                       *)
Pops(p) ==
  /\ list' = list /\ mod' = mod /\ OnlyMoves(p)
  /\ \/ pr[p].pc = "inload" /\ pr'[p].pc = "failun"
     \/ pr[p].pc = "fail" /\ pr'[p].pc = "failcl" /\ pr'[p].cur = Head(pr[p].stk)
  /\ pr'[p].stk = Tail(pr[p].stk)
  /\ pr'[p].op = pr[p].op /\ pr'[p].cred = pr[p].cred

(* p marks an idle record for its _unload.                                 *)
Marks(p, m) ==
  /\ list' = list /\ OnlyMoves(p) /\ SameBut(mod, mod', m)
  /\ m \in list /\ mod[m].trans = "no" /\ mod[m].refs = 0 /\ mod[m].deps = 0
  /\ mod'[m].name = mod[m].name /\ mod'[m].trans = "unloading"
  /\ mod'[m].refs = 0 /\ mod'[m].deps = 0 /\ mod'[m].dep = mod[m].dep
  /\ mod'[m].saved = mod[m].saved /\ ("CAND" \in mod'[m].flags => "CAND" \in mod[m].flags)
  /\ pr[p].stk = <<>> /\ pr'[p].stk = <<>> /\ pr'[p].cred = pr[p].cred
  /\ NotShutting(p)

(* p settles the record whose _unload failed.                              *)
Unmarks(p, m) ==
  /\ list' = list /\ OnlyMoves(p) /\ SameBut(mod, mod', m)
  /\ m \in list /\ mod[m].trans = "unloading"
  /\ mod'[m].name = mod[m].name /\ mod'[m].trans = "no"
  /\ mod'[m].refs = mod[m].refs /\ mod'[m].deps = mod[m].deps
  /\ mod'[m].dep = mod[m].dep /\ mod'[m].saved = mod[m].saved
  /\ ("CAND" \in mod'[m].flags => "CAND" \in mod[m].flags)
  /\ pr[p].stk = <<>> /\ pr'[p].stk = <<>> /\ pr'[p].cred = pr[p].cred
  /\ NotShutting(p)

(* A module's hold count goes up or down by one.                           *)
Holds(m) ==
  /\ list' = list /\ pr' = pr /\ SameBut(mod, mod', m)
  /\ m \in list /\ mod[m].trans = "no"
  /\ mod'[m].name = mod[m].name /\ mod'[m].trans = "no"
  /\ mod'[m].deps = mod[m].deps /\ mod'[m].dep = mod[m].dep
  /\ mod'[m].saved = mod[m].saved
  /\ \/ mod'[m].refs = mod[m].refs + 1 /\ "CAND" \notin mod'[m].flags
     \/ /\ mod[m].refs > 0 /\ mod'[m].refs = mod[m].refs - 1
        /\ "CAND" \in mod'[m].flags =>
             \/ "CAND" \in mod[m].flags
             \/ mod'[m].refs = 0 /\ mod'[m].deps = 0

(* A step of p, by what it does.                                           *)
Acts(p) ==
  \/ Quietly(p) \/ Leaves(p) \/ Begins(p)
  \/ \E m \in Ids : Frees(p, m) \/ Marks(p, m) \/ Unmarks(p, m)
  \/ /\ pr[p].stk # <<>>
     /\ \/ Steps(p) \/ Closes(p) \/ Pops(p)
        \/ (\E f : Settles(p, f)) \/ (\E m \in Ids : Takes(p, m))

-----------------------------------------------------------------------------
(* The credentials.                                                        *)

(* Of the n loads of a call, innermost first: what the process had when    *)
(* load i began (modload's own load is made with the caller's), and what   *)
(* the load keeps until its file is closed.                                *)
Before(op, n, i) ==
  IF i = n \/ (i = n - 1 /\ op = "modload") THEN "user" ELSE "sys"
Saves(op, n, i) == IF i = n /\ op = "modload" THEN "none" ELSE Before(op, n, i)

(* Only the innermost load may have closed its file.                       *)
CredOK(q, f) ==
  LET n == Len(q.stk)
  IN  /\ \A i \in 1 .. n :
           \/ f[q.stk[i]].saved = Saves(q.op, n, i)
           \/ i = 1 /\ q.pc \in {"inload", "fail"} /\ f[q.stk[1]].saved = "none"
      /\ n > 0 /\ q.pc = "inload" => f[q.stk[1]].saved = "none"
      /\ q.cred = IF n = 0 THEN "user"
                  ELSE IF f[q.stk[1]].saved = "none" THEN Before(q.op, n, 1) ELSE "sys"

(* A process that is closing the file of a load that failed, as if the     *)
(* load's frame were on the chain still: its credentials come back when    *)
(* the file is closed.                                                     *)
Chained(q) ==
  IF q.pc = "failcl" THEN [q EXCEPT !.pc = "fail", !.stk = <<q.cur>> \o q.stk] ELSE q
Creds == \A p \in Procs : CredOK(Chained(pr[p]), mod)

(* What p's step writes of the credentials and of the places that records  *)
(* keep: at most those of one record, in no other process's frames.        *)
Apart(p, m) ==
  /\ \A o \in Ids \ {m} : mod'[o].saved = mod[o].saved /\ mod'[o].at = mod[o].at
  /\ \A q \in Procs \ {p} : \A i \in 1 .. Len(pr[q].stk) : pr[q].stk[i] # m
  /\ \A q \in Procs \ {p} : pr[q].pc = "failcl" => pr[q].cur # m

-----------------------------------------------------------------------------
(***************************************************************************)
(* The loader implements the registry, for any constants with which        *)
(* UniqueName holds.  The registry loads a name only when its dependencies *)
(* are loaded, so the invariant Gains says how far each load has come:     *)
(* what dlm_load has asked for below the place lf's frame keeps is there.  *)
(***************************************************************************)

(* Record m depends on a record named d.                                   *)
Has(f, m, d) == \E i \in DOMAIN f[m].dep : f[f[m].dep[i]].name = d

(* The dependency load i of a call waits for: the one the load above it is *)
(* loading, or for the innermost load the one it is asking for.            *)
Awaits(f, q, i) ==
  IF i > 1 THEN f[q.stk[i - 1]].name
  ELSE IF q.pc \in Asks THEN q.want ELSE NoName

(* Load i has every dependency before its place, but for the one it waits  *)
(* for.                                                                    *)
Reached(f, q, i) ==
  LET m == q.stk[i]
      d == Depends[f[m].name]
  IN  \A j \in DOMAIN d :
        j < f[m].at =>
          \/ d[j] \in Static \/ Has(f, m, d[j])
          \/ j = f[m].at - 1 /\ d[j] = Awaits(f, q, i)

GoingOn == Asks \cup {"open", "next", "image", "inload"}
Gained(f, q) ==
  q.pc \in GoingOn =>
    /\ \A i \in 1 .. Len(q.stk) : Reached(f, q, i)
    /\ q.pc \in {"image", "inload"} => f[q.stk[1]].at > Len(Depends[f[q.stk[1]].name])

(* A record that is loaded has all its dependencies.                       *)
Complete(f, m) ==
  \A j \in DOMAIN Depends[f[m].name] :
    Depends[f[m].name][j] \in Static \/ Has(f, m, Depends[f[m].name][j])
Closed(L, f) == \A m \in L : f[m].trans # "loading" => Complete(f, m)

Gains == Closed(list, mod) /\ \A p \in Procs : Gained(mod, pr[p])

-----------------------------------------------------------------------------
(* What every step remembers of the records that stay: their names and     *)
(* what they depend on.                                                    *)
Remembers ==
  \A m \in list \cap list' :
    mod'[m].name = mod[m].name /\ \A d : Has(mod, m, d) => Has(mod', m, d)

-----------------------------------------------------------------------------
(* What the registry shows of a list L of records f.                       *)
NamedIn(L, f, n) == {m \in L : f[m].name = n}
LoadedIn(L, f) == {f[m].name : m \in {o \in L : f[o].trans # "loading"}}
HeldIn(L, f, n) ==
  IF \E m \in L : f[m].name = n
  THEN f[CHOOSE m \in NamedIn(L, f, n) : \A o \in NamedIn(L, f, n) : m <= o].refs
  ELSE 0
Held(L, f) == [n \in Names |-> HeldIn(L, f, n)]
Unique(L, f) == \A m, o \in L : f[m].name = f[o].name => m = o

-----------------------------------------------------------------------------
(* Each step of the loader is a step of the registry, or shows nothing.    *)
RegistryStep ==
  \/ \E n \in Names : Registry!Load(n) \/ Registry!Unload(n)
                        \/ Registry!Hold(n) \/ Registry!Rele(n)
  \/ UNCHANGED <<LoadedNames, [n \in Names |-> RefsOf(n)]>>

-----------------------------------------------------------------------------
(***************************************************************************)
(* Opens and closes (DlmOpen): for any processes, keys and bounds, a       *)
(* module that is used stays loaded, and every hold has its reason.        *)
(*                                                                         *)
(* The two need each other.  A close with no module would lose a layered   *)
(* open's hold from the count, so HoldsExact rests on UsedLoaded; and that *)
(* moduload's test of m_refs and m_incall is enough rests on HoldsExact,   *)
(* with what the count leaves out: an open device has its key in cs_set or *)
(* a hold that stays for good (KeysOK), nobody opens what another closes   *)
(* (KeysOK), each close under way is in m_incall (CallsOK), and one        *)
(* process at a time loads or unloads (LoaderOK).                          *)
(***************************************************************************)
CONSTANTS Devs, Layered, Streams, Images, NOpen, NoKey, MaxOpens, MaxLost, CloseSleeps
VARIABLES st, linked, refs, incall, set, good, opens, left, opr
Open == INSTANCE DlmOpen WITH pr <- opr

Pcs == {"user", "load", "loading", "open", "close", "unload"}
Rec == [pc: Pcs, key: Open!Keys \cup {NoKey}]
Plain == Devs \cup Streams

LoaderOK ==
  /\ linked <=> st = "loaded"
  /\ \A p \in Procs : /\ opr[p].pc = "loading" => st = "loading"
                      /\ opr[p].pc = "unload" => st = "unloading"
  /\ \A p, q \in Procs :
       opr[p].pc \in {"loading", "unload"} /\ opr[q].pc \in {"loading", "unload"} => p = q

KeysOK ==
  /\ \A p \in Procs : /\ opr[p].pc \in {"user", "unload"} => opr[p].key = NoKey
                      /\ opr[p].pc \notin {"user", "unload"} => opr[p].key \in Open!Keys
                      /\ opr[p].pc = "close" => opr[p].key \notin Images
                      /\ opr[p].pc = "close" /\ opr[p].key \in Plain => opens[opr[p].key] = 0
  /\ \A p, q \in Procs :
       opr[p].pc = "close" /\ opr[p].key \in Plain /\ opr[q].key = opr[p].key => p = q
  /\ \A k \in Images : opens[k] = 0
  /\ \A k \in Plain : opens[k] > 0 => k \in set \/ good > 0

CallsOK == incall >= Cardinality(Open!At("close"))

OInv == Open!TypeOK /\ LoaderOK /\ KeysOK /\ CallsOK /\ Open!HoldsExact /\ Open!UsedLoaded

(***************************************************************************)
(* Counting                                                                *)
(***************************************************************************)
One(b) == IF b THEN 1 ELSE 0

Opened == Cardinality(Open!At("open"))
DevClosed == Cardinality(Open!At("close"))

(* p goes to c with the key k; the others stay.                            *)
Becomes(p, c, k) ==
  /\ opr \in [Procs -> Rec] /\ opr' \in [Procs -> Rec]
  /\ opr'[p].pc = c /\ opr'[p].key = k
  /\ \A q \in Procs : q # p => opr'[q] = opr[q]

(* What that does to the counts.                                           *)
Tallied(p, c, k) ==
  /\ Opened \in Nat /\ Opened' \in Nat
  /\ Opened' = Opened + One(c = "open") - One(opr[p].pc = "open")
  /\ DevClosed \in Nat /\ DevClosed' \in Nat
  /\ DevClosed' = DevClosed + One(c = "close") - One(opr[p].pc = "close")
  /\ Open!Closing(Layered) \in Nat /\ Open!Closing(Layered)' \in Nat
  /\ Open!Closing(Layered)' = Open!Closing(Layered) + One(c = "close" /\ k = Layered)
                         - One(opr[p].pc = "close" /\ opr[p].key = Layered)

(***************************************************************************)
(* Without a close that a signal left                                      *)
(***************************************************************************)
NoneLeft == \A k \in Open!Keys : left[k] = 0
CallsExact == NoneLeft => incall = DevClosed

-----------------------------------------------------------------------------
(***************************************************************************)
(* Registration (DlmRegister), for any modules, majors and spare rows: a   *)
(* slot that was given is reached by its major, and no other registration  *)
(* takes it back.                                                          *)
(***************************************************************************)
CONSTANTS Exts, NoExt, OwnMajors, NSpare, SdSlots, Requests, Driver
VARIABLES ext, cs, sd, rpr
Reg == INSTANCE DlmRegister WITH pr <- rpr, Static <- OwnMajors, Asks <- Requests

(* No major is asked for by a character and by a STREAMS driver. Else a    *)
(* call that lost a race takes back a row in use (dlm_asv.c:11).           *)
OneKind == \A n, m \in Names, e \in Exts : ~(<<"cdev", n, e>> \in Requests /\ <<"sdev", m, e>> \in Requests)

CSlots ==
  \A r \in Reg!Rows :
    /\ cs[r].name = NoName => cs[r].mod = NoName
    /\ cs[r].name # NoName => <<"cdev", cs[r].name, cs[r].for>> \in Requests /\ ext[r] = cs[r].for
    /\ cs[r].mod # NoName => cs[r].mod = cs[r].name /\ ext[r] = Driver[cs[r].mod][2]
SSlots ==
  \A k \in SdSlots :
    /\ sd[k].name = NoName => sd[k].mod = NoName
    /\ sd[k].name # NoName => /\ <<"sdev", sd[k].name, sd[k].for>> \in Requests
                              /\ sd[k].row \in Reg!Rows /\ ext[sd[k].row] = sd[k].for
    /\ sd[k].mod # NoName => sd[k].mod = sd[k].name /\ ext[sd[k].row] = Driver[sd[k].mod][2]
Sleepers ==
  \A p \in Procs : rpr[p].pc = "alloc" =>
    <<"cdev", rpr[p].name, rpr[p].for>> \in Requests /\ rpr[p].row \in Reg!Rows /\ ext[rpr[p].row] = rpr[p].for
RowsApart == \A r, q \in Reg!Rows : ext[r] # NoExt /\ ext[q] = ext[r] => r = q
RInv == Reg!TypeOK /\ CSlots /\ SSlots /\ Sleepers /\ RowsApart /\ Reg!RowsUsed

(* What every step does to the rows and the names: only a free row changes, *)
(* and only an empty row gets a slot.                                      *)
RowsGrow ==
  /\ \A r \in Reg!Rows : ext[r] # NoExt => ext'[r] = ext[r]
  /\ \A r \in Reg!Rows : cs[r].name # NoName => cs'[r].name = cs[r].name /\ cs'[r].for = cs[r].for
  /\ \A k \in SdSlots : sd[k].name # NoName =>
       sd'[k].name = sd[k].name /\ sd'[k].for = sd[k].for /\ sd'[k].row = sd[k].row

(* The linkages: only the modules of slots change.                         *)
Relinked ==
  /\ ext' = ext /\ rpr' = rpr
  /\ cs' \in [Reg!Rows -> Reg!CSlot] /\ sd' \in [SdSlots -> Reg!SSlot]
  /\ \A r \in Reg!Rows : cs'[r].name = cs[r].name /\ cs'[r].for = cs[r].for
  /\ \A k \in SdSlots : sd'[k].name = sd[k].name /\ sd'[k].for = sd[k].for /\ sd'[k].row = sd[k].row
  /\ \A r \in Reg!Rows :
       \/ cs'[r].mod \in {cs[r].mod, NoName}
       \/ cs[r].name # NoName /\ cs'[r].mod = cs[r].name /\ ext[r] = Driver[cs[r].name][2]
  /\ \A k \in SdSlots :
       \/ sd'[k].mod \in {sd[k].mod, NoName}
       \/ sd[k].name # NoName /\ sd'[k].mod = sd[k].name /\ ext[sd[k].row] = Driver[sd[k].name][2]

-----------------------------------------------------------------------------
(***************************************************************************)
(* The other two tables (DlmLinks), for any modules, magics, streams and   *)
(* bounds: nobody runs in a module that is gone, every hold has its        *)
(* reason, and an image nobody took was shown to the stock row.            *)
(*                                                                         *)
(* A module may go when nothing holds it, so that what runs is loaded      *)
(* rests on the count, and the count on a stream's module staying its      *)
(* row's (OfStreams). RowsOrder says where dlm_xreg leaves the rows: one   *)
(* of each slot, before every other of its magic; so behind the slot's row *)
(* the next of the magic is a stock one, however far it was moved.         *)
(***************************************************************************)
CONSTANTS Kinds, Mods, StrName, Magics, Stock, Slots, Reserve, MaxLoads
VARIABLES kind, loaded, stays, stuck, rows, slots, frows, tpr, loads
Tables == INSTANCE DlmLinks WITH pr <- tpr

No == Tables!None
Doing == [pc: {"user", "run", "xnext", "noexec", "found", "open", "close"}, slot: 0 .. Slots, magic: Magics \cup {No},
          mod: Mods \cup {No}, s: Streams \cup {No}, row: Nat, stock: BOOLEAN]
ExecRow == [magic: Magics, slot: 0 .. Slots]
StrRow == [name: {StrName[m] : m \in Mods}, own: Mods \cup {No}]
Slot == [mod: Mods \cup {No}, magic: Magics \cup {No}, first: BOOLEAN, on: BOOLEAN]
Stream == [row: Nat, mod: Mods \cup {No}, had: BOOLEAN]
TTypes ==
  /\ loaded \subseteq Mods /\ refs \in [Mods -> Nat] /\ stays \in [Mods -> Nat] /\ rows \in Seq(ExecRow) /\ frows \in Seq(StrRow)
  /\ slots \in [1 .. Slots -> Slot] /\ st \in [Streams -> Stream] /\ tpr \in [Procs -> Doing]

(* What a table has is loaded, and so is what is held                      *)
InTables ==
  /\ \A k \in 1 .. Slots : slots[k].on => slots[k].mod \in loaded
  /\ \A j \in 1 .. Len(frows) : frows[j].own # No => frows[j].own \in loaded
  /\ \A m \in Mods : refs[m] # 0 => m \in loaded

(* A stream that was pushed has its module's row; one process is at it     *)
OfStreams ==
  \A s \in Streams :
    /\ st[s].row = 0 => st[s].mod = No /\ ~st[s].had
    /\ st[s].row # 0 => st[s].row \in 1 .. Len(frows)
    /\ st[s].had => st[s].mod \in Mods /\ frows[st[s].row].own = st[s].mod
    /\ ~st[s].had => st[s].mod = No
AtStream(r, kd, fr, x) ==
  /\ r.pc \in {"open", "close"} => r.s \in Streams /\ r.mod \in Mods
  /\ r.pc = "found" /\ kd = "str" => r.s \in Streams
  /\ r.pc = "open" => fr[r.row].own = r.mod
  /\ r.pc = "open" \/ (r.pc = "found" /\ kd = "str") =>
       r.row \in 1 .. Len(fr) /\ (x[r.s].row # 0 => x[r.s].row = r.row)
  /\ r.pc = "close" => x[r.s].row # 0 /\ (x[r.s].had => x[r.s].mod = r.mod)
  /\ r.pc \in {"open", "close"} \/ (r.pc = "found" /\ kd = "str") \/ r.s = No
AtStreams ==
  /\ \A p \in Procs : AtStream(tpr[p], kind, frows, st)
  /\ \A p, q \in Procs : tpr[p].s # No /\ tpr[p].s = tpr[q].s => p = q

(* exec(2) is at a slot's row, of the image's magic                        *)
AtSlot(r, kd, sl) ==
  /\ (r.pc = "found" /\ kd = "exec") \/ r.pc \in {"run", "xnext"} =>
       r.slot \in 1 .. Slots /\ sl[r.slot].mod \in Mods /\ sl[r.slot].magic = r.magic
  /\ r.pc = "run" => r.mod \in Mods
  /\ r.pc = "xnext" => sl[r.slot].first
AtSlots == \A p \in Procs : AtSlot(tpr[p], kind, slots)
OfStock(mg) == \E i \in 1 .. Len(Stock) : Stock[i] = mg
RowsOrder ==
  /\ \A k \in 1 .. Slots : slots[k].mod # No =>
       /\ slots[k].magic \in Magics /\ (~slots[k].first => ~OfStock(slots[k].magic))
       /\ \E i \in 1 .. Len(rows) : rows[i].slot = k
  /\ \A k \in 1 .. Slots : slots[k].mod = No => ~slots[k].on
  /\ \A i \in 1 .. Len(rows) : rows[i].slot # 0 =>
       /\ slots[rows[i].slot].mod # No /\ slots[rows[i].slot].magic = rows[i].magic
       /\ \A j \in 1 .. Len(rows) : j # i /\ rows[j].magic = rows[i].magic => i < j /\ rows[j].slot = 0
  /\ \A mg \in Magics : OfStock(mg) => \E i \in 1 .. Len(rows) : rows[i].magic = mg /\ rows[i].slot = 0

Pushed(m) == {s \in Streams : st[s].mod = m}
Works(r, m) == r.pc \in {"run", "open"} /\ r.mod = m
In(m) == {p \in Procs : Works(tpr[p], m)}
TInv == TTypes /\ InTables /\ OfStreams /\ AtStreams /\ AtSlots /\ RowsOrder /\ Tables!HoldsExact /\ Tables!StockTried

-----------------------------------------------------------------------------
(* exec(2)                                                                 *)
Put(rs, e, i) == SubSeq(rs, 1, i - 1) \o <<e>> \o SubSeq(rs, i, Len(rs))
-----------------------------------------------------------------------------
(* The calls: what is in a module's close                                  *)
Shuts(r, m) == r.pc = "close" /\ r.mod = m
Closing(m) == {p \in Procs : Shuts(tpr[p], m)}
CInv ==
  /\ incall \in [Mods -> Nat] /\ stuck \in [Mods -> Nat]
  /\ \A m \in Mods : incall[m] = Cardinality(Closing(m)) + stuck[m]
  /\ \A m \in Mods : incall[m] # 0 => m \in loaded
=============================================================================
