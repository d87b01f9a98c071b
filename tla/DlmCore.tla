------------------------------ MODULE DlmCore ------------------------------
(***************************************************************************)
(* The loadable-module core, src/dlm/upstream/dlm_core.c: the module list, *)
(* loading (with dependencies), unloading, the two counts that keep a      *)
(* module in place, and the unwinding of a call that a signal interrupts.  *)
(*                                                                         *)
(* The kernel is uniprocessor and non-preemptive, so a process gives up    *)
(* the processor only where it sleeps.  A process whose pc is in OnCpu is  *)
(* between two sleeps; every other pc is a place where it sleeps (or is in *)
(* user mode) and where any other process may run:                         *)
(*                                                                         *)
(*   user    in user mode              inload  inside the module's _load   *)
(*   wait    asleep on a record        failun  inside _unload of a load    *)
(*   woken   woken, not yet running            that is being undone        *)
(*   alloc   in kmem_zalloc            inunl   inside _unload              *)
(*   open    in vn_open                failcl  closing the file of a load  *)
(*   image   reading the image, and            that is being undone        *)
(*           closing its file          stat    in modstat's kmem_zalloc    *)
(*                                                                         *)
(*   enter   at the label again of dlm_load                                *)
(*   next    at the head of the dependency loop                            *)
(*   fail    dlm_load returned an error to the frame below (or to abort)   *)
(*   sweep   in the loop of moduload(0)                                    *)
(*   ret     back in the system call, its result known                     *)
(*                                                                         *)
(* A signal out of the close after the image leaves lf_vp 0, so that       *)
(* lf_fail closes nothing: here the file is closed once more, which can be *)
(* over at once. A module in the boot memory (DlmBoot) has no file.        *)
(***************************************************************************)
EXTENDS Naturals, FiniteSets, Sequences

CONSTANTS
  Procs,        \* processes
  NoProc,       \* m_owner == 0
  Names,        \* module names
  NoName,       \* no name
  Static,       \* names in dlm_static: part of the kernel, never loaded
  Depends,      \* Depends[n]: the dependency names in n's module data
  Keys,         \* switch entries: hooks and registered driver rows
  Links,        \* Links[n]: the entries the modlinks of n fill
  Owners,       \* Owners[k]: the modules allowed into entry k
  MaxDepth,     \* DLM_MAXDEPTH
  Intr,         \* the sleeps a signal can interrupt
  AllocSleeps,  \* whether kmem_zalloc(KM_SLEEP) is seen to sleep
  MaxId,        \* bound: records ever created
  MaxRefs,      \* bound: holds on one record
  MaxCalls      \* bound: system calls ever started

ASSUME ConstAssumption ==
  /\ NoProc \notin Procs /\ NoName \notin Names
  /\ Static \subseteq Names
  /\ Depends \in [Names -> Seq(Names)]
  /\ Links \in [Names -> SUBSET Keys]
  /\ Owners \in [Keys -> SUBSET Names]
  /\ Intr \subseteq {"open", "image", "inload", "failun", "failcl", "inunl"}
  /\ AllocSleeps \in BOOLEAN
  /\ MaxId \in Nat /\ MaxDepth \in Nat /\ MaxRefs \in Nat /\ MaxCalls \in Nat

VARIABLES
  list,     \* dlm_list: ids of the records on it, in the order of the ids
  nextid,   \* dlm_nextid
  mod,      \* the records
  slot,     \* slot[k]: the record whose functions entry k points to, or 0
  pr,       \* the processes in the loader
  panic,    \* cmn_err(CE_PANIC) was called
  calls     \* system calls started

vars == <<list, nextid, mod, slot, pr, panic, calls>>

Ids == 1 .. MaxId
OnCpu == {"enter", "next", "fail", "sweep", "ret"}
Asleep == {"user", "wait", "woken", "alloc", "open", "image", "inload",
           "failun", "failcl", "inunl", "stat"}
Ops == {"none", "modload", "loadname", "moduload", "sweep", "modstat"}

(* struct dlm_mod, its DM_LOADING and DM_UNLOADING bits as trans; at and   *)
(* saved are lf's place in the dependencies and lf_cred, open says whether *)
(* lf_vp is set                                                            *)
ModRec ==
  [name: Names \cup {NoName}, trans: {"no", "loading", "unloading"},
   owner: Procs \cup {NoProc}, refs: Nat, deps: Nat, incall: Nat,
   dep: Seq(Ids), at: Nat, saved: {"none", "user", "sys"}, open: BOOLEAN,
   flags: SUBSET {"DEMAND", "CAND", "WANTED"}]

NoRec ==
  [name |-> NoName, trans |-> "no", owner |-> NoProc, refs |-> 0, deps |-> 0,
   incall |-> 0, dep |-> <<>>, at |-> 0, saved |-> "none", open |-> FALSE,
   flags |-> {}]

(* One call in progress: stk is the guard's chain of loads (g_lf), the     *)
(* innermost first; cur is the record slept on, undone, unloaded or read.  *)
ProcRec ==
  [pc: OnCpu \cup Asleep, op: Ops, want: Names \cup {NoName},
   stk: Seq(Ids), cur: Ids \cup {0}, err: {"ok", "error", "EINTR"},
   cred: {"user", "sys"}]

Idle == [pc |-> "user", op |-> "none", want |-> NoName, stk |-> <<>>,
         cur |-> 0, err |-> "ok", cred |-> "user"]

TypeOK ==
  /\ list \subseteq Ids
  /\ nextid \in 1 .. MaxId + 1
  /\ mod \in [Ids -> ModRec]
  /\ slot \in [Keys -> Ids \cup {0}]
  /\ pr \in [Procs -> ProcRec]
  /\ panic \in BOOLEAN
  /\ calls \in 0 .. MaxCalls

Init ==
  /\ list = {} /\ nextid = 1
  /\ mod = [m \in Ids |-> NoRec]
  /\ slot = [k \in Keys |-> 0]
  /\ pr = [p \in Procs |-> Idle]
  /\ panic = FALSE
  /\ calls = 0

-----------------------------------------------------------------------------
(* Scheduling and small helpers                                            *)

NoneOnCpu == \A q \in Procs : pr[q].pc \notin OnCpu
MayRun(p) == ~panic /\ \A q \in Procs \ {p} : pr[q].pc \notin OnCpu

Goto(p, pc) == pr' = [pr EXCEPT ![p] = [pr[p] EXCEPT !.pc = pc]]
GiveUp(p, err) == pr' = [pr EXCEPT ![p] = [pr[p] EXCEPT !.pc = "fail", !.err = err]]

(* mutant: a record in a transition does not count as the name's           *)
NamedSettled(n) == {m \in list : mod[m].name = n /\ mod[m].trans = "no"}
Named(n) == {m \in list : mod[m].name = n}
FindName(n) == CHOOSE m \in Named(n) : \A o \in Named(n) : m <= o

Trans(m) == mod[m].trans # "no"
(* mutants: dependents, or holds, do not keep a module in place            *)
BusyIgnoringDeps(m) == mod[m].refs > 0 \/ Trans(m)
BusyIgnoringRefs(m) == mod[m].deps > 0 \/ Trans(m)
Busy(m) == mod[m].refs > 0 \/ mod[m].deps > 0 \/ mod[m].incall > 0 \/ Trans(m)

(* mutant: nobody is woken                                                 *)
WakeNobody(m) == pr

(* wake(m): the sleepers on m run again, when DM_WANTED says there are any *)
Wake(m) ==
  [q \in Procs |-> IF "WANTED" \in mod[m].flags /\ pr[q].pc = "wait" /\ pr[q].cur = m
                   THEN [pr[q] EXCEPT !.pc = "woken", !.cur = 0]
                   ELSE pr[q]]

(* the linkages' install and remove, all modlinks of a module together     *)
(* mutant: an entry another module has is taken                            *)
CanLinkTaken(m, s) == \A k \in Links[mod[m].name] : mod[m].name \in Owners[k]
CanLink(m, s) ==
  \A k \in Links[mod[m].name] :
    mod[m].name \in Owners[k] /\ s[k] \in {0, m}
Link(m, s) == [k \in Keys |-> IF k \in Links[mod[m].name] THEN m ELSE s[k]]
(* mutant: an unloading module keeps its entries                           *)
UnlinkNothing(m, s) == s
Unlink(m, s) == [k \in Keys |-> IF s[k] = m THEN 0 ELSE s[k]]

(* cand_add, cand_del: idle modules are candidates for automatic unloading *)
CandAdd(flags) == flags \cup {"CAND"}
CandDel(flags) == flags \ {"CAND"}

(* dlm_hold, dlm_rele                                                      *)
DlmHold(rec) == [rec EXCEPT !.refs = @ + 1, !.flags = CandDel(@)]
DlmRele(rec) ==
  [rec EXCEPT !.refs = @ - 1,
              !.flags = IF rec.refs = 1 /\ rec.deps = 0 THEN CandAdd(@) ELSE @]

(* mutant: a module something now depends on stays a candidate             *)
DepAddCandidate(f, parent, m) ==
  LET g == [f EXCEPT ![m] = [f[m] EXCEPT !.deps = @ + 1]]
  IN  [g EXCEPT ![parent] = [g[parent] EXCEPT !.dep = Append(@, m)]]

(* dlm_depadd and the entry in the parent's m_dep                          *)
DepAdd(f, parent, m) ==
  LET g == [f EXCEPT ![m] = [f[m] EXCEPT !.deps = @ + 1, !.flags = CandDel(@)]]
  IN  [g EXCEPT ![parent] = [g[parent] EXCEPT !.dep = Append(@, m)]]

(* freemod: the dependencies are released and the record leaves the list   *)
(* mutant: a dependency named twice is released once                       *)
TimesInOnce(m, r) == IF \E i \in DOMAIN mod[m].dep : mod[m].dep[i] = r THEN 1 ELSE 0
TimesIn(m, r) == Cardinality({i \in DOMAIN mod[m].dep : mod[m].dep[i] = r})
DepRele(rec, n) ==
  [rec EXCEPT !.deps = IF @ > n THEN @ - n ELSE 0,
              !.flags = IF rec.deps \in 1 .. n /\ rec.refs = 0 THEN CandAdd(@) ELSE @]
FreeMod(m) ==
  /\ list' = list \ {m}
  /\ mod' = [r \in Ids |-> IF r = m THEN NoRec
                           ELSE DepRele(mod[r], TimesIn(m, r))]

-----------------------------------------------------------------------------
(* dlm_load                                                                *)

EntersCall(p) ==
  pr[p].pc = "user" /\ MayRun(p) /\ calls < MaxCalls /\ calls' = calls + 1

Modload(p, n) ==
  /\ EntersCall(p)
  /\ pr' = [pr EXCEPT ![p] = [pr[p] EXCEPT !.pc = "enter", !.op = "modload", !.want = n]]
  /\ UNCHANGED <<list, nextid, mod, slot, panic>>

Loadname(p, n) ==
  /\ EntersCall(p)
  /\ pr' = [pr EXCEPT ![p] = [pr[p] EXCEPT !.pc = "enter", !.op = "loadname", !.want = n]]
  /\ UNCHANGED <<list, nextid, mod, slot, panic>>

AtEnter(p) == pr[p].pc \in {"enter", "woken"} /\ MayRun(p)

(* a dependency, and every load that is not modload's own, has DL_SYS      *)
IsSys(p) == pr[p].op # "modload" \/ pr[p].stk # <<>>
Refused(p) == pr[p].want \in Static \/ Len(pr[p].stk) >= MaxDepth

(* dlm_load returns 0 with module m to the frame or the call below it      *)
Returned(p, q, rest, m) ==
  IF rest = <<>>
  THEN [q EXCEPT ![p] = [q[p] EXCEPT !.pc = "ret", !.stk = rest, !.cur = m]]
  ELSE [q EXCEPT ![p] = [q[p] EXCEPT !.pc = "next", !.stk = rest]]
Taken(f, rest, m) == IF rest = <<>> THEN f ELSE DepAdd(f, Head(rest), m)
Demanded(p, f, m) ==
  IF IsSys(p) THEN f ELSE [f EXCEPT ![m].flags = @ \cup {"DEMAND"}]

LoadRefused(p) ==
  /\ AtEnter(p)
  /\ \/ Refused(p)
     \/ /\ Named(pr[p].want) # {}
        /\ LET m == FindName(pr[p].want)
           IN  Trans(m) /\ mod[m].owner = p
  /\ GiveUp(p, "error")
  /\ UNCHANGED <<list, nextid, mod, slot, panic, calls>>

LoadWaits(p) ==
  /\ AtEnter(p) /\ ~Refused(p)
  /\ Named(pr[p].want) # {}
  /\ LET m == FindName(pr[p].want)
     IN  /\ Trans(m) /\ mod[m].owner # p
         /\ mod' = [mod EXCEPT ![m].flags = @ \cup {"WANTED"}]
         /\ pr' = [pr EXCEPT ![p] = [pr[p] EXCEPT !.pc = "wait", !.cur = m]]
  /\ UNCHANGED <<list, nextid, slot, panic, calls>>

LoadFound(p) ==
  /\ AtEnter(p) /\ ~Refused(p)
  /\ Named(pr[p].want) # {}
  /\ LET m == FindName(pr[p].want)
     IN  /\ ~Trans(m)
         /\ mod' = Taken(Demanded(p, mod, m), pr[p].stk, m)
         /\ pr' = Returned(p, pr, pr[p].stk, m)
  /\ UNCHANGED <<list, nextid, slot, panic, calls>>

(* A new record is on the list, and its frame on the guard's chain.        *)
NewRecord(p) ==
  /\ nextid \in Ids
  /\ nextid' = nextid + 1
  /\ list' = list \cup {nextid}
  /\ mod' = [mod EXCEPT ![nextid] =
               [NoRec EXCEPT !.name = pr[p].want, !.trans = "loading",
                             !.owner = p, !.at = 1,
                             !.saved = IF IsSys(p) THEN pr[p].cred ELSE "none"]]
  /\ pr' = [pr EXCEPT ![p] = [pr[p] EXCEPT !.pc = "open", !.stk = <<nextid>> \o @,
                                         !.cred = IF IsSys(p) THEN "sys" ELSE @]]
  /\ UNCHANGED <<slot, panic, calls>>

LoadCreates(p) ==
  /\ AtEnter(p) /\ ~Refused(p) /\ ~AllocSleeps
  /\ Named(pr[p].want) = {}
  /\ NewRecord(p)

LoadAllocates(p) ==
  /\ AtEnter(p) /\ ~Refused(p) /\ AllocSleeps
  /\ Named(pr[p].want) = {}
  /\ Goto(p, "alloc")
  /\ UNCHANGED <<list, nextid, mod, slot, panic, calls>>

Allocated(p) == pr[p].pc = "alloc" /\ MayRun(p) /\ NewRecord(p)

(* lf_find, the header and the module data: found and sound, or not        *)
OpenReturns(p) ==
  /\ pr[p].pc = "open" /\ MayRun(p)
  /\ \E found \in BOOLEAN :
       /\ mod' = [mod EXCEPT ![Head(pr[p].stk)].open = found]
       /\ (found /\ Goto(p, "next")) \/ GiveUp(p, "error")
  /\ UNCHANGED <<list, nextid, slot, panic, calls>>

NextDep(p) ==
  /\ pr[p].pc = "next" /\ MayRun(p)
  /\ LET m == Head(pr[p].stk)
         d == Depends[mod[m].name]
     IN  IF mod[m].at > Len(d)
         THEN Goto(p, "image") /\ mod' = mod
         ELSE /\ mod' = [mod EXCEPT ![m].at = @ + 1]
              /\ IF d[mod[m].at] \in Static
                 THEN pr' = pr
                 ELSE pr' = [pr EXCEPT ![p] = [pr[p] EXCEPT !.pc = "enter",
                                                         !.want = d[mod[m].at]]]
  /\ UNCHANGED <<list, nextid, slot, panic, calls>>

(* lf_close: the credentials DL_SYS took away come back                    *)
(* mutant: they do not                                                     *)
RestoredNever(p, m) == pr[p].cred
Restored(p, m) ==
  IF mod[m].saved = "none" THEN pr[p].cred ELSE mod[m].saved

ReadImage(p) ==
  /\ pr[p].pc = "image" /\ MayRun(p)
  /\ LET m == Head(pr[p].stk)
     IN  /\ mod' = [mod EXCEPT ![m].saved = "none", ![m].open = FALSE]
         /\ pr' = [pr EXCEPT ![p] = [pr[p] EXCEPT !.pc = "inload", !.cred = Restored(p, m)]]
  /\ UNCHANGED <<list, nextid, slot, panic, calls>>

(* A bad symbol, relocation or wrapper, or an image too large.             *)
ImageFails(p) ==
  /\ pr[p].pc = "image" /\ MayRun(p)
  /\ GiveUp(p, "error")
  /\ UNCHANGED <<list, nextid, mod, slot, panic, calls>>

(* mw_load succeeds, every modlink installs, and the record settles        *)
LoadSettles(p) ==
  /\ pr[p].pc = "inload" /\ MayRun(p)
  /\ LET m == Head(pr[p].stk)
         rest == Tail(pr[p].stk)
         demand == IF rest = <<>> /\ pr[p].op = "modload" THEN {"DEMAND"} ELSE {}
         settled == [mod EXCEPT ![m] =
                       [mod[m] EXCEPT !.trans = "no", !.owner = NoProc, !.at = 0,
                                 !.flags = (@ \cup demand) \ {"WANTED"}]]
     IN  /\ CanLink(m, slot)
         /\ slot' = Link(m, slot)
         /\ mod' = Taken(settled, rest, m)
         /\ pr' = Returned(p, Wake(m), rest, m)
  /\ UNCHANGED <<list, nextid, panic, calls>>

(* mw_load fails: LF_INLOAD, so the undoing calls no mw_unload             *)
ModLoadFails(p) ==
  /\ pr[p].pc = "inload" /\ MayRun(p)
  /\ GiveUp(p, "error")
  /\ UNCHANGED <<list, nextid, mod, slot, panic, calls>>

(* An entry is taken: LF_LOADED.  lf_fail pops the frame and calls         *)
(* mw_unload with the record on no guard's chain.                          *)
LinkFails(p) ==
  /\ pr[p].pc = "inload" /\ MayRun(p)
  /\ ~CanLink(Head(pr[p].stk), slot)
  /\ pr' = [pr EXCEPT ![p] = [pr[p] EXCEPT !.pc = "failun", !.err = "error",
                                         !.cur = Head(pr[p].stk), !.stk = Tail(@)]]
  /\ UNCHANGED <<list, nextid, mod, slot, panic, calls>>

FailUnloadReturns(p) ==
  /\ pr[p].pc = "failun" /\ MayRun(p)
  /\ FreeMod(pr[p].cur)
  /\ pr' = [Wake(pr[p].cur) EXCEPT ![p] = [pr[p] EXCEPT !.pc = "fail", !.cur = 0]]
  /\ UNCHANGED <<nextid, slot, panic, calls>>

(* lf_fail of the next frame: the caller's "goto fail" or dlm_abort's loop *)
Fails(p) == pr[p].pc = "fail" /\ MayRun(p) /\ pr[p].stk # <<>>
Fail(p) ==
  /\ Fails(p) /\ ~mod[Head(pr[p].stk)].open
  /\ LET m == Head(pr[p].stk)
     IN  /\ FreeMod(m)
         /\ pr' = [Wake(m) EXCEPT ![p] = [pr[p] EXCEPT !.stk = Tail(@),
                                                   !.cred = Restored(p, m)]]
  /\ UNCHANGED <<nextid, slot, panic, calls>>

(* The frame is popped, then its file is closed; its record is on no chain *)
FailSleeps(p) ==
  /\ Fails(p) /\ mod[Head(pr[p].stk)].open
  /\ pr' = [pr EXCEPT ![p] = [pr[p] EXCEPT !.pc = "failcl", !.cur = Head(pr[p].stk),
                                         !.stk = Tail(@)]]
  /\ UNCHANGED <<list, nextid, mod, slot, panic, calls>>

FailCloses(p) ==
  /\ pr[p].pc = "failcl" /\ MayRun(p)
  /\ FreeMod(pr[p].cur)
  /\ pr' = [Wake(pr[p].cur) EXCEPT ![p] = [pr[p] EXCEPT !.pc = "fail", !.cur = 0,
                                                      !.cred = Restored(p, pr[p].cur)]]
  /\ UNCHANGED <<nextid, slot, panic, calls>>

Failed(p) ==
  /\ pr[p].pc = "fail" /\ MayRun(p) /\ pr[p].stk = <<>>
  /\ Goto(p, "ret")
  /\ UNCHANGED <<list, nextid, mod, slot, panic, calls>>

(* A longjmp out of a load: dlm_abort takes over with the frames that are  *)
(* on the chain.  A record whose mw_unload, or the close of whose file, in *)
(* lf_fail was interrupted is on none.  dlm_abort has put the guard away:  *)
(* a signal out of a close there leaves the call, and the frames that were *)
(* still on the chain.                                                     *)
InAbort(p) == pr[p].pc = "failcl" /\ pr[p].err = "EINTR"
Unwinds(p) ==
  IF InAbort(p) THEN [pr[p] EXCEPT !.pc = "ret", !.cur = 0, !.stk = <<>>]
  ELSE [pr[p] EXCEPT !.pc = "fail", !.err = "EINTR", !.cur = 0]
LoadInterrupted(p) ==
  /\ pr[p].pc \in Intr \ {"inunl"} /\ MayRun(p)
  /\ pr' = [pr EXCEPT ![p] = Unwinds(p)]
  /\ UNCHANGED <<list, nextid, mod, slot, panic, calls>>

-----------------------------------------------------------------------------
(* dlm_unload                                                              *)

StartUnload(p, m, op, cleared) ==
  /\ mod' = [r \in Ids |->
               [mod[r] EXCEPT !.flags = IF r \in cleared THEN @ \ {"DEMAND"} ELSE @,
                              !.trans = IF r = m THEN "unloading" ELSE @,
                              !.owner = IF r = m THEN p ELSE @]]
  /\ slot' = Unlink(m, slot)
  /\ pr' = [pr EXCEPT ![p] = [pr[p] EXCEPT !.pc = "inunl", !.op = op, !.cur = m]]

Moduload(p, m) ==
  /\ EntersCall(p) /\ m \in list
  /\ IF Busy(m)
     THEN mod' = [mod EXCEPT ![m].flags = @ \ {"DEMAND"}] /\ UNCHANGED <<slot, pr>>
     ELSE StartUnload(p, m, "moduload", {m})
  /\ UNCHANGED <<list, nextid, panic>>

ModuloadAll(p) ==
  /\ EntersCall(p) /\ list # {}
  /\ pr' = [pr EXCEPT ![p] = [pr[p] EXCEPT !.pc = "sweep", !.op = "sweep"]]
  /\ UNCHANGED <<list, nextid, mod, slot, panic>>

(* the loop of moduload(0) from the record after cur to the next unload    *)
Sweep(p) ==
  /\ pr[p].pc = "sweep" /\ MayRun(p)
  /\ LET rest == {m \in list : m > pr[p].cur /\ ~Trans(m)}
     IN  \/ \E m \in {r \in rest : ~Busy(r)} :
              /\ \A r \in rest : r < m => Busy(r)
              /\ StartUnload(p, m, "sweep", {r \in rest : r <= m})
         \/ /\ \A r \in rest : Busy(r)
            /\ mod' = [r \in Ids |->
                         IF r \in rest THEN [mod[r] EXCEPT !.flags = @ \ {"DEMAND"}]
                                      ELSE mod[r]]
            /\ Goto(p, "ret")
            /\ UNCHANGED slot
  /\ UNCHANGED <<list, nextid, panic, calls>>

AfterUnload(p) == IF pr[p].op = "sweep" THEN "sweep" ELSE "ret"

UnloadReturns(p) ==
  /\ pr[p].pc = "inunl" /\ MayRun(p)
  /\ FreeMod(pr[p].cur)
  /\ pr' = [Wake(pr[p].cur) EXCEPT ![p] = [pr[p] EXCEPT !.pc = AfterUnload(p), !.cur = 0]]
  /\ UNCHANGED <<nextid, slot, panic, calls>>

(* relink, and the record is settled again; relink panics when an entry is *)
(* no longer free                                                          *)
Reconnect(p, pc, err) ==
  LET m == pr[p].cur
  IN  /\ mod' = [mod EXCEPT ![m] = [mod[m] EXCEPT !.trans = "no", !.owner = NoProc,
                                              !.flags = @ \ {"WANTED"}]]
      /\ panic' = ~CanLink(m, slot)
      /\ slot' = IF CanLink(m, slot) THEN Link(m, slot) ELSE slot
      /\ pr' = [Wake(m) EXCEPT ![p] = [pr[p] EXCEPT !.pc = pc, !.err = err]]
      /\ UNCHANGED <<list, nextid, calls>>

UnloadFails(p) ==
  /\ pr[p].pc = "inunl" /\ MayRun(p)
  /\ Reconnect(p, AfterUnload(p), "error")

(* mutant: the interrupted unload forgets its record                       *)
UnloadInterruptedForgets(p) ==
  /\ pr[p].pc = "inunl" /\ "inunl" \in Intr /\ MayRun(p)
  /\ pr' = [pr EXCEPT ![p] = [pr[p] EXCEPT !.pc = "ret", !.err = "EINTR"]]
  /\ UNCHANGED <<list, nextid, mod, slot, panic, calls>>

UnloadInterrupted(p) ==
  /\ pr[p].pc = "inunl" /\ "inunl" \in Intr /\ MayRun(p)
  /\ Reconnect(p, "ret", "EINTR")

-----------------------------------------------------------------------------
(* The module interface, modstat, and the return to user mode              *)

(* mutant: mod_rele trusts its caller's count                              *)
ModReleUnguarded(m) ==
  /\ ~panic /\ NoneOnCpu /\ m \in list /\ ~Trans(m)
  /\ mod' = [mod EXCEPT ![m] = [mod[m] EXCEPT !.refs = @ - 1]]
  /\ UNCHANGED <<list, nextid, slot, pr, panic, calls>>

(* mod_hold and mod_rele, called by a settled module for itself            *)
ModHold(m) ==
  /\ ~panic /\ NoneOnCpu /\ m \in list /\ ~Trans(m) /\ mod[m].refs < MaxRefs
  /\ mod' = [mod EXCEPT ![m] = DlmHold(mod[m])]
  /\ UNCHANGED <<list, nextid, slot, pr, panic, calls>>

ModRele(m) ==
  /\ ~panic /\ NoneOnCpu /\ m \in list /\ ~Trans(m) /\ mod[m].refs > 0
  /\ mod' = [mod EXCEPT ![m] = DlmRele(mod[m])]
  /\ UNCHANGED <<list, nextid, slot, pr, panic, calls>>

(* modstat picks its record, allocates the answer, then reads the record   *)
Modstat(p, m) ==
  /\ EntersCall(p) /\ AllocSleeps
  /\ m \in list /\ ~Trans(m)
  /\ pr' = [pr EXCEPT ![p] = [pr[p] EXCEPT !.pc = "stat", !.op = "modstat", !.cur = m]]
  /\ UNCHANGED <<list, nextid, mod, slot, panic>>

ModstatFill(p) ==
  /\ pr[p].pc = "stat" /\ MayRun(p)
  /\ Goto(p, "ret")
  /\ UNCHANGED <<list, nextid, mod, slot, panic, calls>>

Return(p) ==
  /\ pr[p].pc = "ret" /\ MayRun(p)
  /\ pr' = [pr EXCEPT ![p] = [Idle EXCEPT !.cred = pr[p].cred]]
  /\ UNCHANGED <<list, nextid, mod, slot, panic, calls>>

-----------------------------------------------------------------------------
LoadStep(p) ==
  \/ LoadRefused(p) \/ LoadWaits(p) \/ LoadFound(p) \/ LoadCreates(p)
  \/ LoadAllocates(p) \/ Allocated(p) \/ OpenReturns(p) \/ NextDep(p)
  \/ ReadImage(p) \/ ImageFails(p) \/ LoadSettles(p) \/ ModLoadFails(p)
  \/ LinkFails(p) \/ FailUnloadReturns(p) \/ Fail(p) \/ FailSleeps(p) \/ FailCloses(p)
  \/ Failed(p)

UnloadStep(p) == Sweep(p) \/ UnloadReturns(p) \/ UnloadFails(p)

(* the steps of a call in progress that owe nothing to a signal            *)
Step(p) == LoadStep(p) \/ UnloadStep(p) \/ ModstatFill(p) \/ Return(p)

Signal(p) == LoadInterrupted(p) \/ UnloadInterrupted(p)

Call(p) ==
  \/ \E n \in Names : Modload(p, n) \/ Loadname(p, n)
  \/ \E m \in Ids : Moduload(p, m) \/ Modstat(p, m)
  \/ ModuloadAll(p)

Next ==
  \/ \E p \in Procs : Call(p) \/ Step(p) \/ Signal(p)
  \/ \E m \in Ids : ModHold(m) \/ ModRele(m)

Spec == Init /\ [][Next]_vars

(* A process that can run does run; every module function returns.         *)
FairSpec == Spec /\ \A p \in Procs : WF_vars(Step(p))
-----------------------------------------------------------------------------
(* Properties                                                              *)

Frames(p) == {pr[p].stk[i] : i \in DOMAIN pr[p].stk}
LoadsOf(p) ==
  Frames(p) \cup (IF pr[p].pc \in {"failun", "failcl"} THEN {pr[p].cur} ELSE {})
UnloadsOf(p) == IF pr[p].pc = "inunl" THEN {pr[p].cur} ELSE {}

(* A record marked loading or unloading belongs to a process that is still *)
(* loading or unloading it, and what a process is loading or unloading is  *)
(* on the list and marked as its own: no interrupted or failed call leaves *)
(* a record that later loads of the name would wait for for ever.          *)
AllOwned ==
  \A m \in list :
    /\ mod[m].trans = "loading" =>
         \E p \in Procs : mod[m].owner = p /\ m \in LoadsOf(p)
    /\ mod[m].trans = "unloading" =>
         \E p \in Procs : mod[m].owner = p /\ m \in UnloadsOf(p)
OwnMarked ==
  \A p \in Procs :
    /\ \A m \in LoadsOf(p) :
         m \in list /\ mod[m].trans = "loading" /\ mod[m].owner = p
    /\ \A m \in UnloadsOf(p) :
         m \in list /\ mod[m].trans = "unloading" /\ mod[m].owner = p
TransOwned == AllOwned /\ OwnMarked

(* m_deps is the number of m_dep entries of listed records that point to   *)
(* the record, through every load, failure, interruption and unload.       *)
UsesIn(r) ==
  UNION {{<<m, i>> : i \in {j \in DOMAIN mod[m].dep : mod[m].dep[j] = r}}
         : m \in list}
DepCount == \A r \in list : mod[r].deps = Cardinality(UsesIn(r))

(* Whatever a record on the list depends on is on the list and settled: a  *)
(* module is never unloaded under one that is linked, or being linked, to  *)
(* its symbols.                                                            *)
DepsAlive ==
  \A m \in list : \A i \in DOMAIN mod[m].dep :
    mod[m].dep[i] \in list /\ mod[mod[m].dep[i]].trans = "no"

(* At most one record of a name: two loads of one module never both run.   *)
(* Not so when kmem_zalloc sleeps between the look-up and the insertion;   *)
(* what then still holds is InService, below.                              *)
UniqueName == \A m, o \in list : mod[m].name = mod[o].name => m = o

(* A switch entry points only into a settled module, and into one that is  *)
(* allowed there: no call goes into an image that is gone or half set up.  *)
SlotLive ==
  \A k \in Keys : slot[k] # 0 =>
    /\ slot[k] \in list /\ mod[slot[k]].trans = "no"
    /\ mod[slot[k]].name \in Owners[k] /\ k \in Links[mod[slot[k]].name]

(* A module that is settled has every entry its modlinks fill: of the      *)
(* loads that want an entry, those of one name that all slept in           *)
(* kmem_zalloc among them, one settles and none takes the entry of         *)
(* another, and a module has its entries again when its _unload fails.     *)
(* (dlm_load, link_install, relink, after a look-up that kmem_zalloc has   *)
(* made stale)                                                             *)
InService ==
  ~panic => \A m \in list : mod[m].trans = "no" =>
              \A k \in Links[mod[m].name] : slot[k] = m

(* The candidate list holds only listed records that nothing holds and     *)
(* nothing depends on.                                                     *)
CandIdle ==
  \A m \in Ids : "CAND" \in mod[m].flags =>
    m \in list /\ mod[m].refs = 0 /\ mod[m].deps = 0

(* A process is back in user mode with its own credentials, whatever       *)
(* nesting of DL_SYS loads failed or was interrupted on the way.           *)
CredRestored == \A p \in Procs : pr[p].pc \in {"user", "ret"} => pr[p].cred = "user"

(* Counts and candidates are what the records say, and credentials come    *)
(* back.                                                                   *)
CountsKept == DepCount /\ DepsAlive /\ CandIdle /\ CredRestored

(* Reinstalling the entries of a module whose _unload failed never finds   *)
(* one taken.                                                              *)
NoPanic == ~panic

(* The record modstat has chosen is still on the list when it is read.     *)
StatLive == \A p \in Procs : pr[p].pc = "stat" => pr[p].cur \in list

(* Every system call returns, when calls are finitely many and no two      *)
(* modules depend on each other.                                           *)
CallReturns == \A p \in Procs : pr[p].pc # "user" ~> pr[p].pc = "user"

(* The loader implements the registry: a name is loaded from the moment    *)
(* its record settles to the moment the record is freed.                   *)
LoadedNames == {mod[m].name : m \in {o \in list : mod[o].trans # "loading"}}
RefsOf(n) ==
  IF \E m \in list : mod[m].name = n THEN mod[FindName(n)].refs ELSE 0
Registry == INSTANCE DlmRegistry
              WITH loaded <- LoadedNames, held <- [n \in Names |-> RefsOf(n)]
RegistrySpec == Registry!Spec
=============================================================================
