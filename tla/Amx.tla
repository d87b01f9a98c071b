-------------------------------- MODULE Amx --------------------------------
(***************************************************************************)
(* AMIX programs on this system (src/driver-amix/amx.c): amx_trap0, the    *)
(* gate from AMIX's system calls to svr4_trap10, converts each structure   *)
(* on its way in and out, borrows registers for the arguments, and         *)
(* remembers in amx_uctab which contexts signals delivered, for those are  *)
(* in this system's layout and everything else a program passes is in      *)
(* AMIX's.                                                                 *)
(*                                                                         *)
(* A context is known by its place on its process's stack: stk[p] holds    *)
(* those that signals delivered and those the program took by getcontext,  *)
(* which stay there until the program returns below them.  The rest of the *)
(* kernel is external: svr4_trap10 answers, fails, or leaves through a new *)
(* PC (a call restarted, setcontext, exec).                                *)
(***************************************************************************)
EXTENDS Integers, Sequences, FiniteSets, SequencesExt

CONSTANTS
  Procs,       \* process slots: another process may be in one later
  NoProc,      \* no process
  NUc,         \* AMX_NUC
  Calls,       \* calls, each a record of CallSet
  Sigs,        \* AMIX's signals that programs use
  Inherits,    \* masks processes begin with
  MaxCalls,    \* bound: calls
  MaxDepth     \* bound: contexts on a stack

VARIABLES
  amx_uctab, amx_ucnext, amx_calls,
  pr,          \* each process: where it is, and the call it is in
  stk,         \* the contexts on each process's stack
  mask,        \* the signals the kernel blocks, by this system's numbers
  asked,       \* those the program means to block, by AMIX's (history)
  regs,        \* d2-d5 and a2-a4: the program's "own", or arguments
  bufs,        \* processes whose kbuf is allocated
  lost,        \* contexts whose entry went with the program still to return by them (history)
  left,        \* contexts whose entry stays with nobody to return by them (history)
  redone,      \* processes of which a call was restarted (history)
  first        \* the mask the first process began with (history)

vars == <<amx_uctab, amx_ucnext, amx_calls, pr, stk, mask, asked, regs, bufs, lost, left, redone, first>>

-----------------------------------------------------------------------------
(* Signals: 21, 28-31 have other numbers here                              *)
sig_a2k ==
  [n \in 0 .. 31 |-> IF n = 21 THEN 33 ELSE IF n \in {28, 29} THEN n + 9 ELSE IF n \in {30, 31} THEN n + 5 ELSE n]
sig_in(s) == IF s \in 1 .. 31 THEN sig_a2k[s] ELSE s
sig_out(s) ==
  IF s < 21 \/ s \in 22 .. 27 THEN s
  ELSE IF s = 34 THEN 22
  ELSE IF \E i \in 21 .. 31 : sig_a2k[i] = s THEN CHOOSE i \in 21 .. 31 : sig_a2k[i] = s
  ELSE s
mask_in(a) == {sig_in(n) : n \in a \cap 1 .. 31}
mask_out(k) == {sig_out(s) : s \in k \cap 1 .. 64} \cap 1 .. 32
Named == {sig_in(n) : n \in 1 .. 31}

(* wait()'s status, and siginfo's of SIGCLD: a signal's number but for an exit *)
wstat_out(st) == IF st.how \in {"killed", "stopped"} THEN [st EXCEPT !.num = sig_out(@)] ELSE st
si_out(si) ==
  LET o == [si EXCEPT !.signo = sig_out(@)]
  IN  IF si.signo = 18 /\ si.code \in 2 .. 6 THEN [o EXCEPT !.status = sig_out(@)] ELSE o

(* sigprocmask's how is 1 .. 3 there, 0 .. 2 here                          *)
Masked(how, m, s) == CASE how = 0 -> m \cup s [] how = 1 -> m \ s [] how = 2 -> s

(* A mask of one layout read as the other: the bits count from the other end, *)
(* and the second word is no signal's                                      *)
Flip(m) == {33 - x : x \in m \cap 1 .. 32}

-----------------------------------------------------------------------------
(* The first three arguments go in scratch registers (paramstoregs)        *)
Borrows(c) == c.n > 3
(* A call: fn, how many arguments it has, the structure it reads ("in", or *)
(* a null pointer) and whether it has one filled in ("out")                *)
Buffered == {"sigprocmask", "sigsuspend", "sigpending", "sigaction", "waitsys", "getcontext", "setcontext",
             "stat", "ioctl", "nuname"}
CallSet == [fn: Buffered \cup {"wait", "kill", "fork", "exec", "exit", "other"}, n: 0 .. 10, in: BOOLEAN, out: BOOLEAN]
None == [fn |-> "none"]

Empty == [p |-> NoProc, uc |-> 0]
User == [pc |-> "user", call |-> None, at |-> 0, set |-> {}, how |-> 0, hit |-> FALSE, save |-> "own"]
Gone == [User EXCEPT !.pc = "none"]
Delivered(p) == {i \in DOMAIN stk[p] : ~stk[p][i].own}
Entries == {<<amx_uctab[k].p, amx_uctab[k].uc>> : k \in {j \in 1 .. NUc : amx_uctab[j].p # NoProc}}
Mine(p) == {e \in Entries : e[1] = p}

Init ==
  /\ amx_uctab = [k \in 1 .. NUc |-> Empty] /\ amx_ucnext = 1 /\ amx_calls = 0
  /\ \E q \in Procs, m \in Inherits :
       /\ pr = [p \in Procs |-> IF p = q THEN User ELSE Gone]
       /\ first = m /\ mask = [p \in Procs |-> m] /\ asked = [p \in Procs |-> mask_out(m)]
  /\ stk = [p \in Procs |-> <<>>] /\ regs = [p \in Procs |-> "own"]
  /\ bufs = {} /\ lost = {} /\ left = {} /\ redone = {}

(* The gate: trap #0 with the call in d0, its kbuf allocated (KM_SLEEP);   *)
(* the copies from and to the program's memory may sleep                   *)
Trap(p, c) ==
  /\ pr[p].pc = "user" /\ amx_calls < MaxCalls
  /\ pr[p].call \in {None, c}                         \* a restarted call is made again
  /\ c.fn = "getcontext" => Len(stk[p]) < MaxDepth
  /\ \E a \in IF c.fn = "sigprocmask" /\ c.in THEN SUBSET Sigs ELSE {{}},
        h \in IF c.fn = "sigprocmask" THEN 1 .. 3 ELSE {1},
        i \in IF c.fn = "setcontext" THEN DOMAIN stk[p] ELSE {0} :
       pr' = [pr EXCEPT ![p] = [User EXCEPT !.pc = "gate", !.call = c, !.set = a, !.how = h, !.at = i]]
  /\ amx_calls' = amx_calls + 1
  /\ bufs' = IF c.fn \in Buffered THEN bufs \cup {p} ELSE bufs
  /\ UNCHANGED <<amx_uctab, amx_ucnext, stk, mask, asked, regs, lost, left, redone, first>>

(* amx_ucgive: the first entry of this context, if one is                  *)
Holds(k, p, i) == amx_uctab[k] = [p |-> p, uc |-> i]
amx_ucgive(p, i) ==
  LET k == CHOOSE j \in 1 .. NUc : Holds(j, p, i) /\ \A l \in 1 .. j - 1 : ~Holds(l, p, i)
  IN  IF <<p, i>> \in Entries THEN [amx_uctab EXCEPT ![k] = Empty] ELSE amx_uctab

(* The structure is converted into the scratch below the stack, but a      *)
(* context a signal delivered; the registers are borrowed                  *)
Convert(p) ==
  LET c == pr[p].call
      i == pr[p].at
      hit == c.fn = "setcontext" /\ <<p, i>> \in Entries
  IN  /\ pr[p].pc = "gate"
      /\ amx_uctab' = IF hit THEN amx_ucgive(p, i) ELSE amx_uctab
      /\ pr' = [pr EXCEPT ![p].pc = "svr4", ![p].hit = hit, ![p].how = @ - 1, ![p].save = regs[p]]
      /\ regs' = IF Borrows(c) THEN [regs EXCEPT ![p] = "args"] ELSE regs
      /\ UNCHANGED <<amx_ucnext, amx_calls, stk, mask, asked, bufs, lost, left, redone, first>>
(* ... or cannot be copied: EFAULT                                         *)
ConvertFails(p) ==
  LET c == pr[p].call
  IN  /\ pr[p].pc = "gate" /\ c.in
      /\ c.fn = "setcontext" => <<p, pr[p].at>> \notin Entries
      /\ pr' = [pr EXCEPT ![p] = User] /\ bufs' = bufs \ {p}
      /\ UNCHANGED <<amx_uctab, amx_ucnext, amx_calls, stk, mask, asked, regs, lost, left, redone, first>>

(* svr4_trap10 fails, or restarts the call: then neither the registers nor *)
(* anything else are put back.  A context that setcontext could not read   *)
(* is a signal's no more: amx_ucgive has forgotten it.                     *)
Fails(p) ==
  /\ pr[p].pc = "svr4"
  /\ lost' = IF pr[p].hit /\ pr[p].at \in Delivered(p) THEN lost \cup {<<p, pr[p].at>>} ELSE lost
  /\ pr' = [pr EXCEPT ![p] = User] /\ bufs' = bufs \ {p}
  /\ regs' = [regs EXCEPT ![p] = IF Borrows(pr[p].call) THEN pr[p].save ELSE @]
  /\ UNCHANGED <<amx_uctab, amx_ucnext, amx_calls, stk, mask, asked, left, redone, first>>
Restarts(p) ==
  /\ pr[p].pc = "svr4" /\ pr[p].call.fn \in {"waitsys", "other"}
  /\ pr' = [pr EXCEPT ![p] = [User EXCEPT !.call = pr[p].call]] /\ bufs' = bufs \ {p}
  /\ redone' = redone \cup {p}
  /\ UNCHANGED <<amx_uctab, amx_ucnext, amx_calls, stk, mask, asked, regs, lost, left, first>>

(* ... or does the call: the answer is converted, or cannot be copied      *)
(* (EFAULT, with the call done)                                            *)
Returns(p) ==
  LET c == pr[p].call
      sets == c.fn = "sigprocmask" /\ c.in
      taken == [own |-> TRUE, mask |-> mask_out(mask[p]), asked |-> asked[p], regs |-> regs[p], call |-> None]
  IN  /\ pr[p].pc = "svr4" /\ c.fn \notin {"setcontext", "exec", "exit", "fork"}
      /\ mask' = IF sets THEN [mask EXCEPT ![p] = Masked(pr[p].how, @, mask_in(pr[p].set))] ELSE mask
      /\ asked' = IF sets THEN [asked EXCEPT ![p] = Masked(pr[p].how, @, pr[p].set)] ELSE asked
      /\ \/ c.fn = "getcontext" /\ stk' = [stk EXCEPT ![p] = Append(@, taken)]
         \/ (c.fn = "getcontext" => c.out) /\ UNCHANGED stk
      /\ pr' = [pr EXCEPT ![p] = User] /\ bufs' = bufs \ {p}
      /\ regs' = [regs EXCEPT ![p] = IF Borrows(c) THEN pr[p].save ELSE @]
      /\ UNCHANGED <<amx_uctab, amx_ucnext, amx_calls, lost, left, redone, first>>

(* setcontext leaves through the context's PC.  The program returns to     *)
(* what a signal interrupted, a call to restart included, or to its        *)
(* getcontext; a context of the wrong layout is not to be returned by.     *)
Setcontext(p) ==
  LET i == pr[p].at
      f == stk[p][i]
      hit == pr[p].hit
  IN  /\ pr[p].pc = "svr4" /\ pr[p].call.fn = "setcontext"
      /\ bufs' = bufs \ {p}
      /\ IF hit # f.own
         THEN /\ mask' = [mask EXCEPT ![p] = IF f.own THEN mask_in(f.mask) ELSE f.mask]
              /\ asked' = [asked EXCEPT ![p] = f.asked]
              /\ regs' = [regs EXCEPT ![p] = f.regs]
              /\ pr' = [pr EXCEPT ![p] = [User EXCEPT !.call = f.call]]
              /\ stk' = [stk EXCEPT ![p] = SubSeq(@, 1, IF f.own THEN i ELSE i - 1)]
              /\ left' = left \cup {e \in Mine(p) : e[2] > i}
         ELSE /\ mask' = [mask EXCEPT ![p] = IF hit THEN Flip(f.mask) ELSE mask_in(Flip(f.mask))]
              /\ pr' = [pr EXCEPT ![p] = [User EXCEPT !.pc = "wild", !.at = i]]
              /\ UNCHANGED <<asked, regs, stk, left>>
      /\ UNCHANGED <<amx_uctab, amx_ucnext, amx_calls, lost, redone, first>>

(* exec's new image and exit leave the contexts where they are             *)
Ends(p) ==
  /\ pr[p].pc = "svr4" /\ pr[p].call.fn \in {"exec", "exit"}
  /\ pr' = [pr EXCEPT ![p] = IF pr[p].call.fn = "exec" THEN User ELSE Gone]
  /\ stk' = [stk EXCEPT ![p] = <<>>]
  /\ asked' = [asked EXCEPT ![p] = mask_out(mask[p])]
  /\ regs' = [regs EXCEPT ![p] = "own"]
  /\ bufs' = bufs \ {p} /\ redone' = redone \ {p}
  /\ left' = left \cup Mine(p)
  /\ UNCHANGED <<amx_uctab, amx_ucnext, amx_calls, mask, lost, first>>

(* fork copies the stack, and nothing enters the copy's contexts           *)
Forks(p, q) ==
  /\ pr[p].pc = "svr4" /\ pr[p].call.fn = "fork" /\ pr[q].pc = "none"
  /\ pr' = [pr EXCEPT ![p] = User, ![q] = User]
  /\ stk' = [stk EXCEPT ![q] = stk[p]]
  /\ mask' = [mask EXCEPT ![q] = mask[p]] /\ asked' = [asked EXCEPT ![q] = asked[p]]
  /\ regs' = [regs EXCEPT ![q] = regs[p]]
  /\ lost' = lost \cup {<<q, i>> : i \in Delivered(p)}
  /\ redone' = IF p \in redone THEN redone \cup {q} ELSE redone
  /\ UNCHANGED <<amx_uctab, amx_ucnext, amx_calls, bufs, left, first>>

(* amx_uctake: a free slot, else the next in turn, whose context is lost   *)
Slot ==
  LET free == {k \in 1 .. NUc : amx_uctab[k].p = NoProc}
  IN  IF free # {} THEN CHOOSE k \in free : \A l \in free : k <= l ELSE amx_ucnext
amx_uctake(p, i) ==
  /\ amx_uctab' = [amx_uctab EXCEPT ![Slot] = [p |-> p, uc |-> i]]
  /\ amx_ucnext' = IF amx_uctab[Slot].p = NoProc THEN amx_ucnext ELSE (amx_ucnext % NUc) + 1
  /\ lost' = IF amx_uctab[Slot].p = NoProc THEN lost
             ELSE lost \cup {<<amx_uctab[Slot].p, amx_uctab[Slot].uc>>}

(* amx_sendsig: the handler is told AMIX's number; the signal is blocked   *)
amx_sendsig(p, s) ==
  /\ pr[p].pc = "user" /\ s \notin mask[p] /\ Len(stk[p]) < MaxDepth
  /\ amx_uctake(p, Len(stk[p]) + 1)
  /\ stk' = [stk EXCEPT ![p] = Append(@, [own |-> FALSE, mask |-> mask[p], asked |-> asked[p],
                                          regs |-> regs[p], call |-> pr[p].call])]
  /\ mask' = [mask EXCEPT ![p] = @ \cup {s}] /\ asked' = [asked EXCEPT ![p] = @ \cup {sig_out(s)}]
  /\ pr' = [pr EXCEPT ![p] = User]
  /\ UNCHANGED <<amx_calls, regs, bufs, left, redone, first>>

Next ==
  \E p \in Procs :
    \/ \E c \in Calls : Trap(p, c)
    \/ Convert(p) \/ ConvertFails(p)
    \/ Fails(p) \/ Restarts(p) \/ Returns(p) \/ Setcontext(p) \/ Ends(p)
    \/ \E q \in Procs : Forks(p, q)
    \/ \E n \in Sigs : amx_sendsig(p, sig_in(n))

Spec == Init /\ [][Next]_vars

-----------------------------------------------------------------------------
Frames == [own: BOOLEAN, mask: SUBSET (0 .. 64), asked: SUBSET (0 .. 32), regs: {"own", "args"},
           call: Calls \cup {None}]
TypeOK ==
  /\ amx_uctab \in [1 .. NUc -> [p: Procs \cup {NoProc}, uc: Nat]]
  /\ amx_ucnext \in 1 .. NUc /\ amx_calls \in 0 .. MaxCalls
  /\ pr \in [Procs -> [pc: {"none", "user", "gate", "svr4", "wild"}, call: Calls \cup {None}, at: Nat,
                       set: SUBSET Sigs, how: 0 .. 3, hit: BOOLEAN, save: {"own", "args"}]]
  /\ stk \in [Procs -> Seq(Frames)]
  /\ mask \in [Procs -> SUBSET (0 .. 64)] /\ asked \in [Procs -> SUBSET (0 .. 32)]
  /\ regs \in [Procs -> {"own", "args"}]
  /\ bufs \subseteq Procs /\ redone \subseteq Procs
  /\ first \in Inherits /\ lost \subseteq Procs \X Nat /\ left \subseteq Procs \X Nat

(* A kbuf lasts as long as its call, however that ends.  (amx.c:608, 697)  *)
BuffersFreed == \A p \in bufs : pr[p].pc \in {"gate", "svr4"}

(* The table has each context that a signal delivered and the program has  *)
(* yet to return by, and no other; but a full table drops one, a fork      *)
(* copies some it does not have, a setcontext that fails forgets its own,  *)
(* and what a program leaves by a jump, exec or exit stays.  (amx_uctake,  *)
(* amx_ucgive)                                                             *)
Returning(p, i) == pr[p].pc = "svr4" /\ pr[p].call.fn = "setcontext" /\ pr[p].at = i
TableSound ==
  /\ \A p \in Procs : \A i \in Delivered(p) : <<p, i>> \in Entries \cup lost \/ Returning(p, i)
  /\ \A e \in Entries : e[2] \in Delivered(e[1]) \/ e \in left

(* So setcontext is handed a context in this system's layout, whosever it  *)
(* is: a program goes wrong only by a context lost or left.  (amx.c:552)   *)
ContextsRight == \A p \in Procs : pr[p].pc = "wild" => <<p, pr[p].at>> \in lost \cup left

(* The registers the gate borrows are the program's again after the call,  *)
(* but after one that was restarted, which borrows them twice (amx.c:25).  *)
RegsBack == \A p \in Procs : pr[p].pc = "user" /\ p \notin redone => regs[p] = "own"

(* The kernel blocks the signals the program means, by whichever way the   *)
(* mask went: set, saved by a signal or in a context, put back; unless     *)
(* signals that AMIX has no name for came in a native parent's mask.       *)
MaskRight ==
  \A p \in Procs : pr[p].pc = "user" /\ first \subseteq Named => mask_out(mask[p]) = asked[p]

(* Every signal AMIX names comes back as itself, in a status too.          *)
SignalsBack ==
  \A n \in 1 .. 31 :
    /\ sig_out(sig_in(n)) = n
    /\ \A h \in {"killed", "stopped"} : wstat_out([how |-> h, num |-> sig_in(n)]).num = n
    /\ \A c \in 2 .. 6 : si_out([signo |-> 18, code |-> c, status |-> sig_in(n)]).status = n
=============================================================================
