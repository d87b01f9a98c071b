------------------------------ MODULE UbProofs ------------------------------
(***************************************************************************)
(* Theorems of Ub, for any users, buses, units, requests and bounds.       *)
(*                                                                         *)
(* LockSound rests on LockInv: the one who is inside is the one the lock   *)
(* is busy for, and who sleeps has said so.  Neither says anything of the  *)
(* stack, which only its holder touches, so most actions fall under one of *)
(* four lemmas: it moves a process that is not inside (Outside), the       *)
(* holder stays (Stays, Same), or it leaves (Left).                        *)
(*                                                                         *)
(* RequestsSound rests on Stopping, for the stack that was stopped, and on *)
(* MoveInv, for the requests: what a request was measured by is still true *)
(* of the unit if it is the same unit (Measured).                          *)
(***************************************************************************)
EXTENDS Ub, TLAPS, FiniteSetTheorems

Pcs == {"out", "lock", "asleep", "in", "polling", "ended", "gone"}

LockInv ==
  /\ pc \in [Procs -> Pcs] /\ busy \in BOOLEAN /\ wanted \in BOOLEAN
  /\ busy <=> Inside # {}
  /\ \A p, q \in Inside: p = q
  /\ \A p \in Procs: pc[p] = "asleep" => busy /\ wanted

(* One process inside, or none: the cardinality LockSound speaks of.       *)
LEMMA LockInvSound == LockInv => LockSound
<1> SUFFICES ASSUME LockInv PROVE LockSound
  OBVIOUS
<1>1. CASE busy
  <2>1. PICK p \in Inside: Inside = {p}
    BY <1>1 DEF LockInv
  <2> QED  BY <1>1, <2>1, FS_Singleton DEF LockInv, LockSound
<1>2. CASE ~busy
  BY <1>2, FS_EmptySet DEF LockInv, LockSound
<1> QED  BY <1>1, <1>2 DEF LockInv

(* A process that is outside goes to a place that is neither inside nor    *)
(* asleep.                                                                 *)
LEMMA Outside ==
  ASSUME LockInv, NEW p \in Procs, NEW to \in Pcs \ {"in", "polling", "asleep"},
         pc[p] \notin {"in", "polling"},
         pc' = [pc EXCEPT ![p] = to], UNCHANGED <<busy, wanted>>
  PROVE  LockInv'
<1>1. Inside' = Inside
  BY DEF LockInv, Inside, Pcs
<1> QED  BY <1>1 DEF LockInv, Pcs

(* Whoever is inside may go on to poll, and nothing else moves.            *)
LEMMA Stays ==
  ASSUME LockInv, NEW p \in Procs, pc[p] = "in",
         pc' = [pc EXCEPT ![p] = "polling"], UNCHANGED <<busy, wanted>>
  PROVE  LockInv'
<1>1. Inside' = Inside
  BY DEF LockInv, Inside, Pcs
<1> QED  BY <1>1 DEF LockInv, Pcs

(* ub_unlock: nobody is inside, and nobody sleeps.                         *)
LEMMA Left ==
  ASSUME LockInv, NEW p \in Procs, NEW to \in {"out", "ended", "gone"},
         pc[p] \in {"in", "polling"}, Leave(p, to)
  PROVE  LockInv'
<1>1. pc' \in [Procs -> Pcs]
  BY DEF LockInv, Leave, Woken, Pcs
<1>2. \A q \in Procs: pc'[q] \notin {"in", "polling", "asleep"}
  BY DEF LockInv, Leave, Woken, Inside
<1>3. Inside' = {}
  BY <1>2 DEF Inside
<1> QED  BY <1>1, <1>2, <1>3 DEF LockInv, Leave

LEMMA Same ==
  ASSUME LockInv, UNCHANGED lockvars
  PROVE  LockInv'
BY DEF LockInv, Inside, lockvars

LEMMA LockInit == Init => LockInv
<1> SUFFICES ASSUME Init PROVE LockInv
  OBVIOUS
<1>1. pc \in [Procs -> {"out", "gone"}]
  BY DEF Init
<1> QED  BY <1>1 DEF Init, LockInv, Inside, Pcs

LEMMA LockStep ==
  ASSUME LockInv, [Next]_vars
  PROVE  LockInv'
<1> USE DEF Pcs
<1>1. ASSUME NEW p \in Admins, Control(p) PROVE LockInv'
  BY <1>1, Outside, Zenon DEF Control, Call, Refused, Asks, Procs, Callers
<1>2. ASSUME NEW p \in Admins, Admin(p) PROVE LockInv'
  <2> p \in Procs
    BY DEF Procs, Callers
  <2>1. CASE DoSetBus(p)
    <3>1. pc[p] = "in" /\ (UNCHANGED lockvars \/ Leave(p, "ended"))
      BY <2>1 DEF DoSetBus, Is
    <3> QED  BY <3>1, Left, Same
  <2>2. CASE DoStart(p) \/ DoStop(p) \/ DoPoll(p)
    <3>1. pc[p] = "in" /\ Leave(p, "ended")
      BY <2>2 DEF DoStart, DoStop, DoPoll, Is
    <3> QED  BY <3>1, Left
  <2> QED  BY <1>2, <2>1, <2>2 DEF Admin
<1>3. ASSUME NEW p \in Users, Rw(p) \/ Strategy(p) PROVE LockInv'
  <2>1. pc[p] = "out" /\ (Refused(p) \/ Asks(p))
    BY <1>3 DEF Rw, Strategy, Issues, Call
  <2> QED  BY <2>1, Outside DEF Refused, Asks, Procs, Callers
<1>4. ASSUME NEW p \in Users, Disk(p) \/ PieceFails(p) PROVE LockInv'
  <2> p \in Procs
    BY DEF Procs, Callers
  <2>1. CASE DoRw(p) \/ StrategyDone(p)
    <3>1. pc[p] = "in" /\ Leave(p, "ended")
      BY <2>1 DEF DoRw, StrategyDone, Is
    <3> QED  BY <3>1, Left
  <2>2. CASE PieceMoves(p) \/ PieceFails(p)
    BY <2>2, Same DEF PieceMoves, PieceFails
  <2> QED  BY <1>4, <2>1, <2>2 DEF Disk
<1>5. ASSUME NEW p \in Callers, Return(p) PROVE LockInv'
  BY <1>5, Outside DEF Return, Procs
<1>6. ASSUME NEW p \in Procs, Lock(p) PROVE LockInv'
  <2>1. Inside = {} /\ pc' \in [Procs -> Pcs] /\ \A q \in Procs: q # p => pc'[q] = pc[q]
    BY <1>6 DEF Lock, LockInv
  <2>2. Inside' = {p}
    BY <1>6, <2>1 DEF Lock, LockInv, Inside
  <2> QED  BY <1>6, <2>1, <2>2 DEF Lock, LockInv
<1>7. ASSUME NEW p \in Procs, Sleep(p) PROVE LockInv'
  <2>1. Inside' = Inside
    BY <1>7 DEF Sleep, LockInv, Inside
  <2> QED  BY <1>7, <2>1 DEF Sleep, LockInv
<1>8. CASE Daemon
  <2> daemon \in Procs
    BY DEF Procs
  <2>1. CASE WorkCall
    BY <2>1, Outside DEF WorkCall
  <2>2. CASE WorkBegin
    <3>1. pc[daemon] = "in" /\ \/ Leave(daemon, "out") \/ Leave(daemon, AfterFail)
                               \/ pc' = [pc EXCEPT ![daemon] = "polling"] /\ UNCHANGED <<busy, wanted>>
      BY <2>2 DEF WorkBegin
    <3>2. AfterFail \in {"out", "gone"}
      BY DEF AfterFail
    <3> QED  BY <3>1, <3>2, Left, Stays
  <2>3. CASE WorkPoll
    BY <2>3, Left DEF WorkPoll
  <2> QED  BY <1>8, <2>1, <2>2, <2>3 DEF Daemon
<1>9. CASE Loses \/ Revives \/ UNCHANGED vars
  BY <1>9, Same DEF Loses, Revives, vars, lockvars
<1> QED
  BY <1>1, <1>2, <1>3, <1>4, <1>5, <1>6, <1>7, <1>8, <1>9 DEF Next

(* One process at a time is in the stack, and no wakeup is lost: the lock  *)
(* of ub_lock and ub_unlock, for any processes and whatever they ask.      *)
THEOREM LockHeld == Spec => []LockSound
<1>1. LockInv /\ [Next]_vars => LockInv'
  BY LockStep
<1> QED  BY <1>1, LockInit, LockInvSound, PTL DEF Spec

-----------------------------------------------------------------------------
(* A stop lasts: only UBIOC_START, which takes the hold back, and the      *)
(* daemon, which looks at it, start the stack, each in one piece with the  *)
(* lock held.                                                              *)
Stopping == held => state # "running"

LEMMA StopStep ==
  ASSUME Stopping, [Next]_vars
  PROVE  Stopping'
<1> USE DEF Stopping
<1>1. ASSUME NEW p \in Admins, Control(p) \/ Admin(p) PROVE Stopping'
  BY <1>1 DEF Control, Call, stack, Admin, DoSetBus, DoStart, DoStop, DoPoll, Stopped
<1>2. ASSUME NEW p \in Users, Rw(p) \/ Strategy(p) \/ Disk(p) \/ PieceFails(p) PROVE Stopping'
  <2>1. UNCHANGED stack
    BY <1>2 DEF Rw, Strategy, Issues, Call, Disk, DoRw, PieceMoves, PieceFails, StrategyDone
  <2> QED  BY <2>1 DEF stack
<1>3. ASSUME NEW p \in Procs, Return(p) \/ Lock(p) \/ Sleep(p) PROVE Stopping'
  BY <1>3 DEF Return, Lock, Sleep, stack
<1>4. CASE Daemon
  BY <1>4 DEF Daemon, WorkCall, WorkBegin, WorkPoll, Waits, Stopped, stack
<1>5. CASE Loses \/ Revives \/ UNCHANGED vars
  BY <1>5 DEF Loses, Revives, vars
<1> QED  BY <1>1, <1>2, <1>3, <1>4, <1>5 DEF Next, Procs

(* A request that has not strayed: what it has moved is its pieces in the  *)
(* blocks of the unit it was measured by, which is still there as it was   *)
(* if it is the same one.                                                  *)
Measured(r) ==
  /\ r.dev \in 1 .. devs /\ r.bs \in Nat \ {0} /\ r.n \in Nat /\ r.done \in 0 .. r.n
  /\ r.count \in Nat /\ r.want = r.n * r.bs
  /\ unit.dev = r.dev => unit.bs = r.bs
  /\ ~r.strayed => r.moved = r.done * r.bs
Accounted(r) ==
  r.what = "ended" /\ ~r.strayed =>
    /\ r.resid + r.moved = r.count
    /\ r.err = "none" => r.moved = r.want
    /\ r.err = "EIO" /\ r.bs # 0 => r.moved < r.want
Rqs ==
  [what: {"none", "start", "stop", "poll", "rw", "strategy", "ended"}, bus: {0} \cup Buses, phys: BOOLEAN,
   count: Nat, lba: Nat, n: Nat, bs: Nat, dev: Nat, done: Nat, moved: Nat, want: Nat, strayed: BOOLEAN,
   err: Errs, resid: Int]
Sound(r) == (r.what = "strategy" => Measured(r)) /\ Accounted(r)
MoveInv ==
  /\ devs \in Nat /\ unit \in [dev: 0 .. devs, ready: BOOLEAN, blocks: Nat, bs: Nat]
  /\ rq \in [Procs -> Rqs] /\ \A p \in Procs: Sound(rq[p])

LEMMA NoRqFacts ==
  /\ NoRq \in Rqs /\ NoRq.what = "none" /\ NoRq.err = "none"
  /\ NoRq.moved = 0 /\ NoRq.done = 0 /\ NoRq.bs = 0 /\ ~NoRq.strayed
BY DEF NoRq, Rqs, Errs

LEMMA MoveInit == Init => MoveInv
<1> SUFFICES ASSUME Init PROVE MoveInv
  OBVIOUS
<1>1. NoRq \in Rqs /\ NoRq.what = "none"
  BY NoRqFacts
<1> QED  BY <1>1 DEF Init, MoveInv, NoUnit, Sound, Accounted

(* Nothing but a process's call changes.                                   *)
LEMMA Replaced ==
  ASSUME MoveInv, NEW p \in Procs, NEW r \in Rqs, rq' = [rq EXCEPT ![p] = r],
         UNCHANGED <<unit, devs>>, Sound(r)
  PROVE  MoveInv'
<1>1. \A q \in Procs: rq'[q] = r \/ rq'[q] = rq[q]
  BY DEF MoveInv
<1>2. rq' \in [Procs -> Rqs]
  BY DEF MoveInv
<1>3. \A q \in Procs: Sound(rq'[q])
  BY <1>1 DEF MoveInv
<1>4. \A x \in Rqs: Sound(x) => Sound(x)'
  BY DEF Sound, Measured, Accounted
<1> QED  BY <1>2, <1>3, <1>4 DEF MoveInv, Sound, Measured, Accounted

(* The unit is as it was, gone, or another device's: then it is none that  *)
(* a request was measured by.                                              *)
UnitMoves ==
  \/ UNCHANGED <<unit, devs>>
  \/ unit' = Gone /\ UNCHANGED devs
  \/ /\ devs' = devs + 1
     /\ \/ unit' = [NoUnit EXCEPT !.dev = devs + 1]
        \/ \E s \in Sizes: unit' = [dev |-> devs + 1, ready |-> TRUE, blocks |-> s.blocks, bs |-> s.bs]

LEMMA OtherUnit ==
  ASSUME MoveInv, UnitMoves, rq' \in [Procs -> Rqs],
         \A q \in Procs: rq'[q] = rq[q] \/ rq'[q].what \notin {"strategy", "ended"}
  PROVE  MoveInv'
<1> DEFINE Unit(n) == [dev: 0 .. n, ready: BOOLEAN, blocks: Nat, bs: Nat]
<1>1. devs' \in Nat /\ devs' >= devs /\ unit' \in Unit(devs') /\ (unit' = unit \/ unit'.dev = 0 \/ unit'.dev = devs + 1)
  <2> USE DEF MoveInv
  <2>1. CASE UNCHANGED <<unit, devs>>
    BY <2>1
  <2>2. CASE unit' = Gone /\ UNCHANGED devs
    <3>1. unit \in Unit(devs) /\ 0 \in 0 .. devs
      OBVIOUS
    <3>2. Gone \in Unit(devs)
      BY <3>1 DEF Gone
    <3>3. Gone.dev = 0
      BY <3>1 DEF Gone
    <3> QED  BY <2>2, <3>2, <3>3
  <2>3. CASE devs' = devs + 1 /\ unit' = [NoUnit EXCEPT !.dev = devs + 1]
    <3>1. NoUnit \in Unit(0)
      BY DEF NoUnit
    <3>2. [NoUnit EXCEPT !.dev = devs + 1] \in Unit(devs + 1) /\ [NoUnit EXCEPT !.dev = devs + 1].dev = devs + 1
      BY <3>1
    <3> QED  BY <2>3, <3>2
  <2>4. ASSUME devs' = devs + 1, NEW s \in Sizes,
               unit' = [dev |-> devs + 1, ready |-> TRUE, blocks |-> s.blocks, bs |-> s.bs]
        PROVE  unit' \in Unit(devs') /\ unit'.dev = devs + 1
    <3>1. s.blocks \in Nat /\ s.bs \in Nat
      BY UbAssumption
    <3> QED  BY <2>4, <3>1
  <2> QED  BY <2>1, <2>2, <2>3, <2>4 DEF UnitMoves
<1>2. devs' \in Nat /\ devs' >= devs /\ unit' \in Unit(devs')
  BY <1>1
<1>3. ASSUME NEW q \in Procs, rq'[q] = rq[q], rq[q].what = "strategy" PROVE Measured(rq[q])'
  <2>1. Measured(rq[q])
    BY <1>3 DEF MoveInv, Sound
  <2>2. Measured(rq[q]) => rq[q].dev \in 1 .. devs
    BY DEF Measured
  <2> QED  BY <1>1, <1>3, <2>1, <2>2 DEF Measured, MoveInv
<1>4. \A q \in Procs: Sound(rq[q])'
  BY <1>3 DEF MoveInv, Sound, Accounted
<1> QED  BY <1>2, <1>4 DEF MoveInv

LEMMA FindsMoves == ASSUME NEW up, Finds(up) PROVE UnitMoves
BY DEF Finds, UnitMoves
LEMMA DownMoves == ASSUME Down, UNCHANGED devs PROVE UnitMoves
BY DEF Down, UnitMoves

(* A piece is never more than is left, and adds to what was moved by the   *)
(* blocks of the unit there is.                                            *)
LEMMA PieceSound ==
  ASSUME MoveInv, NEW p \in Users, PieceMoves(p)
  PROVE  MoveInv'
<1> DEFINE r == rq[p]
           x == PieceOf(r)
           n == [r EXCEPT !.done = @ + x, !.moved = @ + x * unit.bs, !.strayed = Strays(r)]
<1>1. p \in Procs /\ r \in Rqs /\ Measured(r) /\ r.done < r.n /\ r.what = "strategy"
  BY DEF MoveInv, Sound, PieceMoves, InLoop, Is, Procs, Callers
<1>2. x \in Nat /\ r.done + x <= r.n
  <2> DEFINE max == (IF r.phys THEN Bounce ELSE Chunk) \div r.bs
  <2>1. max \in Nat
    BY <1>1, UbAssumption DEF Measured
  <2>2. x = IF r.n - r.done > max THEN max ELSE r.n - r.done
    BY DEF PieceOf
  <2> QED  BY <1>1, <2>1, <2>2 DEF Measured
<1>3. unit.bs \in Nat /\ x * unit.bs \in Nat
  BY <1>2 DEF MoveInv
<1> HIDE DEF x
<1>4. n \in Rqs
  <2>1. Strays(r) \in BOOLEAN
    BY <1>1 DEF Strays, Rqs
  <2>2. r.done + x \in Nat /\ r.moved + x * unit.bs \in Nat
    BY <1>1, <1>2, <1>3 DEF Rqs
  <2> QED  BY <1>1, <2>1, <2>2 DEF Rqs
<1>5. ASSUME ~n.strayed PROVE n.moved = n.done * n.bs
  <2>1. ~r.strayed /\ unit.dev = r.dev /\ n.moved = r.moved + x * unit.bs /\ n.done = r.done + x /\ n.bs = r.bs
    BY <1>1, <1>5 DEF Rqs, Strays
  <2>2. r.moved = r.done * r.bs /\ unit.bs = r.bs
    BY <1>1, <2>1 DEF Measured
  <2>3. r.done \in Nat /\ r.bs \in Nat
    BY <1>1 DEF Measured
  <2>4. \A a, b, c \in Nat: (a + b) * c = a * c + b * c
    OBVIOUS
  <2> QED  BY <1>2, <2>1, <2>2, <2>3, <2>4
<1>6. Measured(n) /\ n.what = "strategy"
  <2>1. n.dev = r.dev /\ n.bs = r.bs /\ n.n = r.n /\ n.count = r.count /\ n.want = r.want
        /\ n.done = r.done + x /\ n.what = "strategy"
    BY <1>1 DEF Rqs
  <2> QED  BY <1>1, <1>2, <1>5, <2>1 DEF Measured
<1>7. Sound(n)
  BY <1>6 DEF Sound, Accounted
<1>8. rq' = [rq EXCEPT ![p] = n] /\ UNCHANGED <<unit, devs>>
  BY DEF PieceMoves, stack, x
<1> HIDE DEF n
<1> QED  BY <1>1, <1>4, <1>7, <1>8, Replaced

LEMMA ResidTypes ==
  ASSUME NEW a \in Nat, NEW b \in Nat, NEW c \in Nat
  PROVE  a * b \in Nat /\ c - a * b \in Int
OBVIOUS

(* The end of ubstrategy's loop: what is left is in b_resid.               *)
LEMMA DoneSound ==
  ASSUME MoveInv, NEW p \in Users, StrategyDone(p)
  PROVE  MoveInv'
<1> DEFINE r == rq[p]
           e == IF r.done < r.n THEN "EIO" ELSE "none"
           n == [r EXCEPT !.what = "ended", !.resid = Resid(r), !.err = e]
<1>1. p \in Procs /\ r \in Rqs /\ Measured(r)
  BY DEF MoveInv, Sound, StrategyDone, Is, Procs, Callers
<1>2. Resid(r) \in Int /\ e \in Errs
  BY <1>1, ResidTypes DEF Measured, Resid, Errs
<1>3. n \in Rqs
  BY <1>1, <1>2 DEF Rqs
<1>4. ASSUME ~n.strayed PROVE n.resid + n.moved = n.count /\ (n.err = "none" => n.moved = n.want)
                              /\ (n.err = "EIO" => n.moved < n.want)
  <2>1. n.resid = r.count - r.done * r.bs /\ n.moved = r.done * r.bs /\ n.count = r.count /\ n.want = r.n * r.bs
    BY <1>1, <1>4 DEF Rqs, Measured, Resid
  <2>2. r.done * r.bs \in Nat /\ r.count \in Nat
    BY <1>1 DEF Rqs, Measured
  <2>3. CASE r.done < r.n
    <3>1. \A a, b, c \in Nat: a < b /\ c # 0 => a * c < b * c
      OBVIOUS
    <3>2. r.done * r.bs < r.n * r.bs
      BY <1>1, <2>3, <3>1 DEF Measured
    <3>3. n.err = "EIO"
      BY <1>1, <2>3 DEF Rqs
    <3> QED  BY <2>1, <2>2, <3>2, <3>3
  <2>4. CASE r.done = r.n
    <3>1. n.err = "none"
      BY <1>1, <2>4 DEF Rqs, Measured
    <3> QED  BY <2>1, <2>2, <2>4, <3>1
  <2> QED  BY <1>1, <2>3, <2>4 DEF Measured
<1>5. Sound(n)
  BY <1>1, <1>4 DEF Sound, Accounted, Rqs
<1>6. rq' = [rq EXCEPT ![p] = n] /\ UNCHANGED <<unit, devs>>
  BY DEF StrategyDone, stack
<1> HIDE DEF n
<1> QED  BY <1>1, <1>3, <1>5, <1>6, Replaced

LEMMA EndedFacts ==
  ASSUME NEW r \in Rqs, NEW err \in Errs
  PROVE  LET n == Ended(r, err, 0) IN
         /\ n \in Rqs
         /\ n.resid = r.count /\ n.moved = r.moved /\ n.count = r.count /\ n.want = 0 /\ n.bs = r.bs /\ n.what = "ended"
<1> DEFINE a == [r EXCEPT !.err = err, !.resid = r.count]
<1>1. a \in Rqs /\ a.moved = r.moved /\ a.count = r.count /\ a.bs = r.bs /\ a.resid = r.count
  <2> DEFINE b == [r EXCEPT !.err = err]
  <2>1. b \in Rqs /\ b.count = r.count /\ b.moved = r.moved /\ b.bs = r.bs
    BY DEF Rqs
  <2>2. a = [b EXCEPT !.resid = r.count] /\ r.count \in Int
    BY DEF Rqs
  <2> HIDE DEF a, b
  <2> QED  BY <2>1, <2>2 DEF Rqs
<1>2. Ended(r, err, 0) = [a EXCEPT !.want = 0, !.what = "ended"]
  BY Zenon DEF Ended
<1> HIDE DEF a
<1> DEFINE b == [a EXCEPT !.want = 0]
<1>3. b \in Rqs /\ b.want = 0 /\ b.moved = a.moved /\ b.count = a.count /\ b.bs = a.bs /\ b.resid = a.resid
  BY <1>1 DEF Rqs
<1>4. Ended(r, err, 0) = [b EXCEPT !.what = "ended"]
  BY <1>2
<1> HIDE DEF b
<1> QED  BY <1>1, <1>3, <1>4 DEF Rqs

(* What a new request is measured by.                                      *)
LEMMA StrategySound ==
  ASSUME MoveInv, NEW p \in Users, Strategy(p)
  PROVE  MoveInv'
<1> DEFINE R(phys, count) == [NoRq EXCEPT !.what = "strategy", !.phys = phys, !.count = count]
           M(r, lba, n) == [r EXCEPT !.lba = lba, !.n = n, !.bs = unit.bs, !.dev = unit.dev, !.want = n * unit.bs]
<1>1. PICK q \in Reqs, phys \in BOOLEAN:
        \/ \E err \in Errs: Call(p, Ended(R(phys, q[2]), err, 0))
        \/ /\ Usable(unit) /\ ~(q[1] \div unit.bs >= unit.blocks)
           /\ Call(p, M(R(phys, q[2]), q[1] \div unit.bs, Clipped(q[1] \div unit.bs, q[2] \div unit.bs)))
  <2>1. PICK q \in Reqs, phys \in BOOLEAN, mine \in BOOLEAN: Issues(p, q, phys, Refusal(q, phys, mine))
    BY Zenon DEF Strategy
  <2>2. PICK why \in Errs: Issues(p, q, phys, why) /\ (why = "none" => Usable(unit))
    <3>1. Refusal(q, phys, mine) \in Errs /\ (Refusal(q, phys, mine) = "none" => Usable(unit))
      BY DEF Refusal, Errs
    <3> QED  BY <2>1, <3>1, Zenon
  <2>3. "none" \in Errs
    BY DEF Errs
  <2>4. \/ Call(p, Ended(R(phys, q[2]), why, 0))
        \/ Call(p, Ended(R(phys, q[2]), "none", 0))
        \/ /\ why = "none" /\ ~(q[1] \div unit.bs >= unit.blocks)
           /\ Call(p, M(R(phys, q[2]), q[1] \div unit.bs, Clipped(q[1] \div unit.bs, q[2] \div unit.bs)))
    BY <2>2, Zenon DEF Issues
  <2> QED  BY <2>2, <2>3, <2>4, Zenon
<1> DEFINE r == R(phys, q[2])
<1>2. q[1] \in Nat /\ q[2] \in Nat
  BY UbAssumption
<1>3. r \in Rqs /\ r.moved = 0 /\ r.count = q[2] /\ r.bs = 0 /\ r.done = 0 /\ r.what = "strategy"
  BY <1>2, NoRqFacts DEF Rqs
<1> HIDE DEF R
<1>4. p \in Procs
  BY DEF Procs, Callers
<1>5. ASSUME NEW err \in Errs, Call(p, Ended(r, err, 0)) PROVE MoveInv'
  <2> DEFINE n == Ended(r, err, 0)
  <2>1. n \in Rqs
    BY <1>3, EndedFacts
  <2>2. n.resid = r.count /\ n.moved = 0 /\ n.count = r.count /\ n.want = 0 /\ n.bs = 0 /\ n.what = "ended"
    BY <1>3, EndedFacts
  <2>3. Sound(n)
    BY <1>2, <1>3, <2>2 DEF Sound, Accounted
  <2>4. rq' = [rq EXCEPT ![p] = n] /\ UNCHANGED <<unit, devs>>
    BY <1>5 DEF Call, stack
  <2> HIDE DEF n
  <2> QED  BY <1>4, <2>1, <2>3, <2>4, Replaced
<1>6. ASSUME Usable(unit), ~(q[1] \div unit.bs >= unit.blocks),
             Call(p, M(r, q[1] \div unit.bs, Clipped(q[1] \div unit.bs, q[2] \div unit.bs)))
      PROVE  MoveInv'
  <2> DEFINE lba == q[1] \div unit.bs
             c == Clipped(lba, q[2] \div unit.bs)
             n == M(r, lba, c)
  <2>1. unit.bs \in Nat \ {0} /\ unit.dev \in 1 .. devs /\ unit.blocks \in Nat /\ devs \in Nat
    BY <1>6 DEF MoveInv, Usable
  <2>2. lba \in Nat /\ q[2] \div unit.bs \in Nat
    BY <1>2, <2>1
  <2>3. c \in Nat
    BY <1>6, <2>1, <2>2 DEF Clipped
  <2> HIDE DEF lba, c
  <2>4. c * unit.bs \in Nat
    BY <2>1, <2>3
  <2>5. n \in Rqs
    <3> DEFINE a == [r EXCEPT !.lba = lba, !.n = c, !.bs = unit.bs]
    <3>1. a \in Rqs
      BY <1>3, <2>1, <2>2, <2>3 DEF Rqs
    <3>2. n = [a EXCEPT !.dev = unit.dev, !.want = c * unit.bs]
      OBVIOUS
    <3> HIDE DEF a
    <3> DEFINE b == [a EXCEPT !.dev = unit.dev]
    <3>3. b \in Rqs
      BY <2>1, <3>1 DEF Rqs
    <3>4. n = [b EXCEPT !.want = c * unit.bs]
      BY <3>2
    <3> HIDE DEF b, n
    <3> QED  BY <2>4, <3>3, <3>4 DEF Rqs
  <2>6. /\ n.what = "strategy" /\ n.dev = unit.dev /\ n.bs = unit.bs /\ n.n = c /\ n.done = 0 /\ n.moved = 0
        /\ n.count = q[2] /\ n.want = c * unit.bs
    BY <1>3 DEF Rqs
  <2>7. n.moved = n.done * n.bs
    BY <2>1, <2>6
  <2>8. Sound(n)
    BY <1>2, <2>1, <2>3, <2>6, <2>7 DEF Sound, Measured, Accounted
  <2>9. rq' = [rq EXCEPT ![p] = n] /\ UNCHANGED <<unit, devs>>
    BY <1>6 DEF Call, stack, lba, c
  <2> HIDE DEF n
  <2> QED  BY <1>4, <2>5, <2>8, <2>9, Replaced
<1> QED  BY <1>1, <1>5, <1>6, Zenon

LEMMA MoveStep ==
  ASSUME MoveInv, [Next]_vars
  PROVE  MoveInv'
<1> Admins \subseteq Procs /\ Users \subseteq Procs /\ Callers \subseteq Procs
  BY DEF Procs, Callers
<1>1. ASSUME NEW p \in Procs, NEW r \in Rqs, r.what \notin {"strategy", "ended"}, Call(p, r) PROVE MoveInv'
  BY <1>1, Replaced DEF Call, stack, Sound, Accounted
<1>2. ASSUME NEW p \in Admins, Control(p) PROVE MoveInv'
  <2>1. PICK what \in {"start", "stop", "poll"}, b \in {0} \cup Buses, err \in {"ENXIO", "none"}:
          Call(p, [NoRq EXCEPT !.what = what, !.bus = b, !.err = err])
    BY <1>2 DEF Control
  <2> DEFINE r == [NoRq EXCEPT !.what = what, !.bus = b, !.err = err]
  <2>2. r \in Rqs /\ r.what = what
    BY NoRqFacts DEF Rqs, Errs
  <2> QED  BY <1>1, <2>1, <2>2
<1>3. ASSUME NEW p \in Users, Rw(p) PROVE MoveInv'
  <2>1. PICK a \in RwArgs: Call(p, [NoRq EXCEPT !.what = "rw", !.lba = a[1], !.n = a[2]])
    BY <1>3 DEF Rw
  <2>2. a[1] \in Nat /\ a[2] \in Nat
    BY UbAssumption
  <2> DEFINE r == [NoRq EXCEPT !.what = "rw", !.lba = a[1], !.n = a[2]]
  <2>3. r \in Rqs /\ r.what = "rw"
    BY <2>2, NoRqFacts DEF Rqs
  <2> QED  BY <1>1, <2>1, <2>3
<1>4. ASSUME NEW p \in Admins, Admin(p) PROVE MoveInv'
  <2>1. rq[p] \in Rqs /\ rq \in [Procs -> Rqs]
    BY DEF MoveInv
  <2>2. CASE DoSetBus(p)
    <3>1. rq[p].what = "start" /\ UnitMoves
      BY <2>2, DownMoves DEF DoSetBus, Is
    <3>2. rq' = [rq EXCEPT ![p].bus = 0] \/ rq' = [rq EXCEPT ![p].err = "ENXIO"]
      BY <2>2 DEF DoSetBus
    <3>3. rq' \in [Procs -> Rqs] /\ rq'[p].what = "start" /\ \A q \in Procs \ {p}: rq'[q] = rq[q]
      BY <2>1, <3>1, <3>2 DEF Rqs, Errs
    <3> QED  BY <3>1, <3>3, OtherUnit
  <2>3. CASE DoStart(p)
    <3>1. rq[p].what = "start" /\ UnitMoves
      BY <2>3, FindsMoves DEF DoStart, Is, UnitMoves
    <3>2. rq' = rq \/ \E err \in Errs: rq' = [rq EXCEPT ![p].err = err]
      BY <2>3 DEF DoStart, Errs
    <3>3. rq' \in [Procs -> Rqs] /\ \A q \in Procs: rq'[q] = rq[q] \/ rq'[q].what = "start"
      BY <2>1, <3>1, <3>2 DEF Rqs
    <3> QED  BY <3>1, <3>3, OtherUnit
  <2>4. CASE DoStop(p) \/ DoPoll(p)
    <3>1. UnitMoves /\ rq' = rq
      BY <2>4, FindsMoves, DownMoves DEF DoStop, DoPoll
    <3> QED  BY <2>1, <3>1, OtherUnit
  <2> QED  BY <1>4, <2>2, <2>3, <2>4 DEF Admin
<1>5. ASSUME NEW p \in Users, DoRw(p) PROVE MoveInv'
  <2>1. PICK err \in Errs: rq' = [rq EXCEPT ![p].err = err, ![p].want = unit.blocks]
    BY <1>5 DEF DoRw
  <2>2. rq[p] \in Rqs /\ rq[p].what = "rw" /\ unit.blocks \in Nat /\ UnitMoves /\ rq \in [Procs -> Rqs]
    BY <1>5 DEF DoRw, Is, MoveInv, stack, UnitMoves
  <2>3. rq' \in [Procs -> Rqs] /\ rq'[p].what = "rw" /\ \A q \in Procs \ {p}: rq'[q] = rq[q]
    BY <2>1, <2>2 DEF Rqs
  <2> QED  BY <2>2, <2>3, OtherUnit
<1>6. ASSUME NEW p \in Users, PieceFails(p) PROVE MoveInv'
  <2> DEFINE r == rq[p]
             n == [r EXCEPT !.err = "EIO", !.strayed = Strays(r)]
  <2>1. r \in Rqs /\ Measured(r) /\ r.what = "strategy"
    BY <1>6 DEF PieceFails, InLoop, Is, MoveInv, Sound
  <2>2. Strays(r) \in BOOLEAN
    BY <2>1 DEF Strays, Rqs
  <2>3. n \in Rqs /\ n.what = "strategy"
    BY <2>1, <2>2 DEF Rqs, Errs
  <2>4. Measured(n)
    BY <2>1 DEF Measured, Rqs, Strays
  <2>5. Sound(n) /\ UNCHANGED <<unit, devs>> /\ rq' = [rq EXCEPT ![p] = n]
    BY <1>6, <2>3, <2>4 DEF Sound, Accounted, PieceFails, stack
  <2> HIDE DEF n
  <2> QED  BY <2>3, <2>5, Replaced
<1>7. ASSUME NEW p \in Users, Strategy(p) \/ PieceMoves(p) \/ StrategyDone(p) PROVE MoveInv'
  BY <1>7, StrategySound, PieceSound, DoneSound
<1>8. ASSUME NEW p \in Callers, Return(p) PROVE MoveInv'
  <2>1. NoRq \in Rqs /\ Sound(NoRq)
    BY NoRqFacts DEF Sound, Accounted
  <2> QED  BY <1>8, <2>1, Replaced DEF Return, stack
<1>9. CASE UnitMoves /\ rq' = rq
  BY <1>9, OtherUnit DEF MoveInv
<1>10. ASSUME NEW p \in Procs, Lock(p) \/ Sleep(p) PROVE MoveInv'
  BY <1>9, <1>10 DEF Lock, Sleep, stack, UnitMoves
<1>11. CASE Daemon
  <2>1. CASE WorkPoll
    BY <1>9, <2>1, FindsMoves, DownMoves DEF WorkPoll, UnitMoves
  <2>2. CASE WorkCall \/ WorkBegin
    BY <1>9, <2>2 DEF WorkCall, WorkBegin, UnitMoves, stack
  <2> QED  BY <1>11, <2>1, <2>2 DEF Daemon
<1>12. CASE Loses \/ Revives \/ UNCHANGED vars
  BY <1>9, <1>12 DEF Loses, Revives, vars, UnitMoves
<1> QED
  BY <1>2, <1>3, <1>4, <1>5, <1>6, <1>7, <1>8, <1>10, <1>11, <1>12 DEF Next, Disk

(* A stop lasts, and a request for the disk says what it moved: for any    *)
(* sizes of unit, request, buffer and command, and whatever is pulled and  *)
(* plugged in while it goes on.                                            *)
THEOREM RequestsKept == Spec => []RequestsSound
<1>1. Init => Stopping
  BY DEF Init, Stopping
<1>2. Stopping /\ [Next]_vars => Stopping'
  BY StopStep
<1>3. MoveInv /\ [Next]_vars => MoveInv'
  BY MoveStep
<1>4. Stopping /\ MoveInv => RequestsSound
  BY DEF Stopping, MoveInv, Sound, Accounted, RequestsSound, StopStays, MovedOrLeft, Procs, Callers
<1> QED  BY <1>1, <1>2, <1>3, <1>4, MoveInit, PTL DEF Spec
=============================================================================
