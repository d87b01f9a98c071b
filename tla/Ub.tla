-------------------------------- MODULE Ub --------------------------------
(***************************************************************************)
(* The USB driver's entry points (driver-ub/ub.c): the lock that lets one  *)
(* process into the stack, the daemon that starts the stack, polls it and  *)
(* brings it back when the controller loses its setup (ub_work), the       *)
(* control device's ioctls, and the storage unit as a disk (ubstrategy).   *)
(*                                                                         *)
(* A process runs until it sleeps: for the lock, or inside the stack, whose*)
(* own work is modules Usb, Isp and UbStor. Sizes are in 512-byte blocks.  *)
(*                                                                         *)
(* External: the controller, which loses its setup or its supply MaxLosses *)
(* times, and what the hub polls find plugged in or pulled.                *)
(***************************************************************************)
EXTENDS Integers, FiniteSets, FiniteSetsExt

CONSTANTS
  Users,      \* processes that use the disk
  Admins,     \* processes that use the control device
  Present,    \* buses with a card (1: Lightning VME, 2: NetUSBee)
  Sizes,      \* what may be plugged in: [blocks, bs], bs a device block in 512-byte blocks
  Bounce,     \* the raw requests' buffer (UB_BOUNCE)
  Chunk,      \* the most one command of a cache buffer moves (UB_CHUNK)
  HubEvery,   \* polls of the keyboards to one of the hubs (UB_HUB_EVERY)
  Word,       \* 2^32: what the unsigned arithmetic of ub_rw wraps at
  Reqs,       \* bound: requests for the disk: <<block number, count>>
  RwArgs,     \* bound: what UBIOC_RD and WR are asked for: <<block, blocks>>
  MaxDevs,    \* bound: devices plugged in
  MaxLosses,  \* bound: losses of the controller
  MaxOps,     \* bound: calls of a disk user
  MaxCalls    \* bound: calls of a user of the control device

VARIABLES
  state,    \* ub_state
  bus,      \* ub_bus
  held, busy, wanted,
  lost,     \* ub_lost, as to whether it is zero
  since,    \* since_hubs
  hc,       \* the controller: as the stack left it, without its setup, or dead
  unit,     \* ub_stor[]'s one unit
  hid,      \* ub_hid_present
  pc, rq,   \* each process: where it is, its call
  devs, losses, ops

vars == <<state, bus, held, busy, wanted, lost, since, hc, unit, hid, pc, rq, devs, losses, ops>>
lockvars == <<busy, wanted, pc>>
stack == <<state, bus, held, lost, since, hc, unit, hid, devs>>
bounds == <<losses, ops>>

daemon == "daemon"
Callers == Users \cup Admins
Procs == Callers \cup {daemon}
Buses == {1, 2}
NoUnit == [dev |-> 0, ready |-> FALSE, blocks |-> 0, bs |-> 0]
NoRq == [what |-> "none", bus |-> 0, phys |-> FALSE, count |-> 0, lba |-> 0, n |-> 0, bs |-> 0, dev |-> 0,
         done |-> 0, moved |-> 0, want |-> 0, strayed |-> FALSE, err |-> "none", resid |-> 0]
Errs == {"none", "ENXIO", "EINVAL", "EIO"}

ASSUME UbAssumption ==
  /\ daemon \notin Callers /\ Present \subseteq Buses
  /\ \A s \in Sizes: s.blocks \in Nat /\ s.bs \in Nat
  /\ Bounce \in Nat /\ Chunk \in Nat /\ HubEvery \in Nat \ {0} /\ MaxDevs \in Nat
  /\ Reqs \subseteq Nat \X Nat /\ RwArgs \subseteq Nat \X Nat

TypeOK ==
  /\ state \in {"nochip", "chip", "running"} /\ bus \in {0} \cup Buses
  /\ held \in BOOLEAN /\ busy \in BOOLEAN /\ wanted \in BOOLEAN /\ lost \in BOOLEAN /\ since \in 0 .. HubEvery
  /\ hc \in {"sound", "lost", "dead"} /\ hid \in BOOLEAN
  /\ unit.dev \in 0 .. MaxDevs /\ unit.ready \in BOOLEAN
  /\ pc \in [Procs -> {"out", "lock", "asleep", "in", "polling", "ended", "gone"}]
  /\ \A p \in Procs: rq[p].err \in Errs /\ rq[p].done \in Nat /\ rq[p].resid \in Int

(* ubinit: the stack is not started here *)
Init ==
  /\ state = (IF Present = {} THEN "nochip" ELSE "chip") /\ bus = (IF Present = {} THEN 2 ELSE Min(Present))
  /\ held = FALSE /\ busy = FALSE /\ wanted = FALSE /\ lost = FALSE /\ since = 0 /\ hc = "sound"
  /\ unit = NoUnit /\ hid = FALSE
  /\ pc = [p \in Procs |-> IF p = daemon /\ Present = {} THEN "gone" ELSE "out"]
  /\ rq = [p \in Procs |-> NoRq] /\ devs = 0 /\ losses = 0 /\ ops = [p \in Callers |-> 0]

-----------------------------------------------------------------------------
(* The lock                                                                *)

(* ub_lock: the test again after each wakeup *)
Lock(p) ==
  /\ pc[p] = "lock" /\ ~busy
  /\ busy' = TRUE /\ pc' = [pc EXCEPT ![p] = "in"]
  /\ UNCHANGED <<stack, wanted, rq, bounds>>

Sleep(p) ==
  /\ pc[p] = "lock" /\ busy
  /\ wanted' = TRUE /\ pc' = [pc EXCEPT ![p] = "asleep"]
  /\ UNCHANGED <<stack, busy, rq, bounds>>

(* mutant: only the first one is woken *)
WokenOne(q) == IF wanted /\ pc[q] = "asleep" /\ (\A r \in Callers: pc[r] = "asleep" => r = q \/ q = daemon) THEN "lock" ELSE pc[q]
(* wakeup wakes everyone who sleeps *)
Woken(q) == IF wanted /\ pc[q] = "asleep" THEN "lock" ELSE pc[q]

(* ub_unlock *)
Leave(p, to) ==
  /\ busy' = FALSE /\ wanted' = FALSE
  /\ pc' = [q \in Procs |-> IF q = p THEN to ELSE Woken(q)]

-----------------------------------------------------------------------------
(* The stack, as its holder sees it                                        *)

Usable(u) == u.dev # 0 /\ u.ready /\ u.bs # 0

(* ub_stop: every device gone for its class driver; nothing when it is not running *)
Gone == [unit EXCEPT !.dev = 0, !.ready = FALSE]
Down == IF state = "running" THEN unit' = Gone /\ hid' = FALSE ELSE UNCHANGED <<unit, hid>>
Stopped == IF state = "running" THEN "chip" ELSE state

(* ub_start: a controller that lost its setup gets it again, a dead one does not *)
Starts == state = "running" \/ (state = "chip" /\ hc # "dead")
Start ==
  IF Starts THEN state' = "running" /\ hc' = (IF state = "running" THEN hc ELSE "sound") ELSE UNCHANGED <<state, hc>>

(* ub_probe *)
Probes(b) == b \in Present /\ hc # "dead"

(* what a poll of the hubs may find; a controller without its setup shows no change.
   A unit's size is left from its last device until the next one is asked *)
Finds(up) ==
  \/ UNCHANGED <<unit, hid, devs>>
  \/ /\ up /\ UNCHANGED devs
     /\ \/ unit' = Gone /\ UNCHANGED hid
        \/ hid' = ~hid /\ UNCHANGED unit
  \/ /\ up /\ unit.dev = 0 /\ devs < MaxDevs /\ devs' = devs + 1 /\ UNCHANGED hid
     /\ \/ unit' = [NoUnit EXCEPT !.dev = devs + 1]
        \/ \E s \in Sizes: unit' = [dev |-> devs + 1, ready |-> TRUE, blocks |-> s.blocks, bs |-> s.bs]

-----------------------------------------------------------------------------
(* The daemon: UBIOC_WORK, its delay, and again; it goes when the call fails *)

WorkCall ==
  /\ pc[daemon] = "out" /\ pc' = [pc EXCEPT ![daemon] = "lock"]
  /\ UNCHANGED <<stack, busy, wanted, rq, bounds>>

(* a failed start is kept from the daemon while a loss of the controller is
   being made up for; it tries again, each second *)
AfterFail == IF lost THEN "out" ELSE "gone"

(* mutant: it does not look whether it was told to *)
WaitsNot == FALSE
(* UBIOC_STOP has the daemon wait *)
Waits == held

WorkBegin ==
  /\ pc[daemon] = "in"
  /\ \/ Waits /\ Leave(daemon, "out") /\ UNCHANGED <<state, hc>>
     \/ ~Waits /\ Start /\ IF Starts THEN pc' = [pc EXCEPT ![daemon] = "polling"] /\ UNCHANGED <<busy, wanted>>
                          ELSE Leave(daemon, AfterFail)
  /\ UNCHANGED <<bus, held, lost, since, unit, hid, devs, rq, bounds>>

(* mutant: a loss is not noticed *)
IsLostNever == FALSE
(* ub_hcd_lost *)
IsLost == hc # "sound"

(* the hubs, unless a keyboard's or mouse's polls have the turn; first
   ub_check_hcd: a lost controller takes the stack down until the next call *)
WorkPoll ==
  /\ pc[daemon] = "polling"
  /\ IF hid /\ since + 1 < HubEvery
     THEN since' = since + 1 /\ UNCHANGED <<state, lost, unit, hid, devs>>
     ELSE /\ since' = 0 /\ lost' = IsLost
          /\ IF IsLost THEN state' = Stopped /\ Down /\ UNCHANGED devs
             ELSE Finds(hc = "sound") /\ UNCHANGED state
  /\ Leave(daemon, "out")
  /\ UNCHANGED <<bus, held, hc, rq, bounds>>

-----------------------------------------------------------------------------
(* The control device                                                      *)

Call(p, r) ==
  /\ pc[p] = "out" /\ ops[p] < (IF p \in Users THEN MaxOps ELSE MaxCalls) /\ ops' = [ops EXCEPT ![p] = @ + 1]
  /\ rq' = [rq EXCEPT ![p] = r]
  /\ UNCHANGED <<stack, losses>>
(* it ends without the stack *)
Refused(p) == pc' = [pc EXCEPT ![p] = "ended"] /\ UNCHANGED <<busy, wanted>>
Asks(p) == pc' = [pc EXCEPT ![p] = "lock"] /\ UNCHANGED <<busy, wanted>>

(* START (perhaps with a bus), STOP, POLL, which looks at the state before it has the lock *)
Control(p) ==
  \E what \in {"start", "stop", "poll"}, b \in {0} \cup Buses:
    /\ b # 0 => what = "start"
    /\ Call(p, [NoRq EXCEPT !.what = what, !.bus = b, !.err = IF what = "poll" /\ state # "running" THEN "ENXIO" ELSE "none"])
    /\ IF what = "poll" /\ state # "running" THEN Refused(p) ELSE Asks(p)

(* it goes back to its caller *)
Return(p) ==
  /\ pc[p] = "ended" /\ pc' = [pc EXCEPT ![p] = "out"] /\ rq' = [rq EXCEPT ![p] = NoRq]
  /\ UNCHANGED <<stack, busy, wanted, bounds>>

Is(p, what) == pc[p] = "in" /\ rq[p].what = what

(* ub_setbus: the other bus, back to the old one when there is no chip on it *)
NewBus(p) == rq[p].bus \in Buses /\ ~(state = "running" /\ rq[p].bus = bus)
DoSetBus(p) ==
  /\ Is(p, "start") /\ NewBus(p)
  /\ Down /\ held' = FALSE
  /\ IF Probes(rq[p].bus)
     THEN bus' = rq[p].bus /\ state' = "chip" /\ rq' = [rq EXCEPT ![p].bus = 0] /\ UNCHANGED lockvars
     ELSE /\ bus' = (IF bus # 0 THEN bus ELSE rq[p].bus) /\ state' = (IF bus # 0 /\ Probes(bus) THEN "chip" ELSE "nochip")
          /\ rq' = [rq EXCEPT ![p].err = "ENXIO"] /\ Leave(p, "ended")
  /\ UNCHANGED <<lost, since, hc, devs, bounds>>

DoStart(p) ==
  /\ Is(p, "start") /\ ~NewBus(p)
  /\ held' = FALSE /\ Start
  /\ IF Starts THEN Finds(state # "running" \/ hc = "sound") /\ UNCHANGED rq
     ELSE rq' = [rq EXCEPT ![p].err = IF state = "nochip" THEN "ENXIO" ELSE "EIO"] /\ UNCHANGED <<unit, hid, devs>>
  /\ Leave(p, "ended")
  /\ UNCHANGED <<bus, lost, since, bounds>>

DoStop(p) ==
  /\ Is(p, "stop") /\ held' = TRUE /\ state' = Stopped /\ Down /\ Leave(p, "ended")
  /\ UNCHANGED <<bus, lost, since, hc, devs, rq, bounds>>

DoPoll(p) ==
  /\ Is(p, "poll") /\ Finds(state = "running" /\ hc = "sound") /\ Leave(p, "ended")
  /\ UNCHANGED <<state, bus, held, lost, since, hc, rq, bounds>>

(* UBIOC_RD and WR: ub_rw, everything looked at with the lock held *)
Rw(p) ==
  \E a \in RwArgs: Call(p, [NoRq EXCEPT !.what = "rw", !.lba = a[1], !.n = a[2]]) /\ Asks(p)

Accepts(r) == r.n # 0 /\ (r.n * unit.bs) % Word <= Chunk /\ (r.lba + r.n) % Word <= unit.blocks

DoRw(p) ==
  /\ Is(p, "rw")
  /\ \E err \in Errs, ok \in BOOLEAN:
       /\ ok => hc = "sound" /\ state = "running" /\ Usable(unit)
       /\ err = CASE unit.dev = 0 \/ ~unit.ready -> "ENXIO"
                  [] ~Accepts(rq[p]) -> "EINVAL"
                  [] ~ok -> "EIO" [] OTHER -> "none"
       /\ rq' = [rq EXCEPT ![p].err = err, ![p].want = unit.blocks]
  /\ Leave(p, "ended") /\ UNCHANGED <<stack, bounds>>

-----------------------------------------------------------------------------
(* ubstrategy: a request for a storage unit                                *)

(* it is refused, or done, before the stack is needed *)
Ended(r, err, want) == [r EXCEPT !.err = err, !.resid = r.count, !.want = want, !.what = "ended"]

(* the blocks it is for: cut short at the end of the unit *)
Clipped(lba, n) == IF lba + n > unit.blocks THEN unit.blocks - lba ELSE n

(* the unit is looked up, and the request measured by it, without the lock *)
Refusal(q, phys, mine) ==
  CASE ~Usable(unit) -> "ENXIO"
    [] q[1] % unit.bs # 0 \/ q[2] % unit.bs # 0 -> "EINVAL"
    [] phys /\ ~mine -> "EIO"
    [] OTHER -> "none"
Issues(p, q, phys, why) ==
  LET r == [NoRq EXCEPT !.what = "strategy", !.phys = phys, !.count = q[2]]
      bs == unit.bs
      lba == q[1] \div bs
      n == Clipped(lba, q[2] \div bs)
  IN IF why # "none" THEN Call(p, Ended(r, why, 0)) /\ Refused(p)
     ELSE IF lba >= unit.blocks THEN Call(p, Ended(r, "none", 0)) /\ Refused(p)
     ELSE Call(p, [r EXCEPT !.lba = lba, !.n = n, !.bs = bs, !.dev = unit.dev, !.want = n * bs]) /\ Asks(p)
Strategy(p) ==
  \E q \in Reqs, phys \in BOOLEAN, mine \in BOOLEAN:
    (mine => phys) /\ Issues(p, q, phys, Refusal(q, phys, mine))

(* one piece, by the unit as it is now (UbStor's commands) *)
PieceOf(r) == LET max == (IF r.phys THEN Bounce ELSE Chunk) \div r.bs IN IF r.n - r.done > max THEN max ELSE r.n - r.done

InLoop(p) == Is(p, "strategy") /\ rq[p].done < rq[p].n /\ rq[p].err = "none"
Strays(r) == r.strayed \/ unit.dev # r.dev
CanMove == hc = "sound" /\ state = "running" /\ unit.dev # 0

PieceMoves(p) ==
  /\ InLoop(p) /\ CanMove
  /\ LET r == rq[p] IN
       rq' = [rq EXCEPT ![p] = [r EXCEPT !.done = @ + PieceOf(r), !.moved = @ + PieceOf(r) * unit.bs, !.strayed = Strays(r)]]
  /\ UNCHANGED <<stack, lockvars, bounds>>
PieceFails(p) ==
  /\ InLoop(p)
  /\ rq' = [rq EXCEPT ![p] = [@ EXCEPT !.err = "EIO", !.strayed = Strays(rq[p])]]
  /\ UNCHANGED <<stack, lockvars, bounds>>

(* mutant: of what the unit has, not of what was asked for *)
ResidOfUnit(r) == (r.n - r.done) * r.bs
(* what was not moved is said to be left *)
Resid(r) == r.count - r.done * r.bs

StrategyDone(p) ==
  /\ Is(p, "strategy") /\ (rq[p].done >= rq[p].n \/ rq[p].err # "none")
  /\ rq' = [rq EXCEPT ![p].what = "ended", ![p].resid = Resid(rq[p]),
                      ![p].err = IF rq[p].done < rq[p].n THEN "EIO" ELSE "none"]
  /\ Leave(p, "ended") /\ UNCHANGED <<stack, bounds>>

-----------------------------------------------------------------------------
(* External: the controller loses its setup (a dip of the card's supply), or
   stays dead for a time *)
Loses ==
  /\ losses < MaxLosses /\ losses' = losses + 1 /\ hc = "sound"
  /\ hc' \in {"lost", "dead"}
  /\ UNCHANGED <<state, bus, held, lost, since, unit, hid, devs, lockvars, rq, ops>>
Revives ==
  /\ hc = "dead" /\ hc' = "lost"
  /\ UNCHANGED <<state, bus, held, lost, since, unit, hid, devs, lockvars, rq, bounds>>

Admin(p) == DoSetBus(p) \/ DoStart(p) \/ DoStop(p) \/ DoPoll(p)
Disk(p) == DoRw(p) \/ PieceMoves(p) \/ (~CanMove /\ PieceFails(p)) \/ StrategyDone(p)
Daemon == WorkCall \/ WorkBegin \/ WorkPoll

Next ==
  \/ \E p \in Admins: Control(p) \/ Admin(p)
  \/ \E p \in Users: Rw(p) \/ Strategy(p) \/ Disk(p) \/ PieceFails(p)
  \/ \E p \in Callers: Return(p)
  \/ \E p \in Procs: Lock(p) \/ Sleep(p)
  \/ Daemon \/ Loses \/ Revives

Spec == Init /\ [][Next]_vars

(* Who is in the stack goes on; a controller that is dead comes back. A
   process that wakes up at PRIBIO runs before any that left the stack gets
   back to user code or out of its delay, so nobody passes a waiter for ever. *)
FairSpec ==
  /\ Spec /\ WF_vars(Daemon) /\ WF_vars(Revives)
  /\ \A p \in Admins: WF_vars(Admin(p))
  /\ \A p \in Users: WF_vars(Disk(p))
  /\ \A p \in Callers: WF_vars(Return(p))
  /\ \A p \in Procs: SF_vars(Lock(p)) /\ WF_vars(Sleep(p))

-----------------------------------------------------------------------------
Inside == {p \in Procs: pc[p] \in {"in", "polling"}}

(* One process at a time is in the stack, and nobody sleeps for a lock that
   is free or whose holder does not know: no wakeup is lost.
   (ub_lock, ub_unlock)                                                     *)
LockSound ==
  /\ Cardinality(Inside) = (IF busy THEN 1 ELSE 0)
  /\ \A p \in Procs: pc[p] = "asleep" => busy /\ wanted

(* After UBIOC_STOP the stack stays down until somebody asks for it, whatever
   the daemon and the other processes do. (ub_held) ubioc.h:16 and driver-ub's
   README.md:151-152 say that the daemon brings it up again; ub_work leaves
   while ub_held is set, and only a start clears it.                        *)
StopStays == held /\ ~busy => state # "running"

(* A request for the unit that was looked up moves what it says it moved: the
   rest is in b_resid, and it ends without an error exactly when all of the
   unit it is for was moved. (ubstrategy)                                  *)
MovedOrLeft ==
  \A p \in Users: LET r == rq[p] IN
    r.what = "ended" /\ ~r.strayed =>
      /\ r.resid + r.moved = r.count
      /\ r.err = "none" => r.moved = r.want
      /\ r.err = "EIO" /\ r.bs # 0 => r.moved < r.want

(* Every call that went for the lock ends. (ub_lock, ubstrategy's loop)    *)
CallsEnd == \A p \in Callers: (pc[p] # "out") ~> (pc[p] = "out")

(* With the daemon at work and nobody holding the stack down, a controller
   that lost its setup runs again. (ub_check_hcd, ub_work)                 *)
ComesBack ==
  <>[](~held /\ pc[daemon] # "gone" /\ state # "nochip") => []<>(state = "running" /\ hc = "sound")

(* Not so: the pieces of a request go to the unit it was measured by. It was
   looked up before the lock was taken.                                     *)
UnitStill == \A p \in Users: ~rq[p].strayed

(* Not so: what UBIOC_RD and WR accept lies inside the unit; lba + n wraps. *)
RwInside == \A p \in Users: rq[p].what = "rw" /\ pc[p] = "ended" /\ rq[p].err \in {"none", "EIO"} => rq[p].lba + rq[p].n <= rq[p].want

(* A stop lasts, and a request says what it moved.                         *)
RequestsSound == StopStays /\ MovedOrLeft
(* Every call ends, and a controller that can comes back.                  *)
GoesOn == CallsEnd /\ ComesBack
=============================================================================
