-------------------------------- MODULE Usb --------------------------------
(***************************************************************************)
(* The USB stack's device tree: hub polls, connects and disconnects        *)
(* (driver-ub/hub.c), enumeration and the device table (usb.c), the class  *)
(* drivers' slots (ubstor.c, ubhid.c), the root hub's ports and the pulled *)
(* device (isp116x.c), the stack going down and up (ub.c, ucd.c, udd.c).   *)
(*                                                                         *)
(* One process at a time runs the stack (ub_lock, module Ub), so the stack *)
(* is one sequence of control messages; plugs are pulled and put in        *)
(* between any two of them.  Ports are <<hub, number>>; a thing is what    *)
(* can be plugged in, a device (dev) the stack's record of one.  The       *)
(* contents of descriptors come down to the kind of thing; waits, speeds,  *)
(* packet sizes and strings are left out, over-current too.                *)
(*                                                                         *)
(* External: the things, the ports' bits, the chip's supply.               *)
(***************************************************************************)
EXTENDS Naturals, FiniteSets

CONSTANTS
  Things,     \* what can be plugged in
  Kind,       \* [Things -> {"hub", "stor", "hid", "other"}]
  NoThing, Root,
  NPorts,     \* ports of each hub
  MaxDev,     \* USB_MAX_DEVICE
  MaxHub,     \* USB_MAX_HUB
  MaxStor,    \* UB_STOR_MAX
  MaxHid,     \* UB_HID_MAX
  PortTries,  \* HUB_PORT_TRIES
  MaxMoves,   \* bound: plugs put in and pulled
  MaxFaults   \* bound: messages that fail, ports that drop, supply lost

ASSUME UsbAssumption ==
  /\ Kind \in [Things -> {"hub", "stor", "hid", "other"}]
  /\ NoThing \notin Things /\ Root \notin Things
  /\ NPorts \in Nat \ {0} /\ MaxDev \in Nat \ {0} /\ MaxHub \in Nat \ {0}
  /\ MaxStor \in Nat /\ MaxHid \in Nat /\ PortTries \in Nat \ {0}
  /\ MaxMoves \in Nat /\ MaxFaults \in Nat

VARIABLES
  port,     \* [t, en, csc, pesc]: thing, enabled, connection and enable change
  addr,     \* the address each thing answers to
  powered,  \* hubs whose ports have power
  chip,     \* the host controller: ok, lost (its setup), dead
  dev,      \* usb_dev
  hub,      \* hub_dev
  stor,     \* ub_stor: dev, ready
  hid,      \* ub_hid: dev
  devgone,
  up,       \* ub_state = UB_RUNNING
  poll,     \* the daemon's place in ub_poll_hubs
  moves, faults

vars == <<port, addr, powered, chip, dev, hub, stor, hid, devgone, up, poll, moves, faults>>
world == <<port, addr, powered, chip>>
slots == <<stor, hid>>
stack == <<dev, hub, slots, devgone, up>>

Devs == 1 .. MaxDev
Hubs == {Root} \cup {t \in Things : Kind[t] = "hub"}
Ports == Hubs \X (1 .. NPorts)
Drivers == {"none", "stor", "hid"}

NoPort == [t |-> NoThing, en |-> FALSE, csc |-> FALSE, pesc |-> FALSE]
NoKids == [i \in 1 .. NPorts |-> 0]
NoDev == [live |-> FALSE, thing |-> NoThing, parent |-> 0, at |-> 0, kids |-> NoKids,
          hub |-> 0, drv |-> "none"]
NoHub == [dev |-> 0, tries |-> NoKids]
RootDev == 1
Rest == [pc |-> "idle", h |-> 0, i |-> 0, conn |-> FALSE, d |-> 0]

TypeOK ==
  /\ port \in [Ports -> [t: Things \cup {NoThing}, en: BOOLEAN, csc: BOOLEAN, pesc: BOOLEAN]]
  /\ addr \in [Things -> 0 .. MaxDev] /\ powered \subseteq Hubs /\ chip \in {"ok", "lost", "dead"}
  /\ dev \in [Devs -> [live: BOOLEAN, thing: Things \cup {NoThing, Root}, parent: 0 .. MaxDev,
              at: 0 .. NPorts, kids: [1 .. NPorts -> 0 .. MaxDev], hub: 0 .. MaxHub, drv: Drivers]]
  /\ hub \in [1 .. MaxHub -> [dev: 0 .. MaxDev, tries: [1 .. NPorts -> 0 .. PortTries]]]
  /\ stor \in [1 .. MaxStor -> [dev: 0 .. MaxDev, ready: BOOLEAN]]
  /\ hid \in [1 .. MaxHid -> 0 .. MaxDev]
  /\ devgone \in 0 .. MaxDev /\ up \in BOOLEAN
  /\ poll \in [pc: {"idle", "look", "change", "debounce", "reset", "new", "desc", "reset2",
                    "address", "config", "disable"},
               h: 0 .. MaxHub + 1, i: 0 .. NPorts + 1, conn: BOOLEAN, d: 0 .. MaxDev]
  /\ moves \in 0 .. MaxMoves /\ faults \in 0 .. MaxFaults

Init ==
  /\ port = [p \in Ports |-> NoPort] /\ addr = [t \in Things |-> 0]
  /\ powered = {} /\ chip = "lost"
  /\ dev = [d \in Devs |-> NoDev] /\ hub = [h \in 1 .. MaxHub |-> NoHub]
  /\ stor = [i \in 1 .. MaxStor |-> [dev |-> 0, ready |-> FALSE]]
  /\ hid = [i \in 1 .. MaxHid |-> 0]
  /\ devgone = 0 /\ up = FALSE /\ poll = Rest /\ moves = 0 /\ faults = 0

-----------------------------------------------------------------------------
(* The bus                                                                 *)

Plugged(t) == {p \in Ports : port[p].t = t}
(* t and every hub it hangs from is plugged in and enabled                 *)
Reached[t \in Things \cup {Root}, n \in 0 .. Cardinality(Things)] ==
  \/ t = Root /\ chip = "ok"
  \/ t # Root /\ n > 0 /\ \E p \in Plugged(t) : port[p].en /\ Reached[p[1], n - 1]
Answers(t) == Reached[t, Cardinality(Things)]
At(a) == {t \in Things : Answers(t) /\ addr[t] = a}

(* a hub without power: its ports show nothing                             *)
Unpower(P, H) == [p \in Ports |-> IF p[1] \in H THEN [NoPort EXCEPT !.t = P[p].t] ELSE P[p]]
(* a hub given power: what is plugged in shows                             *)
Power(P, h) == [p \in Ports |-> IF p[1] = h THEN [NoPort EXCEPT !.t = P[p].t, !.csc = P[p].t # NoThing]
                                ELSE P[p]]

PlugIn(p, t) ==
  /\ moves < MaxMoves /\ moves' = moves + 1
  /\ port[p].t = NoThing /\ Plugged(t) = {} /\ p[1] # t
  /\ p[1] \notin {Root} => Kind[t] # "hub" /\ Plugged(p[1]) # {}
  /\ port' = [port EXCEPT ![p].t = t, ![p].csc = @ \/ p[1] \in powered]
  /\ addr' = [addr EXCEPT ![t] = 0]
  /\ UNCHANGED <<powered, chip, stack, poll, faults>>

PullOut(p) ==
  LET t == port[p].t IN
  /\ moves < MaxMoves /\ moves' = moves + 1 /\ t # NoThing
  /\ port' = Unpower([port EXCEPT ![p] = [t |-> NoThing, en |-> FALSE,
                        csc |-> @.csc \/ p[1] \in powered, pesc |-> @.pesc \/ @.en]], {t})
  /\ powered' = powered \ {t}
  /\ UNCHANGED <<addr, chip, stack, poll, faults>>

Faulty == faults < MaxFaults /\ faults' = faults + 1
(* a port that drops its device (EMI), the chip's supply dipping           *)
Drops(p) ==
  /\ Faulty /\ port[p].en
  /\ port' = [port EXCEPT ![p].en = FALSE, ![p].pesc = TRUE]
  /\ UNCHANGED <<addr, powered, chip, stack, poll, moves>>
Dips ==
  /\ Faulty /\ chip = "ok" /\ chip' \in {"lost", "dead"}
  /\ port' = Unpower(port, Hubs) /\ powered' = {}
  /\ UNCHANGED <<addr, stack, poll, moves>>
Revives ==
  /\ chip = "dead" /\ chip' = "lost"
  /\ UNCHANGED <<port, addr, powered, stack, poll, moves, faults>>

(* A message to a device is answered when it alone hears it there; it may  *)
(* fail all the same.  The root hub's messages are register accesses.      *)
Heard(t, a) == t = Root \/ At(a) = {t}
Asked(t, a, ok) ==
  /\ ok => Heard(t, a)
  /\ IF Heard(t, a) /\ ~ok THEN t # Root /\ Faulty ELSE UNCHANGED faults
Shown(p) == p[1] \in powered /\ port[p].t # NoThing

(* isp116x_submit_job: a root hub change seen during the transfer marks    *)
(* its device as pulled, when the first root port that lost its device is  *)
(* the one the device hangs from                                           *)
TopOf[d \in 0 .. MaxDev, n \in 0 .. MaxDev] ==
  IF d = 0 \/ n = 0 \/ dev[d].parent \in {0, RootDev} THEN d ELSE TopOf[dev[d].parent, n - 1]
Emptied == {i \in 1 .. NPorts : LET p == port[<<Root, i>>] IN p.csc /\ p.pesc /\ p.t = NoThing}
Least(S) == CHOOSE x \in S : \A y \in S : x <= y
Pulled(d) == Emptied # {} /\ dev[d].parent # 0 /\ dev[RootDev].kids[Least(Emptied)] = TopOf[d, MaxDev]
Marks(d) == {devgone} \cup {e \in {d} : Pulled(d)}

-----------------------------------------------------------------------------
(* The device table and the class drivers                                  *)

Free == {d \in Devs : ~dev[d].live}
FreeHubs == {h \in 1 .. MaxHub : hub[h].dev = 0}
FreeStor == {i \in 1 .. MaxStor : stor[i].dev = 0}
FreeHid == {i \in 1 .. MaxHid : hid[i] = 0}

(* usb_disconnect: each device and everything below it, their class        *)
(* drivers told, their hub entries cleared, the pulled mark let go         *)
Whole(D) == \A d \in D : \A i \in 1 .. NPorts : dev[d].kids[i] \in D \cup {0}
(* mutant: only the device itself, not what hangs from it *)
FamilyAlone(K) == K \ {0}
Family(K) ==
  {d \in Devs : \A D \in SUBSET Devs : K \subseteq D \cup {0} /\ Whole(D) => d \in D}
LetGo(D) == IF devgone \in D THEN 0 ELSE devgone
(* usb_hub_disconnect, storage_disconnect, hid_disconnect                  *)
HubWithout(D) == [h \in 1 .. MaxHub |-> IF hub[h].dev \in D THEN NoHub ELSE hub[h]]
StorWithout(D) == [i \in 1 .. MaxStor |-> IF stor[i].dev \in D THEN [dev |-> 0, ready |-> FALSE] ELSE stor[i]]
HidWithout(D) == [i \in 1 .. MaxHid |-> IF hid[i] \in D THEN 0 ELSE hid[i]]
Disconnect(parent, K) ==
  LET D == Family(K) IN
  /\ dev' = [e \in Devs |-> IF e \in D THEN NoDev
               ELSE IF e = parent THEN [dev[e] EXCEPT !.kids = [i \in 1 .. NPorts |-> IF @[i] \in K THEN 0 ELSE @[i]]]
               ELSE dev[e]]
  /\ hub' = HubWithout(D)
  /\ stor' = StorWithout(D) /\ hid' = HidWithout(D) /\ devgone' = LetGo(D)

-----------------------------------------------------------------------------
(* The stack up and down                                                   *)

(* isp116x_reset and _start, the root hub configured: its ports powered    *)
ChipUp == chip' = "ok" /\ powered' = {Root} /\ port' = Power(Unpower(port, Hubs), Root)
(* usb_init's empty tables, and the root hub's record in them: it answers  *)
(* its own enumeration (isp116x_submit_rh_msg)                             *)
RootUp == [NoDev EXCEPT !.live = TRUE, !.thing = Root, !.hub = 1]
TablesUp ==
  /\ dev' = [d \in Devs |-> IF d = RootDev THEN RootUp ELSE NoDev]
  /\ hub' = [h \in 1 .. MaxHub |-> IF h = 1 THEN [NoHub EXCEPT !.dev = RootDev] ELSE NoHub]
  /\ devgone' = 0
(* ub_start; the first hub poll follows                                    *)
StartPoll == [Rest EXCEPT !.pc = "look", !.h = 1, !.i = 1]
Start ==
  /\ poll = Rest /\ ~up /\ chip # "dead"
  /\ ChipUp /\ TablesUp /\ up' = TRUE /\ poll' = StartPoll
  /\ UNCHANGED <<addr, slots, moves, faults>>

(* isp116x_stop: the ports' power off, the chip reset                      *)
ChipDown ==
  /\ chip' = IF chip = "ok" THEN "lost" ELSE chip
  /\ port' = Unpower(port, Hubs) /\ powered' = {}
(* ub_stop: the root hub's devices disconnected and its hub entry cleared  *)
(* (its own record is left), the chip stopped and reset                    *)
Stopped ==
  /\ poll = Rest /\ up /\ up' = FALSE
  /\ LET K == {dev[RootDev].kids[i] : i \in 1 .. NPorts} D == Family(K) \cup {RootDev} IN
     /\ dev' = [d \in Devs |-> IF d \in Family(K) THEN NoDev ELSE IF d = RootDev THEN [dev[d] EXCEPT !.kids = NoKids]
                              ELSE dev[d]]
     /\ hub' = HubWithout(D)
     /\ stor' = StorWithout(Family(K)) /\ hid' = HidWithout(Family(K)) /\ devgone' = LetGo(Family(K))
  /\ ChipDown /\ UNCHANGED <<addr, poll>>
(* ub_check_hcd: the controller has lost its setup                         *)
StopLost == chip # "ok" /\ Stopped /\ UNCHANGED <<moves, faults>>
(* UBIOC_STOP, or the chip moved to another bus                            *)
StopAsked == moves < MaxMoves /\ moves' = moves + 1 /\ Stopped /\ UNCHANGED faults

(* a class driver's transfer, between polls                                *)
Job(d) ==
  /\ poll = Rest /\ up /\ dev[d].live /\ devgone' \in Marks(d) \ {devgone}
  /\ UNCHANGED <<world, dev, hub, slots, up, poll, moves, faults>>

-----------------------------------------------------------------------------
(* The hub polls                                                           *)

PollStarts ==
  /\ poll = Rest /\ up /\ chip = "ok" /\ poll' = StartPoll
  /\ UNCHANGED <<world, stack, moves, faults>>

Hdev == hub[poll.h].dev            \* the hub polled: its record, thing and port
Hthing == dev[Hdev].thing
P == <<Hthing, poll.i>>
NextHub == IF poll.h = MaxHub THEN Rest ELSE [StartPoll EXCEPT !.h = poll.h + 1]
NextPort == IF poll.i = NPorts THEN NextHub ELSE [StartPoll EXCEPT !.h = poll.h, !.i = poll.i + 1]
To(pc) == [poll EXCEPT !.pc = pc]

(* usb_get_hub_index, and a port's status that cannot be read: on          *)
LookNone ==
  /\ poll.pc = "look" /\ Hdev = 0 /\ poll' = NextHub
  /\ UNCHANGED <<world, stack, moves, faults>>
LookFails ==
  /\ poll.pc = "look" /\ Hdev # 0 /\ Asked(Hthing, Hdev, FALSE) /\ Hthing # Root
  /\ devgone' \in Marks(Hdev) /\ poll' = NextPort
  /\ UNCHANGED <<world, dev, hub, slots, up, moves>>

(* usb_hub_events: a port's status; conn, the connection it showed, goes   *)
(* with what is done about it                                              *)
Child == dev[Hdev].kids[poll.i]
(* mutant: a device that did not come up is left *)
TriesLeftNever == FALSE
TriesLeft == hub[poll.h].tries[poll.i] < PortTries
Change == [poll EXCEPT !.pc = "change", !.conn = Shown(P)]
Look ==
  /\ poll.pc = "look" /\ Hdev # 0 /\ Asked(Hthing, Hdev, TRUE)
  /\ \/ /\ port[P].csc
        /\ hub' = [hub EXCEPT ![poll.h].tries[poll.i] = 1] /\ poll' = Change
        /\ UNCHANGED port
     \/ /\ ~port[P].csc /\ Shown(P) /\ Child = 0 /\ TriesLeft
        /\ hub' = [hub EXCEPT ![poll.h].tries[poll.i] = @ + 1] /\ poll' = Change
        /\ UNCHANGED port
     \/ /\ ~port[P].csc /\ ~(Shown(P) /\ Child = 0 /\ TriesLeft)
        /\ port' = [port EXCEPT ![P].pesc = FALSE]
        /\ poll' = IF port[P].pesc /\ ~port[P].en /\ Shown(P) /\ Child # 0 THEN Change ELSE NextPort
        /\ UNCHANGED hub
  /\ UNCHANGED <<addr, powered, chip, dev, slots, devgone, up, moves>>

(* usb_hub_port_connect_change: the connection change cleared (an outer    *)
(* hub may miss it), what was there disconnected; the status shown before  *)
(* decides, and nothing connected ends this hub's poll                     *)
(* mutant: every device of the hub goes *)
OldAll == {dev[Hdev].kids[i] : i \in 1 .. NPorts}
Old == {Child}
Connect ==
  /\ poll.pc = "change"
  /\ \E ok \in BOOLEAN :
       /\ Asked(Hthing, Hdev, ok)
       /\ port' = IF ok THEN [port EXCEPT ![P].csc = FALSE] ELSE port
  /\ Disconnect(Hdev, Old)
  /\ poll' = IF poll.conn THEN To("debounce") ELSE NextHub
  /\ UNCHANGED <<addr, powered, chip, up, moves>>

(* hub_port_debounce: 100 ms of steady connection, its change bits cleared *)
Debounce ==
  /\ poll.pc = "debounce"
  /\ \E ok \in BOOLEAN :
       /\ Asked(Hthing, Hdev, ok)
       /\ port' = IF ok THEN [port EXCEPT ![P].csc = FALSE] ELSE port
       /\ poll' = IF ok /\ Shown(P) THEN To("reset") ELSE NextPort
       /\ devgone' \in IF ok THEN {devgone} ELSE Marks(Hdev)
  /\ UNCHANGED <<addr, powered, chip, dev, hub, slots, up, moves>>

(* hub_port_reset: the port enabled, the thing at address 0 and its own    *)
(* ports dark; refused when the connection changed.  A status that cannot  *)
(* be read after the reset leaves the port as the reset made it.           *)
PortReset(t) ==
  /\ port' = Unpower([port EXCEPT ![P].en = TRUE], {t})
  /\ powered' = powered \ {t} /\ addr' = [addr EXCEPT ![t] = 0]
Resets(ok, done, left) ==
  /\ Asked(Hthing, Hdev, ok)
  /\ devgone' \in IF ok THEN {devgone} ELSE Marks(Hdev)
  /\ IF Heard(Hthing, Hdev) /\ Shown(P) THEN PortReset(port[P].t)
     ELSE UNCHANGED <<port, powered, addr>>
  /\ poll' = IF ok /\ Shown(P) /\ ~port[P].csc THEN done ELSE left
Reset1 ==
  /\ poll.pc = "reset" /\ \E ok \in BOOLEAN : Resets(ok, To("new"), NextPort)
  /\ UNCHANGED <<chip, dev, hub, slots, up, moves>>

(* usb_alloc_new_device, the first free record                             *)
NewDevice ==
  /\ poll.pc = "new"
  /\ IF Free = {} THEN poll' = NextPort /\ UNCHANGED dev
     ELSE LET d == Least(Free) IN
          /\ dev' = [dev EXCEPT ![d] = [NoDev EXCEPT !.live = TRUE, !.parent = Hdev, !.at = poll.i],
                                ![Hdev].kids[poll.i] = d]
          /\ poll' = [poll EXCEPT !.pc = "desc", !.d = d]
  /\ UNCHANGED <<world, hub, slots, devgone, up, moves, faults>>

(* usb_new_device, each with its way out: the device answers at address 0, *)
(* the port is reset again, the address is set                             *)
Thing == port[P].t
Answered(a, ok) == IF Thing = NoThing THEN ~ok /\ UNCHANGED faults ELSE Asked(Thing, a, ok)
Describes ==
  /\ poll.pc = "desc"
  /\ \E ok \in BOOLEAN :
       /\ Answered(0, ok)
       /\ devgone' \in IF ok THEN {devgone} ELSE Marks(poll.d)
       /\ poll' = IF ok THEN To("reset2") ELSE To("disable")
  /\ UNCHANGED <<world, dev, hub, slots, up, moves>>
Reset2 ==
  /\ poll.pc = "reset2" /\ \E ok \in BOOLEAN : Resets(ok, To("address"), To("disable"))
  /\ UNCHANGED <<chip, dev, hub, slots, up, moves>>
SetAddress ==
  /\ poll.pc = "address"
  /\ \E ok \in BOOLEAN :
       /\ Answered(0, ok)
       /\ addr' = IF ok THEN [addr EXCEPT ![Thing] = poll.d] ELSE addr
       /\ devgone' \in IF ok THEN {devgone} ELSE Marks(poll.d)
       /\ poll' = IF ok THEN To("config") ELSE To("disable")
  /\ UNCHANGED <<port, powered, chip, dev, hub, slots, up, moves>>

(* usb_find_interface_driver: what becomes of the configured device        *)
Claims(h, st, hi, drv, t) ==
  /\ dev' = [dev EXCEPT ![poll.d].thing = t, ![poll.d].hub = h, ![poll.d].drv = drv]
  /\ hub' = [x \in 1 .. MaxHub |-> IF x = h THEN [NoHub EXCEPT !.dev = poll.d] ELSE hub[x]]
  /\ stor' = st /\ hid' = hi
(* usb_hub_configure                                                       *)
HubProbed(t) ==
  /\ Kind[t] = "hub" /\ FreeHubs # {} /\ Claims(Least(FreeHubs), stor, hid, "none", t)
  /\ powered' = powered \cup {t} /\ port' = Power(port, t)
(* storage_probe: the slot kept, ready or not                              *)
StorProbed(t) ==
  /\ Kind[t] = "stor" /\ FreeStor # {} /\ UNCHANGED <<powered, port>>
  /\ \E ready \in BOOLEAN :
       Claims(0, [stor EXCEPT ![Least(FreeStor)] = [dev |-> poll.d, ready |-> ready]], hid, "stor", t)
(* hid_probe                                                               *)
HidProbed(t) ==
  /\ Kind[t] = "hid" /\ FreeHid # {} /\ UNCHANGED <<powered, port>>
  /\ Claims(0, stor, [hid EXCEPT ![Least(FreeHid)] = poll.d], "hid", t)
(* nobody's: no room, or an interface its class driver does not take       *)
Unclaimed(t) ==
  /\ Kind[t] = "hub" => FreeHubs = {}
  /\ Claims(0, stor, hid, "none", t) /\ UNCHANGED <<powered, port>>

(* the descriptors and the configuration, then the probes                  *)
Configure ==
  /\ poll.pc = "config"
  /\ \E ok \in BOOLEAN :
       /\ Answered(poll.d, ok)
       /\ devgone' \in IF ok THEN {devgone} ELSE Marks(poll.d)
       /\ \/ ok /\ (HubProbed(Thing) \/ StorProbed(Thing) \/ HidProbed(Thing) \/ Unclaimed(Thing))
          \/ ~ok /\ UNCHANGED <<powered, port, dev, hub, slots>>
       /\ poll' = IF ok THEN NextPort ELSE To("disable")
  /\ UNCHANGED <<addr, chip, up, moves>>

(* a hub that stops answering in its own configuration stays without an    *)
(* entry, as one for which there is none                                   *)
HubFails ==
  /\ poll.pc = "config" /\ Answered(poll.d, FALSE) /\ Thing # NoThing /\ Kind[Thing] = "hub"
  /\ devgone' \in Marks(poll.d) /\ Claims(0, stor, hid, "none", Thing) /\ poll' = NextPort
  /\ UNCHANGED <<world, up, moves>>

(* it failed: the record freed, the port disabled                          *)
Disabled == [port EXCEPT ![P].en = FALSE]
NewFails ==
  /\ poll.pc = "disable"
  /\ dev' = [dev EXCEPT ![poll.d] = NoDev, ![Hdev].kids[poll.i] = 0]
  /\ \E ok \in BOOLEAN : Asked(Hthing, Hdev, ok) /\ port' = IF ok THEN Disabled ELSE port
  /\ devgone' = LetGo({poll.d}) /\ poll' = NextPort
  /\ UNCHANGED <<addr, powered, chip, hub, slots, up, moves>>

Poll == \/ LookNone \/ LookFails \/ Look \/ Connect \/ Debounce \/ Reset1 \/ NewDevice \/ Describes
        \/ Reset2 \/ SetAddress \/ Configure \/ HubFails \/ NewFails
Bus == \/ \E p \in Ports : PullOut(p) \/ Drops(p) \/ \E t \in Things : PlugIn(p, t)
       \/ Dips \/ Revives
Next == Bus \/ Start \/ StopLost \/ StopAsked \/ PollStarts \/ Poll \/ \E d \in Devs : Job(d)
Spec == Init /\ [][Next]_vars

(* the daemon comes round for ever; the supply comes back                  *)
FairSpec == Spec /\ WF_vars(Start \/ StopLost \/ PollStarts \/ Poll) /\ WF_vars(Revives)
-----------------------------------------------------------------------------
Live == {d \in Devs : dev[d].live /\ d # RootDev}

(* The table is a tree: each device is the child its parent names at its   *)
(* port, each child is live, and hub entries and their devices name each   *)
(* other - whatever was freed half way.                                    *)
TreeSound ==
  /\ \A d \in Live : LET q == dev[d].parent IN q # 0 /\ dev[q].live /\ dev[q].kids[dev[d].at] = d
  /\ \A d \in Devs : \A i \in 1 .. NPorts : LET k == dev[d].kids[i] IN
       k # 0 => dev[d].live /\ dev[k].live /\ dev[k].parent = d /\ dev[k].at = i
  /\ \A h \in 1 .. MaxHub : hub[h].dev # 0 => dev[hub[h].dev].live /\ dev[hub[h].dev].hub = h

(* A class driver's slot holds a live device that is its own, no device    *)
(* has two, and each device it claimed still has one: nothing is read or   *)
(* written through a record that went to another device.                   *)
SlotsOf(d) == {i \in 1 .. MaxStor : stor[i].dev = d} \cup {i + MaxStor : i \in {j \in 1 .. MaxHid : hid[j] = d}}
SlotsSound ==
  /\ \A i \in 1 .. MaxStor : stor[i].dev # 0 => stor[i].dev \in Live /\ dev[stor[i].dev].drv = "stor"
  /\ \A i \in 1 .. MaxHid : hid[i] # 0 => hid[i] \in Live /\ dev[hid[i]].drv = "hid"
  /\ \A d \in Live : Cardinality(SlotsOf(d)) = IF dev[d].drv = "none" THEN 0 ELSE 1

(* What is sent to a device's address reaches no other thing, though       *)
(* numbers are used again and a port may be left enabled by a device that  *)
(* failed.                                                                 *)
AddressOwn ==
  \A d \in Live : At(d) \subseteq {dev[d].thing} \cup (IF d = poll.d THEN {port[P].t} ELSE {})

(* The device marked as pulled, whose transfers fail for good, is one that *)
(* the root hub's next poll disconnects (or the stop of a lost controller): the mark stays on no device that  *)
(* is plugged in, nor on a record that is used again.                      *)
MarkPasses ==
  devgone # 0 => /\ up /\ devgone \in Live
                 /\ (chip = "ok" => port[<<Root, dev[TopOf[devgone, MaxDev]].at>>].csc)

(* A plug that comes or goes costs no other device its enumeration: one    *)
(* that the polls drop has lost its connection, or its port was disabled,  *)
(* here or nearer the root.                                                *)
Steady(d) ==
  \E way \in SUBSET Devs : d \in way /\ \A e \in way \ {RootDev} :
    dev[e].parent \in way /\ LET p == port[<<dev[dev[e].parent].thing, dev[e].at>>] IN p.en /\ ~p.csc
Undisturbed ==
  [][\A d \in Live : up' /\ dev[d].thing # NoThing /\ ~dev'[d].live => ~Steady(d)]_vars

(* While the controller can come back, what is plugged into the root hub   *)
(* ends up known, at its port and answering at its number, and nothing     *)
(* else does: devices that failed to come up a few times, ports that       *)
(* dropped them, a controller that lost its setup.                         *)
Known(i) ==
  LET t == port[<<Root, i>>].t  d == dev[RootDev].kids[i] IN
  IF t = NoThing THEN d = 0 ELSE d # 0 /\ dev[d].thing = t /\ At(d) = {t}
Settled == <>[](up /\ chip = "ok" /\ \A i \in 1 .. NPorts : Known(i))

(* The records, the hub entries and the class drivers' slots agree, and    *)
(* every device's parents lead to the root hub: no ring is left behind.    *)
NoRing == \A D \in SUBSET Live : D # {} => \E d \in D : dev[d].parent \notin D
TablesSound == TreeSound /\ NoRing /\ SlotsSound
(* Each device's address is its own, the mark of a pulled device passes,   *)
(* and all that is plugged in settles.                                     *)
BusSettles == [](AddressOwn /\ MarkPasses) /\ Settled
=============================================================================
