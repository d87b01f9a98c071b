-------------------------------- MODULE Nu --------------------------------
(***************************************************************************)
(* The NetUSBee's Ethernet: the DP8390 chip core (driver-nu/nuchip.c) under*)
(* a DLPI STREAMS driver (driver-nu/nu.c).                                 *)
(*                                                                         *)
(* No interrupt: a callout each tick enables the read queue of one open    *)
(* stream, whose service procedure nursrv does all the chip's work.  It    *)
(* runs in process context, so calls of other processes do not interleave  *)
(* with it; the card does, storing frames in its ring and sending, and so  *)
(* do timers: the tick, and a put procedure that queues a frame.           *)
(*                                                                         *)
(* The ring's pages are 0 .. Ring-1; a page holds its part of a frame, the *)
(* first one the header.  There is one transmit buffer (NU_NTX).  Register *)
(* accesses, the caches and the CRC's place in a count are left out; what  *)
(* they can do to the chip when they go wrong is Strays.                   *)
(*                                                                         *)
(* External: the card, the STREAMS scheduler, the clock.                   *)
(***************************************************************************)
EXTENDS Naturals, Sequences, FiniteSets

CONSTANTS
  Streams,      \* queue pairs, named by their read queue
  NoQ,
  NMinor,       \* NU_NMINOR
  Saps,         \* ethertypes that streams bind to
  RxSap,        \* the type of the frames that arrive
  NoSap,
  Ring,         \* pages of the receive ring
  FramePages,   \* sizes of frames, in pages
  Skips,        \* pages a chip may leave out after a frame (0, some 1)
  Burst,        \* NU_RXBURST
  Turns,        \* turns of nursrv's loop
  MaxAge,       \* polls a transmit may take
  RecoverEvery, \* NU_RECOVER_EVERY
  Bad,          \* frames to send that are too short or too long
  BadRx,        \* frames that arrive damaged, or too short or too long
  MaxRx,        \* bound: frames received
  MaxTx,        \* bound: frames sent down
  MaxFaults     \* bound: things that go wrong with the card

ASSUME NuAssumption ==
  /\ NMinor \in Nat \ {0} /\ Ring \in Nat \ {0, 1}
  /\ FramePages \subseteq 1 .. Ring - 1 /\ Skips \subseteq {0, 1}
  /\ Burst \in Nat \ {0} /\ Turns \in Nat \ {0} /\ MaxAge \in Nat
  /\ RecoverEvery \in Nat \ {0, 1} /\ Bad \subseteq Nat /\ BadRx \subseteq Nat
  /\ MaxRx \in Nat /\ MaxTx \in Nat /\ MaxFaults \in Nat
  /\ NoQ \notin Streams /\ NoSap \notin Saps

VARIABLES
  chip,     \* the card
  sc,       \* nu_sc
  up,       \* nu_up, and with it ENF_RUNNING and the callout
  due,      \* lbolt - nu_retry >= 0
  srv,      \* nursrv's place
  min,      \* en_min
  pollq,    \* nu_pollq
  enab,     \* read queues that qenable put on the scheduler's list
  wq,       \* the write queues
  wqcnt,    \* if_wqcnt
  nextmin,  \* if_nextmin
  got,      \* the last frame passed up: its pages, as they were read
  nrx, ntx, faults

vars == <<chip, sc, up, due, srv, min, pollq, enab, wq, wqcnt, nextmin, got, nrx, ntx, faults>>
drv == <<up, due, min, pollq, enab, wq, wqcnt, nextmin, ntx>>

Minors == 0 .. NMinor - 1
Pages == 0 .. Ring - 1
Page == [f: 0 .. MaxRx, k: Nat, n: Nat, nxt: 0 .. Ring, ok: BOOLEAN]
Blank == [f |-> 0, k |-> 0, n |-> 0, nxt |-> Ring, ok |-> FALSE]
NoMinor == [q |-> NoQ, idle |-> FALSE, sap |-> NoSap]
Rest == [pc |-> "idle", q |-> NoQ, turn |-> 0, n |-> 0, work |-> FALSE,
         ovw |-> FALSE, resend |-> FALSE, tries |-> 0]
Wrap(p) == p % Ring

TypeOK ==
  /\ chip \in [health: {"ok", "stuck", "gone"}, on: BOOLEAN, sane: BOOLEAN,
               loop: BOOLEAN, curr: 0 .. Ring, bnry: Pages, mem: [Pages -> Page],
               isr: SUBSET {"OVW", "PTX"}, buf: 0 .. MaxTx, txp: BOOLEAN]
  /\ sc \in [running: BOOLEAN, rxnext: 0 .. Ring, txlen: 0 .. MaxTx, txcur: BOOLEAN,
             txage: 0 .. MaxAge, failrun: 0 .. 2 * RecoverEvery - 1]
  /\ srv \in [pc: {"idle", "rx", "copy", "tx", "send"}, q: Streams \cup {NoQ},
              turn: 0 .. Turns, n: 0 .. Burst, work: BOOLEAN, ovw: BOOLEAN,
              resend: BOOLEAN, tries: 0 .. 2 * NMinor]
  /\ up \in BOOLEAN /\ due \in BOOLEAN
  /\ min \in [Minors -> [q: Streams \cup {NoQ}, idle: BOOLEAN, sap: Saps \cup {NoSap}]]
  /\ pollq \in Streams \cup {NoQ} /\ enab \subseteq Streams
  /\ wq \in [Streams -> Seq(1 .. MaxTx)] /\ wqcnt \in Nat /\ nextmin \in Minors
  /\ got \in Seq(Page) /\ nrx \in 0 .. MaxRx /\ ntx \in 0 .. MaxTx /\ faults \in 0 .. MaxFaults

Init ==
  /\ chip = [health |-> "ok", on |-> FALSE, sane |-> TRUE, loop |-> FALSE, curr |-> 0,
             bnry |-> 0, mem |-> [p \in Pages |-> Blank], isr |-> {}, buf |-> 0, txp |-> FALSE]
  /\ sc = [running |-> FALSE, rxnext |-> 0, txlen |-> 0, txcur |-> FALSE, txage |-> 0, failrun |-> 0]
  /\ up = FALSE /\ due = FALSE /\ srv = Rest
  /\ min = [m \in Minors |-> NoMinor] /\ pollq = NoQ /\ enab = {}
  /\ wq = [q \in Streams |-> <<>>] /\ wqcnt = 0 /\ nextmin = 0
  /\ got = <<>> /\ nrx = 0 /\ ntx = 0 /\ faults = 0

-----------------------------------------------------------------------------
(* The card                                                                *)

(* A frame of n pages arrives; its header's next page may leave one out.   *)
(* The card never fills the page at BNRY: it gives up with OVW, and takes  *)
(* nothing more until that is cleared.                                     *)
Listens == chip.on /\ ~chip.loop /\ "OVW" \notin chip.isr /\ chip.curr # Ring
Receive(n, skip) ==
  LET at == [i \in 0 .. n + skip - 1 |-> Wrap(chip.curr + i)]
      nxt == Wrap(chip.curr + n + skip)
  IN
  /\ Listens /\ nrx < MaxRx /\ nrx' = nrx + 1
  /\ chip' = IF chip.bnry \in {at[i] : i \in DOMAIN at}
             THEN [chip EXCEPT !.isr = @ \cup {"OVW"}]
             ELSE [chip EXCEPT !.curr = nxt,
                    !.mem = [p \in Pages |->
                      IF \E i \in 0 .. n - 1 : at[i] = p
                      THEN [f |-> nrx + 1, k |-> CHOOSE i \in 0 .. n - 1 : at[i] = p,
                            n |-> n, nxt |-> nxt, ok |-> nrx + 1 \notin BadRx]
                      ELSE @[p]]]
  /\ UNCHANGED <<drv, sc, srv, got, faults>>

Sent ==
  /\ chip.txp /\ chip.on /\ ~chip.loop
  /\ chip' = [chip EXCEPT !.txp = FALSE, !.isr = @ \cup {"PTX"}]
  /\ UNCHANGED <<drv, sc, srv, got, nrx, faults>>

(* What goes wrong: the chip stops and comes back only with nu_recover     *)
(* (stuck) or not until somebody sees to it (gone); a register access goes *)
(* astray and leaves another page selected or a CURR that makes no sense;  *)
(* a frame's header makes none; a transmit is forgotten.                   *)
Breaks(h) ==
  /\ chip.health = "ok" /\ h # "ok"
  /\ chip' = [chip EXCEPT !.health = h, !.on = FALSE, !.txp = FALSE]
Strays ==
  \/ chip' = [chip EXCEPT !.sane = FALSE]
  \/ chip' = [chip EXCEPT !.curr = Ring]
Garbles ==
  /\ chip.curr # sc.rxnext /\ sc.running /\ srv.pc # "copy"
  /\ chip' = [chip EXCEPT !.mem[sc.rxnext] = [@ EXCEPT !.nxt = Ring]]
Forgets == chip.txp /\ chip' = [chip EXCEPT !.txp = FALSE]
Fault ==
  /\ faults < MaxFaults /\ faults' = faults + 1 /\ up /\ chip.on
  /\ Breaks("stuck") \/ Breaks("gone") \/ Strays \/ Garbles \/ Forgets
  /\ UNCHANGED <<drv, sc, srv, got, nrx>>
Heals ==
  /\ chip.health = "gone" /\ chip' = [chip EXCEPT !.health = "stuck"]
  /\ UNCHANGED <<drv, sc, srv, got, nrx, faults>>

-----------------------------------------------------------------------------
(* Bringing the card up                                                    *)

NoTx(t) == [t EXCEPT !.txlen = 0, !.txcur = FALSE, !.txage = 0]

(* mutant: the transmit buffer stays taken *)
InitSetKeepsTx(t) == [t EXCEPT !.running = TRUE, !.rxnext = 0]
InitSet(t) == [NoTx(t) EXCEPT !.running = TRUE, !.rxnext = 0]

(* nu_init: a chip that is gone does not come out of reset, a stuck one    *)
(* does not keep what it is given.  Then what its callers but nu_test do   *)
(* about it (nu_initok, nu_initfail): failrun counts the failures in a row,*)
(* on by RecoverEvery past its bound.                                      *)
FailRun(n) == IF n + 1 < 2 * RecoverEvery THEN n + 1 ELSE RecoverEvery
ChipInit(c) ==
  IF c.health = "ok"
  THEN [c EXCEPT !.on = TRUE, !.sane = TRUE, !.loop = FALSE, !.curr = 0,
                 !.bnry = Ring - 1, !.isr = {}, !.txp = FALSE]
  ELSE [c EXCEPT !.on = FALSE, !.txp = FALSE]
ScInit(c, t) ==
  CASE c.health = "ok"    -> InitSet(t)
    [] c.health = "stuck" -> [NoTx(t) EXCEPT !.running = FALSE, !.rxnext = 0]
    [] c.health = "gone"  -> [t EXCEPT !.running = FALSE]
Told(t) == [t EXCEPT !.failrun = IF t.running THEN 0 ELSE FailRun(@)]

(* nu_recover: probed again, CONFIG1-3 put back                            *)
Reprobed(c) == [c EXCEPT !.health = IF @ = "stuck" THEN "ok" ELSE @]

(* nu_linit, the first open's (and the boot's, nudriverinfo)               *)
Linit ==
  IF up \/ chip.health = "gone" THEN UNCHANGED <<chip, sc, up, due>>
  ELSE /\ chip' = ChipInit(chip) /\ sc' = Told(ScInit(chip, sc))
       /\ up' = TRUE /\ due' = TRUE

Driverinfo ==
  /\ srv = Rest /\ ~up /\ Linit
  /\ UNCHANGED <<srv, min, pollq, enab, wq, wqcnt, nextmin, got, nrx, ntx, faults>>

(* NUIOC_TEST: probe and init now; the next try a second later.  failrun   *)
(* stays what it was.                                                      *)
NuTest ==
  /\ srv = Rest /\ \E m \in Minors : min[m].q # NoQ
  /\ faults < MaxFaults /\ faults' = faults + 1
  /\ LET t == [sc EXCEPT !.running = FALSE]
     IN  IF chip.health = "gone" THEN sc' = t /\ UNCHANGED chip
         ELSE sc' = ScInit(chip, t) /\ chip' = ChipInit(chip)
  /\ due' = FALSE
  /\ UNCHANGED <<srv, up, min, pollq, enab, wq, wqcnt, nextmin, got, nrx, ntx>>

-----------------------------------------------------------------------------
(* The service procedure                                                   *)

Qenable(q) == IF q = NoQ THEN enab ELSE enab \cup {q}

(* nu_tick *)
Tick ==
  /\ up /\ enab' = Qenable(pollq)
  /\ UNCHANGED <<chip, sc, up, due, srv, min, pollq, wq, wqcnt, nextmin, got, nrx, ntx, faults>>
Second ==
  /\ ~due /\ due' = TRUE
  /\ UNCHANGED <<chip, sc, up, srv, min, pollq, enab, wq, wqcnt, nextmin, got, nrx, ntx, faults>>

(* nu_poll's start: nothing while the chip is down; a chip that is not as  *)
(* it was left is given up (reinit); OVW gets the datasheet's recovery     *)
(* (nu_overflow): stop, loopback, drain.  A transmit under way ends in the *)
(* two milliseconds of the stop or is cut short.                           *)
Left(c) == c.on /\ c.sane
PollStarts(c, t, v) ==
  \/ /\ ~t.running /\ chip' = c /\ sc' = t /\ srv' = [v EXCEPT !.pc = "send", !.work = FALSE]
  \/ /\ t.running /\ ~Left(c)
     /\ chip' = c /\ sc' = [t EXCEPT !.running = FALSE]
     /\ srv' = [v EXCEPT !.pc = "send", !.work = FALSE]
  \/ /\ t.running /\ Left(c) /\ "OVW" \in c.isr
     /\ \E cut \in IF c.txp THEN BOOLEAN ELSE {FALSE} :
          /\ chip' = [c EXCEPT !.loop = TRUE, !.txp = FALSE,
                      !.isr = IF c.txp /\ ~cut THEN @ \cup {"PTX"} ELSE @]
          /\ srv' = [v EXCEPT !.pc = "rx", !.ovw = TRUE, !.resend = cut, !.work = TRUE]
     /\ sc' = t
  \/ /\ t.running /\ Left(c) /\ "OVW" \notin c.isr
     /\ chip' = c /\ sc' = t /\ srv' = [v EXCEPT !.pc = "rx", !.work = FALSE]

(* mutant: a chip that stays dead is never probed again *)
NeedsRecoverNever == FALSE
NeedsRecover == sc.failrun > 0 /\ sc.failrun % RecoverEvery = 0
Nursrv(q) ==
  LET again == ~sc.running /\ due
      c == IF again /\ NeedsRecover THEN Reprobed(chip) ELSE chip
      v == [Rest EXCEPT !.q = q]
  IN
  /\ srv = Rest /\ q \in enab /\ enab' = enab \ {q}
  /\ IF ~up THEN UNCHANGED <<chip, sc, srv, due>>
     ELSE /\ due' = (due /\ ~again)
          /\ IF again THEN PollStarts(ChipInit(c), Told(ScInit(c, sc)), v)
                      ELSE PollStarts(chip, sc, v)
  /\ UNCHANGED <<up, min, pollq, wq, wqcnt, nextmin, got, nrx, ntx, faults>>

(* nu_setbnry: the page before the one read next                           *)
Bnry(rxnext) == Wrap(rxnext + Ring - 1)
Read(nxt) ==
  /\ sc' = [sc EXCEPT !.rxnext = nxt]
  /\ chip' = [chip EXCEPT !.bnry = Bnry(nxt)]

(* A header makes sense if its next page lies as many pages on as the      *)
(* count says, or one more.                                                *)
Sensible(h) ==
  /\ h.nxt \in Pages /\ h.n > 0
  /\ Wrap(h.nxt + Ring - sc.rxnext) \in {h.n, h.n + 1}

(* nu_rxdrain, one frame: CURR and the header are read ...                 *)
(* mutant: the frame's pages are given back before they are read *)
RxLookFrees ==
  LET h == chip.mem[sc.rxnext] IN
  /\ srv.pc = "rx" /\ srv.n < Burst /\ chip.curr \in Pages \ {sc.rxnext} /\ Sensible(h)
  /\ chip' = [chip EXCEPT !.bnry = Bnry(h.nxt)] /\ srv' = [srv EXCEPT !.pc = "copy"]
  /\ UNCHANGED <<drv, sc, got, nrx, faults>>
RxLook ==
  LET h == chip.mem[sc.rxnext] IN
  /\ srv.pc = "rx" /\ srv.n < Burst /\ chip.curr \in Pages \ {sc.rxnext}
  /\ \/ Sensible(h) /\ h.ok /\ srv' = [srv EXCEPT !.pc = "copy"] /\ UNCHANGED <<sc, chip>>
     \/ Sensible(h) /\ ~h.ok /\ srv' = [srv EXCEPT !.n = @ + 1] /\ Read(h.nxt)
     \/ ~Sensible(h) /\ srv' = [srv EXCEPT !.pc = "tx"] /\ Read(chip.curr)
  /\ UNCHANGED <<drv, got, nrx, faults>>

(* ... and then its pages; nu_input and en_rproc pass it to the stream     *)
(* bound to its type, if there is one and memory for it.                   *)
Routed == \E m \in Minors : min[m].idle /\ min[m].sap = RxSap /\ min[m].q # NoQ
RxCopy ==
  LET h == chip.mem[sc.rxnext]
      body == [i \in 1 .. h.n |-> chip.mem[Wrap(sc.rxnext + i - 1)]]
  IN
  /\ srv.pc = "copy"
  /\ got' \in IF Routed THEN {got, body} ELSE {got}
  /\ Read(h.nxt) /\ srv' = [srv EXCEPT !.pc = "rx", !.n = @ + 1]
  /\ UNCHANGED <<drv, nrx, faults>>

(* the drain's end: the ring is empty, the burst is over or the clock is   *)
(* due (after any frame), or CURR makes no sense, and the chip is given up *)
RxEnds ==
  /\ srv.pc = "rx"
  /\ \/ /\ srv.n < Burst /\ chip.curr = Ring
        /\ sc' = [sc EXCEPT !.running = FALSE]
        /\ srv' = [srv EXCEPT !.pc = "send", !.work = FALSE]
     \/ /\ srv.n > 0 \/ chip.curr = sc.rxnext
        /\ srv' = [srv EXCEPT !.pc = "tx"] /\ UNCHANGED sc
  /\ UNCHANGED <<drv, chip, got, nrx, faults>>

(* nu_txreclaim: the buffer is free once the chip says so                  *)
(* mutant: or as soon as it is asked *)
DoneAnyway(c, t) == t.txcur
Done(c, t) == t.txcur /\ "PTX" \in c.isr
Reclaim(t) == [t EXCEPT !.txlen = 0, !.txcur = FALSE]
Acked(c) == [c EXCEPT !.isr = @ \ {"PTX"}]

(* the rest of nu_overflow and nu_poll: a transmit that was cut short is   *)
(* sent again, a finished one reclaimed, one too old gives the chip up     *)
TxEnds ==
  LET c == IF srv.ovw THEN [chip EXCEPT !.isr = @ \ {"OVW"}, !.loop = FALSE, !.txp = srv.resend]
           ELSE chip
      v == [srv EXCEPT !.pc = "send", !.ovw = FALSE, !.resend = FALSE, !.n = 0,
                       !.work = srv.ovw \/ srv.n > 0]
  IN
  /\ srv.pc = "tx"
  /\ \/ Done(c, sc) /\ chip' = Acked(c) /\ sc' = Reclaim(sc) /\ srv' = [v EXCEPT !.work = TRUE]
     \/ /\ ~Done(c, sc) /\ chip' = c
        /\ \/ ~sc.txcur /\ srv' = v /\ UNCHANGED sc
           \/ sc.txcur /\ sc.txage < MaxAge /\ srv' = v /\ sc' = [sc EXCEPT !.txage = @ + 1]
           \/ /\ sc.txcur /\ sc.txage = MaxAge
              /\ sc' = [sc EXCEPT !.running = FALSE] /\ srv' = [v EXCEPT !.work = FALSE]
  /\ UNCHANGED <<drv, got, nrx, faults>>

(* nu_send: the next minor after if_nextmin with a frame                   *)
Queue(m) == IF min[m].q = NoQ THEN <<>> ELSE wq[min[m].q]
Turn(i) == (nextmin + i) % NMinor
Steps == {i \in 1 .. NMinor : Queue(Turn(i)) # <<>>}
Far == CHOOSE i \in Steps : \A j \in Steps : i <= j
CanSend == sc.running /\ wqcnt > 0 /\ Steps # {} /\ srv.tries + Far <= 2 * NMinor
NoRoom == sc.txlen # 0 /\ ~Done(chip, sc)

(* nu_xmit, nu_txstart and nu_kick of one frame                            *)
Send ==
  LET m == Turn(Far)
      q == min[m].q
      f == Head(wq[q])
      t == IF sc.txlen # 0 THEN Reclaim(sc) ELSE sc
      c == IF sc.txlen # 0 THEN Acked(chip) ELSE chip
  IN
  /\ srv.pc = "send" /\ CanSend /\ ~NoRoom
  /\ wq' = [wq EXCEPT ![q] = Tail(@)] /\ wqcnt' = wqcnt - 1 /\ nextmin' = m
  /\ srv' = [srv EXCEPT !.tries = @ + Far, !.work = TRUE]
  /\ IF f \in Bad THEN sc' = t /\ chip' = c
     ELSE /\ sc' = [t EXCEPT !.txlen = f, !.txcur = TRUE, !.txage = 0]
          /\ chip' = [c EXCEPT !.buf = f, !.txp = TRUE]
  /\ UNCHANGED <<up, due, min, pollq, enab, got, nrx, ntx, faults>>

(* nothing more to send: another turn while there was work; after the last *)
(* one the queue is enabled again                                          *)
SendEnds ==
  LET v == [srv EXCEPT !.turn = @ + 1, !.tries = 0, !.n = 0] IN
  /\ srv.pc = "send" /\ (~CanSend \/ NoRoom)
  /\ nextmin' = CASE ~sc.running \/ wqcnt = 0 -> nextmin
                  [] CanSend -> Turn(Far)
                  [] OTHER -> Turn(2 * NMinor - srv.tries)
  /\ IF srv.work /\ srv.turn + 1 < Turns
     THEN PollStarts(chip, sc, v) /\ UNCHANGED enab
     ELSE /\ enab' = IF srv.work THEN enab \cup {srv.q} ELSE enab
          /\ srv' = Rest /\ UNCHANGED <<chip, sc>>
  /\ UNCHANGED <<up, due, min, pollq, wq, wqcnt, got, nrx, ntx, faults>>

-----------------------------------------------------------------------------
(* The streams                                                             *)

MinorOf(q) == {m \in Minors : min[m].q = q}
FreeMinors == {m \in Minors : min[m].q = NoQ}
First(S) == CHOOSE m \in S : \A o \in S : m <= o

Nuopen(q) ==
  /\ srv = Rest /\ MinorOf(q) = {} /\ FreeMinors # {} /\ Linit
  /\ min' = [min EXCEPT ![First(FreeMinors)] = [NoMinor EXCEPT !.q = q]]
  /\ pollq' = IF pollq = NoQ THEN q ELSE pollq
  /\ UNCHANGED <<srv, enab, wq, wqcnt, nextmin, got, nrx, ntx, faults>>

(* mutant: the poll stays with the stream that closes *)
HandOverNever(q) == pollq
HandOver(q) ==
  LET others == {m \in Minors : min[m].q \notin {q, NoQ}}
  IN  CASE pollq # q -> pollq
        [] pollq = q /\ others # {} -> min[First(others)].q
        [] OTHER -> NoQ
(* the stream head takes the queue off the scheduler's list as it goes     *)
Nuclose(q) ==
  /\ srv = Rest /\ MinorOf(q) # {}
  /\ wq' = [wq EXCEPT ![q] = <<>>] /\ wqcnt' = wqcnt - Len(wq[q])
  /\ min' = [m \in Minors |-> IF min[m].q = q THEN NoMinor ELSE min[m]]
  /\ pollq' = HandOver(q) /\ enab' = enab \ {q}
  /\ UNCHANGED <<chip, sc, up, due, srv, nextmin, got, nrx, ntx, faults>>

Bind(q, sap) ==
  /\ srv = Rest /\ up
  /\ \E m \in MinorOf(q) :
       /\ ~min[m].idle /\ \A o \in Minors : ~(min[o].idle /\ min[o].sap = sap)
       /\ min' = [min EXCEPT ![m].idle = TRUE, ![m].sap = sap]
  /\ UNCHANGED <<chip, sc, up, due, srv, pollq, enab, wq, wqcnt, nextmin, got, nrx, ntx, faults>>
Unbind(q) ==
  /\ srv = Rest /\ up
  /\ \E m \in MinorOf(q) : min[m].idle /\ min' = [min EXCEPT ![m] = [NoMinor EXCEPT !.q = q]]
  /\ UNCHANGED <<chip, sc, up, due, srv, pollq, enab, wq, wqcnt, nextmin, got, nrx, ntx, faults>>

(* DL_UNITDATA_REQ, from a process or a timer: queued, or dropped while    *)
(* the chip has been down for two inits                                    *)
Unitdata(q) ==
  /\ up /\ ntx < MaxTx /\ \E m \in MinorOf(q) : min[m].idle
  /\ ntx' = ntx + 1
  /\ IF ~sc.running /\ sc.failrun >= 2 THEN UNCHANGED <<wq, wqcnt, enab>>
     ELSE /\ wq' = [wq EXCEPT ![q] = Append(@, ntx + 1)] /\ wqcnt' = wqcnt + 1
          /\ enab' = Qenable(pollq)
  /\ UNCHANGED <<chip, sc, up, due, srv, min, pollq, nextmin, got, nrx, faults>>

(* M_FLUSH of the write side *)
(* mutant: the frames freed stay counted (as in driver-dp) *)
FlushedNone(q) == 0
Flushed(q) == Len(wq[q])
Flush(q) ==
  /\ srv = Rest /\ MinorOf(q) # {} /\ wq[q] # <<>>
  /\ wq' = [wq EXCEPT ![q] = <<>>] /\ wqcnt' = wqcnt - Flushed(q)
  /\ UNCHANGED <<chip, sc, up, due, srv, min, pollq, enab, nextmin, got, nrx, ntx, faults>>

Next ==
  \/ \E n \in FramePages, skip \in Skips : Receive(n, skip)
  \/ Sent \/ Fault \/ Heals \/ Driverinfo \/ NuTest \/ Tick \/ Second
  \/ RxLook \/ RxCopy \/ RxEnds \/ TxEnds \/ Send \/ SendEnds
  \/ \E q \in Streams :
       \/ Nursrv(q) \/ Nuopen(q) \/ Nuclose(q) \/ Unbind(q) \/ Unitdata(q) \/ Flush(q)
       \/ \E sap \in Saps : Bind(q, sap)

Spec == Init /\ [][Next]_vars

(* The clock runs, the STREAMS scheduler runs what is enabled, nursrv goes *)
(* on, and a chip that sends ends it.                                      *)
Fairness ==
  /\ WF_vars(Tick) /\ WF_vars(Second) /\ WF_vars(Sent)
  /\ WF_vars(RxLook \/ RxCopy \/ RxEnds \/ TxEnds \/ Send \/ SendEnds)
  /\ \A q \in Streams : WF_vars(Nursrv(q))
FairSpec == Spec /\ Fairness

-----------------------------------------------------------------------------
(* Properties                                                              *)

(* A frame passed up is a whole one: its pages are those of one received   *)
(* frame, in order, and none was overwritten by a later frame while the    *)
(* ring was read (nuchip.c:11, "the host reads from rxnext and keeps BNRY  *)
(* one page behind it"); frames come up once and in the order they came.   *)
RxSound ==
  [][got' # got =>
       /\ \A i \in DOMAIN got' : got'[i].f = got'[1].f /\ got'[i].k = i - 1
       /\ Len(got') = got'[1].n
       /\ got # <<>> => got'[1].f > got[1].f]_vars

(* The frame the chip sends stays in its buffer until it is sent.          *)
TxUndisturbed == [][chip'.buf # chip.buf => ~chip.txp]_vars

(* if_wqcnt counts the frames on the queues, and while the card is up and  *)
(* a stream is open, the poll runs through an open one (nu.c:1340).        *)
Waiting == UNION {{q} \X DOMAIN wq[q] : q \in Streams}
QueuesSound ==
  /\ wqcnt = Cardinality(Waiting)
  /\ pollq = NoQ => FreeMinors = Minors
  /\ pollq # NoQ => MinorOf(pollq) # {}

(* Every frame queued leaves, sent or dropped, and a chip that failed is   *)
(* brought back, while one stream stays open and is the one polled: unless *)
(* the chip is gone for good.                                              *)
FramesLeave ==
  (\E q \in Streams : <>[](chip.health # "gone" /\ up /\ pollq = q)) =>
    []<>(\A q \in Streams : wq[q] = <<>>) /\ []<>sc.running

(* What comes up and what goes out is whole: RxSound and TxUndisturbed.    *)
FramesWhole == RxSound /\ TxUndisturbed
=============================================================================
