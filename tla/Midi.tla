------------------------------- MODULE Midi -------------------------------
(***************************************************************************)
(* The MIDI port's driver (src/driver-midi/midi.c): writers put bytes into *)
(* a ring, the ACIA's transmit interrupt takes them out, and in a timed    *)
(* stream the pair <<Wait, n>> holds the bytes after it back for n ms.     *)
(*                                                                         *)
(* The MIDI and the keyboard chip share one edge-triggered interrupt line. *)
(* The handler serves both until neither asserts it; between any two of    *)
(* its reads a chip may go on.  Everything else that touches the driver's  *)
(* state runs at spl6 and is one step.                                     *)
(*                                                                         *)
(* External: the two chips, the MFP's pending bit, ikbdint, the clock and  *)
(* the kernel's sleep and timeout.                                         *)
(***************************************************************************)
EXTENDS Integers, Sequences, SequencesExt

CONSTANTS
  Procs,      \* processes that have the device open
  Writers,    \* those of them that write
  Messages,   \* what one write hands over
  Ring,       \* RING
  Bounce,     \* BOUNCE
  Hertz,      \* hertz
  MaxCalls,   \* bound: system calls
  MaxTick,    \* bound: the clock, but for waits under way
  MaxKbd      \* bound: keyboard bytes

Wait == 249
SnapTicks == 4

MidiAssumption ==
  /\ Writers \subseteq Procs /\ Messages \subseteq Seq(0 .. 255)
  /\ Ring \in Nat /\ Bounce \in 1 .. Ring - 1 /\ Hertz \in Nat \ {0}
  /\ MaxCalls \in Nat /\ MaxTick \in Nat /\ MaxKbd \in Nat

VARIABLES
  midi,     \* the driver's static struct; q is the ring from head to tail
  acia,     \* the MIDI chip and the pending bit of the line
  kbd,      \* the keyboard chip asserts the line
  int,      \* where the handler is
  lbolt,
  wakes,    \* pending midi_wake callouts, by the tick they are due
  ticks,    \* pending midi_tick callouts
  pr,       \* the processes
  owed,     \* bytes accepted and neither taken nor dropped (history)
  calls, kbds

vars == <<midi, acia, kbd, int, lbolt, wakes, ticks, pr, owed, calls, kbds>>

User == [pc |-> "user", what |-> "none", data |-> <<>>]

Struct ==
  [open: BOOLEAN, timed: BOOLEAN, hooked: BOOLEAN, q: Seq(0 .. 255),
   sending: BOOLEAN, waiting: BOOLEAN, tid: Nat, start: Nat, due_ms: Nat, due: Nat]
Chip == [send: BOOLEAN, room: 0 .. 2, edge: BOOLEAN]

TypeOK ==
  /\ midi \in Struct /\ Len(midi.q) < Ring /\ acia \in Chip
  /\ kbd \in BOOLEAN /\ int \in {"off", "midi", "kbd", "check", "recheck"}
  /\ lbolt \in Nat /\ wakes \subseteq Nat /\ ticks \in Nat
  /\ pr \in [Procs -> [pc: {"user", "room", "copy", "test", "gap", "asleep"},
                       what: {"none", "write", "drain", "close"},
                       data: Seq(0 .. 255)]]
  /\ owed \in Seq(0 .. 255) /\ calls \in 0 .. MaxCalls /\ kbds \in 0 .. MaxKbd

Init ==
  /\ midi = [open |-> FALSE, timed |-> FALSE, hooked |-> FALSE, q |-> <<>>,
             sending |-> FALSE, waiting |-> FALSE, tid |-> 0, start |-> 0,
             due_ms |-> 0, due |-> 0]
  /\ acia = [send |-> FALSE, room |-> 2, edge |-> FALSE]
  /\ kbd = FALSE /\ int = "off" /\ lbolt = 0 /\ wakes = {} /\ ticks = 0
  /\ pr = [p \in Procs |-> User] /\ owed = <<>> /\ calls = 0 /\ kbds = 0

-----------------------------------------------------------------------------
(* The chip and the line                                                   *)

(* The transmit interrupt: on, and the data register is empty.  The line   *)
(* latches an edge only when the keyboard chip does not hold it already.   *)
Irq(a) == a.send /\ a.room > 0
Latched(a, b) == [b EXCEPT !.edge = @ \/ (~kbd /\ ~Irq(a) /\ Irq(b))]
SetSend(a, on) == Latched(a, [a EXCEPT !.send = on])
PutData(a) == [a EXCEPT !.room = @ - 1]

(* a byte leaves the shift register *)
Shift ==
  /\ acia.room < 2 /\ acia' = Latched(acia, [acia EXCEPT !.room = @ + 1])
  /\ UNCHANGED <<midi, kbd, int, lbolt, wakes, ticks, pr, owed, calls, kbds>>

KbdByte ==
  /\ ~kbd /\ kbds < MaxKbd /\ kbd' = TRUE /\ kbds' = kbds + 1
  /\ acia' = [acia EXCEPT !.edge = @ \/ ~Irq(acia)]
  /\ UNCHANGED <<midi, int, lbolt, wakes, ticks, pr, owed, calls>>

-----------------------------------------------------------------------------
(* midi_kick, from r: the struct, the chip, whether it woke the sleepers   *)
(* and how many bytes it took from the ring                                *)

TicksOf(ms) == (ms \div 1000) * Hertz + ((ms % 1000) * Hertz) \div 1000
(* mutant: a ring that is full looks empty *)
FreeInAll(q) == Ring - Len(q)
FreeIn(q) == Ring - 1 - Len(q)

Quiet(r) ==
  IF r.m.sending THEN [r EXCEPT !.m.sending = FALSE, !.a = SetSend(@, FALSE)] ELSE r
TurnOn(r) ==
  IF r.m.sending THEN r ELSE [r EXCEPT !.m.sending = TRUE, !.a = SetSend(@, TRUE)]
Take(r, k) == [r EXCEPT !.m.q = SubSeq(@, k + 1, Len(@)), !.n = @ + k]

Snapped(m) ==
  IF m.due + SnapTicks < lbolt THEN [m EXCEPT !.start = lbolt, !.due_ms = 0] ELSE m
TakeWait(m) ==
  [m EXCEPT !.due_ms = @ + m.q[2], !.due = m.start + TicksOf(m.due_ms + m.q[2]),
            !.q = Tail(Tail(@))]
HalfWait(m) == m.timed /\ m.q[1] = Wait /\ Len(m.q) < 2
WholeWait(m) == m.timed /\ m.q[1] = Wait /\ Len(m.q) >= 2

(* mutant: the data register is written without a look at TDRE *)
FullNever(a) == FALSE
Full(a) == a.room = 0

Kicks ==
  [m: Struct, a: [send: BOOLEAN, room: Int, edge: BOOLEAN], woke: BOOLEAN, n: 0 .. Ring]
kick[r \in Kicks] ==
  CASE r.m.q = <<>> -> [Quiet(r) EXCEPT !.woke = TRUE]
    [] r.m.q # <<>> /\ HalfWait(r.m) -> Quiet(r)
    [] r.m.q # <<>> /\ WholeWait(r.m) ->
         LET w == [Take(r, 2) EXCEPT !.m = TakeWait(Snapped(r.m))]
         IN  IF w.m.due > lbolt
             THEN Quiet([w EXCEPT !.m.waiting = TRUE, !.m.tid = w.m.due])
             ELSE kick[w]
    [] OTHER -> IF Full(r.a) THEN TurnOn(r)
                ELSE kick[TurnOn([Take(r, 1) EXCEPT !.a = PutData(@)])]

Woken(u) ==
  IF u.pc # "asleep" THEN u
  ELSE [u EXCEPT !.pc = IF u.what = "write" THEN "room" ELSE "test"]
(* mutant: the end of the ring wakes nobody *)
WakeNone(ps) == ps
WakeAll(ps) == [p \in Procs |-> Woken(ps[p])]

(* The step ends with midi_kick, m being the struct, ws the callouts, ps   *)
(* the processes and o the bytes owed when it is called.                   *)
KickWith(m, ws, ps, o) ==
  LET r == kick[[m |-> m, a |-> acia, woke |-> FALSE, n |-> 0]]
  IN  /\ midi' = r.m /\ acia' = r.a
      /\ wakes' = IF r.m.waiting THEN ws \cup {r.m.tid} ELSE ws
      /\ pr' = IF r.woke THEN WakeAll(ps) ELSE ps
      /\ owed' = SubSeq(o, r.n + 1, Len(o))

-----------------------------------------------------------------------------
(* midiint.  A process or callout at a lower level may still take a step   *)
(* between the edge and the handler.                                       *)

(* before the first open the keyboard's own handler has the line *)
IkbdOnly ==
  /\ int = "off" /\ ~midi.hooked /\ acia.edge
  /\ acia' = [acia EXCEPT !.edge = FALSE] /\ kbd' = FALSE
  /\ UNCHANGED <<midi, int, lbolt, wakes, ticks, pr, owed, calls, kbds>>
Enter ==
  /\ int = "off" /\ midi.hooked /\ acia.edge
  /\ acia' = [acia EXCEPT !.edge = FALSE] /\ int' = "midi"
  /\ UNCHANGED <<midi, kbd, lbolt, wakes, ticks, pr, owed, calls, kbds>>
ServeMidi ==
  /\ int = "midi" /\ int' = "kbd"
  /\ \/ Irq(acia) /\ midi.open /\ KickWith(midi, wakes, pr, owed)
     \/ /\ ~(Irq(acia) /\ midi.open)
        /\ acia' = IF Irq(acia) THEN SetSend(acia, FALSE) ELSE acia
        /\ UNCHANGED <<midi, wakes, pr, owed>>
  /\ UNCHANGED <<kbd, lbolt, ticks, calls, kbds>>
ServeKbd ==
  /\ int = "kbd" /\ kbd' = FALSE /\ int' = "check"
  /\ UNCHANGED <<midi, acia, lbolt, wakes, ticks, pr, owed, calls, kbds>>
(* mutant: each chip is served once *)
CheckNeither ==
  /\ int = "check" /\ int' = "off"
  /\ UNCHANGED <<midi, acia, kbd, lbolt, wakes, ticks, pr, owed, calls, kbds>>
Check ==
  /\ \/ int = "check" /\ int' = IF Irq(acia) THEN "midi" ELSE "recheck"
     \/ int = "recheck" /\ int' = IF kbd THEN "midi" ELSE "off"
  /\ UNCHANGED <<midi, acia, kbd, lbolt, wakes, ticks, pr, owed, calls, kbds>>
Handler == IkbdOnly \/ Enter \/ ServeMidi \/ ServeKbd \/ Check

-----------------------------------------------------------------------------
(* The callouts                                                            *)

Clock ==
  /\ int = "off" /\ (lbolt < MaxTick \/ wakes # {}) /\ lbolt' = lbolt + 1
  /\ \A w \in wakes : lbolt < w
  /\ UNCHANGED <<midi, acia, kbd, int, wakes, ticks, pr, owed, calls, kbds>>

MidiWake ==
  /\ int = "off"
  /\ \E w \in wakes :
       /\ w <= lbolt
       /\ LET m == [midi EXCEPT !.waiting = FALSE, !.tid = 0]
          IN  \/ midi.open /\ KickWith(m, wakes \ {w}, pr, owed)
              \/ /\ ~midi.open /\ midi' = m /\ wakes' = wakes \ {w}
                 /\ UNCHANGED <<acia, pr, owed>>
  /\ UNCHANGED <<kbd, int, lbolt, ticks, calls, kbds>>

(* mutant: a wait under way is no reason to leave the port alone *)
IdleUnlessSending(m) == ~m.sending
Idle(m) == ~m.sending /\ ~m.waiting
MidiTick ==
  /\ int = "off" /\ ticks > 0
  /\ ticks' = IF midi.open THEN ticks ELSE ticks - 1
  /\ \/ midi.open /\ midi.q # <<>> /\ Idle(midi) /\ KickWith(midi, wakes, pr, owed)
     \/ /\ ~(midi.open /\ midi.q # <<>> /\ Idle(midi))
        /\ UNCHANGED <<midi, acia, wakes, pr, owed>>
  /\ UNCHANGED <<kbd, int, lbolt, calls, kbds>>

-----------------------------------------------------------------------------
(* The system calls.  The kernel calls midiclose when the last process     *)
(* that has the device open gives it up: no call of it is under way then.  *)

Goes(p, u) == pr' = [pr EXCEPT ![p] = u]
AllUsers == \A p \in Procs : pr[p].pc = "user"
Closing == \E p \in Procs : pr[p].what = "close"
Called == int = "off" /\ calls < MaxCalls /\ calls' = calls + 1

Midiopen ==
  /\ Called /\ ~midi.open
  /\ \E t \in BOOLEAN :
       midi' = [open |-> TRUE, timed |-> t, hooked |-> TRUE, q |-> <<>>,
                sending |-> FALSE, waiting |-> FALSE, tid |-> 0,
                start |-> lbolt, due_ms |-> 0, due |-> lbolt]
  /\ acia' = SetSend(acia, FALSE) /\ ticks' = ticks + 1 /\ owed' = <<>>
  /\ UNCHANGED <<kbd, int, lbolt, wakes, pr, kbds>>

Midiwrite(p) ==
  /\ Called /\ midi.open /\ ~Closing /\ pr[p].pc = "user" /\ p \in Writers
  /\ \E t \in Messages : Goes(p, [pc |-> "room", what |-> "write", data |-> t])
  /\ UNCHANGED <<midi, acia, kbd, int, lbolt, wakes, ticks, owed, kbds>>

(* midiwrite's loop: wait for room; uiomove, which may fault and sleep, so *)
(* that others run; put the bytes in the ring and start the port           *)
Chunk(p) == IF Len(pr[p].data) < Bounce THEN Len(pr[p].data) ELSE Bounce
HasRoom(p) ==
  /\ int = "off" /\ pr[p].pc = "room"
  /\ Goes(p, [pr[p] EXCEPT !.pc = IF FreeIn(midi.q) < Chunk(p) THEN "asleep" ELSE "copy"])
  /\ UNCHANGED <<midi, acia, kbd, int, lbolt, wakes, ticks, owed, calls, kbds>>

(* A byte that makes tail meet head leaves a ring that looks empty.        *)
Put(q, b) == IF Len(q) = Ring - 1 THEN <<>> ELSE Append(q, b)
PutAll(q, bytes) == FoldLeft(Put, q, bytes)
Copied(p) ==
  LET bytes == SubSeq(pr[p].data, 1, Chunk(p))
      rest == SubSeq(pr[p].data, Chunk(p) + 1, Len(pr[p].data))
      m == [midi EXCEPT !.q = PutAll(@, bytes)]
      ps == [pr EXCEPT ![p] = IF rest = <<>> THEN User
                              ELSE [@ EXCEPT !.pc = "room", !.data = rest]]
  IN  /\ int = "off" /\ pr[p].pc = "copy"
      /\ \/ Idle(midi) /\ KickWith(m, wakes, ps, owed \o bytes)
         \/ /\ ~Idle(midi) /\ midi' = m /\ pr' = ps /\ owed' = owed \o bytes
            /\ UNCHANGED <<acia, wakes>>
      /\ UNCHANGED <<kbd, int, lbolt, ticks, calls, kbds>>
Efault(p) ==
  /\ int = "off" /\ pr[p].pc = "copy" /\ Goes(p, User)
  /\ UNCHANGED <<midi, acia, kbd, int, lbolt, wakes, ticks, owed, calls, kbds>>

(* untimeout: the callout of the wait under way goes, and no other *)
Dropped(m) == [m EXCEPT !.q = <<>>, !.waiting = FALSE, !.tid = 0, !.sending = FALSE]
DropAll(m) ==
  /\ wakes' = IF midi.waiting THEN wakes \ {midi.tid} ELSE wakes
  /\ acia' = IF midi.sending THEN SetSend(acia, FALSE) ELSE acia
  /\ midi' = m /\ owed' = <<>>

MidiFlush(p) ==
  /\ Called /\ midi.open /\ ~Closing /\ pr[p].pc = "user"
  /\ DropAll([Dropped(midi) EXCEPT !.start = lbolt, !.due_ms = 0, !.due = lbolt])
  /\ pr' = WakeAll(pr)
  /\ UNCHANGED <<kbd, int, lbolt, ticks, kbds>>

(* MIDI_DRAIN and midiclose sleep until the ring is empty.  Interrupts are *)
(* on between the test and the sleep.  Their limits on the number of turns *)
(* are left out: each turn follows a wakeup.                               *)
MidiDrain(p) ==
  /\ Called /\ midi.open /\ ~Closing /\ pr[p].pc = "user"
  /\ Goes(p, [User EXCEPT !.pc = "test", !.what = "drain"])
  /\ UNCHANGED <<midi, acia, kbd, int, lbolt, wakes, ticks, owed, kbds>>
Midiclose(p) ==
  /\ Called /\ midi.open /\ AllUsers
  /\ Goes(p, [User EXCEPT !.pc = "test", !.what = "close"])
  /\ UNCHANGED <<midi, acia, kbd, int, lbolt, wakes, ticks, owed, kbds>>

Leaves(p) ==
  /\ Goes(p, User)
  /\ \/ pr[p].what = "close" /\ DropAll([Dropped(midi) EXCEPT !.open = FALSE])
     \/ pr[p].what # "close" /\ UNCHANGED <<midi, acia, wakes, owed>>
  /\ UNCHANGED <<kbd, int, lbolt, ticks, calls, kbds>>
Empty(p) == int = "off" /\ pr[p].pc = "test" /\ midi.q = <<>> /\ Leaves(p)
NotEmpty(p) ==
  /\ int = "off"
  /\ \/ pr[p].pc = "test" /\ midi.q # <<>> /\ Goes(p, [pr[p] EXCEPT !.pc = "gap"])
     \/ pr[p].pc = "gap" /\ Goes(p, [pr[p] EXCEPT !.pc = "asleep"])
  /\ UNCHANGED <<midi, acia, kbd, int, lbolt, wakes, ticks, owed, calls, kbds>>

(* sleep(.. | PCATCH) returns 1 *)
Signal(p) == int = "off" /\ pr[p].pc = "asleep" /\ Leaves(p)

-----------------------------------------------------------------------------
Step(p) == HasRoom(p) \/ Copied(p) \/ Empty(p) \/ NotEmpty(p)
Call(p) == Midiwrite(p) \/ MidiFlush(p) \/ MidiDrain(p) \/ Midiclose(p)
Callout == MidiWake \/ MidiTick
Next ==
  \/ Shift \/ KbdByte \/ Handler \/ Clock \/ Callout \/ Midiopen
  \/ \E p \in Procs : Step(p) \/ Call(p) \/ Efault(p) \/ Signal(p)

Spec == Init /\ [][Next]_vars
(* The port sends, interrupts are taken, the clock and its callouts run,   *)
(* a runnable process runs.                                                *)
FairSpec ==
  /\ Spec /\ WF_vars(Shift) /\ WF_vars(Handler) /\ WF_vars(Clock)
  /\ WF_vars(MidiWake) /\ WF_vars(MidiTick) /\ \A p \in Procs : WF_vars(Step(p))

-----------------------------------------------------------------------------
(* Properties                                                              *)

(* What is in the ring is what was written and has not gone out, in its    *)
(* order (midi.c:16): no byte is lost, repeated or overwritten.            *)
InOrder == midi.q = owed

(* A chip never holds the line without an interrupt to come or the handler *)
(* at work: that "would silence the other for good" (midi.c:11).           *)
LineServed == Irq(acia) \/ kbd => acia.edge \/ int # "off"

(* While a wait is not over, no byte goes to the port, whatever interrupt, *)
(* callout or write comes (midi.h: "wait n ms before the bytes that        *)
(* follow").                                                               *)
HeldStep == midi.waiting /\ lbolt < midi.due => acia'.room >= acia.room

(* Every write returns: the ring drains and the writer is woken.           *)
Writing(p) == pr[p].what = "write"
WriteReturns == \A p \in Procs : Writing(p) ~> ~Writing(p)

(* So does every close (midi.c:279: "a few seconds at most").              *)
CloseReturns == \A p \in Procs : pr[p].what = "close" ~> pr[p].what # "close"

(* One tick runs while the device is open (midi.c:290: "midi_tick stops    *)
(* itself").                                                               *)
OneTick == ticks <= 1

=============================================================================
