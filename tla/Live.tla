-------------------------------- MODULE Live --------------------------------
(***************************************************************************)
(* The sound, the transputer link and the MIDI drivers: what is begun must *)
(* end. They do not touch each other's state; a behaviour is one of one    *)
(* part, the others staying as they began. Each part's bounds are here.    *)
(***************************************************************************)
EXTENDS Integers, Sequences, FiniteSets

VARIABLES
  part,
  snd, dma, irq, timer, sring, spc, written, next, bad, behind, lag, late, off,  \* Snd
  open, timeout, full, come, ready, tpc, handed, eaten, probed, tout, ttold, over, tcalls,  \* Tlk
  midi, acia, kbd, int, lbolt, wakes, ticks, pr, owed, calls, kbds  \* Midi

(* 30 ms are three ticks of 128 Hz; 249 is Wait *)
Whole == {<<1, 2, 3>>, <<249, 30, 1, 2>>}

Sound == INSTANCE Snd WITH ring <- sring, pc <- spc, Writers <- {"w1"}, Ring <- 6, Block <- 2, Lead <- 1, Spare <- 1,
         QuietMax <- 1, Lag <- 1, MaxData <- 4, MaxLate <- 1, MaxOff <- 1
Link == INSTANCE Tlk WITH pc <- tpc, out <- tout, told <- ttold, calls <- tcalls, Procs <- 1 .. 2, Chunk <- 2, MaxWrite <- 3,
         MaxRead <- 2, Drain <- 2, Ticks <- 1, MaxIn <- 2, MaxCalls <- 2
Port == INSTANCE Midi WITH Procs <- {"p", "o"}, Writers <- {"p"}, Messages <- Whole, Ring <- 4, Bounce <- 2, Hertz <- 128,
        MaxCalls <- 3, MaxTick <- 2, MaxKbd <- 1

ASSUME Sound!SndAssumption /\ Port!MidiAssumption

snd_vars == <<snd, dma, irq, timer, sring, spc, written, next, bad, behind, lag, late, off>>
tlk_vars == <<open, timeout, full, come, ready, tpc, handed, eaten, probed, tout, ttold, over, tcalls>>
midi_vars == <<midi, acia, kbd, int, lbolt, wakes, ticks, pr, owed, calls, kbds>>
vars == <<part, snd_vars, tlk_vars, midi_vars>>

(* A part that is not the behaviour's *)
SoundOff == snd = 0 /\ dma = 0 /\ irq = 0 /\ timer = 0 /\ sring = 0 /\ spc = 0 /\ written = 0 /\ next = 0 /\
  bad = 0 /\ behind = 0 /\ lag = 0 /\ late = 0 /\ off = 0
LinkOff == open = 0 /\ timeout = 0 /\ full = 0 /\ come = 0 /\ ready = 0 /\ tpc = 0 /\ handed = 0 /\
  eaten = 0 /\ probed = 0 /\ tout = 0 /\ ttold = 0 /\ over = 0 /\ tcalls = 0
PortOff == midi = 0 /\ acia = 0 /\ kbd = 0 /\ int = 0 /\ lbolt = 0 /\ wakes = 0 /\ ticks = 0 /\ pr = 0 /\
  owed = 0 /\ calls = 0 /\ kbds = 0
Init ==
  \/ part = "snd" /\ Sound!Init /\ LinkOff /\ PortOff
  \/ part = "tlk" /\ Link!Init /\ SoundOff /\ PortOff
  \/ part = "midi" /\ Port!Init /\ SoundOff /\ LinkOff

OfSound(A) == part = "snd" /\ A /\ UNCHANGED <<part, tlk_vars, midi_vars>>
OfLink(A) == part = "tlk" /\ A /\ UNCHANGED <<part, snd_vars, midi_vars>>
OfPort(A) == part = "midi" /\ A /\ UNCHANGED <<part, snd_vars, tlk_vars>>
Next == OfSound(Sound!Next) \/ OfLink(Link!Next) \/ OfPort(Port!Next)
(* The fairness of each part's own module: what the hardware and the clock do, what
   sleeps and is woken, go on *)
Fairness ==
  /\ WF_vars(OfSound(Sound!Play)) /\ WF_vars(OfSound(Sound!Tick)) /\ WF_vars(OfSound(Sound!Intr))
  /\ \A p \in 1 .. 2: /\ WF_vars(OfLink(Link!ReadPoll(p, FALSE))) /\ WF_vars(OfLink(Link!WritePoll(p, FALSE)))
                      /\ WF_vars(OfLink(Link!ResetTick(p)))
  /\ WF_vars(OfPort(Port!Shift)) /\ WF_vars(OfPort(Port!Handler)) /\ WF_vars(OfPort(Port!Clock))
  /\ WF_vars(OfPort(Port!MidiWake)) /\ WF_vars(OfPort(Port!MidiTick)) /\ \A p \in {"p", "o"}: WF_vars(OfPort(Port!Step(p)))
Spec == Init /\ [][Next]_vars /\ Fairness

-----------------------------------------------------------------------------
(* Each part's variables have their types. *)
TypeOK ==
  /\ part = "snd" => Sound!TypeOK
  /\ part = "tlk" => Link!TypeOK
  /\ part = "midi" => Port!TypeOK

(* Sound is played in order, once each unless an interrupt was late or stopped, and
   counted where it is; bytes from the link reach the readers but for those a reset
   takes, a write says what went out, and no byte overruns another; the port's bytes
   keep their order, and no chip holds the line in vain. (snd.c, snd_intr, snd_tick,
   sndwrite; tlk.c, tlkread, tlkwrite; midi.c, midi_intr, midi_kick)       *)
StreamsSound ==
  /\ part = "snd" => Sound!StreamSound
  /\ part = "tlk" => Link!BytesSound
  /\ part = "midi" => Port!InOrder /\ Port!LineServed

(* What is written is played at last; with a timeout every call on the link ends; no
   byte for the port goes before its time, and every write returns. (snd.c, snd_tick;
   tlk.c, tlkread, tlkwrite, tlk_reset; midi.c, midi_kick, midiwrite)      *)
Due(i) ==
  \/ part = "snd" /\ i = 0 /\ Sound!Owed
  \/ part = "tlk" /\ i \in 1 .. 2 /\ Link!InCall(i)
  \/ part = "midi" /\ i = 3 /\ Port!Writing("p")
Excused(i) ==
  \/ part = "snd" /\ ~snd.open
  \/ part = "tlk" /\ timeout = 0
AllEnds == [][part = "midi" => Port!HeldStep]_vars /\ \A i \in 0 .. 3: Due(i) ~> (~Due(i) \/ Excused(i))
=============================================================================
