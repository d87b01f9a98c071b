-------------------------------- MODULE Snd --------------------------------
(***************************************************************************)
(* The DMA sound driver (driver-snd/snd.c): a ring the DMA plays, as a     *)
(* chain of blocks that the frame interrupt extends or, when interrupts    *)
(* are lost, as one repeating frame; the clock's tick that follows the     *)
(* play position and clears what has played; and the writers.              *)
(*                                                                         *)
(* Positions and counts are in units, Block of them to a block. Data is    *)
(* numbered as it is written; 0 is silence.                                *)
(*                                                                         *)
(* External: the sound DMA, which takes its frame's registers when a frame *)
(* ends, and the MFP's timer, which holds one interrupt.                   *)
(***************************************************************************)
EXTENDS Integers, FiniteSets

CONSTANTS
  Writers,   \* processes that write
  Ring,      \* RING
  Block,     \* BLOCK, and the most one step of a write moves (BOUNCE)
  Lead,      \* LEAD
  Spare,     \* what a full ring keeps free (2)
  QuietMax,  \* ticks without a frame interrupt that mean it is lost
  Lag,       \* units played between two ticks at most
  MaxData,   \* bound: units written
  MaxLate,   \* bound: times an interrupt waits past the end of a frame
  MaxOff     \* bound: times the frame interrupts stop for good

SndAssumption ==
  /\ Block \in Nat \ {0} /\ Ring \in Nat /\ Ring % Block = 0 /\ Ring >= 2 * Block
  /\ Lead \in 0 .. Ring /\ Spare \in 0 .. Ring /\ QuietMax \in Nat /\ Lag \in Nat \ {0}

VARIABLES
  snd,     \* the driver's state
  dma,     \* the DMA: the frame it plays, the next one's registers
  irq,     \* a frame interrupt is pending
  timer,   \* the timer runs
  ring,    \* what is in the ring
  pc,      \* the writers
  written, next, bad,  \* data written; the number due to be played, and whether another was
  behind,  \* a piece was put where the DMA had passed since the tick
  lag, late, off

vars == <<snd, dma, irq, timer, ring, pc, written, next, bad, behind, lag, late, off>>
data == <<written, next, bad, behind>>

Used(a, b) == (b - a) % Ring
At(p) == p % Ring
Silent == [i \in 0 .. Ring - 1 |-> 0]

TypeOK ==
  /\ snd.open \in BOOLEAN /\ snd.chained \in BOOLEAN /\ snd.heard \in BOOLEAN
  /\ {snd.wpos, snd.cpos, snd.nextblk, snd.unchain} \subseteq 0 .. Ring - 1
  /\ {snd.filled, snd.gap, snd.quiet} \subseteq Nat
  /\ dma.on \in BOOLEAN /\ dma.pos \in 0 .. Ring - 1 /\ dma.end \in 1 .. Ring /\ dma.rbase \in 0 .. Ring - 1 /\ dma.rend \in 1 .. Ring
  /\ irq \in BOOLEAN /\ timer \in BOOLEAN /\ ring \in [0 .. Ring - 1 -> 0 .. MaxData]
  /\ pc \in [Writers -> {"out", "room", "asleep", "copy"} \X (0 .. Block)]
  /\ written \in 0 .. MaxData /\ next \in 1 .. MaxData + 1 /\ bad \in BOOLEAN /\ behind \in BOOLEAN /\ lag \in 0 .. Lag

Off == [open |-> FALSE, chained |-> FALSE, heard |-> FALSE, wpos |-> 0, cpos |-> 0, filled |-> 0, gap |-> 0,
        nextblk |-> 0, unchain |-> 0, quiet |-> 0]

Init ==
  /\ snd = Off /\ dma = [on |-> FALSE, pos |-> 0, end |-> Ring, rbase |-> 0, rend |-> Ring]
  /\ irq = FALSE /\ timer = FALSE /\ ring = Silent /\ pc = [w \in Writers |-> <<"out", 0>>]
  /\ written = 0 /\ next = 1 /\ bad = FALSE /\ behind = FALSE /\ lag = 0 /\ late = 0 /\ off = 0

-----------------------------------------------------------------------------
(* External: the DMA                                                       *)

(* a unit played; at the end of the frame the registers are taken *)
Play ==
  /\ dma.on /\ lag < Lag /\ lag' = lag + 1
  /\ LET v == ring[dma.pos]
         ended == dma.pos + 1 = dma.end
         misses == ended /\ irq /\ timer
     IN /\ next' = IF v = next THEN next + 1 ELSE next
        /\ bad' = (bad \/ (v # 0 /\ v # next))
        /\ IF ended THEN dma' = [dma EXCEPT !.pos = dma.rbase, !.end = dma.rend] /\ irq' = (timer \/ irq)
           ELSE dma' = [dma EXCEPT !.pos = @ + 1] /\ UNCHANGED irq
        /\ misses => late < MaxLate
        /\ late' = IF misses THEN late + 1 ELSE late
  /\ UNCHANGED <<snd, timer, ring, pc, written, behind, off>>

(* the frame interrupts stop (or SND_TEST stops them) *)
TimerStops ==
  /\ snd.open /\ timer /\ off < MaxOff /\ off' = off + 1 /\ timer' = FALSE /\ irq' = FALSE
  /\ UNCHANGED <<snd, dma, ring, pc, data, lag, late>>

-----------------------------------------------------------------------------
(* sndintr: the block after the next; a frame that went by unseen is caught up with *)

BlockAt(p) == p - (p % Block)
(* mutant: the block it found is queued again *)
AfterSame(b) == b
(* mutant: past the ring's end *)
AfterOn(b) == b + Block
After(b) == At(b + Block)

Intr ==
  /\ irq /\ irq' = FALSE
  /\ IF snd.open /\ snd.chained
     THEN LET b == IF Used(snd.nextblk, dma.pos) >= Block THEN BlockAt(dma.pos) ELSE snd.nextblk
          IN /\ snd' = [snd EXCEPT !.nextblk = After(b), !.heard = TRUE]
             /\ dma' = [dma EXCEPT !.rbase = After(b), !.rend = After(b) + Block]
     ELSE UNCHANGED <<snd, dma>>
  /\ UNCHANGED <<timer, ring, pc, data, lag, late, off>>

-----------------------------------------------------------------------------
(* snd_tick                                                                *)

(* mutant: the replayed bytes are not waited out *)
ReplayedNone(s, p) == [s EXCEPT !.cpos = p]
(* the position went back: a block played again *)
Replayed(s, p) ==
  IF (s.chained \/ s.unchain # 0) /\ Used(s.cpos, p) > Ring \div 2 THEN [s EXCEPT !.gap = @ + Used(p, s.cpos), !.cpos = p] ELSE s

(* the last frame of the chain has begun: from now on the whole ring *)
LastFrame(s, p) == s.unchain # 0 /\ p >= s.unchain

(* mutant: silence before the data counts as data played *)
CountedAll(s, p, n) == [s EXCEPT !.filled = IF @ > n THEN @ - n ELSE 0, !.cpos = p]
(* mutant: a tick that plays silence only takes none off *)
CountedLate(s, p, n) ==
  IF n > s.gap + s.filled THEN [s EXCEPT !.wpos = At(p + Lead), !.gap = Used(p, At(p + Lead)), !.filled = 0, !.cpos = p]
  ELSE IF n > s.gap THEN [s EXCEPT !.filled = @ - (n - s.gap), !.gap = 0, !.cpos = p]
  ELSE [s EXCEPT !.cpos = p]
(* what has played since the last tick: silence first, then data; past it a new start *)
Counted(s, p, n) ==
  IF n > s.gap + s.filled THEN [s EXCEPT !.wpos = At(p + Lead), !.gap = Used(p, At(p + Lead)), !.filled = 0, !.cpos = p]
  ELSE IF n > s.gap THEN [s EXCEPT !.filled = @ - (n - s.gap), !.gap = 0, !.cpos = p]
  ELSE [s EXCEPT !.gap = @ - n, !.cpos = p]

(* no interrupt for so long: it is lost *)
Listened(s) ==
  IF ~s.chained THEN s ELSE IF s.heard THEN [s EXCEPT !.heard = FALSE, !.quiet = 0] ELSE [s EXCEPT !.quiet = @ + 1]
IsLost(s) == s.chained /\ s.quiet > QuietMax

Tick ==
  /\ snd.open /\ lag > 0 /\ lag' = 0
  /\ LET p == dma.pos
         s1 == Replayed(snd, p)
         s2 == IF LastFrame(s1, p) THEN [s1 EXCEPT !.unchain = 0] ELSE s1
         n == Used(s2.cpos, p)
         s3 == Listened(Counted(s2, p, n))
         nb == After(s3.nextblk)
     IN /\ ring' = [i \in 0 .. Ring - 1 |-> IF Used(s2.cpos, i) < n THEN 0 ELSE ring[i]]
        /\ IF IsLost(s3)                                               \* snd_unchain
           THEN snd' = [s3 EXCEPT !.chained = FALSE, !.unchain = nb] /\ timer' = FALSE
           ELSE snd' = s3 /\ UNCHANGED timer
        /\ dma' = CASE IsLost(s3) -> [dma EXCEPT !.rbase = nb, !.rend = Ring]
                    [] LastFrame(s1, p) -> [dma EXCEPT !.rbase = 0, !.rend = Ring]
                    [] OTHER -> dma
  /\ pc' = [w \in Writers |-> IF pc[w][1] = "asleep" THEN <<"room", pc[w][2]>> ELSE pc[w]]
  /\ UNCHANGED <<irq, data, late, off>>

-----------------------------------------------------------------------------
(* sndopen (snd_start); sndclose, which waits for the data to play, or not *)

Open ==
  /\ ~snd.open
  /\ snd' = [Off EXCEPT !.open = TRUE, !.chained = TRUE, !.wpos = At(Lead), !.gap = Lead, !.nextblk = At(Block)]
  /\ dma' = [on |-> TRUE, pos |-> 0, end |-> Block, rbase |-> At(Block), rend |-> At(Block) + Block]
  /\ irq' = FALSE /\ timer' = TRUE /\ ring' = Silent /\ next' = written + 1 /\ lag' = 0
  /\ UNCHANGED <<pc, written, bad, behind, late, off>>

Close ==
  /\ snd.open /\ \A w \in Writers: pc[w][1] = "out"
  /\ snd' = [snd EXCEPT !.open = FALSE, !.chained = FALSE, !.unchain = 0]
  /\ dma' = [dma EXCEPT !.on = FALSE] /\ timer' = FALSE
  /\ UNCHANGED <<irq, ring, pc, data, lag, late, off>>

-----------------------------------------------------------------------------
(* sndwrite, a piece at a time                                             *)

Write(w) ==
  /\ snd.open /\ pc[w][1] = "out"
  /\ \E n \in 1 .. Block: written + n <= MaxData /\ pc' = [pc EXCEPT ![w] = <<"room", n>>]
  /\ UNCHANGED <<snd, dma, irq, timer, ring, data, lag, late, off>>

(* mutant: a full ring is filled once more *)
RoomAll == Ring - snd.filled
Room == Ring - Spare - snd.gap - snd.filled

(* room for the piece, or asleep until a tick, or a signal *)
Wait(w) ==
  /\ pc[w][1] = "room"
  /\ IF Room >= pc[w][2] THEN pc' = [pc EXCEPT ![w][1] = "copy"]
     ELSE \E to \in {"asleep", "out"}: pc' = [pc EXCEPT ![w] = <<to, IF to = "out" THEN 0 ELSE pc[w][2]>>]
  /\ UNCHANGED <<snd, dma, irq, timer, ring, data, lag, late, off>>

(* the piece is in the kernel (taking it may sleep): into the ring with it *)
Put(w) ==
  /\ pc[w][1] = "copy"
  /\ LET n == pc[w][2] IN
       /\ written + n <= MaxData /\ written' = written + n
       /\ ring' = [i \in 0 .. Ring - 1 |-> IF Used(snd.wpos, i) < n THEN written + 1 + Used(snd.wpos, i) ELSE ring[i]]
       /\ snd' = [snd EXCEPT !.wpos = At(@ + n), !.filled = @ + n]
  /\ pc' = [pc EXCEPT ![w] = <<"out", 0>>]
  /\ behind' = (behind \/ Used(snd.cpos, dma.pos) > snd.gap + snd.filled)
  /\ UNCHANGED <<dma, irq, timer, next, bad, lag, late, off>>

Next ==
  \/ Play \/ TimerStops \/ Intr \/ Tick \/ Open \/ Close
  \/ \E w \in Writers: Write(w) \/ Wait(w) \/ Put(w)

Spec == Init /\ [][Next]_vars

(* the DMA plays, the clock ticks, a pending interrupt is taken; the
   interrupts themselves may stop *)
FairSpec == Spec /\ WF_vars(Play) /\ WF_vars(Tick) /\ WF_vars(Intr)

-----------------------------------------------------------------------------
(* The write position is always the play position, the silence and the data
   ahead of it, through underruns, replayed blocks and the end of the chain.
   (the accounts of snd_tick, sndwrite, snd_start)                         *)
Accounts == snd.open => snd.wpos = At(snd.cpos + snd.gap + snd.filled)

(* While interrupts come in time, what is written is played once and in
   order: no writer writes over what is still to play, no tick clears it, and
   the chain goes from block to block; unless it was put where the DMA had
   passed since the last tick. (sndintr, snd_tick, sndwrite)               *)
PlayedOnce == late = 0 /\ off = 0 /\ ~behind => ~bad

(* While the chain lasts, the DMA plays the block before the next or, an
   interrupt being due, the next one: no interrupt finds it elsewhere.
   (sndintr, snd_start)                                                    *)
ChainHolds ==
  snd.open /\ snd.chained /\ timer =>
    BlockAt(dma.pos) = IF irq THEN snd.nextblk ELSE At(snd.nextblk + Ring - Block)

StreamSound == Accounts /\ PlayedOnce /\ ChainHolds

(* What was written has played some day, frame interrupts or none.
   (snd_tick's fallback, snd_unchain)                                      *)
Owed == snd.filled > 0
Drains == Owed ~> (~Owed \/ ~snd.open)

(* Not so: with late interrupts too. A block that plays again plays what is
   new in it, and the tick clears it.                                      *)
PlayedAlways == off = 0 /\ ~behind => ~bad

(* Not so: a write always goes ahead of the DMA. When the tick finds the ring
   played just to its end, it does not start again Lead ahead.             *)
AheadAlways == ~behind
=============================================================================
