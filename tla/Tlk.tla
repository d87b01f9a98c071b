-------------------------------- MODULE Tlk --------------------------------
(***************************************************************************)
(* The transputer link driver (driver-tlk/tlk.c): a link adapter polled,   *)
(* without interrupts. A call runs until it sleeps, which it does only     *)
(* between two polls (tlk_tick); what the link does meanwhile is in the    *)
(* step: the bytes that come or go closely enough to be polled for.        *)
(*                                                                         *)
(* The link's bytes are numbered: in, as the transputer sends them; out,   *)
(* within the call that writes them. External: the transputer, which the   *)
(* adapter holds up until its register is free.                            *)
(***************************************************************************)
EXTENDS Integers, FiniteSets, Sequences

CONSTANTS
  Procs,    \* processes that share the open link
  Chunk,    \* CHUNK
  MaxWrite, \* the longest write
  MaxRead,  \* the longest read
  Drain,    \* bytes a reset takes away at most (64)
  Ticks,    \* the timeout that is set, in ticks (2 * HZ); 0 is none
  MaxIn,    \* bound: bytes that come in
  MaxCalls  \* bound: writes

VARIABLES
  open, timeout,
  full,     \* the input register holds a byte, number come
  come,     \* bytes that came in
  ready,    \* the output register takes a byte
  pc,       \* each process's call
  handed,   \* bytes handed to readers, in order
  eaten,    \* bytes a reset took, and the probe of an open
  probed,   \* ... of them, the probe's
  out,      \* bytes of the process's last write that went out
  told,     \* what that write returned
  over,     \* a byte was written to a register that was not ready
  calls

vars == <<open, timeout, full, come, ready, pc, handed, eaten, probed, out, told, over, calls>>
inp == <<full, come, handed, eaten, probed>>
outp == <<ready, out, told, over, calls>>

Idle == [at |-> "idle", left |-> 0, chunk |-> 0, done |-> 0, ticks |-> 0]

TypeOK ==
  /\ open \in BOOLEAN /\ timeout \in {0, Ticks} /\ full \in BOOLEAN /\ ready \in BOOLEAN /\ over \in BOOLEAN
  /\ come \in 0 .. MaxIn /\ handed \in Seq(1 .. MaxIn) /\ eaten \subseteq 1 .. MaxIn /\ probed \subseteq eaten
  /\ \A p \in Procs: /\ pc[p].at \in {"idle", "read", "write", "reset"}
                     /\ pc[p].left \in 0 .. MaxWrite + MaxRead /\ pc[p].chunk \in 0 .. Chunk
                     /\ pc[p].done \in 0 .. MaxWrite /\ pc[p].ticks \in 0 .. Ticks + 3
  /\ out \in [Procs -> Nat] /\ told \in [Procs -> Nat] /\ calls \in 0 .. MaxCalls

Init ==
  /\ open = FALSE /\ timeout = Ticks /\ full = FALSE /\ come = 0 /\ ready = TRUE
  /\ pc = [p \in Procs |-> Idle] /\ handed = <<>> /\ eaten = {} /\ probed = {}
  /\ out = [p \in Procs |-> 0] /\ told = [p \in Procs |-> 0] /\ over = FALSE /\ calls = 0

-----------------------------------------------------------------------------
(* External: the transputer sends a byte; it takes one                     *)

Arrive == ~full /\ come < MaxIn /\ full' = TRUE /\ come' = come + 1
          /\ UNCHANGED <<open, timeout, pc, handed, eaten, probed, outp>>

Taken == ~ready /\ ready' = TRUE /\ UNCHANGED <<open, timeout, inp, pc, out, told, over, calls>>

-----------------------------------------------------------------------------
(* tlkopen: the registers are probed, the input's when the status said it
   was empty, and a byte may have come since; then is the link free?        *)

Open ==
  /\ \E came \in IF full \/ come = MaxIn THEN {FALSE} ELSE {FALSE, TRUE}:
       IF came THEN come' = come + 1 /\ eaten' = eaten \cup {come + 1} /\ probed' = probed \cup {come + 1}
       ELSE UNCHANGED <<come, eaten, probed>>
  /\ open' = TRUE
  /\ UNCHANGED <<timeout, full, handed, pc, outp>>

Close == open /\ (\A p \in Procs: pc[p] = Idle) /\ open' = FALSE /\ UNCHANGED <<timeout, inp, pc, outp>>

SetTimeout == open /\ timeout' \in {0, Ticks} /\ timeout' # timeout /\ UNCHANGED <<open, inp, pc, outp>>

-----------------------------------------------------------------------------
(* tlk_wait found nothing: a tick more, or the time is up                  *)

TimeUp(p) == timeout # 0 /\ pc[p].ticks >= timeout
(* mutant: the ticks are not counted *)
SleepUncounted(p) == pc' = pc
Sleep(p) == pc' = [pc EXCEPT ![p].ticks = IF timeout = 0 THEN @ ELSE @ + 1]

-----------------------------------------------------------------------------
(* tlkread                                                                 *)

Read(p) ==
  /\ open /\ pc[p] = Idle /\ \E n \in 1 .. MaxRead: pc' = [pc EXCEPT ![p] = [Idle EXCEPT !.at = "read", !.left = n]]
  /\ UNCHANGED <<open, timeout, inp, outp>>

(* mutant: the byte that ends a quiet spell is taken and dropped *)
BurstPast(n) == 0 .. n
(* with one byte there, how many more come closely enough *)
Burst(n) == 0 .. n - 1

(* a signal ends the sleep, and the call *)
ReadPoll(p, signal) ==
  /\ pc[p].at = "read"
  /\ \/ /\ full
        /\ \E k \in Burst(pc[p].left):
             /\ come + k <= MaxIn /\ come' = come + k /\ full' = FALSE
             /\ LET n == IF k + 1 > pc[p].left THEN pc[p].left ELSE k + 1
                IN handed' = handed \o [i \in 1 .. n |-> come + i - 1]
        /\ pc' = [pc EXCEPT ![p] = Idle] /\ UNCHANGED <<eaten, probed>>
     \/ ~full /\ (TimeUp(p) \/ signal) /\ pc' = [pc EXCEPT ![p] = Idle] /\ UNCHANGED inp
     \/ ~full /\ ~TimeUp(p) /\ ~signal /\ Sleep(p) /\ UNCHANGED inp
  /\ UNCHANGED <<open, timeout, outp>>

-----------------------------------------------------------------------------
(* tlkwrite, a chunk of it in the kernel: done counts what has gone out    *)

(* mutant: the chunk in hand counts as sent *)
GoneChunk(c, k) == c.done + c.chunk
(* the bytes gone once k more of this chunk have *)
Gone(c, k) == c.done + k

(* mutant: all of the call at once *)
NextChunkWhole(c) == [c EXCEPT !.chunk = c.left, !.left = 0, !.ticks = 0]
(* chunk is what is left of the chunk in hand; left, of the call after it *)
NextChunk(c) ==
  LET n == IF c.left < Chunk THEN c.left ELSE Chunk
  IN [c EXCEPT !.chunk = n, !.left = @ - n, !.ticks = 0]

Write(p) ==
  /\ open /\ pc[p] = Idle /\ calls < MaxCalls /\ calls' = calls + 1
  /\ \E n \in 1 .. MaxWrite: pc' = [pc EXCEPT ![p] = NextChunk([Idle EXCEPT !.at = "write", !.left = n])]
  /\ out' = [out EXCEPT ![p] = 0] /\ told' = [told EXCEPT ![p] = 0]
  /\ UNCHANGED <<open, timeout, inp, ready, over>>

(* mutant: the byte goes out without another poll *)
PolledOnce == TRUE
Polled == ready

WritePoll(p, signal) ==
  /\ pc[p].at = "write"
  /\ LET c == pc[p] IN
       \/ /\ Polled
          /\ \E k \in 1 .. c.chunk:                      \* k of them go closely, the last fills the register
               /\ out' = [out EXCEPT ![p] = @ + k] /\ over' = (over \/ ~ready)
               /\ LET d == [c EXCEPT !.done = Gone(c, k), !.chunk = @ - k, !.ticks = 0] IN
                    IF d.chunk > 0 THEN pc' = [pc EXCEPT ![p] = d] /\ UNCHANGED told
                    ELSE IF d.left > 0 THEN pc' = [pc EXCEPT ![p] = NextChunk(d)] /\ UNCHANGED told
                    ELSE pc' = [pc EXCEPT ![p] = Idle] /\ told' = [told EXCEPT ![p] = d.done]
          /\ ready' = FALSE
       \/ /\ ~Polled /\ (TimeUp(p) \/ signal)                         \* what was not sent is given back
          /\ pc' = [pc EXCEPT ![p] = Idle] /\ told' = [told EXCEPT ![p] = Gone(c, 0)] /\ UNCHANGED <<ready, out, over>>
       \/ ~Polled /\ ~TimeUp(p) /\ ~signal /\ Sleep(p) /\ UNCHANGED <<ready, out, told, over>>
  /\ UNCHANGED <<open, timeout, inp, calls>>

-----------------------------------------------------------------------------
(* tlk_reset: the lines are pulled and let go, three ticks; then what the
   input register still holds is thrown away, up to a bound                *)

Reset(p) ==
  /\ open /\ pc[p] = Idle /\ pc' = [pc EXCEPT ![p] = [Idle EXCEPT !.at = "reset"]]
  /\ UNCHANGED <<open, timeout, inp, outp>>

ResetTick(p) ==
  /\ pc[p].at = "reset"
  /\ IF pc[p].ticks < 2 THEN pc' = [pc EXCEPT ![p].ticks = @ + 1] /\ UNCHANGED inp
     ELSE /\ pc' = [pc EXCEPT ![p] = Idle]
          /\ IF full
             THEN \E k \in 0 .. Drain - 1:
                    /\ come + k <= MaxIn /\ come' = come + k /\ full' = FALSE
                    /\ eaten' = eaten \cup (come .. come + k) /\ UNCHANGED <<handed, probed>>
             ELSE UNCHANGED inp
  /\ UNCHANGED <<open, timeout, outp>>

Next ==
  \/ Arrive \/ Taken \/ Open \/ Close \/ SetTimeout
  \/ \E p \in Procs:
       \/ Read(p) \/ Write(p) \/ Reset(p) \/ ResetTick(p)
       \/ \E signal \in BOOLEAN: ReadPoll(p, signal) \/ WritePoll(p, signal)

Spec == Init /\ [][Next]_vars

(* sleeping processes are woken by the clock and poll again; no signal need come *)
FairSpec == Spec /\ \A p \in Procs: WF_vars(ReadPoll(p, FALSE)) /\ WF_vars(WritePoll(p, FALSE)) /\ WF_vars(ResetTick(p))

-----------------------------------------------------------------------------
(* Every byte the transputer sent has been handed to a reader, once and in
   order, or thrown away by a reset or a probe, or waits in the register:
   several readers, timeouts and signals lose none. (tlkread, tlk_wait)    *)
InputKept ==
  /\ {handed[i]: i \in DOMAIN handed} \cup eaten = 1 .. (IF full THEN come - 1 ELSE come)
  /\ \A i \in DOMAIN handed: handed[i] \notin eaten /\ (i > 1 => handed[i - 1] < handed[i])

(* A write that has returned told how many of its bytes went out, whether it
   was done, timed out or was interrupted. (tlkwrite)                      *)
WriteTells == \A p \in Procs: pc[p].at # "write" => told[p] = out[p]

(* No byte is written over one the transputer has not taken, whoever writes.
   (tlkwrite, tlk_wait)                                                    *)
NoOverrun == ~over

BytesSound == InputKept /\ WriteTells /\ NoOverrun

(* With a timeout set, a call ends although the transputer is dead. (tlk_wait) *)
InCall(p) == pc[p] # Idle
CallsEnd == \A p \in Procs: InCall(p) ~> (~InCall(p) \/ timeout = 0)

(* Not so: only a reset throws input away. An open that is refused because
   the link is open probes the registers first.                            *)
OnlyResetEats == probed = {}
=============================================================================
