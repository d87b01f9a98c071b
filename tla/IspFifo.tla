------------------------------ MODULE IspFifo ------------------------------
(***************************************************************************)
(* How the bytes of a job get into the ISP1160's FIFO and out of it        *)
(* (driver-ub/isp116x.c over ub_io.c): boards that hand words over either  *)
(* way round, buffers at even and odd addresses, lengths that end within a *)
(* word or a unit of two, a job done in several parts, and on the NetUSBee *)
(* a word in two accesses with a latch the Ethernet driver's reads change. *)
(* What the transactions do is module Isp's.                               *)
(*                                                                         *)
(* A word is <<high byte, low byte>>, a byte of the device's or of the     *)
(* memory a number. Left out: the descriptor's words, the turns of eight   *)
(* words, the reads that trip up the instruction cache (ub_nuacc).         *)
(*                                                                         *)
(* External: the board, the chip, the device, nu.c's reads.                *)
(***************************************************************************)
EXTENDS Integers, Sequences

CONSTANTS
  Buffers,   \* addresses a job's data may be at
  MaxLen,    \* bound: bytes of a job
  MaxParts,  \* bound: times a job's descriptor is set up
  Memory     \* addresses

FifoAssumption ==
  /\ MaxLen \in Nat /\ MaxParts \in Nat \ {0} /\ Memory \subseteq Nat
  /\ \A b \in Buffers: b .. (b + MaxLen - 1) \subseteq Memory

VARIABLES
  board,  \* [bus, swaps, id]: which, whether it swaps a word's bytes, whether the chip answers
  swap,   \* ub_swap
  mem,    \* the kernel's memory
  job,    \* isp116x_submit_job's frame: where it is, what is left; i words of the part went through
  fifo,   \* the chip's words
  count,  \* bytes the chip moved
  latch,  \* NetUSBee: the byte latched
  spl7,   \* between the two accesses of a word
  first,  \* the job's buffer and length, the memory before
  got,    \* the bytes the device took
  lost    \* words read that the chip did not have
vars == <<board, swap, mem, job, fifo, count, latch, spl7, first, got, lost>>

Junk == -1
Zero == -2
Other == -3       \* a byte of nu.c's
Said(i) == 100 + i   \* the device's byte i of an IN job
NoJob == [pc |-> "idle", dir |-> "in", buf |-> 0, len |-> 0, done |-> 0, i |-> 0, parts |-> 0]
Byte == Memory \cup {Junk, Zero, Other} \cup {Said(i): i \in 0 .. MaxLen}

TypeOK ==
  /\ board \in [bus: {"lightning", "netusbee"}, swaps: BOOLEAN, id: BOOLEAN] /\ swap \in BOOLEAN
  /\ mem \in [Memory -> Byte] /\ latch \in Byte /\ spl7 \in BOOLEAN
  /\ job.pc \in {"off", "failed", "idle", "write", "data", "run", "read"} /\ job.dir \in {"in", "out"}
  /\ job.len \in 0 .. MaxLen /\ job.done \in 0 .. MaxLen /\ job.parts \in 0 .. MaxParts
  /\ count \in 0 .. MaxLen /\ lost \in Nat /\ \A k \in DOMAIN fifo: fifo[k] \in Byte \X Byte

Init ==
  /\ board \in [bus: {"lightning", "netusbee"}, swaps: BOOLEAN, id: BOOLEAN]
  /\ swap = FALSE /\ mem = [a \in Memory |-> a] /\ job = [NoJob EXCEPT !.pc = "off"]
  /\ fifo = <<>> /\ count = 0 /\ latch = Other /\ spl7 = FALSE
  /\ first = [buf |-> 0, len |-> 0, mem |-> mem] /\ got = <<>> /\ lost = 0

-----------------------------------------------------------------------------
(* ub_io.c: a word through the board                                       *)

SWAP16(w) == <<w[2], w[1]>>
Turned(s, w) == IF s THEN SWAP16(w) ELSE w
(* ub_rd16, of the chip's word *)
Rd16(w, s) == Turned(s, Turned(board.swaps, w))
(* mutant: data words are not the other way round *)
PlainSame(w) == w
Plain(w) == SWAP16(w)

(* ub_io_init: the way round the chip's ID reads right *)
ChipId == IF board.id THEN <<"61", "23">> ELSE <<"ff", "ff">>
Reads(s) == Rd16(ChipId, s)[1] = "61"
IoInit ==
  /\ job.pc \in {"off", "failed"}
  /\ swap' = (~Reads(FALSE) /\ Reads(TRUE))
  /\ job' = [job EXCEPT !.pc = IF \E s \in BOOLEAN: Reads(s) THEN "idle" ELSE "failed"]
  /\ UNCHANGED <<board, mem, fifo, count, latch, spl7, first, got, lost>>

-----------------------------------------------------------------------------
(* isp116x_submit_job: the parts of a job                                  *)

Submit(dir, buf, len) ==
  /\ job.pc = "idle" /\ job.parts = 0
  /\ job' = [NoJob EXCEPT !.pc = "write", !.dir = dir, !.buf = buf, !.len = len, !.parts = 1]
  /\ first' = [buf |-> buf, len |-> len, mem |-> mem] /\ got' = <<>> /\ fifo' = <<>>
  /\ UNCHANGED <<board, swap, mem, count, latch, spl7, lost>>

(* write_ptddata_to_fifo, read_ptddata_from_fifo: how many words, two at a time *)
(* mutant: a unit that is half full is left so *)
PaddedNever(len) == 0
Padded(len) == IF len % 4 \in {1, 2} THEN 1 ELSE 0
Pairs(len) == len \div 2
Words(len) == Pairs(len) + (len % 2) + Padded(len)
(* the addresses of word i *)
At(i) == job.buf + 2 * i
Odd(a) == a % 2 = 1

(* write_ptddata_to_fifo: word i as ub_wr16 is given it *)
Word(i) ==
  LET a == At(i) IN
    CASE i < Pairs(job.len) /\ Odd(job.buf) -> <<mem[a + 1], mem[a]>>
      [] i < Pairs(job.len) /\ ~Odd(job.buf) -> Plain(<<mem[a], mem[a + 1]>>)
      [] i = Pairs(job.len) /\ job.len % 2 = 1 -> <<Zero, mem[a]>>
      [] OTHER -> <<Zero, Zero>>
Given(w) == fifo' = Append(fifo, Turned(board.swaps, w)) /\ job' = [job EXCEPT !.pc = "write", !.i = @ + 1]
Due == job.pc = "write" /\ job.dir = "out" /\ job.i < Words(job.len)
(* ub_wr16: at once on the Lightning; the low byte latched, then the high one on the NetUSBee *)
(* mutant: not at spl7 *)
LockNone == FALSE
Lock == TRUE
Write ==
  /\ Due
  /\ LET v == Turned(swap, Word(job.i)) IN
       IF board.bus = "lightning" THEN Given(v) /\ UNCHANGED <<latch, spl7>>
       ELSE latch' = v[2] /\ spl7' = Lock /\ job' = [job EXCEPT !.pc = "data"] /\ UNCHANGED fifo
  /\ UNCHANGED <<board, swap, mem, count, first, got, lost>>
WriteData ==
  /\ job.pc = "data" /\ Given(<<Turned(swap, Word(job.i))[1], latch>>) /\ spl7' = FALSE
  /\ UNCHANGED <<board, swap, mem, count, latch, first, got, lost>>
(* External: the Ethernet driver's polling *)
NuReads ==
  /\ board.bus = "netusbee" /\ ~spl7 /\ latch # Other /\ latch' = Other
  /\ UNCHANGED <<board, swap, mem, job, fifo, count, spl7, first, got, lost>>

(* pack_fifo is through; the descriptor's job is the chip's *)
Packed ==
  /\ job.pc = "write" /\ (job.dir = "out" => job.i = Words(job.len))
  /\ job' = [job EXCEPT !.pc = "run", !.i = 0]
  /\ UNCHANGED <<board, swap, mem, fifo, count, latch, spl7, first, got, lost>>

(* External: the chip moves k bytes, and has whole units of them for the driver *)
Bytes(n) == [k \in 1 .. n |-> IF k % 2 = 1 THEN fifo[(k + 1) \div 2][2] ELSE fifo[k \div 2][1]]
Filled(k) == [w \in 1 .. 2 * ((job.len + 3) \div 4) |->
                LET b(n) == IF n < k THEN Said(job.done + n) ELSE Junk IN <<b(2 * w - 1), b(2 * w - 2)>>]
Run(k) ==
  /\ job.pc = "run" /\ k <= job.len /\ count' = k
  /\ IF job.dir = "out" THEN got' = got \o Bytes(k) /\ fifo' = <<>> ELSE fifo' = Filled(k) /\ UNCHANGED got
  /\ job' = [job EXCEPT !.pc = "read"]
  /\ UNCHANGED <<board, swap, mem, latch, spl7, first, lost>>

(* read_ptddata_from_fifo: word i into the buffer *)
Stored(v, i) ==
  LET a == At(i) p == Plain(v) IN
    CASE i < Pairs(job.len) /\ Odd(job.buf) -> [mem EXCEPT ![a] = v[2], ![a + 1] = v[1]]
      [] i < Pairs(job.len) /\ ~Odd(job.buf) -> [mem EXCEPT ![a] = p[1], ![a + 1] = p[2]]
      [] i = Pairs(job.len) /\ job.len % 2 = 1 -> [mem EXCEPT ![a] = v[2]]
      [] OTHER -> mem
Read ==
  /\ job.pc = "read" /\ job.dir = "in" /\ job.i < Words(job.len)
  /\ LET has == fifo # <<>> IN
       /\ mem' = Stored(Rd16(IF has THEN Head(fifo) ELSE <<Junk, Junk>>, swap), job.i)
       /\ fifo' = (IF has THEN Tail(fifo) ELSE fifo) /\ lost' = lost + (IF has THEN 0 ELSE 1)
  /\ job' = [job EXCEPT !.i = @ + 1]
  /\ UNCHANGED <<board, swap, count, latch, spl7, first, got>>

(* the part's bytes are behind it; the rest again, or the end *)
(* mutant: the rest is taken from where the job began *)
RestSame(a) == a
Rest(a) == a + count
Unpacked ==
  /\ job.pc = "read" /\ (job.dir = "in" => job.i = Words(job.len))
  /\ LET j == [job EXCEPT !.buf = Rest(@), !.len = @ - count, !.done = @ + count, !.i = 0] IN
       \/ job.parts < MaxParts /\ j.len > 0 /\ fifo = <<>>
          /\ job' = [j EXCEPT !.pc = "write", !.parts = @ + 1]
       \/ job' = [j EXCEPT !.pc = "idle"]
  /\ UNCHANGED <<board, swap, mem, fifo, count, latch, spl7, first, got, lost>>

Next ==
  \/ IoInit \/ Write \/ WriteData \/ NuReads \/ Packed \/ Read \/ Unpacked
  \/ \E dir \in {"in", "out"}, buf \in Buffers, len \in 0 .. MaxLen: Submit(dir, buf, len)
  \/ \E k \in 0 .. MaxLen: Run(k)
Spec == Init /\ [][Next]_vars

-----------------------------------------------------------------------------
(* At the end of a job the bytes that were counted are the device's or the
   buffer's, in order, whichever way the board hands words over, wherever the buffer
   lies and in however many parts; nothing outside the buffer was touched, and the
   FIFO held just the words that were read. (write_ptddata_to_fifo,
   read_ptddata_from_fifo, ub_wr16, ub_io_init)                            *)
BytesMove == job.pc = "idle" /\ job.parts > 0 =>
  /\ fifo = <<>> /\ lost = 0
  /\ job.dir = "out" => mem = first.mem /\ got = [k \in 1 .. job.done |-> first.mem[first.buf + k - 1]]
  /\ job.dir = "in" => \A a \in Memory:
       /\ a \in first.buf .. (first.buf + job.done - 1) => mem[a] = Said(a - first.buf)
       /\ a \notin first.buf .. (first.buf + first.len - 1) => mem[a] = first.mem[a]
=============================================================================
