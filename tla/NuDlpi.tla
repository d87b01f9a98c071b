------------------------------- MODULE NuDlpi -------------------------------
(***************************************************************************)
(* The message blocks of the NetUSBee driver's DLPI half (driver-nu/nu.c): *)
(* each request is answered by a block of its own, by a new one, or not at *)
(* all when there is none, and whatever way it goes every block ends with  *)
(* one owner. The card's side is module Nu.                                *)
(*                                                                         *)
(* A message is a block and what its b_cont leads to. A handler runs       *)
(* whole. What fields say is left out but for the sap and the state; a     *)
(* raw or mode ioctl's own work too.                                       *)
(*                                                                         *)
(* External: the allocator, the stream head, which takes what comes up.    *)
(***************************************************************************)
EXTENDS Naturals, Sequences, FiniteSets

CONSTANTS
  Blocks,   \* message blocks: numbers
  Minors,   \* minors
  Saps,     \* ethertypes; 0 is none
  MaxNoMem  \* bound: allocations that fail

VARIABLES
  own,   \* who has each block: "free", "up", "wq", "drv" within a handler
  cont,  \* b_cont, or 0
  min,   \* min_state and min_sap
  told,  \* what each stream's user was last told
  ans,   \* answers to the last request
  nomem
vars == <<own, cont, min, told, ans, nomem>>

Unbound == [idle |-> FALSE, sap |-> 0]
H0 == [own |-> own, cont |-> cont, ups |-> <<>>]
TypeOK ==
  /\ own \in [Blocks -> {"free", "up", "wq"}] /\ cont \in [Blocks -> Blocks \cup {0}]
  /\ \A m \in Minors: min[m].sap \in Saps \cup {0} /\ nomem \in 0 .. MaxNoMem
Init ==
  /\ own = [b \in Blocks |-> "free"] /\ cont = [b \in Blocks |-> 0] /\ min = [m \in Minors |-> Unbound]
  /\ told = min /\ ans = <<>> /\ nomem = 0

-----------------------------------------------------------------------------
(* External: allocb, freeb, freemsg, copymsg, on a heap record              *)

Free(h) == {b \in Blocks: h.own[b] = "free"}
Pick(h) == CHOOSE b \in Free(h): \A c \in Free(h): b <= c
Took(h, b, c) == [h EXCEPT !.own[b] = "drv", !.cont[b] = c]
Chain(h, b) == {b} \cup (IF h.cont[b] = 0 THEN {} ELSE {h.cont[b]})
Give(h, b, to) == [h EXCEPT !.own = [x \in Blocks |-> IF x \in Chain(h, b) THEN to ELSE h.own[x]]]
Freeb(h, b) == [h EXCEPT !.own[b] = "free", !.cont[b] = 0]
Freemsg(h, b) == [h EXCEPT !.own = [x \in Blocks |-> IF x \in Chain(h, b) THEN "free" ELSE h.own[x]],
                           !.cont = [x \in Blocks |-> IF x \in Chain(h, b) THEN 0 ELSE h.cont[x]]]
Putnext(h, b, what) == [Give(h, b, "up") EXCEPT !.ups = Append(@, what)]

(* en_reuse: the block itself, if it is unshared and big enough, else another *)
(* mutant: the block it replaces is kept *)
ReuseKeeps(h, b, fits, mem) ==
  CASE fits -> [h |-> IF h.cont[b] = 0 THEN h ELSE [Freemsg(h, h.cont[b]) EXCEPT !.cont[b] = 0], np |-> b]
    [] ~fits /\ mem -> [h |-> Took(h, Pick(h), 0), np |-> Pick(h)]
    [] OTHER -> [h |-> h, np |-> 0]
Reuse(h, b, fits, mem) ==
  CASE fits -> [h |-> IF h.cont[b] = 0 THEN h ELSE [Freemsg(h, h.cont[b]) EXCEPT !.cont[b] = 0], np |-> b]
    [] ~fits /\ mem -> [h |-> Freemsg(Took(h, Pick(h), 0), b), np |-> Pick(h)]
    [] OTHER -> [h |-> h, np |-> 0]
(* en_error_ack *)
ErrorAck(h, b, fits, mem) == LET r == Reuse(h, b, fits, mem) IN
  IF r.np = 0 THEN Freemsg(h, b) ELSE Putnext(r.h, r.np, "error")
(* an answer of a size, or an error of ENOMEM *)
Ack(h, b, fits, mem, what, efits, emem) == LET r == Reuse(h, b, fits, mem) IN
  IF r.np = 0 THEN ErrorAck(h, b, efits, emem) ELSE Putnext(r.h, r.np, what)

-----------------------------------------------------------------------------
(* en_proto. Q: a request of the stream head, in a block of its own and data behind it *)

Room(h, n) == Cardinality(Free(h)) >= n
Req(b, c) == IF c = 0 THEN Took(H0, b, 0) ELSE Took(Took(H0, c, 0), b, c)
NoneUp == \A b \in Blocks: own[b] # "up"
Ends(h, fails) ==
  /\ NoneUp
  /\ own' = h.own /\ cont' = h.cont /\ ans' = h.ups
  /\ nomem + fails <= MaxNoMem /\ nomem' = nomem + fails
Two == IF Room(H0, 2) THEN LET b == Pick(H0) IN {b} \X {0, Pick(Took(H0, b, 0))} ELSE {}

(* The ways memory can go: the block fits or another is got, for the answer and then for the error *)
Memory == {w \in [fits: BOOLEAN, mem: BOOLEAN, efits: BOOLEAN, emem: BOOLEAN]:
             ~(w.fits /\ w.mem) /\ ~(w.efits /\ w.emem) /\ (w.fits \/ w.mem => ~w.efits /\ ~w.emem)}
Lacks(x) == IF x THEN 0 ELSE 1
(* A request with a fixed answer: refused where it cannot be; an error
   is bigger than DL_OK_ACK, smaller than the other answers *)
Answered(what, ok, w, b, c) ==
  LET h == Req(b, c) IN
    /\ Room(h, 1) /\ (w.efits => ~ok \/ what # "unbound") /\ (ok \/ (~w.fits /\ ~w.mem))
    /\ IF ok THEN Ends(Ack(h, b, w.fits, w.mem, what, w.efits, w.emem),
                       IF w.fits \/ w.mem THEN 0 ELSE 1 + Lacks(w.efits \/ w.emem))
       ELSE Ends(ErrorAck(h, b, w.efits, w.emem), Lacks(w.efits \/ w.emem))
Says(m, what) == told' = IF ans' = <<what>> THEN [told EXCEPT ![m] = min'[m]] ELSE told

Bind(m, sap, running) ==
  LET ok == running /\ ~min[m].idle /\ ~\E x \in Minors: min[x].idle /\ min[x].sap = sap IN
    /\ \E p \in Two, w \in Memory: Answered("bound", ok, w, p[1], p[2])
    /\ min' = IF ok THEN [min EXCEPT ![m] = [idle |-> TRUE, sap |-> sap]] ELSE min
    /\ Says(m, "bound")
Unbind(m, running) ==
  LET ok == running /\ min[m].idle IN
    /\ \E p \in Two, w \in Memory: Answered("unbound", ok, w, p[1], p[2])
    /\ min' = IF ok THEN [min EXCEPT ![m] = Unbound] ELSE min
    /\ Says(m, "unbound")
Info(m, running) ==
  /\ \E p \in Two, w \in Memory: Answered("info", running, w, p[1], p[2])
  /\ UNCHANGED <<min, told>>

(* DL_UNITDATA_REQ: a broadcast comes back too, in a copy; then a header is put
   before the data and it waits for the card *)
(* en_uderror_ind *)
Uderror(h, b) == Putnext(h, b, "uderror")
(* en_mkind, en_send_up: put before data c, taken if the stream above has room *)
SendUp(h, c, mem, canput) ==
  IF ~mem THEN [h |-> h, ok |-> FALSE]
  ELSE LET ip == Pick(h) g == Took(h, ip, c) IN [h |-> IF canput THEN Putnext(g, ip, "ind") ELSE Freemsg(g, ip), ok |-> TRUE]
(* the copy's first block goes, its data is the indication's *)
(* mutant: the first block is left *)
HeardLeaves(h, b, copied, mem, canput) ==
  IF ~copied THEN h
  ELSE IF h.cont[b] = 0 THEN h
  ELSE LET cp == Pick(h) c2 == Pick(Took(h, cp, 0)) g == Took(Took(h, cp, 0), c2, 0) r == SendUp([g EXCEPT !.cont[cp] = c2], c2, mem, canput) IN
    IF r.ok THEN r.h ELSE Freemsg(r.h, cp)
Heard(h, b, copied, mem, canput) ==
  IF ~copied THEN h
  ELSE IF h.cont[b] = 0 THEN h
  ELSE LET cp == Pick(h) c2 == Pick(Took(h, cp, 0)) g == Took(Took(h, cp, 0), c2, 0) r == SendUp([g EXCEPT !.cont[cp] = c2], c2, mem, canput) IN
    IF r.ok THEN Freeb(r.h, cp) ELSE Freemsg(r.h, cp)
(* mutant: the request's block goes with its data *)
QueuedTwice(h, b) == LET hp == Pick(h) IN Give(Took(h, hp, h.cont[b]), hp, "wq")
Queued(h, b) == LET hp == Pick(h) g == Took(h, hp, h.cont[b]) IN Give(Freeb(g, b), hp, "wq")
Unitdata(m, running) ==
  /\ \E p \in Two, bcast, copied, kmem, canput, hmem, dead, ef, ek \in BOOLEAN:
       LET h == Req(p[1], p[2])
           g == IF bcast THEN Heard(h, p[1], copied, kmem, canput) ELSE h
       IN /\ Room(h, IF bcast THEN 4 ELSE 1)
          /\ (~bcast => ~copied /\ ~kmem /\ ~canput) /\ (~copied => ~kmem /\ ~canput) /\ (~kmem => ~canput)
          /\ (running => ~ef /\ ~ek) /\ (~running \/ ~min[m].idle => ~bcast /\ ~hmem) /\ (~hmem => ~dead)
          /\ CASE ~running -> Ends(ErrorAck(h, p[1], ef, ek), Lacks(ef \/ ek))
               [] running /\ ~min[m].idle -> Ends(Uderror(h, p[1]), 0)
               [] running /\ min[m].idle /\ ~hmem -> Ends(Uderror(g, p[1]), 1 + (IF bcast THEN Lacks(copied /\ kmem) ELSE 0))
               [] running /\ min[m].idle /\ hmem ->
                    LET q == Queued(g, p[1]) IN
                      Ends(IF dead THEN Freemsg(q, Pick(g)) ELSE q, IF bcast THEN Lacks(copied /\ kmem) ELSE 0)
  /\ UNCHANGED <<min, told>>

(* A frame that came in: to the stream bound to its type (en_rproc) *)
Rproc(sap) ==
  /\ Room(H0, 2)
  /\ \E mem, canput \in BOOLEAN: LET b == Pick(H0) h == Took(H0, b, 0) r == SendUp(h, b, mem, canput) IN
       /\ (~mem => ~canput)
       /\ IF \E m \in Minors: min[m].idle /\ min[m].sap = sap
          THEN Ends(IF r.ok THEN r.h ELSE Freemsg(h, b), Lacks(mem))
          ELSE ~mem /\ Ends(Freemsg(h, b), 0)
  /\ UNCHANGED <<min, told>>

(* en_ioctl: refused, with data that is too small or none, or answered in it *)
Ioctl ==
  /\ \E p \in Two, known, fits, mem \in BOOLEAN:
       LET h == Req(p[1], p[2])
           g == IF p[2] = 0 THEN h ELSE [Freemsg(h, p[2]) EXCEPT !.cont[p[1]] = 0]
       IN /\ Room(h, 1) /\ (fits => p[2] # 0 /\ known /\ ~mem) /\ (~known => ~mem)
          /\ CASE ~known -> Ends(Putnext(h, p[1], "nak"), 0)
               [] known /\ fits -> Ends(Putnext(h, p[1], "ack"), 0)
               [] known /\ ~fits /\ mem -> LET d == Pick(g) IN Ends(Putnext([Took(g, d, 0) EXCEPT !.cont[p[1]] = d], p[1], "ack"), 0)
               [] known /\ ~fits /\ ~mem -> Ends(Putnext(g, p[1], "nak"), 1)
  /\ UNCHANGED <<min, told>>

(* A request the driver does not know *)
Unknown == /\ \E p \in Two: Ends(Freemsg(Req(p[1], p[2]), p[1]), 0)
           /\ UNCHANGED <<min, told>>

(* A queued frame was sent, or flushed *)
Sent == \E b \in Blocks: /\ own[b] = "wq" /\ \A c \in Blocks: cont[c] # b
                         /\ Ends(Freemsg(H0, b), 0) /\ UNCHANGED <<min, told>>
(* External: the stream head took what came up, before more is sent down *)
Read == /\ ~NoneUp /\ own' = [b \in Blocks |-> IF own[b] = "up" THEN "free" ELSE own[b]]
        /\ cont' = [b \in Blocks |-> IF own[b] = "up" THEN 0 ELSE cont[b]]
        /\ ans' = <<>> /\ UNCHANGED <<min, told, nomem>>

Next ==
  \/ \E m \in Minors, running \in BOOLEAN: (\E sap \in Saps: Bind(m, sap, running)) \/ Unbind(m, running) \/ Info(m, running) \/ Unitdata(m, running)
  \/ (\E sap \in Saps: Rproc(sap)) \/ Ioctl \/ Unknown \/ Sent \/ Read
Spec == Init /\ [][Next]_vars

-----------------------------------------------------------------------------
(* Every block is free, waits for the card or went up, whichever allocations failed,
   and the blocks of a message have one owner. (en_reuse, en_proto, en_ioctl) *)
OneOwner ==
  /\ \A b \in Blocks: own[b] # "drv" /\ (own[b] = "free" => cont[b] = 0)
  /\ \A b \in Blocks: cont[b] # 0 => own[cont[b]] = own[b] /\ \A c \in Blocks \ {b}: cont[c] # cont[b]

(* A stream's user was told the state and the sap it has. Holds where no allocation
   fails: DL_BIND_REQ takes the sap before it has the block to say so. (en_proto) *)
ToldSo == told = min
=============================================================================
