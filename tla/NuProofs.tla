----------------------------- MODULE NuProofs -----------------------------
(***************************************************************************)
(* Theorems of Nu, for any streams, sizes of ring, frame and burst, and    *)
(* whatever goes wrong with the card: what comes up is a whole frame, each *)
(* once and in order, and the frame being sent is left alone.              *)
(*                                                                         *)
(* The first rests on Ring: between the page that is read next and CURR    *)
(* lie frames, end to end but for a page left out, each pointing to the    *)
(* next one, all later than the last passed up.  Which pages they start on *)
(* cannot be told from the memory, where an old header may lie in a page   *)
(* left out, so it is a set that exists (Chained).                         *)
(***************************************************************************)
EXTENDS Nu, TLAPS, NaturalsInduction, WellFoundedInduction, FiniteSetTheorems

-----------------------------------------------------------------------------
(* A record is what its fields say; of some fields no more is needed.      *)
Is(x, F) == x = [f \in F |-> x[f]]
ChipFields == {"health", "on", "sane", "loop", "curr", "bnry", "mem", "isr", "buf", "txp"}
SoftFields == {"running", "rxnext", "txlen", "txcur", "txage", "failrun"}
MinorFields == {"q", "idle", "sap"}
PlaceFields == {"pc", "q", "turn", "n", "work", "ovw", "resend", "tries"}
ChipOk(c) ==
  /\ Is(c, ChipFields) /\ c.health \in {"ok", "stuck", "gone"}
  /\ c.curr \in 0 .. Ring /\ c.mem \in [Pages -> Page]
PlaceOk(v) == Is(v, PlaceFields) /\ v.tries \in Int
Queued ==
  /\ DOMAIN min = Minors
  /\ \A m \in Minors : Is(min[m], MinorFields) /\ min[m].q \in Streams \cup {NoQ}
  /\ wq \in [Streams -> Seq(Nat \ {0})] /\ nextmin \in Int /\ ntx \in Nat
Types ==
  /\ ChipOk(chip) /\ Is(sc, SoftFields) /\ PlaceOk(srv) /\ Queued
  /\ nrx \in 0 .. MaxRx /\ got \in Seq(Page)

(* Pages from a on to b, round the ring, and those from the one read next. *)
Dist(a, b) == IF a <= b THEN b - a ELSE b + Ring - a
D(p) == Dist(sc.rxnext, p)

(* A frame lies whole in its pages from s on.                              *)
Whole(s) ==
  LET h == chip.mem[s] IN
  /\ h.n \in 1 .. Ring - 1
  /\ \A i \in 0 .. h.n - 1 : chip.mem[Wrap(s + i)].f = h.f /\ chip.mem[Wrap(s + i)].k = i
Later(s) == got # <<>> => got[1].f < chip.mem[s].f

(* Frames start on the pages S, and the one at s ends before its next, or  *)
(* its header is spoilt.                                                   *)
Ends(s) == D(s) + chip.mem[s].n <= D(chip.curr)
Linked(s, S) ==
  LET x == chip.mem[s].nxt IN
  x # Ring => /\ x = chip.curr \/ x \in S
              /\ D(s) + chip.mem[s].n <= D(x) /\ D(x) <= D(chip.curr)
Chained(S) ==
  /\ S \subseteq Pages
  /\ sc.rxnext = chip.curr \/ sc.rxnext \in S
  /\ \A s \in S : Whole(s) /\ Ends(s) /\ Linked(s, S) /\ Later(s)
  /\ \A s, t \in S : D(s) < D(t) => chip.mem[s].f < chip.mem[t].f
Seen == \A p \in Pages : chip.mem[p].f <= nrx

InRing ==
  /\ sc.running => /\ sc.rxnext \in Pages /\ chip.bnry = Bnry(sc.rxnext)
                   /\ chip.curr \in Pages => \E S \in SUBSET Pages : Chained(S)
  /\ Seen /\ (got # <<>> => got[1].f <= nrx)

Copying ==
  srv.pc = "copy" =>
    /\ Sensible(chip.mem[sc.rxnext]) /\ Whole(sc.rxnext) /\ Later(sc.rxnext)
    /\ chip.curr # sc.rxnext
Working == srv.pc \in {"rx", "copy", "tx"} => sc.running

(* A frame that the chip sends, or will again once an overflow is dealt    *)
(* with, is the one in the buffer, and it has not been reported sent.      *)
Held == sc.txcur /\ sc.txlen # 0 /\ "PTX" \notin chip.isr
Sending ==
  /\ chip.txp => Held
  /\ srv.resend /\ srv.pc \in {"rx", "copy", "tx"} => Held /\ srv.ovw /\ ~chip.txp
  /\ srv.resend /\ srv.pc = "send" => ~sc.running
  /\ sc.running /\ "PTX" \in chip.isr => sc.txlen # 0

Inv == Types /\ InRing /\ Copying /\ Working /\ Sending

-----------------------------------------------------------------------------
(* Pages round the ring                                                    *)

LEMMA RingSize == Ring \in Nat /\ Ring >= 2 /\ Pages = 0 .. Ring - 1 /\ Ring \notin Pages
BY NuAssumption DEF Pages

LEMMA WrapIs ==
  ASSUME NEW x \in 0 .. 2 * Ring - 1
  PROVE  Wrap(x) = (IF x < Ring THEN x ELSE x - Ring) /\ Wrap(x) \in Pages
<1>1. Ring \in Nat /\ Ring > 0
  BY RingSize
<1>2. CASE x < Ring
  <2>1. x % Ring = x
    BY <1>1, <1>2
  <2> QED  BY <2>1, <1>1, <1>2, RingSize DEF Wrap
<1>3. CASE x >= Ring
  <2>1. x % Ring = x - Ring
    BY <1>1, <1>3
  <2> QED  BY <2>1, <1>1, <1>3, RingSize DEF Wrap
<1> QED  BY <1>1, <1>2, <1>3

LEMMA DistIs ==
  ASSUME NEW a \in Pages, NEW b \in Pages
  PROVE  /\ Dist(a, b) \in 0 .. Ring - 1
         /\ Dist(a, b) = 0 <=> a = b
         /\ \A c \in Pages : Dist(a, b) = Dist(a, c) <=> b = c
BY RingSize DEF Dist

(* i pages after b, and from there on                                      *)
LEMMA DistOn ==
  ASSUME NEW a \in Pages, NEW b \in Pages, NEW i \in Nat, Dist(a, b) + i < Ring
  PROVE  Wrap(b + i) \in Pages /\ Dist(a, Wrap(b + i)) = Dist(a, b) + i
<1>1. b + i \in 0 .. 2 * Ring - 1 /\ i < Ring
  BY RingSize DEF Dist
<1> QED  BY <1>1, WrapIs, RingSize DEF Dist

LEMMA DistFrom ==
  ASSUME NEW a \in Pages, NEW b \in Pages, NEW c \in Pages, Dist(a, b) <= Dist(a, c)
  PROVE  Dist(b, c) = Dist(a, c) - Dist(a, b)
BY RingSize DEF Dist

(* How far the pages are from the one to be read next                      *)
LEMMA PlacesIn ==
  ASSUME sc.rxnext \in Pages
  PROVE  D(sc.rxnext) = 0 /\ \A p \in Pages : D(p) \in 0 .. Ring - 1
<1>1. D(sc.rxnext) = 0
  <2>1. PICK a \in Pages : a = sc.rxnext
    OBVIOUS
  <2>2. Dist(a, a) = 0
    BY DistIs
  <2> QED  BY <2>1, <2>2 DEF D
<1>2. ASSUME NEW p \in Pages PROVE D(p) \in 0 .. Ring - 1
  BY DistIs DEF D
<1> QED  BY <1>1, <1>2

(* BNRY is the page read last                                              *)
LEMMA BnryIs ==
  ASSUME NEW a \in Pages
  PROVE  Bnry(a) \in Pages /\ Dist(a, Bnry(a)) = Ring - 1
<1>1. a + Ring - 1 \in 0 .. 2 * Ring - 1
  BY RingSize
<1> QED  BY <1>1, WrapIs, RingSize DEF Dist, Bnry

(* A header that makes sense points one frame on.                          *)
LEMMA SensibleIs ==
  ASSUME sc.rxnext \in Pages, NEW h \in Page, Sensible(h)
  PROVE  h.nxt \in Pages /\ h.n > 0 /\ D(h.nxt) \in {h.n, h.n + 1}
<1>1. h.nxt \in Pages /\ h.n > 0 /\ Wrap(h.nxt + Ring - sc.rxnext) \in {h.n, h.n + 1}
  BY DEF Sensible
<1>2. h.nxt + Ring - sc.rxnext \in 0 .. 2 * Ring - 1
  BY <1>1, RingSize
<1> QED  BY <1>1, <1>2, WrapIs, RingSize DEF D, Dist

-----------------------------------------------------------------------------
(* What most steps have in common                                          *)

LEMMA InitInv == Init => Inv
<1> SUFFICES ASSUME Init PROVE Inv
  OBVIOUS
<1> USE RingSize
<1>1. Blank \in Page
  BY NuAssumption DEF Blank, Page
<1>2. ChipOk(chip)
  <2>1. Is(chip, ChipFields)
    BY DEF Init, Is, ChipFields
  <2>2. chip.health = "ok" /\ chip.curr = 0 /\ chip.mem = [p \in Pages |-> Blank]
    BY DEF Init
  <2> QED  BY <1>1, <2>1, <2>2 DEF ChipOk
<1>3. Is(sc, SoftFields)
  BY DEF Init, Is, SoftFields
<1>4. PlaceOk(srv)
  BY DEF Init, Is, PlaceFields, PlaceOk, Rest
<1>5. nrx \in 0 .. MaxRx /\ ntx \in Nat /\ nextmin \in Int /\ got \in Seq(Page)
  BY NuAssumption DEF Init
<1>6. wq \in [Streams -> Seq(Nat \ {0})]
  BY DEF Init
<1>7. DOMAIN min = Minors /\ \A m \in Minors : Is(min[m], MinorFields) /\ min[m].q \in Streams \cup {NoQ}
  BY DEF Init, NoMinor, Is, MinorFields
<1>8. Types
  BY <1>2, <1>3, <1>4, <1>5, <1>6, <1>7 DEF Types, Queued
<1>9. InRing
  BY DEF Init, InRing, Seen, Blank
<1>10. Copying /\ Working /\ Sending
  BY DEF Init, Copying, Working, Sending, Rest
<1> QED  BY <1>8, <1>9, <1>10 DEF Inv

(* The ring as it was, or CURR gone astray.                                *)
LEMMA RingKept ==
  ASSUME Inv, chip'.mem = chip.mem, chip'.curr \in {chip.curr, Ring}, chip'.bnry = chip.bnry,
         sc'.rxnext = sc.rxnext, sc'.running => sc.running, got' = got, nrx' = nrx
  PROVE  InRing'
<1>1. Seen' /\ (got' # <<>> => got'[1].f <= nrx')
  BY DEF Inv, InRing, Seen
<1>2. ASSUME sc'.running
      PROVE  sc'.rxnext \in Pages /\ chip'.bnry = Bnry(sc'.rxnext)
  BY <1>2 DEF Inv, InRing
<1>3. ASSUME sc'.running, chip'.curr \in Pages
      PROVE  \E S \in SUBSET Pages : Chained(S)'
  <2>1. chip'.curr = chip.curr /\ chip.curr \in Pages
    BY <1>3, RingSize
  <2>2. PICK S \in SUBSET Pages : Chained(S)
    BY <1>3, <2>1 DEF Inv, InRing
  <2>3. Chained(S)'
    BY <2>1, <2>2 DEF Chained, Whole, Ends, Linked, Later, D
  <2> QED  BY <2>3
<1> QED  BY <1>1, <1>2, <1>3 DEF InRing

LEMMA CopyKept ==
  ASSUME Inv, chip'.mem = chip.mem, chip'.curr \in {chip.curr, Ring},
         sc'.rxnext = sc.rxnext, got' = got, srv'.pc = "copy" => srv.pc = "copy"
  PROVE  Copying'
<1>1. srv.pc = "copy" => sc.rxnext \in Pages /\ sc.rxnext # Ring
  BY RingSize DEF Inv, Working, InRing
<1> QED  BY <1>1 DEF Inv, Copying, Sensible, Whole, Later

(* The ring empty and set up anew, or the chip given up.                   *)
Anew == sc'.running => sc'.rxnext = 0 /\ chip'.curr = 0 /\ chip'.bnry = Ring - 1
LEMMA RingNew ==
  ASSUME Inv, chip'.mem = chip.mem, Anew, got' = got, nrx' = nrx
  PROVE  InRing'
<1>1. Seen' /\ (got' # <<>> => got'[1].f <= nrx')
  BY DEF Inv, InRing, Seen
<1>2. sc'.running => 0 \in Pages /\ Bnry(0) = Ring - 1
  <2>1. Ring - 1 \in 0 .. 2 * Ring - 1 /\ 0 \in Pages
    BY RingSize
  <2>2. Wrap(Ring - 1) = Ring - 1
    BY <2>1, WrapIs, RingSize
  <2>3. 0 + Ring - 1 = Ring - 1
    BY RingSize
  <2> QED  BY <2>1, <2>2, <2>3 DEF Bnry
<1>3. ASSUME sc'.running, chip'.curr \in Pages
      PROVE  \E S \in SUBSET Pages : Chained(S)'
  <2>1. Chained({})'
    BY <1>3 DEF Anew, Chained
  <2> QED  BY <2>1
<1> QED  BY <1>1, <1>2, <1>3 DEF InRing, Anew

(* nu_init and its callers                                                 *)
LEMMA InitIs ==
  ASSUME NEW c, ChipOk(c), NEW t, Is(t, SoftFields)
  PROVE  /\ ChipOk(ChipInit(c)) /\ Is(ScInit(c, t), SoftFields)
         /\ ChipInit(c).mem = c.mem /\ ~ChipInit(c).txp /\ ChipInit(c).buf = c.buf
         /\ ScInit(c, t).running => /\ ScInit(c, t).rxnext = 0 /\ ChipInit(c).curr = 0
                                    /\ ChipInit(c).bnry = Ring - 1 /\ ChipInit(c).isr = {}
<1> USE RingSize
<1> DEFINE x == ChipInit(c)  y == ScInit(c, t)  n == NoTx(t)
<1>1. CASE c.health = "ok"
  <2>1. y = [n EXCEPT !.running = TRUE, !.rxnext = 0]
    BY <1>1, Zenon DEF ScInit, InitSet
  <2>2. x = [c EXCEPT !.on = TRUE, !.sane = TRUE, !.loop = FALSE, !.curr = 0,
                      !.bnry = Ring - 1, !.isr = {}, !.txp = FALSE]
    BY <1>1 DEF ChipInit
  <2>3. Is(n, SoftFields)
    BY DEF NoTx, Is, SoftFields
  <2> HIDE DEF x, y, n
  <2>4. Is(y, SoftFields) /\ y.rxnext = 0
    BY <2>1, <2>3 DEF Is, SoftFields
  <2>5. Is(x, ChipFields)
    BY <2>2 DEF ChipOk, Is, ChipFields
  <2>6. /\ x.health = c.health /\ x.curr = 0 /\ x.bnry = Ring - 1 /\ x.mem = c.mem /\ x.buf = c.buf
        /\ ~x.txp /\ x.isr = {}
    BY <2>2 DEF ChipOk, Is, ChipFields
  <2> QED  BY <2>4, <2>5, <2>6 DEF ChipOk, x, y
<1>2. CASE c.health # "ok"
  <2>1. x = [c EXCEPT !.on = FALSE, !.txp = FALSE]
    BY <1>2 DEF ChipInit
  <2>2. Is(y, SoftFields) /\ ~y.running
    <3>1. CASE c.health = "stuck"
      <4>1. y = [n EXCEPT !.running = FALSE, !.rxnext = 0]
        BY <3>1, Zenon DEF ScInit
      <4>2. Is(n, SoftFields)
        BY DEF NoTx, Is, SoftFields
      <4> HIDE DEF y, n
      <4> QED  BY <4>1, <4>2 DEF Is, SoftFields
    <3>2. CASE c.health = "gone"
      <4>1. y = [t EXCEPT !.running = FALSE]
        BY <3>2, Zenon DEF ScInit
      <4> HIDE DEF y
      <4> QED  BY <4>1 DEF Is, SoftFields
    <3> QED  BY <1>2, <3>1, <3>2 DEF ChipOk
  <2> HIDE DEF x, y
  <2>3. Is(x, ChipFields)
    BY <2>1 DEF ChipOk, Is, ChipFields
  <2>4. x.health = c.health /\ x.curr = c.curr /\ x.mem = c.mem /\ x.buf = c.buf /\ ~x.txp
    BY <2>1 DEF ChipOk, Is, ChipFields
  <2> QED  BY <2>2, <2>3, <2>4 DEF ChipOk, x, y
<1> QED  BY <1>1, <1>2

LEMMA ToldIs ==
  ASSUME NEW t, Is(t, SoftFields)
  PROVE  /\ Is(Told(t), SoftFields) /\ Told(t).running = t.running /\ Told(t).rxnext = t.rxnext
         /\ Told(t).txlen = t.txlen /\ Told(t).txcur = t.txcur
<1> DEFINE n == IF t.running THEN 0 ELSE FailRun(t.failrun)  x == Told(t)
<1>1. x = [t EXCEPT !.failrun = n]
  BY DEF Told
<1> HIDE DEF x, n
<1>2. Is(x, SoftFields)
  BY <1>1 DEF Is, SoftFields
<1>3. x.running = t.running /\ x.rxnext = t.rxnext /\ x.txlen = t.txlen /\ x.txcur = t.txcur
  BY <1>1 DEF Is, SoftFields
<1> QED  BY <1>2, <1>3 DEF x

-----------------------------------------------------------------------------
(* The card                                                                *)

(* What the card does between two steps of the driver.                     *)
LEMMA CardKeeps ==
  ASSUME Inv, ChipOk(chip'), sc' = sc, srv' = srv, got' = got, nrx' = nrx, UNCHANGED drv,
         InRing', Copying',
         chip'.txp => chip.txp /\ ("PTX" \in chip'.isr => "PTX" \in chip.isr),
         "PTX" \in chip'.isr => "PTX" \in chip.isr \/ chip.txp
  PROVE  Inv'
<1>1. Types'
  BY DEF Inv, Types, Queued, drv
<1>2. Working' /\ Sending'
  BY DEF Inv, Working, Sending, Held
<1> QED  BY <1>1, <1>2 DEF Inv

LEMMA SentKeeps == Inv /\ Sent => Inv'
<1> SUFFICES ASSUME Inv, Sent PROVE Inv'
  OBVIOUS
<1>1. chip' = [chip EXCEPT !.txp = FALSE, !.isr = @ \cup {"PTX"}] /\ ChipOk(chip) /\ chip.txp
  BY DEF Sent, Inv, Types
<1>2. Is(chip', ChipFields)
  BY <1>1 DEF ChipOk, Is, ChipFields
<1>3. /\ chip'.health = chip.health /\ chip'.curr = chip.curr /\ chip'.mem = chip.mem
      /\ chip'.bnry = chip.bnry /\ ~chip'.txp
  BY <1>1 DEF ChipOk, Is, ChipFields
<1>4. ChipOk(chip')
  BY <1>1, <1>2, <1>3 DEF ChipOk
<1>5. InRing' /\ Copying'
  BY <1>3, RingKept, CopyKept DEF Sent
<1> QED  BY <1>1, <1>3, <1>4, <1>5, CardKeeps DEF Sent

(* A header spoilt is one that no longer makes sense.                      *)
LEMMA GarblesKeeps ==
  ASSUME Inv, Garbles, got' = got, nrx' = nrx, sc' = sc, srv' = srv
  PROVE  ChipOk(chip') /\ InRing' /\ Copying' /\ chip'.txp = chip.txp /\ chip'.isr = chip.isr
<1> DEFINE r == sc.rxnext
<1>1. r \in Pages /\ ChipOk(chip) /\ sc.running /\ srv.pc # "copy" /\ nrx \in 0 .. MaxRx
  BY DEF Garbles, Inv, InRing, Types
<1>2. chip' = [chip EXCEPT !.mem[r] = [@ EXCEPT !.nxt = Ring]]
  BY DEF Garbles
<1>3. Is(chip', ChipFields)
  BY <1>1, <1>2 DEF ChipOk, Is, ChipFields
<1>4. /\ chip'.health = chip.health /\ chip'.curr = chip.curr /\ chip'.bnry = chip.bnry
      /\ chip'.txp = chip.txp /\ chip'.isr = chip.isr
  BY <1>1, <1>2 DEF ChipOk, Is, ChipFields
<1>5. chip'.mem = [chip.mem EXCEPT ![r] = [@ EXCEPT !.nxt = Ring]]
  BY <1>1, <1>2 DEF ChipOk, Is, ChipFields
<1>6. [chip.mem[r] EXCEPT !.nxt = Ring] \in Page
  <2>1. \A g \in Page : [g EXCEPT !.nxt = Ring] \in Page
    BY RingSize DEF Page
  <2>2. chip.mem[r] \in Page
    BY <1>1 DEF ChipOk
  <2> HIDE DEF r
  <2> QED  BY <2>1, <2>2
<1>7. chip'.mem \in [Pages -> Page]
  <2> DEFINE w == [chip.mem[r] EXCEPT !.nxt = Ring]
             M == chip.mem
  <2>1. M \in [Pages -> Page] /\ w \in Page /\ chip'.mem = [M EXCEPT ![r] = w]
    BY <1>1, <1>5, <1>6 DEF ChipOk
  <2> HIDE DEF w, M, r
  <2> QED  BY <2>1
<1>8. /\ \A p \in Pages : /\ chip'.mem[p].f = chip.mem[p].f /\ chip'.mem[p].k = chip.mem[p].k
                          /\ chip'.mem[p].n = chip.mem[p].n
                          /\ chip'.mem[p].nxt \in {chip.mem[p].nxt, Ring}
  BY <1>1, <1>5 DEF ChipOk, Page
<1>9. ChipOk(chip')
  BY <1>1, <1>3, <1>4, <1>7 DEF ChipOk
<1> HIDE DEF r
<1>10. ASSUME chip'.curr \in Pages
       PROVE  \E S \in SUBSET Pages : Chained(S)'
  <2>1. PICK S \in SUBSET Pages : Chained(S)
    BY <1>1, <1>4, <1>10 DEF Inv, InRing
  <2>3. ASSUME NEW s \in S PROVE Whole(s)' /\ Ends(s)' /\ Linked(s, S)' /\ Later(s)'
    <3>1. s \in Pages /\ Whole(s) /\ Ends(s) /\ Linked(s, S) /\ Later(s)
      BY <2>1 DEF Chained
    <3>2. Whole(s)'
      <4>1. \A i \in 0 .. chip.mem[s].n - 1 : Wrap(s + i) \in Pages
        <5>1. \A i \in 0 .. chip.mem[s].n - 1 : s + i \in 0 .. 2 * Ring - 1
          BY <3>1, RingSize DEF Whole
        <5> QED  BY <5>1, WrapIs
      <4> QED  BY <1>8, <3>1, <4>1 DEF Whole
    <3>3. Ends(s)' /\ Later(s)'
      BY <1>4, <1>8, <3>1 DEF Ends, Later, D
    <3>4. Linked(s, S)'
      BY <1>4, <1>8, <3>1 DEF Linked, D
    <3> QED  BY <3>2, <3>3, <3>4
  <2>4. \A s, t \in S : D(s)' < D(t)' => chip'.mem[s].f < chip'.mem[t].f
    BY <1>8, <2>1 DEF Chained, D
  <2>5. Chained(S)'
    BY <1>4, <2>1, <2>3, <2>4 DEF Chained
  <2> QED  BY <2>5
<1>11. InRing'
  BY <1>1, <1>4, <1>8, <1>10 DEF Inv, InRing, Seen
<1>12. Copying'
  BY <1>1 DEF Copying
<1> QED  BY <1>4, <1>9, <1>11, <1>12

LEMMA FaultKeeps == Inv /\ Fault => Inv'
<1> SUFFICES ASSUME Inv, Fault PROVE Inv'
  OBVIOUS
<1> USE RingSize
<1>0. sc' = sc /\ srv' = srv /\ got' = got /\ nrx' = nrx /\ UNCHANGED drv /\ ChipOk(chip)
  BY DEF Fault, Inv, Types
<1>1. CASE \E h \in {"stuck", "gone"} : Breaks(h)
  <2>1. PICK h \in {"stuck", "gone"} : Breaks(h)
    BY <1>1
  <2>2. chip' = [chip EXCEPT !.health = h, !.on = FALSE, !.txp = FALSE]
    BY <2>1 DEF Breaks
  <2>3. Is(chip', ChipFields)
    BY <1>0, <2>2 DEF ChipOk, Is, ChipFields
  <2>4. /\ chip'.health = h /\ chip'.curr = chip.curr /\ chip'.mem = chip.mem
        /\ chip'.bnry = chip.bnry /\ ~chip'.txp /\ chip'.isr = chip.isr
    BY <1>0, <2>2 DEF ChipOk, Is, ChipFields
  <2>5. ChipOk(chip')
    BY <1>0, <2>3, <2>4 DEF ChipOk
  <2>6. InRing' /\ Copying'
    BY <1>0, <2>4, RingKept, CopyKept
  <2> QED  BY <1>0, <2>4, <2>5, <2>6, CardKeeps
<1>2. CASE Strays
  <2>1. Is(chip', ChipFields)
    BY <1>0, <1>2 DEF Strays, ChipOk, Is, ChipFields
  <2>2. /\ chip'.health = chip.health /\ chip'.curr \in {chip.curr, Ring} /\ chip'.mem = chip.mem
        /\ chip'.bnry = chip.bnry /\ chip'.txp = chip.txp /\ chip'.isr = chip.isr
    BY <1>0, <1>2 DEF Strays, ChipOk, Is, ChipFields
  <2>3. ChipOk(chip')
    BY <1>0, <2>1, <2>2 DEF ChipOk
  <2>4. InRing' /\ Copying'
    BY <1>0, <2>2, RingKept, CopyKept
  <2> QED  BY <1>0, <2>2, <2>3, <2>4, CardKeeps
<1>3. CASE Garbles
  BY <1>0, <1>3, GarblesKeeps, CardKeeps
<1>4. CASE Forgets
  <2>1. chip' = [chip EXCEPT !.txp = FALSE]
    BY <1>4 DEF Forgets
  <2>2. Is(chip', ChipFields)
    BY <1>0, <2>1 DEF ChipOk, Is, ChipFields
  <2>3. /\ chip'.health = chip.health /\ chip'.curr = chip.curr /\ chip'.mem = chip.mem
        /\ chip'.bnry = chip.bnry /\ ~chip'.txp /\ chip'.isr = chip.isr
    BY <1>0, <2>1 DEF ChipOk, Is, ChipFields
  <2>4. ChipOk(chip')
    BY <1>0, <2>2, <2>3 DEF ChipOk
  <2>5. InRing' /\ Copying'
    BY <1>0, <2>3, RingKept, CopyKept
  <2> QED  BY <1>0, <2>3, <2>4, <2>5, CardKeeps
<1> QED  BY <1>1, <1>2, <1>3, <1>4 DEF Fault

LEMMA HealsKeeps == Inv /\ Heals => Inv'
<1> SUFFICES ASSUME Inv, Heals PROVE Inv'
  OBVIOUS
<1>1. chip' = [chip EXCEPT !.health = "stuck"] /\ ChipOk(chip)
  BY DEF Heals, Inv, Types
<1>2. Is(chip', ChipFields)
  BY <1>1 DEF ChipOk, Is, ChipFields
<1>3. /\ chip'.health = "stuck" /\ chip'.curr = chip.curr /\ chip'.mem = chip.mem
      /\ chip'.bnry = chip.bnry /\ chip'.txp = chip.txp /\ chip'.isr = chip.isr
  BY <1>1 DEF ChipOk, Is, ChipFields
<1>4. ChipOk(chip')
  BY <1>1, <1>2, <1>3 DEF ChipOk
<1>5. InRing' /\ Copying'
  BY <1>3, RingKept, CopyKept DEF Heals
<1> QED  BY <1>3, <1>4, <1>5, CardKeeps DEF Heals


(* The card does not pass BNRY: a frame it stores leaves a page free, and  *)
(* lies beyond the frames that are there.                                  *)
LEMMA ReceiveRoom ==
  ASSUME Inv, sc.running, chip.curr \in Pages, NEW n \in Nat, n > 0,
         \A i \in 0 .. n - 1 : i < Ring => Wrap(chip.curr + i) # chip.bnry
  PROVE  D(chip.curr) + n <= Ring - 1
<1> DEFINE M == D(chip.curr)
<1>1. sc.rxnext \in Pages /\ chip.bnry = Bnry(sc.rxnext)
  BY DEF Inv, InRing
<1>2. M \in 0 .. Ring - 1
  BY <1>1, DistIs DEF D
<1>3. SUFFICES ASSUME M + n > Ring - 1 PROVE FALSE
  BY <1>2, RingSize
<1> DEFINE i == Ring - 1 - M
<1>4. i \in Nat /\ i \in 0 .. n - 1 /\ i < Ring /\ M + i < Ring
  BY <1>2, <1>3, RingSize
<1>5. D(Wrap(chip.curr + i)) = M + i /\ Wrap(chip.curr + i) \in Pages
  <2> HIDE DEF i
  <2> QED  BY <1>1, <1>4, DistOn DEF D
<1>6. D(chip.bnry) = Ring - 1 /\ chip.bnry \in Pages
  BY <1>1, BnryIs DEF D
<1>7. M + i = Ring - 1
  BY <1>2, RingSize
<1> HIDE DEF i, M
<1>8. Wrap(chip.curr + i) = chip.bnry
  BY <1>1, <1>5, <1>6, <1>7, DistIs DEF D
<1> QED  BY <1>4, <1>8

LEMMA FramesSeen ==
  ASSUME Inv
  PROVE  /\ nrx \in Nat /\ nrx <= MaxRx /\ MaxRx \in Nat
         /\ \A p \in Pages : chip.mem[p] \in Page /\ chip.mem[p].f \in Int /\ chip.mem[p].f <= nrx
         /\ got # <<>> => got[1].f \in Int /\ got[1].f <= nrx
<1>1. Types /\ Seen /\ (got # <<>> => got[1].f <= nrx) /\ ChipOk(chip)
  BY DEF Inv, InRing, Types
<1>2. \A h \in Page : h.f \in Int
  BY DEF Page
<1>3. \A p \in Pages : chip.mem[p] \in Page
  BY <1>1 DEF ChipOk
<1>4. got \in Seq(Page) /\ nrx \in 0 .. MaxRx
  BY <1>1 DEF Types
<1>5. got # <<>> => got[1] \in Page
  BY <1>4
<1> QED  BY <1>1, <1>2, <1>3, <1>4, <1>5, NuAssumption DEF Seen

LEMMA ReceiveKeeps ==
  ASSUME NEW n \in FramePages, NEW skip \in Skips
  PROVE  Inv /\ Receive(n, skip) => Inv'
<1> SUFFICES ASSUME Inv, Receive(n, skip) PROVE Inv'
  OBVIOUS
<1> USE RingSize
<1> DEFINE at == [i \in 0 .. n + skip - 1 |-> Wrap(chip.curr + i)]
           x == Wrap(chip.curr + n + skip)
           piece(p) == CHOOSE i \in 0 .. n - 1 : at[i] = p
           stored(p) == \E i \in 0 .. n - 1 : at[i] = p
           fine == nrx + 1 \notin BadRx
<1>1. /\ sc' = sc /\ srv' = srv /\ got' = got /\ UNCHANGED drv /\ ChipOk(chip) /\ chip.curr \in Pages
      /\ nrx' = nrx + 1 /\ nrx + 1 \in 0 .. MaxRx /\ nrx \in 0 .. MaxRx /\ Types
  <2>1. nrx \in 0 .. MaxRx /\ ChipOk(chip) /\ Types
    BY DEF Inv, Types
  <2>2. chip.curr \in 0 .. Ring /\ chip.curr # Ring /\ nrx < MaxRx
    BY <2>1 DEF Receive, Listens, ChipOk
  <2>3. sc' = sc /\ srv' = srv /\ got' = got /\ UNCHANGED drv /\ nrx' = nrx + 1
    BY DEF Receive
  <2>4. nrx + 1 \in 0 .. MaxRx
    BY <2>1, <2>2, NuAssumption
  <2>5. chip.curr \in Pages
    BY <2>2
  <2> QED  BY <2>1, <2>3, <2>4, <2>5
<1>2. n \in Nat /\ n \in 1 .. Ring - 1 /\ skip \in {0, 1}
  BY NuAssumption
<1>3. CASE chip.bnry \in {at[i] : i \in DOMAIN at}
  <2>1. chip' = [chip EXCEPT !.isr = @ \cup {"OVW"}]
    BY <1>3 DEF Receive
  <2>2. Is(chip', ChipFields)
    BY <1>1, <2>1 DEF ChipOk, Is, ChipFields
  <2>3. /\ chip'.health = chip.health /\ chip'.curr = chip.curr /\ chip'.mem = chip.mem
        /\ chip'.bnry = chip.bnry /\ chip'.txp = chip.txp /\ chip'.isr = chip.isr \cup {"OVW"}
    BY <1>1, <2>1 DEF ChipOk, Is, ChipFields
  <2>4. ChipOk(chip')
    BY <1>1, <2>2, <2>3 DEF ChipOk
  <2>5. InRing'
    <3>1. \E S \in SUBSET Pages : sc.running => Chained(S)
      BY <1>1 DEF Inv, InRing
    <3>2. PICK S \in SUBSET Pages : sc.running => Chained(S)
      BY <3>1
    <3>3. sc.running => Chained(S)'
      <4>1. chip'.mem = chip.mem /\ chip'.curr = chip.curr /\ sc' = sc /\ got' = got
        BY <1>1, <2>3
      <4>2. SUFFICES ASSUME Chained(S) PROVE Chained(S)'
        BY <3>2
      <4>3. \A s : /\ Whole(s) => Whole(s)' /\ (Ends(s) => Ends(s)')
                   /\ Linked(s, S) => Linked(s, S)' /\ (Later(s) => Later(s)')
        BY <4>1 DEF Whole, Ends, Linked, Later, D
      <4> QED  BY <4>1, <4>2, <4>3 DEF Chained, D
    <3>4. Seen' /\ (got' # <<>> => got'[1].f <= nrx')
      <4>1. \A p \in Pages : chip.mem[p].f <= nrx + 1
        BY FramesSeen
      <4>2. got # <<>> => got[1].f <= nrx + 1
        BY FramesSeen
      <4> QED  BY <1>1, <2>3, <4>1, <4>2 DEF Seen
    <3> QED  BY <1>1, <2>3, <3>3, <3>4 DEF Inv, InRing
  <2>6. Copying'
    BY <1>1, <2>3, CopyKept
  <2>7. Working' /\ Sending' /\ Types'
    BY <1>1, <2>3, <2>4 DEF Inv, Types, Queued, Working, Sending, Held, drv
  <2> QED  BY <2>5, <2>6, <2>7 DEF Inv
<1>4. CASE chip.bnry \notin {at[i] : i \in DOMAIN at}
  <2> DEFINE new == [p \in Pages |-> IF stored(p)
                      THEN [f |-> nrx + 1, k |-> piece(p), n |-> n, nxt |-> x, ok |-> fine]
                      ELSE chip.mem[p]]
  <2>1. chip' = [chip EXCEPT !.curr = x, !.mem = new]
    BY <1>4 DEF Receive
  <2>2. x \in Pages
    BY <1>1, <1>2, WrapIs
  <2>3. \A p \in Pages : stored(p) => piece(p) \in 0 .. n - 1 /\ at[piece(p)] = p
    OBVIOUS
  <2>4. new \in [Pages -> Page]
    <3>1. SUFFICES ASSUME NEW p \in Pages PROVE new[p] \in Page
      OBVIOUS
    <3>2. CASE stored(p)
      <4>1. fine \in BOOLEAN
        OBVIOUS
      <4>2. piece(p) \in Nat
        <5>1. PICK k : k = piece(p)
          OBVIOUS
        <5>2. piece(p) \in 0 .. n - 1
          BY <2>3, <3>2
        <5> HIDE DEF piece, at, stored
        <5>3. k \in 0 .. n - 1
          BY <5>1, <5>2
        <5> HIDE DEF new, x, fine
        <5>4. k \in Nat
          BY <1>2, <5>3
        <5> QED  BY <5>1, <5>4
      <4> HIDE DEF fine, piece, stored, x
      <4>3. [f |-> nrx + 1, k |-> piece(p), n |-> n, nxt |-> x, ok |-> fine] \in Page
        BY <1>1, <1>2, <2>2, <4>1, <4>2 DEF Page
      <4> QED  BY <3>2, <4>3
    <3>3. CASE ~stored(p)
      BY <1>1, <3>3 DEF ChipOk
    <3> QED  BY <3>2, <3>3
  <2>5. \A p \in Pages : /\ stored(p) => /\ new[p].f = nrx + 1 /\ new[p].k = piece(p) /\ new[p].n = n
                                         /\ new[p].nxt = x
                         /\ ~stored(p) => new[p] = chip.mem[p]
    OBVIOUS
  <2> HIDE DEF new, piece, stored
  <2>6. Is(chip', ChipFields)
    BY <1>1, <2>1 DEF ChipOk, Is, ChipFields
  <2>7. /\ chip'.health = chip.health /\ chip'.curr = x /\ chip'.mem = new
        /\ chip'.bnry = chip.bnry /\ chip'.txp = chip.txp /\ chip'.isr = chip.isr
    BY <1>1, <2>1 DEF ChipOk, Is, ChipFields
  <2>8. ChipOk(chip')
    BY <1>1, <2>2, <2>4, <2>6, <2>7 DEF ChipOk
  <2>9. Seen' /\ (got' # <<>> => got'[1].f <= nrx')
    <3>1. \A p \in Pages : new[p].f <= nrx + 1
      BY <2>5, FramesSeen
    <3> QED  BY <1>1, <2>7, <3>1, FramesSeen DEF Seen
  <2>10. Working' /\ Sending' /\ Types'
    BY <1>1, <2>7, <2>8 DEF Inv, Types, Queued, Working, Sending, Held, drv
  <2>11. CASE ~sc.running
    BY <1>1, <2>9, <2>10, <2>11 DEF Inv, InRing, Copying, Working
  <2>12. CASE sc.running
    <3> DEFINE r == sc.rxnext
               M == D(chip.curr)
    <3>1. r \in Pages /\ chip.bnry = Bnry(r)
      BY <2>12 DEF Inv, InRing
    <3>2. PICK S \in SUBSET Pages : Chained(S)
      BY <1>1, <2>12 DEF Inv, InRing
    <3>3. M \in 0 .. Ring - 1 /\ \A p \in Pages : D(p) \in 0 .. Ring - 1
      BY <1>1, <3>1, DistIs DEF D
    <3>4. M + n + skip <= Ring - 1
      <4>1. n + skip \in Nat /\ n + skip > 0
        BY <1>2
      <4>2. \A i \in 0 .. n + skip - 1 : Wrap(chip.curr + i) # chip.bnry
        BY <1>4
      <4>3. D(chip.curr) + (n + skip) <= Ring - 1
        <5>1. PICK k \in Nat : k = n + skip
          BY <4>1
        <5>2. \A i \in 0 .. k - 1 : i < Ring => Wrap(chip.curr + i) # chip.bnry
          <6>1. SUFFICES ASSUME NEW i \in 0 .. k - 1 PROVE Wrap(chip.curr + i) # chip.bnry
            OBVIOUS
          <6>2. i \in 0 .. n + skip - 1
            BY <1>2, <5>1
          <6> QED  BY <4>2, <6>2
        <5> HIDE DEF M, at, x
        <5>3. D(chip.curr) + k <= Ring - 1
          BY <1>1, <2>12, <4>1, <5>1, <5>2, ReceiveRoom
        <5> QED  BY <5>1, <5>3
      <4> HIDE DEF M
      <4>4. M + (n + skip) <= Ring - 1
        BY <4>3 DEF M
      <4> QED  BY <1>2, <3>3, <4>4
    <3>5. D(x) = M + n + skip
      <4>1. n + skip \in Nat /\ D(chip.curr) + (n + skip) < Ring
        <5> HIDE DEF M
        <5>1. n + skip \in Nat /\ M + (n + skip) < Ring
          BY <1>2, <3>3, <3>4
        <5> QED  BY <5>1 DEF M
      <4>2. chip.curr + n + skip = chip.curr + (n + skip)
        BY <1>1, <1>2
      <4>3. D(x) = D(chip.curr) + (n + skip)
        BY <1>1, <3>1, <4>1, <4>2, DistOn DEF D
      <4> HIDE DEF M, x
      <4>4. D(x) = M + (n + skip)
        BY <4>3 DEF M
      <4> QED  BY <1>2, <3>3, <4>4
    <3>6. \A i \in 0 .. n - 1 : at[i] \in Pages /\ D(at[i]) = M + i /\ at[i] = Wrap(chip.curr + i)
      <4>1. SUFFICES ASSUME NEW i \in 0 .. n - 1 PROVE at[i] \in Pages /\ D(at[i]) = M + i /\ at[i] = Wrap(chip.curr + i)
        OBVIOUS
      <4>2. i \in Nat /\ Dist(r, chip.curr) + i < Ring /\ at[i] = Wrap(chip.curr + i)
        <5>1. i \in Nat /\ i < n /\ i \in 0 .. n + skip - 1
          BY <1>2
        <5>2. at[i] = Wrap(chip.curr + i)
          BY <5>1
        <5> HIDE DEF M, at
        <5>3. M \in Nat /\ M + n + skip <= Ring - 1
          BY <3>3, <3>4
        <5>4. M + i < Ring
          BY <1>2, <5>1, <5>3
        <5> QED  BY <5>1, <5>2, <5>4 DEF M, D
      <4>3. PICK c \in Pages : c = chip.curr
        BY <1>1
      <4> HIDE DEF at
      <4>4. i \in Nat /\ Dist(r, c) + i < Ring /\ at[i] = Wrap(c + i) /\ M = Dist(r, c)
        BY <4>2, <4>3 DEF D
      <4>5. Wrap(c + i) \in Pages /\ Dist(r, Wrap(c + i)) = Dist(r, c) + i
        BY <3>1, <4>4, DistOn
      <4> HIDE DEF M
      <4> QED  BY <4>2, <4>4, <4>5 DEF D
    <3> HIDE DEF at
    <3>7. \A p \in Pages : D(p) < M => ~stored(p)
      BY <3>3, <3>6 DEF stored
    <3>8. \A i \in 0 .. n - 1 : stored(at[i]) /\ piece(at[i]) = i
      <4>1. SUFFICES ASSUME NEW i \in 0 .. n - 1 PROVE stored(at[i]) /\ piece(at[i]) = i
        OBVIOUS
      <4>2. stored(at[i])
        BY DEF stored
      <4>3. piece(at[i]) \in 0 .. n - 1 /\ at[piece(at[i])] = at[i]
        BY <2>3, <3>6, <4>2
      <4>4. M + piece(at[i]) = M + i
        BY <3>6, <4>3
      <4> QED  BY <3>3, <4>2, <4>3, <4>4
    <3>9. chip.curr = at[0]
      <4>1. 0 \in 0 .. n - 1 /\ chip.curr \in 0 .. 2 * Ring - 1 /\ chip.curr + 0 = chip.curr
        BY <1>1, <1>2
      <4>2. Wrap(chip.curr) = chip.curr
        BY <1>1, <4>1, WrapIs
      <4> QED  BY <3>6, <4>1, <4>2
    <3>20. PICK u \in Pages : u = chip.curr
      BY <1>1
    <3> HIDE DEF M
    (* the frames that are there stay as they are *)
    <3>10. ASSUME NEW s \in Pages, Whole(s), D(s) + chip.mem[s].n <= M
           PROVE  new[s] = chip.mem[s] /\ Whole(s)'
      <4>1. chip.mem[s].n \in 1 .. Ring - 1
        BY <3>10 DEF Whole
      <4>2. new[s] = chip.mem[s]
        BY <2>5, <3>3, <3>7, <3>10, <4>1
      <4>3. ASSUME NEW i \in 0 .. chip.mem[s].n - 1
            PROVE  new[Wrap(s + i)] = chip.mem[Wrap(s + i)]
        <5>1. i \in Nat /\ Dist(r, s) + i < Ring
          <6>1. i \in Nat /\ D(s) + i < Ring
            <7>1. chip.mem[s].n \in Nat /\ i \in Nat /\ i < chip.mem[s].n
              BY <4>1
            <7>2. D(s) \in Nat /\ M \in Nat /\ M < Ring /\ D(s) + chip.mem[s].n <= M
              BY <3>3, <3>10
            <7> QED  BY <7>1, <7>2
          <6> QED  BY <6>1 DEF D
        <5>2. Wrap(s + i) \in Pages /\ D(Wrap(s + i)) = D(s) + i
          BY <3>1, <5>1, DistOn DEF D
        <5>3. D(s) + i < M
          BY <3>3, <3>10, <4>1
        <5> QED  BY <2>5, <3>7, <5>2, <5>3
      <4>4. Whole(s)'
        BY <2>7, <3>10, <4>2, <4>3 DEF Whole
      <4> QED  BY <4>2, <4>4
    <3>11. Whole(u)'
      <4>1. new[u].n = n /\ new[u].f = nrx + 1
        BY <1>2, <2>5, <3>8, <3>9, <3>20
      <4>2. ASSUME NEW i \in 0 .. n - 1
            PROVE  new[Wrap(u + i)].f = nrx + 1 /\ new[Wrap(u + i)].k = i
        BY <2>5, <3>6, <3>8, <3>20
      <4>3. chip'.mem[u].n = n /\ chip'.mem[u].f = nrx + 1
        BY <2>7, <4>1
      <4>4. \A i \in 0 .. n - 1 : chip'.mem[Wrap(u + i)].f = nrx + 1 /\ chip'.mem[Wrap(u + i)].k = i
        BY <2>7, <4>2
      <4> QED  BY <1>2, <4>3, <4>4 DEF Whole
    <3>12. \A p \in Pages : D(p)' = D(p)
      BY <1>1 DEF D
    <3>13. /\ new[u].n = n /\ new[u].f = nrx + 1 /\ new[u].nxt = x
      BY <1>2, <2>5, <3>8, <3>9, <3>20
    <3> DEFINE T == S \cup {u}
    <3>14. ASSUME NEW s \in S
           PROVE  /\ s \in Pages /\ Whole(s) /\ new[s] = chip.mem[s] /\ Whole(s)' /\ Linked(s, S) /\ Later(s)
                  /\ D(s) < M /\ D(s) + chip.mem[s].n <= M /\ chip.mem[s].n \in 1 .. Ring - 1
      <4>1. s \in Pages /\ Whole(s) /\ Ends(s) /\ Linked(s, S) /\ Later(s)
        BY <3>2 DEF Chained
      <4>2. chip.mem[s].n \in 1 .. Ring - 1 /\ D(s) + chip.mem[s].n <= M
        BY <4>1 DEF Whole, Ends, M
      <4> QED  BY <3>3, <3>10, <4>1, <4>2
    <3>15. ASSUME NEW s \in T PROVE Whole(s)' /\ Ends(s)' /\ Linked(s, T)' /\ Later(s)'
      <4>1. CASE s \in S
        <5>1. Ends(s)'
          <6>1. D(s) + chip.mem[s].n <= M /\ D(s) \in Nat /\ chip.mem[s].n \in Nat /\ s \in Pages
            BY <3>3, <3>14, <4>1
          <6>2. D(s) + new[s].n <= D(x)
            <7>1. new[s] = chip.mem[s] /\ M \in Nat /\ skip \in Nat
              BY <1>2, <3>3, <3>14, <4>1
            <7> HIDE DEF x
            <7> QED  BY <1>2, <3>5, <6>1, <7>1
          <6>3. chip'.curr = x /\ chip'.mem[s] = new[s]
            BY <2>7
          <6> HIDE DEF x
          <6> QED  BY <1>1, <6>2, <6>3 DEF Ends, D
        <5>2. Linked(s, T)'
          <6>1. CASE chip.mem[s].nxt = Ring
            BY <2>7, <3>14, <4>1, <6>1 DEF Linked
          <6>2. CASE chip.mem[s].nxt # Ring
            <7> DEFINE y == chip.mem[s].nxt
            <7>1. /\ y \in T /\ D(s) + chip.mem[s].n <= D(y) /\ D(y) <= M /\ y \in Pages
              <8>1. Linked(s, S) /\ S \subseteq Pages
                BY <3>14, <4>1
              <8>2. y = u \/ y \in S
                BY <3>20, <6>2, <8>1 DEF Linked
              <8>3. D(s) + chip.mem[s].n <= D(y) /\ D(y) <= M
                BY <6>2, <8>1 DEF Linked, M
              <8> QED  BY <8>1, <8>2, <8>3
            <7>2. D(y) <= D(x)
              <8>1. D(y) \in Nat /\ D(y) <= M /\ M \in Nat
                BY <3>3, <7>1
              <8> HIDE DEF x, y, M
              <8> QED  BY <1>2, <3>5, <8>1
            <7> QED  BY <1>1, <2>2, <2>7, <3>14, <4>1, <7>1, <7>2 DEF Linked, D
          <6> QED  BY <6>1, <6>2
        <5>3. Later(s)'
          BY <1>1, <2>7, <3>14, <4>1 DEF Later
        <5> QED  BY <3>14, <4>1, <5>1, <5>2, <5>3
      <4>2. CASE s = u
        <5>1. D(s) = M /\ s \in Pages
          BY <3>20, <4>2 DEF M
        <5>2. D(s) + n <= D(x)
          BY <1>2, <3>3, <3>5, <5>1
        <5>3. Ends(s)'
          BY <1>1, <2>7, <3>13, <4>2, <5>2 DEF Ends, D
        <5>4. Linked(s, T)'
          BY <1>1, <2>2, <2>7, <3>3, <3>13, <4>2, <5>2 DEF Linked, D
        <5>5. Later(s)'
          BY <1>1, <2>7, <3>13, <4>2, FramesSeen DEF Later
        <5> QED  BY <3>11, <4>2, <5>3, <5>4, <5>5
      <4> QED  BY <4>1, <4>2
    <3>16. ASSUME NEW s \in T, NEW t \in T, D(s) < D(t)
           PROVE  new[s].f < new[t].f
      <4>1. CASE s \in S /\ t \in S
        BY <3>2, <3>14, <3>16, <4>1 DEF Chained
      <4>2. CASE s \in S /\ t = u
        <5>1. chip.mem[s].f \in Int /\ chip.mem[s].f <= nrx
          BY <3>14, <4>2, FramesSeen
        <5> QED  BY <1>1, <3>13, <3>14, <4>2, <5>1
      <4>3. CASE s = u
        <5>1. D(s) = M
          BY <3>20, <4>3 DEF M
        <5>2. t \in S => D(t) < M
          BY <3>14
        <5>3. t \in Pages /\ s \in Pages
          BY <1>1, <3>14
        <5> QED  BY <3>3, <3>16, <4>3, <5>1, <5>2, <5>3
      <4> QED  BY <4>1, <4>2, <4>3
    <3>17. Chained(T)'
      <4>1. T \subseteq Pages /\ r \in T
        BY <1>1, <3>2, <3>20 DEF Chained
      <4>2. \A s, t \in T : D(s)' < D(t)' => chip'.mem[s].f < chip'.mem[t].f
        BY <2>7, <3>12, <3>16, <4>1
      <4> QED  BY <1>1, <3>15, <4>1, <4>2 DEF Chained
    <3>18. InRing'
      <4>1. T \in SUBSET Pages
        BY <1>1
      <4> HIDE DEF T
      <4> QED  BY <1>1, <2>7, <2>9, <3>1, <3>17, <4>1 DEF InRing
    <3>19. Copying'
      <4>1. SUFFICES ASSUME srv.pc = "copy" PROVE Copying'
        BY <1>1 DEF Copying
      <4>2. Sensible(chip.mem[r]) /\ Whole(r) /\ Later(r) /\ u # r
        BY <3>20, <4>1 DEF Inv, Copying
      <4>3. r \in S
        BY <3>2, <3>20, <4>2 DEF Chained
      <4>4. new[r] = chip.mem[r] /\ Whole(r)'
        <5>1. PICK s \in S : s = r
          BY <4>3
        <5>2. new[s] = chip.mem[s] /\ Whole(s)'
          BY <3>14
        <5>3. r' = r
          BY <1>1
        <5> HIDE DEF r
        <5> QED  BY <5>1, <5>2, <5>3 DEF Whole
      <4>5. x # r
        <5>1. D(r) = 0
          BY <3>1, PlacesIn
        <5> QED  BY <1>2, <3>3, <3>5, <5>1
      <4> QED  BY <1>1, <2>7, <4>2, <4>4, <4>5 DEF Copying, Sensible, Later
    <3> QED  BY <2>10, <3>18, <3>19 DEF Inv
  <2> QED  BY <2>11, <2>12
<1> QED  BY <1>3, <1>4

-----------------------------------------------------------------------------
(* The streams, and bringing the card up                                   *)

LEMMA QuietKeeps ==
  ASSUME Inv, chip' = chip, sc' = sc, srv' = srv, got' = got, nrx' = nrx, Queued'
  PROVE  Inv'
<1>1. InRing' /\ Copying'
  BY RingKept, CopyKept
<1>2. Types'
  BY DEF Inv, Types
<1>3. Working' /\ Sending'
  BY DEF Inv, Working, Sending, Held
<1> QED  BY <1>1, <1>2, <1>3 DEF Inv

LEMMA ClockKeeps == Inv /\ (Tick \/ Second) => Inv'
<1>1. Inv /\ (Tick \/ Second) => Queued'
  BY DEF Inv, Types, Queued, Tick, Second
<1> QED  BY <1>1, QuietKeeps DEF Tick, Second

LEMMA CallKeeps ==
  ASSUME Inv, NEW q \in Streams,
         Nuclose(q) \/ Unbind(q) \/ Unitdata(q) \/ Flush(q) \/ \E sap \in Saps : Bind(q, sap)
  PROVE  Inv'
<1> USE NuAssumption
<1>0. Queued
  BY DEF Inv, Types
<1>1. chip' = chip /\ sc' = sc /\ srv' = srv /\ got' = got /\ nrx' = nrx
  BY DEF Nuclose, Unbind, Unitdata, Flush, Bind
<1>2. Is(NoMinor, MinorFields) /\ NoMinor.q = NoQ
  BY DEF NoMinor, Is, MinorFields
<1>3. DOMAIN min' = Minors /\ \A m \in Minors : Is(min'[m], MinorFields) /\ min'[m].q \in Streams \cup {NoQ}
  <2>1. CASE Nuclose(q)
    <3>1. min' = [m \in Minors |-> IF min[m].q = q THEN NoMinor ELSE min[m]]
      BY <2>1 DEF Nuclose
    <3> QED  BY <1>0, <1>2, <3>1 DEF Queued
  <2>2. CASE Unbind(q)
    <3> DEFINE w == [NoMinor EXCEPT !.q = q]
    <3>1. PICK m \in MinorOf(q) : min' = [min EXCEPT ![m] = w]
      BY <2>2 DEF Unbind
    <3>2. w.q = q /\ Is(w, MinorFields)
      BY DEF NoMinor, Is, MinorFields
    <3> HIDE DEF w
    <3> QED  BY <1>0, <3>1, <3>2 DEF Queued, MinorOf
  <2>3. CASE Unitdata(q) \/ Flush(q)
    BY <1>0, <2>3 DEF Unitdata, Flush, Queued
  <2>4. CASE \E sap \in Saps : Bind(q, sap)
    <3>1. PICK sap \in Saps, m \in MinorOf(q) : min' = [min EXCEPT ![m].idle = TRUE, ![m].sap = sap]
      BY <2>4 DEF Bind
    <3> DEFINE w == [min[m] EXCEPT !.idle = TRUE, !.sap = sap]
    <3>2. w.q = q /\ Is(w, MinorFields)
      <4>1. Is(min[m], MinorFields) /\ min[m].q = q
        BY <1>0 DEF Queued, MinorOf
      <4>2. PICK g : g = min[m]
        OBVIOUS
      <4>3. Is(g, MinorFields) /\ g.q = q /\ w = [g EXCEPT !.idle = TRUE, !.sap = sap]
        BY <4>1, <4>2
      <4> HIDE DEF w
      <4> QED  BY <4>3 DEF Is, MinorFields
    <3>3. DOMAIN min' = Minors /\ \A o \in Minors : min'[o] = IF o = m THEN w ELSE min[o]
      BY <1>0, <3>1 DEF Queued, MinorOf
    <3> HIDE DEF w
    <3> QED  BY <1>0, <3>2, <3>3 DEF Queued
  <2> QED  BY <2>1, <2>2, <2>3, <2>4
<1>4. wq' \in [Streams -> Seq(Nat \ {0})] /\ nextmin' \in Int /\ ntx' \in Nat
  <2>1. CASE Unitdata(q)
    <3>1. ntx + 1 \in Nat \ {0} /\ ntx' = ntx + 1 /\ nextmin' = nextmin
      BY <1>0, <2>1 DEF Queued, Unitdata
    <3>2. Append(wq[q], ntx + 1) \in Seq(Nat \ {0})
      BY <1>0, <3>1 DEF Queued
    <3>3. wq' = wq \/ wq' = [wq EXCEPT ![q] = Append(@, ntx + 1)]
      BY <2>1 DEF Unitdata
    <3>4. wq' \in [Streams -> Seq(Nat \ {0})]
      BY <1>0, <3>2, <3>3 DEF Queued
    <3> QED  BY <1>0, <3>1, <3>4 DEF Queued
  <2>2. CASE ~Unitdata(q)
    <3>1. /\ nextmin' = nextmin /\ ntx' = ntx
          /\ wq' = wq \/ wq' = [wq EXCEPT ![q] = <<>>]
      BY <2>2 DEF Nuclose, Unbind, Flush, Bind
    <3>2. <<>> \in Seq(Nat \ {0})
      OBVIOUS
    <3>3. wq' \in [Streams -> Seq(Nat \ {0})]
      BY <1>0, <3>1, <3>2 DEF Queued
    <3> QED  BY <1>0, <3>1, <3>3 DEF Queued
  <2> QED  BY <2>1, <2>2
<1> QED  BY <1>1, <1>3, <1>4, QuietKeeps DEF Queued

(* nu_init with the service procedure at rest                              *)
LEMMA AnewKeeps ==
  ASSUME Inv, ChipOk(chip'), Is(sc', SoftFields), chip'.mem = chip.mem, ~chip'.txp, Anew,
         sc'.running => chip'.isr = {},
         srv = Rest, srv' = Rest, got' = got, nrx' = nrx, Queued'
  PROVE  Inv'
<1>1. InRing'
  BY RingNew
<1>2. Types'
  BY DEF Inv, Types
<1>3. Copying' /\ Working' /\ Sending'
  BY DEF Copying, Working, Sending, Rest
<1> QED  BY <1>1, <1>2, <1>3 DEF Inv

LEMMA LinitKeeps ==
  ASSUME Inv, Linit, srv = Rest, srv' = Rest, got' = got, nrx' = nrx, Queued'
  PROVE  Inv'
<1>1. CASE chip' = chip /\ sc' = sc
  BY <1>1, QuietKeeps
<1>2. CASE ~(chip' = chip /\ sc' = sc)
  <2>1. chip' = ChipInit(chip) /\ sc' = Told(ScInit(chip, sc))
    BY <1>2 DEF Linit
  <2>2. ChipOk(chip) /\ Is(sc, SoftFields)
    BY DEF Inv, Types
  <2> DEFINE y == ScInit(chip, sc)
  <2>3. Is(y, SoftFields)
    BY <2>2, InitIs
  <2>4. /\ ChipOk(chip') /\ chip'.mem = chip.mem /\ ~chip'.txp
        /\ y.running => y.rxnext = 0 /\ chip'.curr = 0 /\ chip'.bnry = Ring - 1 /\ chip'.isr = {}
    BY <2>1, <2>2, InitIs
  <2> HIDE DEF y
  <2>5. Is(sc', SoftFields) /\ sc'.running = y.running /\ sc'.rxnext = y.rxnext
    BY <2>1, <2>3, ToldIs DEF y
  <2> QED  BY <2>4, <2>5, AnewKeeps DEF Anew
<1> QED  BY <1>1, <1>2

LEMMA OpenKeeps ==
  ASSUME Inv, Driverinfo \/ \E q \in Streams : Nuopen(q)
  PROVE  Inv'
<1>0. Queued
  BY DEF Inv, Types
<1>1. CASE Driverinfo
  BY <1>0, <1>1, LinitKeeps DEF Driverinfo, Queued
<1>2. CASE \E q \in Streams : Nuopen(q)
  <2>1. PICK q \in Streams : Nuopen(q)
    BY <1>2
  <2> DEFINE w == [NoMinor EXCEPT !.q = q]
             o == First(FreeMinors)
  <2>2. w.q = q /\ Is(w, MinorFields)
    BY DEF NoMinor, Is, MinorFields
  <2>3. min' = [min EXCEPT ![o] = w]
    BY <2>1 DEF Nuopen
  <2> HIDE DEF w, o
  <2>4. DOMAIN min' = Minors /\ \A m \in Minors : Is(min'[m], MinorFields) /\ min'[m].q \in Streams \cup {NoQ}
    BY <1>0, <2>2, <2>3 DEF Queued
  <2>5. Queued'
    BY <1>0, <2>1, <2>4 DEF Nuopen, Queued
  <2> QED  BY <2>1, <2>5, LinitKeeps DEF Nuopen
<1> QED  BY <1>1, <1>2

LEMMA NuTestKeeps == Inv /\ NuTest => Inv'
<1> SUFFICES ASSUME Inv, NuTest PROVE Inv'
  OBVIOUS
<1> DEFINE t == [sc EXCEPT !.running = FALSE]
<1>1. /\ srv = Rest /\ srv' = Rest /\ got' = got /\ nrx' = nrx /\ ChipOk(chip) /\ Queued'
      /\ Is(sc, SoftFields)
  BY DEF Inv, Types, NuTest, Queued
<1>2. Is(t, SoftFields) /\ ~t.running
  BY <1>1 DEF Is, SoftFields
<1>3. CASE chip.health = "gone"
  <2>1. sc' = t /\ chip' = chip
    BY <1>3 DEF NuTest
  <2> HIDE DEF t
  <2>2. sc'.rxnext = sc.rxnext
    BY <1>1, <2>1 DEF t, Is, SoftFields
  <2>3. sc'.txlen = sc.txlen /\ sc'.txcur = sc.txcur
    BY <1>1, <2>1 DEF t, Is, SoftFields
  <2>4. InRing'
    BY <1>1, <1>2, <2>1, <2>2, RingKept
  <2>5. Copying' /\ Working' /\ Sending'
    BY <1>1, <1>2, <2>1, <2>3 DEF Inv, Copying, Working, Sending, Held, Rest
  <2>6. Types'
    BY <1>1, <1>2, <2>1 DEF Inv, Types
  <2> QED  BY <2>4, <2>5, <2>6 DEF Inv
<1>4. CASE chip.health # "gone"
  <2>1. sc' = ScInit(chip, t) /\ chip' = ChipInit(chip)
    BY <1>4 DEF NuTest
  <2> HIDE DEF t
  <2> QED  BY <1>1, <1>2, <2>1, InitIs, AnewKeeps DEF Anew
<1> QED  BY <1>3, <1>4

-----------------------------------------------------------------------------
(* The service procedure                                                   *)

(* nu_poll's start, from the chip as it is or as nu_init has just left it: *)
(* the ring as it was, or set up anew.                                     *)
Same(c, t) == /\ c.curr = chip.curr /\ c.bnry = chip.bnry /\ t.rxnext = sc.rxnext
              /\ t.running => sc.running
Fresh(c, t) == t.running => t.rxnext = 0 /\ c.curr = 0 /\ c.bnry = Ring - 1
InBuffer(c, t) == /\ c.txp => t.txcur /\ t.txlen # 0 /\ "PTX" \notin c.isr
                  /\ t.running /\ "PTX" \in c.isr => t.txlen # 0

LEMMA PollStartsIs ==
  ASSUME NEW c, ChipOk(c), NEW t, Is(t, SoftFields), NEW v, PlaceOk(v),
         PollStarts(c, t, v), InBuffer(c, t), v.resend => ~t.running
  PROVE  /\ ChipOk(chip') /\ Is(sc', SoftFields) /\ PlaceOk(srv')
         /\ chip'.mem = c.mem /\ chip'.curr = c.curr /\ chip'.bnry = c.bnry /\ chip'.buf = c.buf
         /\ sc'.rxnext = t.rxnext /\ (sc'.running => t.running)
         /\ Sending' /\ Working' /\ srv'.pc # "copy"
<1>1. CASE ~t.running \/ ~Left(c)
  <2>1. chip' = c /\ srv' = [v EXCEPT !.pc = "send", !.work = FALSE]
    BY <1>1 DEF PollStarts
  <2>2. sc' = [t EXCEPT !.running = FALSE] \/ (sc' = t /\ ~t.running)
    BY <1>1 DEF PollStarts
  <2>3. /\ Is(sc', SoftFields) /\ ~sc'.running
        /\ sc'.rxnext = t.rxnext /\ sc'.txlen = t.txlen /\ sc'.txcur = t.txcur
    BY <2>2 DEF Is, SoftFields
  <2>4. PlaceOk(srv')
    BY <2>1 DEF Is, PlaceFields, PlaceOk
  <2>5. srv'.pc = "send"
    BY <2>1 DEF Is, PlaceFields, PlaceOk
  <2>6. Sending' /\ Working'
    BY <2>1, <2>3, <2>5 DEF Sending, Working, Held, InBuffer
  <2> QED  BY <2>1, <2>3, <2>4, <2>5, <2>6
<1>2. CASE t.running /\ Left(c) /\ "OVW" \in c.isr
  <2>1. PICK cut \in IF c.txp THEN BOOLEAN ELSE {FALSE} :
          /\ chip' = [c EXCEPT !.loop = TRUE, !.txp = FALSE,
                      !.isr = IF c.txp /\ ~cut THEN @ \cup {"PTX"} ELSE @]
          /\ srv' = [v EXCEPT !.pc = "rx", !.ovw = TRUE, !.resend = cut, !.work = TRUE]
    BY <1>2 DEF PollStarts
  <2>2. sc' = t
    BY <1>2 DEF PollStarts
  <2>3. Is(chip', ChipFields) /\ PlaceOk(srv')
    BY <2>1 DEF ChipOk, Is, ChipFields, PlaceFields, PlaceOk
  <2>4. /\ chip'.health = c.health /\ chip'.curr = c.curr /\ chip'.mem = c.mem /\ chip'.bnry = c.bnry
        /\ chip'.buf = c.buf /\ ~chip'.txp /\ chip'.isr = IF c.txp /\ ~cut THEN c.isr \cup {"PTX"} ELSE c.isr
    BY <2>1 DEF ChipOk, Is, ChipFields
  <2>5. srv'.pc = "rx" /\ srv'.ovw /\ (srv'.resend => cut)
    BY <2>1 DEF Is, PlaceFields, PlaceOk
  <2>6. cut => c.txp
    BY <2>1
  <2>7. ChipOk(chip')
    BY <2>3, <2>4 DEF ChipOk
  <2>8. Sending' /\ Working'
    BY <1>2, <2>2, <2>4, <2>5, <2>6 DEF Sending, Working, Held, InBuffer
  <2> QED  BY <1>2, <2>2, <2>3, <2>4, <2>5, <2>7, <2>8
<1>3. CASE t.running /\ Left(c) /\ "OVW" \notin c.isr
  <2>1. chip' = c /\ sc' = t /\ srv' = [v EXCEPT !.pc = "rx", !.work = FALSE]
    BY <1>3 DEF PollStarts
  <2>2. PlaceOk(srv')
    BY <2>1 DEF Is, PlaceFields, PlaceOk
  <2>3. srv'.pc = "rx" /\ srv'.resend = v.resend
    BY <2>1 DEF Is, PlaceFields, PlaceOk
  <2>4. Sending' /\ Working'
    BY <1>3, <2>1, <2>3 DEF Sending, Working, Held, InBuffer
  <2> QED  BY <1>3, <2>1, <2>2, <2>3, <2>4
<1> QED  BY <1>1, <1>2, <1>3 DEF PollStarts

LEMMA PollStartsKeeps ==
  ASSUME Inv, NEW c, ChipOk(c), NEW t, Is(t, SoftFields), NEW v, PlaceOk(v),
         PollStarts(c, t, v), InBuffer(c, t), v.resend => ~t.running, c.mem = chip.mem,
         Same(c, t) \/ Fresh(c, t), got' = got, nrx' = nrx, Queued'
  PROVE  Inv'
<1>1. /\ ChipOk(chip') /\ Is(sc', SoftFields) /\ PlaceOk(srv')
      /\ chip'.mem = c.mem /\ chip'.curr = c.curr /\ chip'.bnry = c.bnry
      /\ sc'.rxnext = t.rxnext /\ (sc'.running => t.running)
      /\ Sending' /\ Working' /\ srv'.pc # "copy"
  BY PollStartsIs
<1>2. InRing'
  <2>1. CASE Same(c, t)
    BY <1>1, <2>1, RingKept DEF Same
  <2>2. CASE Fresh(c, t)
    BY <1>1, <2>2, RingNew DEF Fresh, Anew
  <2> QED  BY <2>1, <2>2
<1>3. Types'
  BY <1>1 DEF Inv, Types
<1> QED  BY <1>1, <1>2, <1>3 DEF Inv, Copying

LEMMA NursrvKeeps ==
  ASSUME Inv, NEW q \in Streams, Nursrv(q)
  PROVE  Inv'
<1> DEFINE again == ~sc.running /\ due
           c == IF again /\ NeedsRecover THEN Reprobed(chip) ELSE chip
           v == [Rest EXCEPT !.q = q]
           y == ScInit(c, sc)
<1>1. /\ srv = Rest /\ got' = got /\ nrx' = nrx /\ ChipOk(chip) /\ Is(sc, SoftFields) /\ Queued'
  BY DEF Nursrv, Inv, Types, Queued
<1>2. PlaceOk(v) /\ ~v.resend
  <2>1. Is(v, PlaceFields)
    BY DEF Rest, Is, PlaceFields
  <2>2. v.tries = 0 /\ ~v.resend
    BY DEF Rest
  <2> QED  BY <2>1, <2>2 DEF PlaceOk
<1>3. ChipOk(c) /\ c.mem = chip.mem
  <2>1. CASE c = chip
    BY <1>1, <2>1
  <2>2. CASE c # chip
    <3>1. c = [chip EXCEPT !.health = IF @ = "stuck" THEN "ok" ELSE @]
      BY <2>2 DEF Reprobed
    <3> HIDE DEF c
    <3>2. Is(c, ChipFields)
      BY <1>1, <3>1 DEF ChipOk, Is, ChipFields
    <3>3. /\ c.health \in {"ok", chip.health} /\ c.curr = chip.curr /\ c.mem = chip.mem
      BY <1>1, <3>1 DEF ChipOk, Is, ChipFields
    <3> QED  BY <1>1, <3>2, <3>3 DEF ChipOk
  <2> QED  BY <2>1, <2>2
<1>4. CASE ~up
  BY <1>1, <1>4, QuietKeeps DEF Nursrv
<1>5. CASE up /\ again
  <2>1. PollStarts(ChipInit(c), Told(y), v)
    BY <1>5 DEF Nursrv
  <2> HIDE DEF c, v, y
  <2>2. /\ ChipOk(ChipInit(c)) /\ Is(y, SoftFields) /\ ChipInit(c).mem = c.mem /\ ~ChipInit(c).txp
        /\ y.running => /\ y.rxnext = 0 /\ ChipInit(c).curr = 0 /\ ChipInit(c).bnry = Ring - 1
                        /\ ChipInit(c).isr = {}
    BY <1>1, <1>3, InitIs DEF y
  <2>3. Is(Told(y), SoftFields) /\ Told(y).running = y.running /\ Told(y).rxnext = y.rxnext
    BY <2>2, ToldIs
  <2>4. InBuffer(ChipInit(c), Told(y)) /\ Fresh(ChipInit(c), Told(y))
    BY <2>2, <2>3 DEF InBuffer, Fresh
  <2> QED  BY <1>1, <1>2, <1>3, <2>1, <2>2, <2>3, <2>4, PollStartsKeeps
<1>6. CASE up /\ ~again
  <2>1. PollStarts(chip, sc, v)
    BY <1>6 DEF Nursrv
  <2> HIDE DEF v
  <2>2. InBuffer(chip, sc) /\ Same(chip, sc)
    BY DEF InBuffer, Same, Inv, Sending, Held
  <2> QED  BY <1>1, <1>2, <2>1, <2>2, PollStartsKeeps
<1> QED  BY <1>4, <1>5, <1>6

(* Frames given back to the card: those from y on are still there.  What   *)
(* came up last is as it was, or the frame that was first.                 *)
LEMMA ReadRing ==
  ASSUME Inv, sc.running, NEW y \in Pages, sc'.rxnext = y, chip'.bnry = Bnry(y),
         chip'.mem = chip.mem, chip'.curr = chip.curr, nrx' = nrx,
         y = chip.curr \/ (chip.curr # sc.rxnext /\ y = chip.mem[sc.rxnext].nxt),
         got' = got \/ (got' # <<>> => got'[1] = chip.mem[sc.rxnext])
  PROVE  InRing'
<1> USE RingSize
<1> DEFINE r == sc.rxnext
<1>1. r \in Pages
  BY DEF Inv, InRing
<1>2. got' # <<>> => got'[1].f <= nrx'
  BY <1>1, FramesSeen
<1>3. Seen'
  BY DEF Inv, InRing, Seen
<1>4. ASSUME chip.curr \in Pages
      PROVE  \E S \in SUBSET Pages : Chained(S)'
  <2>1. CASE y = chip.curr
    <3>1. Chained({})'
      BY <2>1 DEF Chained
    <3> QED  BY <3>1
  <2>2. CASE y # chip.curr
    <3>1. PICK S \in SUBSET Pages : Chained(S)
      BY <1>4 DEF Inv, InRing
    <3> DEFINE E(p) == Dist(y, p)
    <3>0. PICK T \in SUBSET Pages : \A s \in Pages : s \in T <=> s \in S /\ D(y) <= D(s)
      <4>1. {s \in S : D(y) <= D(s)} \in SUBSET Pages
        OBVIOUS
      <4> QED  BY <4>1
    <3>2. r \in S /\ Whole(r) /\ Linked(r, S)
      BY <2>2, <3>1 DEF Chained
    <3>3. D(r) = 0 /\ \A p \in Pages : D(p) \in 0 .. Ring - 1
      BY <1>1, PlacesIn
    <3>4. y \in S /\ chip.mem[r].n <= D(y) /\ D(y) <= D(chip.curr) /\ 1 <= chip.mem[r].n
      <4>1. chip.mem[r].nxt = y /\ y \in Pages /\ y # Ring
        BY <1>1, <2>2
      <4>2. y \in S /\ D(r) + chip.mem[r].n <= D(y) /\ D(y) <= D(chip.curr)
        BY <2>2, <3>2, <4>1 DEF Linked
      <4>3. chip.mem[r].n \in 1 .. Ring - 1
        BY <3>2 DEF Whole
      <4> QED  BY <3>3, <4>2, <4>3
    <3>5. \A p \in Pages : D(y) <= D(p) => E(p) = D(p) - D(y)
      BY <1>1, DistFrom DEF D
    <3>6. \A p \in Pages : D(p)' = E(p)
      BY DEF D
    <3> HIDE DEF E
    <3>7. ASSUME NEW s \in T
          PROVE  Whole(s)' /\ Ends(s)' /\ Linked(s, T)' /\ Later(s)'
      <4>1. /\ s \in Pages /\ s \in S /\ D(y) <= D(s) /\ E(s) = D(s) - D(y)
            /\ Whole(s) /\ Ends(s) /\ Linked(s, S) /\ Later(s)
        BY <3>0, <3>1, <3>5 DEF Chained
      <4>2. chip.mem[s].n \in Nat /\ D(s) \in Nat /\ D(y) \in Nat
        BY <3>3, <4>1 DEF Whole
      <4>3. Whole(s)'
        BY <4>1 DEF Whole
      <4>4. D(chip.curr) \in Nat /\ E(chip.curr) = D(chip.curr) - D(y)
        BY <1>4, <3>3, <3>4, <3>5
      <4>5. Ends(s)'
        <5>1. E(s) + chip.mem[s].n <= E(chip.curr)
          BY <4>1, <4>2, <4>4 DEF Ends
        <5> QED  BY <5>1 DEF Ends, D, E
      <4>6. Linked(s, T)'
        <5> DEFINE z == chip.mem[s].nxt
        <5>1. CASE z = Ring
          BY <5>1 DEF Linked
        <5>2. CASE z # Ring
          <6>1. /\ z = chip.curr \/ z \in S
                /\ D(s) + chip.mem[s].n <= D(z) /\ D(z) <= D(chip.curr)
            BY <4>1, <5>2 DEF Linked
          <6>2. z \in Pages
            BY <1>4, <6>1
          <6>3. D(z) \in Nat /\ D(y) <= D(z)
            <7>1. D(z) \in Nat
              BY <3>3, <6>2
            <7> HIDE DEF z
            <7> QED  BY <4>1, <4>2, <6>1, <7>1
          <6>4. E(z) = D(z) - D(y)
            BY <3>5, <6>2, <6>3
          <6>5. E(s) + chip.mem[s].n <= E(z) /\ E(z) <= E(chip.curr)
            <7>1. /\ D(s) + chip.mem[s].n <= D(z) /\ D(z) <= D(chip.curr) /\ E(s) = D(s) - D(y)
                  /\ chip.mem[s].n \in Nat /\ D(s) \in Nat /\ D(y) \in Nat
              BY <4>1, <4>2, <6>1
            <7> HIDE DEF z
            <7> QED  BY <4>4, <6>3, <6>4, <7>1
          <6>6. z = chip.curr \/ z \in T
            BY <3>0, <6>1, <6>2, <6>3
          <6> QED  BY <6>5, <6>6 DEF Linked, D, E
        <5> QED  BY <5>1, <5>2
      <4>7. Later(s)'
        <5>1. CASE got' = got
          BY <4>1, <5>1 DEF Later
        <5>2. CASE got' # <<>> /\ got'[1] = chip.mem[r]
          <6>1. D(r) < D(s)
            <7>1. D(y) >= 1
              BY <3>3, <3>4, <3>2 DEF Whole
            <7> QED  BY <3>3, <4>1, <4>2, <7>1
          <6>2. chip.mem[r].f < chip.mem[s].f
            BY <3>1, <3>2, <4>1, <6>1 DEF Chained
          <6> QED  BY <5>2, <6>2 DEF Later
        <5>3. CASE got' = <<>>
          BY <5>3 DEF Later
        <5> QED  BY <5>1, <5>2, <5>3
      <4> QED  BY <4>3, <4>5, <4>6, <4>7
    <3>8. ASSUME NEW s \in T, NEW t \in T, E(s) < E(t)
          PROVE  chip.mem[s].f < chip.mem[t].f
      <4>1. s \in Pages /\ t \in Pages /\ s \in S /\ t \in S /\ D(y) <= D(s) /\ D(y) <= D(t)
        BY <3>0
      <4>2. E(s) = D(s) - D(y) /\ E(t) = D(t) - D(y)
        BY <3>5, <4>1
      <4>3. D(s) \in Nat /\ D(t) \in Nat /\ D(y) \in Nat
        BY <3>3, <4>1
      <4>4. D(s) < D(t)
        BY <3>8, <4>2, <4>3
      <4> QED  BY <3>1, <4>1, <4>4 DEF Chained
    <3>9. T \subseteq Pages /\ y \in T
      BY <3>0, <3>3, <3>4
    <3>10. Chained(T)'
      BY <3>6, <3>7, <3>8, <3>9 DEF Chained
    <3> QED  BY <3>9, <3>10
  <2> QED  BY <2>1, <2>2
<1>5. sc'.running => sc'.rxnext \in Pages /\ chip'.bnry = Bnry(sc'.rxnext)
  OBVIOUS
<1>6. sc'.running => (chip'.curr \in Pages => \E S \in SUBSET Pages : Chained(S)')
  BY <1>4
<1> QED  BY <1>2, <1>3, <1>5, <1>6 DEF InRing

(* nu_setbnry *)
LEMMA ReadIs ==
  ASSUME Inv, NEW y \in Pages, Read(y)
  PROVE  /\ ChipOk(chip') /\ Is(sc', SoftFields)
         /\ chip'.mem = chip.mem /\ chip'.curr = chip.curr /\ chip'.bnry = Bnry(y)
         /\ chip'.txp = chip.txp /\ chip'.isr = chip.isr /\ chip'.buf = chip.buf
         /\ sc'.rxnext = y /\ sc'.running = sc.running /\ sc'.txlen = sc.txlen /\ sc'.txcur = sc.txcur
<1>1. /\ chip' = [chip EXCEPT !.bnry = Bnry(y)] /\ sc' = [sc EXCEPT !.rxnext = y]
      /\ ChipOk(chip) /\ Is(sc, SoftFields)
  BY DEF Read, Inv, Types
<1>2. Is(chip', ChipFields)
  BY <1>1 DEF ChipOk, Is, ChipFields
<1>3. /\ chip'.health = chip.health /\ chip'.mem = chip.mem /\ chip'.curr = chip.curr
      /\ chip'.bnry = Bnry(y) /\ chip'.txp = chip.txp /\ chip'.isr = chip.isr /\ chip'.buf = chip.buf
  BY <1>1 DEF ChipOk, Is, ChipFields
<1>4. Is(sc', SoftFields)
  BY <1>1 DEF Is, SoftFields
<1>5. sc'.rxnext = y /\ sc'.running = sc.running /\ sc'.txlen = sc.txlen /\ sc'.txcur = sc.txcur
  BY <1>1 DEF Is, SoftFields
<1> QED  BY <1>1, <1>2, <1>3, <1>4, <1>5 DEF ChipOk

LEMMA RxLookKeeps == Inv /\ RxLook => Inv'
<1> SUFFICES ASSUME Inv, RxLook PROVE Inv'
  OBVIOUS
<1> DEFINE r == sc.rxnext
           h == chip.mem[r]
<1>1. /\ srv.pc = "rx" /\ chip.curr \in Pages /\ chip.curr # r /\ got' = got /\ nrx' = nrx /\ Queued'
      /\ PlaceOk(srv) /\ ChipOk(chip) /\ Is(sc, SoftFields)
  BY DEF RxLook, Inv, Types, Queued, drv
<1>2. sc.running /\ r \in Pages /\ h \in Page
  BY <1>1, FramesSeen DEF Inv, Working, InRing
<1>3. CASE Sensible(h) /\ h.ok /\ srv' = [srv EXCEPT !.pc = "copy"] /\ UNCHANGED <<sc, chip>>
  <2>1. PlaceOk(srv')
    BY <1>1, <1>3 DEF Is, PlaceFields, PlaceOk
  <2>2. srv'.pc = "copy" /\ srv'.resend = srv.resend /\ srv'.ovw = srv.ovw
    BY <1>1, <1>3 DEF Is, PlaceFields, PlaceOk
  <2>3. InRing'
    BY <1>1, <1>3, RingKept
  <2>4. PICK S \in SUBSET Pages : Chained(S)
    BY <1>1, <1>2 DEF Inv, InRing
  <2>5. Whole(r) /\ Later(r)
    BY <1>1, <2>4 DEF Chained
  <2>6. Copying'
    BY <1>1, <1>3, <2>5 DEF Copying, Sensible, Whole, Later
  <2>7. Working' /\ Sending'
    BY <1>1, <1>2, <1>3, <2>2 DEF Inv, Working, Sending, Held
  <2>8. Types'
    BY <1>1, <1>3, <2>1 DEF Inv, Types
  <2> QED  BY <2>3, <2>6, <2>7, <2>8 DEF Inv
<1>4. ASSUME NEW y \in Pages, Read(y), y = chip.curr \/ y = h.nxt,
             PlaceOk(srv'), srv'.pc \in {"rx", "tx"},
             srv'.resend = srv.resend, srv'.ovw = srv.ovw
      PROVE  Inv'
  <2>1. /\ ChipOk(chip') /\ Is(sc', SoftFields)
        /\ chip'.mem = chip.mem /\ chip'.curr = chip.curr /\ chip'.bnry = Bnry(y)
        /\ chip'.txp = chip.txp /\ chip'.isr = chip.isr
        /\ sc'.rxnext = y /\ sc'.running = sc.running /\ sc'.txlen = sc.txlen /\ sc'.txcur = sc.txcur
    BY <1>4, ReadIs
  <2>2. InRing'
    BY <1>1, <1>2, <1>4, <2>1, ReadRing
  <2>3. Copying' /\ Working' /\ Sending'
    BY <1>1, <1>2, <1>4, <2>1 DEF Inv, Copying, Working, Sending, Held
  <2>4. Types'
    BY <1>1, <1>4, <2>1 DEF Inv, Types
  <2> QED  BY <2>2, <2>3, <2>4 DEF Inv
<1>5. CASE Sensible(h) /\ ~h.ok /\ srv' = [srv EXCEPT !.n = @ + 1] /\ Read(h.nxt)
  <2>1. PlaceOk(srv')
    BY <1>1, <1>5 DEF Is, PlaceFields, PlaceOk
  <2>2. srv'.pc = "rx" /\ srv'.resend = srv.resend /\ srv'.ovw = srv.ovw
    BY <1>1, <1>5 DEF Is, PlaceFields, PlaceOk
  <2>3. h.nxt \in Pages
    BY <1>5 DEF Sensible
  <2>4. PICK y \in Pages : y = h.nxt
    BY <2>3
  <2>5. Read(y)
    BY <1>5, <2>4
  <2> QED  BY <1>4, <2>1, <2>2, <2>4, <2>5
<1>6. CASE ~Sensible(h) /\ srv' = [srv EXCEPT !.pc = "tx"] /\ Read(chip.curr)
  <2>1. PlaceOk(srv')
    BY <1>1, <1>6 DEF Is, PlaceFields, PlaceOk
  <2>2. srv'.pc = "tx" /\ srv'.resend = srv.resend /\ srv'.ovw = srv.ovw
    BY <1>1, <1>6 DEF Is, PlaceFields, PlaceOk
  <2>4. PICK y \in Pages : y = chip.curr
    BY <1>1
  <2>5. Read(y)
    BY <1>6, <2>4
  <2> QED  BY <1>4, <2>1, <2>2, <2>4, <2>5
<1> QED  BY <1>3, <1>5, <1>6 DEF RxLook

(* A frame that is copied is whole and later than the last.                *)
LEMMA RxCopyKeeps ==
  ASSUME Inv, RxCopy
  PROVE  /\ Inv'
         /\ got' # got => /\ \A i \in DOMAIN got' : got'[i].f = got'[1].f /\ got'[i].k = i - 1
                          /\ Len(got') = got'[1].n
                          /\ got # <<>> => got'[1].f > got[1].f
<1> USE RingSize
<1> DEFINE r == sc.rxnext
           h == chip.mem[r]
           body == [i \in 1 .. h.n |-> chip.mem[Wrap(r + i - 1)]]
<1>1. /\ srv.pc = "copy" /\ nrx' = nrx /\ Queued' /\ Read(h.nxt)
      /\ PlaceOk(srv) /\ ChipOk(chip) /\ Is(sc, SoftFields) /\ got \in Seq(Page)
      /\ srv' = [srv EXCEPT !.pc = "rx", !.n = @ + 1]
  BY DEF RxCopy, Inv, Types, Queued, drv
<1>2. got' = got \/ got' = body
  BY DEF RxCopy
<1>3. /\ sc.running /\ r \in Pages /\ h \in Page /\ chip.curr # r
      /\ Sensible(h) /\ Whole(r) /\ Later(r)
  BY <1>1, FramesSeen DEF Inv, Working, InRing, Copying
<1>4. h.n \in 1 .. Ring - 1 /\ h.n \in Nat
  BY <1>3 DEF Whole
<1>5. \A i \in 1 .. h.n : Wrap(r + i - 1) \in Pages /\ body[i].f = h.f /\ body[i].k = i - 1
  <2>1. SUFFICES ASSUME NEW i \in 1 .. h.n
                 PROVE  Wrap(r + i - 1) \in Pages /\ body[i].f = h.f /\ body[i].k = i - 1
    OBVIOUS
  <2>2. PICK j \in 0 .. h.n - 1 : j = i - 1
    BY <1>4
  <2>3. r + i - 1 = r + j /\ r + j \in 0 .. 2 * Ring - 1
    BY <1>3, <1>4, <2>2
  <2>4. Wrap(r + i - 1) = Wrap(r + j) /\ Wrap(r + j) \in Pages
    BY <2>3, WrapIs
  <2>5. body[i] = chip.mem[Wrap(r + j)]
    BY <2>4
  <2> QED  BY <1>3, <2>2, <2>4, <2>5 DEF Whole
<1>6. body[1] = h
  <2>1. r + 1 - 1 = r /\ 1 \in 1 .. h.n /\ r \in 0 .. 2 * Ring - 1 /\ r < Ring
    BY <1>3, <1>4
  <2>2. Wrap(r) = r
    BY <2>1, WrapIs
  <2> QED  BY <2>1, <2>2
<1>7. body \in Seq(Page) /\ Len(body) = h.n /\ DOMAIN body = 1 .. h.n
  <2>1. body \in [1 .. h.n -> Page]
    BY <1>5, FramesSeen
  <2> HIDE DEF body
  <2>2. body \in Seq(Page)
    BY <1>4, <2>1
  <2>3. Len(body) = h.n
    BY <1>4, <2>1
  <2> QED  BY <2>1, <2>2, <2>3
<1> HIDE DEF body
<1>8. got' # got => /\ \A i \in DOMAIN got' : got'[i].f = got'[1].f /\ got'[i].k = i - 1
                    /\ Len(got') = got'[1].n
                    /\ got # <<>> => got'[1].f > got[1].f
  BY <1>2, <1>3, <1>5, <1>6, <1>7, FramesSeen DEF Later
<1>9. PICK y \in Pages : y = h.nxt
  BY <1>3 DEF Sensible
<1>10. Read(y)
  BY <1>1, <1>9
<1>11. /\ ChipOk(chip') /\ Is(sc', SoftFields)
       /\ chip'.mem = chip.mem /\ chip'.curr = chip.curr /\ chip'.bnry = Bnry(y)
       /\ chip'.txp = chip.txp /\ chip'.isr = chip.isr
       /\ sc'.rxnext = y /\ sc'.running = sc.running /\ sc'.txlen = sc.txlen /\ sc'.txcur = sc.txcur
  BY <1>10, ReadIs
<1>12. InRing'
  BY <1>1, <1>2, <1>3, <1>6, <1>9, <1>11, ReadRing
<1>13. PlaceOk(srv')
  BY <1>1 DEF Is, PlaceFields, PlaceOk
<1>14. srv'.pc = "rx" /\ srv'.resend = srv.resend /\ srv'.ovw = srv.ovw
  BY <1>1 DEF Is, PlaceFields, PlaceOk
<1>15. Copying' /\ Working' /\ Sending'
  BY <1>1, <1>3, <1>11, <1>14 DEF Inv, Copying, Working, Sending, Held
<1>16. Types'
  BY <1>1, <1>2, <1>7, <1>11, <1>13 DEF Inv, Types
<1> QED  BY <1>8, <1>12, <1>15, <1>16 DEF Inv

LEMMA RxEndsKeeps == Inv /\ RxEnds => Inv'
<1> SUFFICES ASSUME Inv, RxEnds PROVE Inv'
  OBVIOUS
<1>1. /\ srv.pc = "rx" /\ chip' = chip /\ got' = got /\ nrx' = nrx /\ Queued'
      /\ PlaceOk(srv) /\ Is(sc, SoftFields)
  BY DEF RxEnds, Inv, Types, Queued, drv
<1>2. CASE sc' = [sc EXCEPT !.running = FALSE] /\ srv' = [srv EXCEPT !.pc = "send", !.work = FALSE]
  <2>1. Is(sc', SoftFields) /\ PlaceOk(srv')
    BY <1>1, <1>2 DEF Is, SoftFields, PlaceFields, PlaceOk
  <2>2. ~sc'.running /\ sc'.rxnext = sc.rxnext /\ sc'.txlen = sc.txlen /\ sc'.txcur = sc.txcur
    BY <1>1, <1>2 DEF Is, SoftFields
  <2>3. srv'.pc = "send"
    BY <1>1, <1>2 DEF Is, PlaceFields, PlaceOk
  <2>4. InRing' /\ Copying'
    BY <1>1, <2>2, <2>3, RingKept, CopyKept
  <2>5. Working' /\ Sending'
    BY <1>1, <2>2, <2>3 DEF Inv, Working, Sending, Held
  <2> QED  BY <1>1, <2>1, <2>4, <2>5 DEF Inv, Types
<1>3. CASE srv' = [srv EXCEPT !.pc = "tx"] /\ UNCHANGED sc
  <2>1. PlaceOk(srv')
    BY <1>1, <1>3 DEF Is, PlaceFields, PlaceOk
  <2>2. srv'.pc = "tx" /\ srv'.resend = srv.resend /\ srv'.ovw = srv.ovw
    BY <1>1, <1>3 DEF Is, PlaceFields, PlaceOk
  <2>3. InRing' /\ Copying'
    BY <1>1, <1>3, <2>2, RingKept, CopyKept
  <2>4. Working' /\ Sending'
    BY <1>1, <1>3, <2>2 DEF Inv, Working, Sending, Held
  <2> QED  BY <1>1, <1>3, <2>1, <2>3, <2>4 DEF Inv, Types
<1> QED  BY <1>2, <1>3 DEF RxEnds

(* nu_txreclaim, and the end of nu_overflow                                *)
LEMMA ReclaimIs ==
  ASSUME NEW t, Is(t, SoftFields), NEW c, ChipOk(c)
  PROVE  /\ Is(Reclaim(t), SoftFields) /\ Reclaim(t).running = t.running
         /\ Reclaim(t).rxnext = t.rxnext /\ Reclaim(t).txlen = 0 /\ ~Reclaim(t).txcur
         /\ ChipOk(Acked(c)) /\ Acked(c).curr = c.curr /\ Acked(c).mem = c.mem
         /\ Acked(c).bnry = c.bnry /\ Acked(c).txp = c.txp /\ Acked(c).isr = c.isr \ {"PTX"}
         /\ Acked(c).buf = c.buf
<1> DEFINE x == Acked(c)  y == Reclaim(t)
<1>1. x = [c EXCEPT !.isr = @ \ {"PTX"}] /\ y = [t EXCEPT !.txlen = 0, !.txcur = FALSE]
  BY DEF Acked, Reclaim
<1> HIDE DEF x, y
<1>2. Is(x, ChipFields)
  BY <1>1 DEF ChipOk, Is, ChipFields
<1>3. /\ x.health = c.health /\ x.curr = c.curr /\ x.mem = c.mem /\ x.bnry = c.bnry
      /\ x.txp = c.txp /\ x.isr = c.isr \ {"PTX"} /\ x.buf = c.buf
  BY <1>1 DEF ChipOk, Is, ChipFields
<1>4. Is(y, SoftFields)
  BY <1>1 DEF Is, SoftFields
<1>5. y.running = t.running /\ y.rxnext = t.rxnext /\ y.txlen = 0 /\ ~y.txcur
  BY <1>1 DEF Is, SoftFields
<1> QED  BY <1>2, <1>3, <1>4, <1>5 DEF ChipOk, x, y

LEMMA TxEndsKeeps == Inv /\ TxEnds => Inv'
<1> SUFFICES ASSUME Inv, TxEnds PROVE Inv'
  OBVIOUS
<1> DEFINE c == IF srv.ovw THEN [chip EXCEPT !.isr = @ \ {"OVW"}, !.loop = FALSE, !.txp = srv.resend]
                ELSE chip
           v == [srv EXCEPT !.pc = "send", !.ovw = FALSE, !.resend = FALSE, !.n = 0,
                            !.work = srv.ovw \/ srv.n > 0]
<1>1. /\ srv.pc = "tx" /\ got' = got /\ nrx' = nrx /\ Queued' /\ sc.running
      /\ PlaceOk(srv) /\ Is(sc, SoftFields) /\ ChipOk(chip)
  BY DEF TxEnds, Inv, Types, Queued, drv, Working
<1>2. /\ ChipOk(c) /\ c.curr = chip.curr /\ c.mem = chip.mem /\ c.bnry = chip.bnry
      /\ "PTX" \in c.isr <=> "PTX" \in chip.isr
      /\ c.txp <=> IF srv.ovw THEN srv.resend ELSE chip.txp
  <2>1. CASE ~srv.ovw
    BY <1>1, <2>1
  <2>2. CASE srv.ovw
    <3>1. c = [chip EXCEPT !.isr = @ \ {"OVW"}, !.loop = FALSE, !.txp = srv.resend]
      BY <2>2
    <3> HIDE DEF c
    <3>2. Is(c, ChipFields)
      BY <1>1, <3>1 DEF ChipOk, Is, ChipFields
    <3>3. /\ c.health = chip.health /\ c.curr = chip.curr /\ c.mem = chip.mem /\ c.bnry = chip.bnry
          /\ c.isr = chip.isr \ {"OVW"} /\ c.txp = srv.resend
      BY <1>1, <3>1 DEF ChipOk, Is, ChipFields
    <3> QED  BY <1>1, <2>2, <3>2, <3>3 DEF ChipOk
  <2> QED  BY <2>1, <2>2
<1>3. c.txp => Held
  BY <1>1, <1>2 DEF Inv, Sending
<1>4. PlaceOk(v)
  BY <1>1 DEF Is, PlaceFields, PlaceOk
<1>5. v.pc = "send" /\ ~v.resend
  BY <1>1 DEF Is, PlaceFields, PlaceOk
<1> HIDE DEF c, v
<1>6. PlaceOk([v EXCEPT !.work = TRUE]) /\ PlaceOk([v EXCEPT !.work = FALSE])
  BY <1>4 DEF Is, PlaceFields, PlaceOk
<1>7. /\ [v EXCEPT !.work = TRUE].pc = "send" /\ ~[v EXCEPT !.work = TRUE].resend
      /\ [v EXCEPT !.work = FALSE].pc = "send" /\ ~[v EXCEPT !.work = FALSE].resend
  BY <1>4, <1>5 DEF Is, PlaceFields, PlaceOk
<1>8. srv' \in {v, [v EXCEPT !.work = TRUE], [v EXCEPT !.work = FALSE]}
  BY DEF TxEnds, c, v
<1>9. PlaceOk(srv') /\ srv'.pc = "send" /\ ~srv'.resend
  BY <1>4, <1>5, <1>6, <1>7, <1>8
<1>10. /\ ChipOk(chip') /\ Is(sc', SoftFields)
       /\ chip'.curr = chip.curr /\ chip'.mem = chip.mem /\ chip'.bnry = chip.bnry
       /\ sc'.rxnext = sc.rxnext /\ Sending'
  <2>1. CASE Done(c, sc)
    <3>1. chip' = Acked(c) /\ sc' = Reclaim(sc)
      BY <2>1 DEF TxEnds, c
    <3>2. ~c.txp
      BY <1>2, <1>3, <2>1 DEF Held, Done
    <3> QED  BY <1>1, <1>2, <1>9, <3>1, <3>2, ReclaimIs DEF Sending
  <2>2. CASE ~Done(c, sc)
    <3>1. chip' = c
      BY <2>2 DEF TxEnds, c
    <3>2. sc' \in {sc, [sc EXCEPT !.txage = @ + 1], [sc EXCEPT !.running = FALSE]}
      BY <2>2 DEF TxEnds, c
    <3>3. Is(sc', SoftFields)
      BY <1>1, <3>2 DEF Is, SoftFields
    <3>4. sc'.rxnext = sc.rxnext /\ sc'.txlen = sc.txlen /\ sc'.txcur = sc.txcur
      BY <1>1, <3>2 DEF Is, SoftFields
    <3>5. Sending'
      BY <1>1, <1>2, <1>3, <1>9, <3>1, <3>4 DEF Inv, Sending, Held
    <3> QED  BY <1>2, <3>1, <3>3, <3>4, <3>5
  <2> QED  BY <2>1, <2>2
<1>11. InRing' /\ Copying' /\ Working'
  BY <1>1, <1>9, <1>10, RingKept DEF Copying, Working
<1> QED  BY <1>1, <1>9, <1>10, <1>11 DEF Inv, Types

(* The loops over minors and turns take the first that fits.               *)
LEMMA Least ==
  ASSUME NEW S \in SUBSET Nat, S # {}
  PROVE  \E i \in S : \A j \in S : i <= j
<1>1. PICK i \in S : \A j \in S : <<j, i>> \notin OpToRel(<, Nat)
  BY NatLessThanWellFounded, WFMin, Zenon
<1>2. \A j \in S : i <= j
  <2>1. SUFFICES ASSUME NEW j \in S, j < i PROVE FALSE
    OBVIOUS
  <2>2. <<j, i>> \in Nat \X Nat /\ <<j, i>>[1] < <<j, i>>[2]
    BY <2>1
  <2>3. <<j, i>> \in OpToRel(<, Nat)
    BY <2>2, Zenon DEF OpToRel
  <2> QED  BY <1>1, <2>3, Zenon
<1> QED  BY <1>2

(* nu_send takes the next minor's frame: there is one, of a known stream.  *)
LEMMA FarIs ==
  ASSUME Steps # {}
  PROVE  Far \in Steps
<1>1. Steps \in SUBSET Nat
  BY NuAssumption DEF Steps
<1> QED  BY <1>1, Least, Zenon DEF Far

LEMMA FirstIs ==
  ASSUME NEW S \in SUBSET Minors, S # {}
  PROVE  First(S) \in S
<1>1. S \in SUBSET Nat
  BY NuAssumption DEF Minors
<1> QED  BY <1>1, Least, Zenon DEF First

LEMMA QueueIs ==
  ASSUME Inv, Steps # {}
  PROVE  /\ Turn(Far) \in Minors /\ min[Turn(Far)].q \in Streams
         /\ Head(wq[min[Turn(Far)].q]) \in Nat \ {0} /\ Tail(wq[min[Turn(Far)].q]) \in Seq(Nat \ {0})
<1>1. Far \in 1 .. NMinor /\ Queue(Turn(Far)) # <<>>
  BY FarIs DEF Steps
<1> DEFINE m == Turn(Far)
<1>2. Queued
  BY DEF Inv, Types
<1>3. nextmin + Far \in Int /\ NMinor \in Nat \ {0}
  BY <1>1, <1>2, NuAssumption DEF Queued
<1>4. m \in Minors
  BY <1>3 DEF Turn, Minors
<1>5. min[m].q # NoQ /\ wq[min[m].q] # <<>>
  BY <1>1 DEF Queue
<1> HIDE DEF m
<1>6. min[m].q \in Streams
  BY <1>2, <1>4, <1>5 DEF Queued
<1>7. wq[min[m].q] \in Seq(Nat \ {0})
  BY <1>2, <1>6 DEF Queued
<1>8. Head(wq[min[m].q]) \in Nat \ {0} /\ Tail(wq[min[m].q]) \in Seq(Nat \ {0})
  BY <1>5, <1>7
<1> QED  BY <1>4, <1>6, <1>8 DEF m

LEMMA SendKeeps ==
  ASSUME Inv, Send
  PROVE  Inv' /\ ~chip.txp
<1> DEFINE q == min[Turn(Far)].q
           f == Head(wq[q])
           t == IF sc.txlen # 0 THEN Reclaim(sc) ELSE sc
           c == IF sc.txlen # 0 THEN Acked(chip) ELSE chip
<1>1. /\ srv.pc = "send" /\ got' = got /\ nrx' = nrx /\ sc.running /\ Steps # {}
      /\ PlaceOk(srv) /\ Is(sc, SoftFields) /\ ChipOk(chip) /\ Queued
      /\ wq' = [wq EXCEPT ![q] = Tail(@)] /\ nextmin' = Turn(Far) /\ min' = min /\ ntx' = ntx
      /\ srv' = [srv EXCEPT !.tries = @ + Far, !.work = TRUE]
  BY DEF Send, CanSend, Inv, Types
<1>2. q \in Streams /\ f \in Nat \ {0} /\ Tail(wq[q]) \in Seq(Nat \ {0}) /\ Turn(Far) \in Int
  BY <1>1, QueueIs, NuAssumption DEF Minors
<1>3. sc.txlen = 0 \/ Done(chip, sc)
  BY DEF Send, NoRoom
<1>4. ~chip.txp
  BY <1>3 DEF Inv, Sending, Held, Done
<1>5. /\ ChipOk(c) /\ Is(t, SoftFields) /\ c.mem = chip.mem /\ c.curr = chip.curr
      /\ c.bnry = chip.bnry /\ t.rxnext = sc.rxnext /\ ~c.txp /\ "PTX" \notin c.isr
  BY <1>1, <1>4, ReclaimIs DEF Inv, Sending
<1>6. \/ sc' = t /\ chip' = c
      \/ sc' = [t EXCEPT !.txlen = f, !.txcur = TRUE, !.txage = 0] /\ chip' = [c EXCEPT !.buf = f, !.txp = TRUE]
  BY DEF Send
<1>7. PlaceOk(srv')
  <2>1. Is(srv', PlaceFields)
    BY <1>1 DEF Is, PlaceFields, PlaceOk
  <2>2. srv'.tries = srv.tries + Far
    BY <1>1 DEF Is, PlaceFields, PlaceOk
  <2>3. Far \in Int
    BY <1>1, FarIs DEF Steps
  <2> QED  BY <1>1, <2>1, <2>2, <2>3 DEF PlaceOk
<1>8. srv'.pc = "send" /\ srv'.resend = srv.resend
  BY <1>1 DEF Is, PlaceFields, PlaceOk
<1> HIDE DEF c, t, f, q
<1>9. Is(sc', SoftFields)
  BY <1>5, <1>6 DEF Is, SoftFields
<1>10. Is(chip', ChipFields)
  BY <1>5, <1>6 DEF ChipOk, Is, ChipFields
<1>11. /\ chip'.health = c.health /\ chip'.mem = c.mem /\ chip'.curr = c.curr
       /\ chip'.bnry = c.bnry /\ chip'.isr = c.isr
  BY <1>5, <1>6 DEF ChipOk, Is, ChipFields
<1>12. sc'.rxnext = t.rxnext
  BY <1>5, <1>6 DEF Is, SoftFields
<1>13. chip'.txp => sc'.txcur /\ sc'.txlen # 0
  <2>1. CASE chip' = c
    BY <1>5, <2>1
  <2>2. CASE sc' = [t EXCEPT !.txlen = f, !.txcur = TRUE, !.txage = 0]
    BY <1>2, <1>5, <2>2 DEF Is, SoftFields
  <2> QED  BY <1>6, <2>1, <2>2
<1>14. ChipOk(chip')
  BY <1>5, <1>10, <1>11 DEF ChipOk
<1>15. Sending'
  BY <1>1, <1>5, <1>8, <1>11, <1>13 DEF Inv, Sending, Held
<1>16. InRing' /\ Copying' /\ Working'
  BY <1>1, <1>5, <1>8, <1>11, <1>12, RingKept DEF Copying, Working
<1>17. Queued'
  <2>1. wq' \in [Streams -> Seq(Nat \ {0})]
    BY <1>1, <1>2 DEF Queued
  <2> QED  BY <1>1, <1>2, <2>1 DEF Queued
<1>18. Types'
  BY <1>1, <1>7, <1>9, <1>14, <1>17 DEF Inv, Types
<1> QED  BY <1>4, <1>15, <1>16, <1>18 DEF Inv

LEMMA SendEndsKeeps == Inv /\ SendEnds => Inv'
<1> SUFFICES ASSUME Inv, SendEnds PROVE Inv'
  OBVIOUS
<1> DEFINE v == [srv EXCEPT !.turn = @ + 1, !.tries = 0, !.n = 0]
<1>1. /\ srv.pc = "send" /\ got' = got /\ nrx' = nrx
      /\ PlaceOk(srv) /\ Is(sc, SoftFields) /\ ChipOk(chip) /\ Queued
      /\ wq' = wq /\ min' = min /\ ntx' = ntx
  BY DEF SendEnds, Inv, Types
<1>2. nextmin' \in Int
  <2>1. nextmin' = CASE ~sc.running \/ wqcnt = 0 -> nextmin
                     [] CanSend -> Turn(Far)
                     [] OTHER -> Turn(2 * NMinor - srv.tries)
    BY DEF SendEnds
  <2>2. \A i \in Int : Turn(i) \in Int
    <3>1. NMinor \in Nat \ {0}
      BY NuAssumption
    <3> QED  BY <1>1, <3>1 DEF Queued, Turn
  <2>3. CanSend => Far \in Int
    BY FarIs DEF CanSend, Steps
  <2>4. 2 * NMinor - srv.tries \in Int
    BY <1>1, NuAssumption DEF PlaceOk
  <2> QED  BY <1>1, <2>1, <2>2, <2>3, <2>4 DEF Queued
<1>3. Queued'
  BY <1>1, <1>2 DEF Queued
<1>4. PlaceOk(v)
  <2>1. Is(v, PlaceFields)
    BY <1>1 DEF Is, PlaceFields, PlaceOk
  <2>2. v.tries = 0
    BY <1>1 DEF Is, PlaceFields, PlaceOk
  <2> QED  BY <2>1, <2>2 DEF PlaceOk
<1>5. v.resend = srv.resend
  BY <1>1 DEF Is, PlaceFields, PlaceOk
<1>6. CASE PollStarts(chip, sc, v)
  <2> HIDE DEF v
  <2>1. InBuffer(chip, sc) /\ Same(chip, sc) /\ (v.resend => ~sc.running)
    BY <1>1, <1>5 DEF InBuffer, Same, Inv, Sending, Held
  <2> QED  BY <1>1, <1>3, <1>4, <1>6, <2>1, PollStartsKeeps
<1>7. CASE srv' = Rest /\ UNCHANGED <<chip, sc>>
  <2>1. PlaceOk(srv') /\ srv'.pc = "idle"
    BY <1>7 DEF Is, PlaceFields, PlaceOk, Rest
  <2>2. InRing' /\ Copying' /\ Working'
    BY <1>1, <1>7, <2>1, RingKept DEF Copying, Working
  <2>3. Sending'
    BY <1>7, <2>1 DEF Inv, Sending, Held
  <2> QED  BY <1>1, <1>3, <1>7, <2>1, <2>2, <2>3 DEF Inv, Types
<1> QED  BY <1>6, <1>7 DEF SendEnds

-----------------------------------------------------------------------------
(* Every step keeps it, and does what FramesWhole asks.                    *)

NewFrame ==
  got' # got =>
    /\ \A i \in DOMAIN got' : got'[i].f = got'[1].f /\ got'[i].k = i - 1
    /\ Len(got') = got'[1].n
    /\ got # <<>> => got'[1].f > got[1].f
OldBuffer == chip'.buf # chip.buf => ~chip.txp

LEMMA NextKeeps == Inv /\ [Next]_vars => Inv'
<1> SUFFICES ASSUME Inv, [Next]_vars PROVE Inv'
  OBVIOUS
<1>1. CASE \E n \in FramePages, skip \in Skips : Receive(n, skip)
  BY <1>1, ReceiveKeeps
<1>2. CASE Sent \/ Fault \/ Heals
  BY <1>2, SentKeeps, FaultKeeps, HealsKeeps
<1>3. CASE Driverinfo \/ \E q \in Streams : Nuopen(q)
  BY <1>3, OpenKeeps
<1>4. CASE NuTest \/ Tick \/ Second
  BY <1>4, NuTestKeeps, ClockKeeps
<1>5. CASE RxLook \/ RxCopy \/ RxEnds
  BY <1>5, RxLookKeeps, RxCopyKeeps, RxEndsKeeps
<1>6. CASE TxEnds \/ Send \/ SendEnds
  BY <1>6, TxEndsKeeps, SendKeeps, SendEndsKeeps
<1>7. CASE \E q \in Streams : Nursrv(q)
  BY <1>7, NursrvKeeps
<1>8. CASE \E q \in Streams : \/ Nuclose(q) \/ Unbind(q) \/ Unitdata(q) \/ Flush(q)
                              \/ \E sap \in Saps : Bind(q, sap)
  BY <1>8, CallKeeps
<1>9. CASE UNCHANGED vars
  <2>1. Queued'
    BY <1>9 DEF vars, Inv, Types, Queued
  <2> QED  BY <1>9, <2>1, QuietKeeps DEF vars
<1> QED  BY <1>1, <1>2, <1>3, <1>4, <1>5, <1>6, <1>7, <1>8, <1>9 DEF Next

(* Only RxCopy passes a frame up.                                          *)
LEMMA NextPasses == Inv /\ [Next]_vars => NewFrame
<1> SUFFICES ASSUME Inv, Next, got' # got PROVE NewFrame
  BY DEF NewFrame, vars
<1>1. RxCopy
  BY DEF Next, Receive, Sent, Fault, Heals, Driverinfo, NuTest, Tick, Second, RxLook, RxEnds,
         TxEnds, Send, SendEnds, Nursrv, Nuopen, Nuclose, Unbind, Unitdata, Flush, Bind
<1> QED  BY <1>1, RxCopyKeeps DEF NewFrame

(* Only Send puts another frame in the buffer.                             *)
LEMMA NextLeaves == Inv /\ [Next]_vars => OldBuffer
<1> SUFFICES ASSUME Inv, Next, chip'.buf # chip.buf PROVE ~chip.txp
  BY DEF OldBuffer, vars
<1>0. ChipOk(chip) /\ Is(sc, SoftFields)
  BY DEF Inv, Types
<1>1. CASE Send
  BY <1>1, SendKeeps
<1>2. CASE \E n \in FramePages, skip \in Skips : Receive(n, skip)
  <2>1. PICK n \in FramePages, skip \in Skips : Receive(n, skip)
    BY <1>2
  <2>2. \E mem, curr, isr : chip' = [chip EXCEPT !.isr = isr] \/ chip' = [chip EXCEPT !.curr = curr, !.mem = mem]
    BY <2>1, Zenon DEF Receive
  <2> QED  BY <1>0, <2>2 DEF ChipOk, Is, ChipFields
<1>3. CASE Sent \/ Fault \/ Heals
  BY <1>0, <1>3 DEF Sent, Fault, Breaks, Strays, Garbles, Forgets, Heals, ChipOk, Is, ChipFields
<1>4. CASE Driverinfo \/ \E q \in Streams : Nuopen(q)
  <2>1. chip' = chip \/ chip' = ChipInit(chip)
    BY <1>4 DEF Driverinfo, Nuopen, Linit
  <2> QED  BY <1>0, <2>1, InitIs
<1>5. CASE NuTest
  <2>1. chip' = chip \/ chip' = ChipInit(chip)
    BY <1>5 DEF NuTest
  <2> QED  BY <1>0, <2>1, InitIs
<1>6. CASE RxLook
  <2> DEFINE h == chip.mem[sc.rxnext]
  <2>1. chip.curr \in Pages
    BY <1>6 DEF RxLook
  <2>2. PICK y \in Pages : Read(y)
    BY <1>6, <2>1 DEF RxLook, Sensible
  <2> QED  BY <2>2, ReadIs
<1>7. CASE RxCopy
  <2>1. Read(chip.mem[sc.rxnext].nxt) /\ chip.mem[sc.rxnext].nxt \in Pages
    BY <1>7 DEF RxCopy, Inv, Copying, Sensible
  <2> QED  BY <2>1, ReadIs
<1>8. CASE TxEnds
  <2> DEFINE c == IF srv.ovw THEN [chip EXCEPT !.isr = @ \ {"OVW"}, !.loop = FALSE, !.txp = srv.resend]
                  ELSE chip
  <2>1. chip' = c \/ chip' = Acked(c)
    BY <1>8, Zenon DEF TxEnds
  <2>2. c.buf = chip.buf /\ Is(c, ChipFields)
    BY <1>0 DEF ChipOk, Is, ChipFields
  <2> HIDE DEF c
  <2>3. Acked(c).buf = c.buf
    BY <2>2 DEF Acked, Is, ChipFields
  <2> QED  BY <2>1, <2>2, <2>3
<1>9. CASE \E q \in Streams : Nursrv(q)
  <2>1. PICK q \in Streams : Nursrv(q)
    BY <1>9
  <2> DEFINE v == [Rest EXCEPT !.q = q]
  <2>2. \/ chip' = chip
        \/ \E c \in {chip, Reprobed(chip)} : PollStarts(ChipInit(c), Told(ScInit(c, sc)), v)
        \/ PollStarts(chip, sc, v)
    BY <2>1 DEF Nursrv
  <2> HIDE DEF v
  <2>3. ASSUME NEW c, c.buf = chip.buf, NEW t, PollStarts(c, t, v), ChipOk(c) PROVE chip'.buf = chip.buf
    BY <2>3 DEF PollStarts, ChipOk, Is, ChipFields
  <2>4. ASSUME NEW c \in {chip, Reprobed(chip)}
        PROVE  ChipOk(c) /\ c.buf = chip.buf
    <3>1. CASE c = chip
      BY <1>0, <3>1
    <3>2. CASE c = Reprobed(chip)
      <4>1. c = [chip EXCEPT !.health = IF @ = "stuck" THEN "ok" ELSE @]
        BY <3>2 DEF Reprobed
      <4>2. Is(c, ChipFields)
        BY <1>0, <4>1 DEF ChipOk, Is, ChipFields
      <4>3. c.health \in {"ok", chip.health} /\ c.curr = chip.curr /\ c.mem = chip.mem /\ c.buf = chip.buf
        BY <1>0, <4>1 DEF ChipOk, Is, ChipFields
      <4> QED  BY <1>0, <4>2, <4>3 DEF ChipOk
    <3> QED  BY <3>1, <3>2
  <2> QED  BY <1>0, <2>2, <2>3, <2>4, InitIs
<1>10. CASE SendEnds
  <2> DEFINE v == [srv EXCEPT !.turn = @ + 1, !.tries = 0, !.n = 0]
  <2>1. chip' = chip \/ PollStarts(chip, sc, v)
    BY <1>10 DEF SendEnds
  <2> HIDE DEF v
  <2> QED  BY <1>0, <2>1 DEF PollStarts, ChipOk, Is, ChipFields
<1>11. CASE chip' = chip
  BY <1>11
<1>12. CASE Tick \/ Second \/ RxEnds
            \/ \E q \in Streams : Nuclose(q) \/ Unbind(q) \/ Unitdata(q) \/ Flush(q) \/ \E sap \in Saps : Bind(q, sap)
  BY <1>12 DEF Tick, Second, RxEnds, Nuclose, Unbind, Unitdata, Flush, Bind
<1> QED  BY <1>1, <1>2, <1>3, <1>4, <1>5, <1>6, <1>7, <1>8, <1>9, <1>10, <1>11, <1>12 DEF Next

(* What comes up is a whole frame, each once and in the order they came,   *)
(* and the chip is left the frame it sends: nuchip.c's ring and transmit   *)
(* buffer, for any ring, burst and frames, and whatever goes wrong.        *)
THEOREM FramesKept == Spec => FramesWhole
<1>1. Inv /\ [Next]_vars => NewFrame /\ OldBuffer
  BY NextPasses, NextLeaves
<1>2. Inv /\ [Next]_vars => [NewFrame]_vars /\ [OldBuffer]_vars
  BY <1>1
<1> QED  BY <1>2, InitInv, NextKeeps, PTL DEF Spec, FramesWhole, RxSound, TxUndisturbed, NewFrame, OldBuffer

-----------------------------------------------------------------------------
(* The write queues: what is counted, and who is polled.                   *)

Places(w) == UNION {{q} \X DOMAIN w[q] : q \in Streams}
Queues == [Streams -> Seq(Nat \ {0})]
CountedIn(w, n) == IsFiniteSet(Places(w)) /\ n = Cardinality(Places(w))
Counted == CountedIn(wq, wqcnt)
Polled ==
  /\ pollq = NoQ => \A m \in Minors : min[m].q = NoQ
  /\ pollq # NoQ => \E m \in Minors : min[m].q = pollq

LEMMA PlaceIs ==
  ASSUME NEW w \in Queues, NEW q, NEW i
  PROVE  <<q, i>> \in Places(w) <=> q \in Streams /\ i \in 1 .. Len(w[q])
<1>1. <<q, i>> \in Places(w) <=> \E p \in Streams : <<q, i>> \in {p} \X DOMAIN w[p]
  BY Zenon DEF Places
<1>2. \A p \in Streams : <<q, i>> \in {p} \X DOMAIN w[p] <=> q = p /\ i \in DOMAIN w[p]
  OBVIOUS
<1>3. \A p \in Streams : DOMAIN w[p] = 1 .. Len(w[p])
  BY DEF Queues
<1> QED  BY <1>1, <1>2, <1>3

LEMMA PlacePair ==
  ASSUME NEW w, NEW x \in Places(w)
  PROVE  x = <<x[1], x[2]>>
<1>1. PICK p \in Streams : x \in {p} \X DOMAIN w[p]
  BY Zenon DEF Places
<1> QED  BY <1>1

LEMMA SamePairs ==
  ASSUME NEW A, NEW B, \A x \in A : x = <<x[1], x[2]>>, \A x \in B : x = <<x[1], x[2]>>,
         \A p, i : <<p, i>> \in A <=> <<p, i>> \in B
  PROVE  A = B
<1>1. ASSUME NEW x \in A PROVE x \in B
  <2>1. x = <<x[1], x[2]>>
    BY <1>1
  <2>2. <<x[1], x[2]>> \in A
    BY <1>1, <2>1, Zenon
  <2> QED  BY <2>1, <2>2, Zenon
<1>2. ASSUME NEW x \in B PROVE x \in A
  <2>1. x = <<x[1], x[2]>>
    BY <1>2
  <2>2. <<x[1], x[2]>> \in B
    BY <1>2, <2>1, Zenon
  <2> QED  BY <2>1, <2>2, Zenon
<1> QED  BY <1>1, <1>2

(* A frame put at a queue's end is one more, one taken from its head one   *)
(* less, and a queue freed as many less as it held.                        *)
LEMMA OneMore ==
  ASSUME NEW w \in Queues, NEW q \in Streams, NEW f \in Nat \ {0}, NEW n, CountedIn(w, n)
  PROVE  CountedIn([w EXCEPT ![q] = Append(@, f)], n + 1)
<1> DEFINE u == [w EXCEPT ![q] = Append(@, f)]
           at == <<q, Len(w[q]) + 1>>
<1>1. w[q] \in Seq(Nat \ {0}) /\ Len(w[q]) \in Nat
  BY DEF Queues
<1>2. u \in Queues /\ Len(u[q]) = Len(w[q]) + 1 /\ \A p \in Streams : p # q => u[p] = w[p]
  BY <1>1 DEF Queues
<1> HIDE DEF u
<1>3. at \notin Places(w)
  BY <1>1, PlaceIs
<1>4. \A p, i : <<p, i>> \in Places(u) <=> <<p, i>> \in Places(w) \/ <<p, i>> = at
  <2>1. SUFFICES ASSUME NEW p, NEW i
                 PROVE  <<p, i>> \in Places(u) <=> <<p, i>> \in Places(w) \/ (p = q /\ i = Len(w[q]) + 1)
    BY Zenon
  <2>2. 1 .. Len(w[q]) + 1 = (1 .. Len(w[q])) \cup {Len(w[q]) + 1}
    BY <1>1
  <2> QED  BY <1>1, <1>2, <2>2, PlaceIs
<1>5. Places(u) = Places(w) \cup {at}
  <2>1. \A x \in Places(w) \cup {at} : x = <<x[1], x[2]>>
    BY PlacePair
  <2>2. \A p, i : <<p, i>> \in Places(u) <=> <<p, i>> \in Places(w) \cup {at}
    BY <1>4, Zenon
  <2> QED  BY <2>1, <2>2, PlacePair, SamePairs
<1>6. /\ IsFiniteSet(Places(w) \cup {at})
      /\ Cardinality(Places(w) \cup {at}) = IF at \in Places(w) THEN Cardinality(Places(w)) ELSE Cardinality(Places(w)) + 1
  BY FS_AddElement, Zenon DEF CountedIn
<1> HIDE DEF at
<1> QED  BY <1>3, <1>5, <1>6 DEF CountedIn, u

LEMMA OneLess ==
  ASSUME NEW w \in Queues, NEW q \in Streams, w[q] # <<>>, NEW n, CountedIn(w, n)
  PROVE  CountedIn([w EXCEPT ![q] = Tail(@)], n - 1)
<1> DEFINE u == [w EXCEPT ![q] = Tail(@)]
           at == <<q, Len(w[q])>>
<1>1. w[q] \in Seq(Nat \ {0}) /\ Len(w[q]) \in Nat \ {0}
  BY DEF Queues
<1>2. u \in Queues /\ Len(u[q]) = Len(w[q]) - 1 /\ \A p \in Streams : p # q => u[p] = w[p]
  BY <1>1 DEF Queues
<1> HIDE DEF u
<1>3. at \in Places(w)
  BY <1>1, PlaceIs
<1>4. \A p, i : <<p, i>> \in Places(u) <=> <<p, i>> \in Places(w) /\ <<p, i>> # at
  <2>1. SUFFICES ASSUME NEW p, NEW i
                 PROVE  <<p, i>> \in Places(u) <=> <<p, i>> \in Places(w) /\ ~(p = q /\ i = Len(w[q]))
    BY Zenon
  <2>2. 1 .. Len(w[q]) - 1 = (1 .. Len(w[q])) \ {Len(w[q])}
    BY <1>1
  <2> QED  BY <1>1, <1>2, <2>2, PlaceIs
<1>5. Places(u) = Places(w) \ {at}
  <2>1. \A x \in Places(w) \ {at} : x = <<x[1], x[2]>>
    BY PlacePair
  <2>2. \A p, i : <<p, i>> \in Places(u) <=> <<p, i>> \in Places(w) \ {at}
    BY <1>4, Zenon
  <2> QED  BY <2>1, <2>2, PlacePair, SamePairs
<1>6. /\ IsFiniteSet(Places(w) \ {at})
      /\ Cardinality(Places(w) \ {at}) = IF at \in Places(w) THEN Cardinality(Places(w)) - 1 ELSE Cardinality(Places(w))
  BY FS_RemoveElement, Zenon DEF CountedIn
<1> HIDE DEF at
<1> QED  BY <1>3, <1>5, <1>6 DEF CountedIn, u

LEMMA AllLess ==
  ASSUME NEW w \in Queues, NEW q \in Streams, NEW n, CountedIn(w, n)
  PROVE  CountedIn([w EXCEPT ![q] = <<>>], n - Len(w[q]))
<1> DEFINE u == [w EXCEPT ![q] = <<>>]
           own == {q} \X (1 .. Len(w[q]))
<1>1. w[q] \in Seq(Nat \ {0}) /\ Len(w[q]) \in Nat
  BY DEF Queues
<1>2. u \in Queues /\ Len(u[q]) = 0 /\ \A p \in Streams : p # q => u[p] = w[p]
  BY <1>1 DEF Queues
<1> HIDE DEF u
<1>3. \A p, i : <<p, i>> \in own <=> p = q /\ i \in 1 .. Len(w[q])
  OBVIOUS
<1>4. \A p, i : <<p, i>> \in Places(u) <=> <<p, i>> \in Places(w) /\ <<p, i>> \notin own
  <2>1. SUFFICES ASSUME NEW p, NEW i
                 PROVE  <<p, i>> \in Places(u) <=> <<p, i>> \in Places(w) /\ ~(p = q /\ i \in 1 .. Len(w[q]))
    BY <1>3, Zenon
  <2> QED  BY <1>1, <1>2, PlaceIs
<1>5. \A p, i : <<p, i>> \in own => <<p, i>> \in Places(w)
  BY <1>3, PlaceIs
<1>6. \A x \in own : x = <<x[1], x[2]>>
  OBVIOUS
<1>7. IsFiniteSet(own) /\ Cardinality(own) = Len(w[q])
  <2>1. IsFiniteSet({q}) /\ Cardinality({q}) = 1
    BY FS_Singleton, Zenon
  <2>2. IsFiniteSet(1 .. Len(w[q])) /\ Cardinality(1 .. Len(w[q])) = Len(w[q])
    BY <1>1, FS_Interval
  <2>3. IsFiniteSet(own) /\ Cardinality(own) = Cardinality({q}) * Cardinality(1 .. Len(w[q]))
    BY <2>1, <2>2, FS_Product, Zenon
  <2> QED  BY <1>1, <2>1, <2>2, <2>3
<1> HIDE DEF own
<1>8. Places(u) = Places(w) \ own
  <2>1. \A x \in Places(w) \ own : x = <<x[1], x[2]>>
    BY PlacePair
  <2>2. \A p, i : <<p, i>> \in Places(u) <=> <<p, i>> \in Places(w) \ own
    BY <1>4, Zenon
  <2> QED  BY <2>1, <2>2, PlacePair, SamePairs
<1>9. Places(w) \cap own = own
  <2>1. \A x \in Places(w) \cap own : x = <<x[1], x[2]>>
    BY PlacePair
  <2>2. \A p, i : <<p, i>> \in Places(w) \cap own <=> <<p, i>> \in own
    BY <1>5, Zenon
  <2> QED  BY <1>6, <2>1, <2>2, SamePairs
<1>10. /\ IsFiniteSet(Places(w) \ own)
       /\ Cardinality(Places(w) \ own) = Cardinality(Places(w)) - Cardinality(Places(w) \cap own)
  BY FS_Difference, Zenon DEF CountedIn
<1> QED  BY <1>7, <1>8, <1>9, <1>10 DEF CountedIn, u

LEMMA QueuesInit == Init => Counted /\ Polled
<1> SUFFICES ASSUME Init PROVE Counted /\ Polled
  OBVIOUS
<1>1. wq = [q \in Streams |-> <<>>] /\ wqcnt = 0
  BY DEF Init
<1>2. Places(wq) = {}
  <2>1. wq \in Queues /\ \A q \in Streams : Len(wq[q]) = 0
    BY <1>1 DEF Queues
  <2>2. \A x : x \notin Places(wq)
    <3>1. SUFFICES ASSUME NEW x \in Places(wq) PROVE FALSE
      OBVIOUS
    <3>2. <<x[1], x[2]>> \in Places(wq)
      BY <3>1, PlacePair, Zenon
    <3>3. x[1] \in Streams /\ x[2] \in 1 .. Len(wq[x[1]])
      BY <2>1, <3>2, PlaceIs, Zenon
    <3> QED  BY <2>1, <3>3
  <2> QED  BY <2>2, Zenon
<1>3. Counted
  BY <1>1, <1>2, FS_EmptySet DEF Counted, CountedIn
<1>4. Polled
  BY DEF Init, Polled, NoMinor
<1> QED  BY <1>3, <1>4

LEMMA QueuesKept == Inv /\ Counted /\ Polled /\ [Next]_vars => Counted' /\ Polled'
<1> SUFFICES ASSUME Inv, Counted, Polled, [Next]_vars PROVE Counted' /\ Polled'
  OBVIOUS
<1>0. Queued /\ wq \in Queues
  BY DEF Inv, Types, Queued, Queues
<1>1. CASE UNCHANGED <<min, pollq, wq, wqcnt>>
  BY <1>1 DEF Counted, Polled
<1>2. CASE Send
  <2>1. /\ Steps # {} /\ UNCHANGED <<min, pollq>> /\ wqcnt' = wqcnt - 1
        /\ wq' = [wq EXCEPT ![min[Turn(Far)].q] = Tail(@)]
    BY <1>2 DEF Send, CanSend
  <2>2. Queue(Turn(Far)) # <<>> /\ min[Turn(Far)].q \in Streams
    BY <2>1, FarIs, QueueIs DEF Steps
  <2>3. min[Turn(Far)].q # NoQ /\ wq[min[Turn(Far)].q] # <<>>
    BY <2>2 DEF Queue
  <2>4. Counted'
    BY <1>0, <2>1, <2>2, <2>3, OneLess, Zenon DEF Counted
  <2> QED  BY <2>1, <2>4 DEF Polled
<1>3. ASSUME NEW q \in Streams, Nuopen(q)
      PROVE  Counted' /\ Polled'
  <2> DEFINE k == First(FreeMinors)
  <2>1. /\ UNCHANGED <<wq, wqcnt>> /\ FreeMinors # {}
        /\ min' = [min EXCEPT ![k] = [NoMinor EXCEPT !.q = q]]
        /\ pollq' = IF pollq = NoQ THEN q ELSE pollq
    BY <1>3 DEF Nuopen
  <2>2. k \in Minors /\ min[k].q = NoQ
    BY <2>1, FirstIs DEF FreeMinors
  <2> HIDE DEF k
  <2>3. q # NoQ
    BY NuAssumption
  <2>4. \A m \in Minors : min'[m].q = IF m = k THEN q ELSE min[m].q
    BY <1>0, <2>1 DEF Queued, NoMinor
  <2>5. Polled'
    BY <2>1, <2>2, <2>3, <2>4 DEF Polled
  <2> QED  BY <2>1, <2>5 DEF Counted
<1>4. ASSUME NEW q \in Streams, Nuclose(q)
      PROVE  Counted' /\ Polled'
  <2> DEFINE others == {m \in Minors : min[m].q \notin {q, NoQ}}
  <2>1. /\ wq' = [wq EXCEPT ![q] = <<>>] /\ wqcnt' = wqcnt - Len(wq[q])
        /\ min' = [m \in Minors |-> IF min[m].q = q THEN NoMinor ELSE min[m]]
        /\ pollq' = HandOver(q)
    BY <1>4 DEF Nuclose
  <2>2. Counted'
    BY <1>0, <2>1, AllLess, Zenon DEF Counted
  <2>3. \A m \in Minors : min'[m].q = IF min[m].q = q THEN NoQ ELSE min[m].q
    BY <2>1 DEF NoMinor
  <2>4. others # {} => First(others) \in Minors /\ min[First(others)].q \notin {q, NoQ}
    BY FirstIs
  <2>5. others = {} => \A m \in Minors : min'[m].q = NoQ
    BY <2>3
  <2>6. CASE pollq # q
    <3>1. pollq' = pollq
      BY <2>1, <2>6 DEF HandOver
    <3> QED  BY <2>2, <2>3, <2>6, <3>1 DEF Polled
  <2>7. CASE pollq = q /\ others # {}
    <3>1. pollq' = min[First(others)].q
      BY <2>1, <2>7 DEF HandOver
    <3> QED  BY <2>2, <2>3, <2>4, <2>7, <3>1 DEF Polled
  <2>8. CASE pollq = q /\ others = {}
    <3>1. pollq' = NoQ
      BY <2>1, <2>8 DEF HandOver
    <3> QED  BY <2>2, <2>5, <2>8, <3>1 DEF Polled
  <2> QED  BY <2>6, <2>7, <2>8
<1>5. ASSUME NEW q \in Streams, (\E sap \in Saps : Bind(q, sap)) \/ Unbind(q)
      PROVE  Counted' /\ Polled'
  <2>1. UNCHANGED <<wq, wqcnt, pollq>>
    BY <1>5 DEF Bind, Unbind
  <2>2. \A m \in Minors : min'[m].q = min[m].q
    <3>1. PICK k \in Minors : /\ min[k].q = q
                              /\ \/ \E sap : min' = [min EXCEPT ![k].idle = TRUE, ![k].sap = sap]
                                 \/ min' = [min EXCEPT ![k] = [NoMinor EXCEPT !.q = q]]
      BY <1>5 DEF Bind, Unbind, MinorOf
    <3>2. Is(min[k], MinorFields) /\ DOMAIN min = Minors
      BY <1>0, <3>1 DEF Queued
    <3>3. CASE min' = [min EXCEPT ![k] = [NoMinor EXCEPT !.q = q]]
      BY <3>1, <3>2, <3>3 DEF NoMinor
    <3>4. ASSUME NEW sap, min' = [min EXCEPT ![k].idle = TRUE, ![k].sap = sap]
          PROVE  \A m \in Minors : min'[m].q = min[m].q
      <4>1. \A m \in Minors : m # k => min'[m] = min[m]
        BY <3>2, <3>4
      <4>2. min'[k].q = min[k].q
        BY <3>1, <3>2, <3>4 DEF Is, MinorFields
      <4> QED  BY <4>1, <4>2
    <3> QED  BY <3>1, <3>3, <3>4
  <2> QED  BY <2>1, <2>2 DEF Counted, Polled
<1>6. ASSUME NEW q \in Streams, Unitdata(q)
      PROVE  Counted' /\ Polled'
  <2>1. UNCHANGED <<min, pollq>> /\ ntx + 1 \in Nat \ {0}
    BY <1>0, <1>6 DEF Unitdata, Queued
  <2>2. \/ UNCHANGED <<wq, wqcnt>>
        \/ wq' = [wq EXCEPT ![q] = Append(@, ntx + 1)] /\ wqcnt' = wqcnt + 1
    BY <1>6 DEF Unitdata
  <2>3. CountedIn([wq EXCEPT ![q] = Append(@, ntx + 1)], wqcnt + 1)
    BY <1>0, <2>1, OneMore DEF Counted
  <2>4. Counted'
    BY <2>2, <2>3 DEF Counted
  <2> QED  BY <2>1, <2>4 DEF Polled
<1>7. ASSUME NEW q \in Streams, Flush(q)
      PROVE  Counted' /\ Polled'
  <2>1. UNCHANGED <<min, pollq>> /\ wq' = [wq EXCEPT ![q] = <<>>] /\ wqcnt' = wqcnt - Len(wq[q])
    BY <1>7 DEF Flush, Flushed
  <2>2. Counted'
    BY <1>0, <2>1, AllLess, Zenon DEF Counted
  <2> QED  BY <2>1, <2>2 DEF Polled
<1>8. \/ UNCHANGED <<min, pollq, wq, wqcnt>> \/ Send
      \/ \E q \in Streams : \/ Nuopen(q) \/ Nuclose(q) \/ Unbind(q) \/ Unitdata(q) \/ Flush(q)
                            \/ \E sap \in Saps : Bind(q, sap)
  BY DEF vars, drv, Next, Receive, Sent, Fault, Heals, Driverinfo, NuTest, Tick, Second, RxLook,
         RxCopy, RxEnds, TxEnds, SendEnds, Nursrv
<1> QED  BY <1>1, <1>2, <1>3, <1>4, <1>5, <1>6, <1>7, <1>8

(* The count of frames waiting, on which nu_send's loop and its early      *)
(* return rest, is always the number on the queues, through sends, flushes *)
(* and closes; and while a stream is open the tick polls through one that  *)
(* is: nu.c's if_wqcnt and nu_pollq, for any number of streams and minors. *)
THEOREM QueuesAlways == Spec => []QueuesSound
<1>1. Init => Inv /\ Counted /\ Polled
  BY InitInv, QueuesInit
<1>2. Inv /\ Counted /\ Polled /\ [Next]_vars => Inv' /\ Counted' /\ Polled'
  BY NextKeeps, QueuesKept
<1>3. Counted /\ Polled => QueuesSound
  BY DEF Counted, CountedIn, Places, Waiting, Polled, QueuesSound, FreeMinors, MinorOf
<1> QED  BY <1>1, <1>2, <1>3, PTL DEF Spec
=============================================================================
