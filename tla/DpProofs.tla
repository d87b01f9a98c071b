----------------------------- MODULE DpProofs -----------------------------
(***************************************************************************)
(* Theorems of Dp, for any processes, streams, minors, frames and bounds.  *)
(***************************************************************************)
EXTENDS Dp, TLAPS, NaturalsInduction, WellFoundedInduction, FiniteSetTheorems

-----------------------------------------------------------------------------
(* The driver's record s, n frames having been sent down                   *)

Queues == [Streams -> Seq(1 .. MaxFrames)]
Places(w) == UNION {{q} \X DOMAIN w[q] : q \in Streams}
Kind(q, c) == {i \in DOMAIN q : q[i] = c}
Asyncs(q) == Kind(q, "async")
Syncs(q) == Kind(q, "sync")

One(s) == IF s.busy THEN \E i \in DOMAIN s.q : Asyncs(s.q) = {i} ELSE Asyncs(s.q) = {}
Runs(s) == s.q # <<>> => s.active
Intact(s) == s.busy /\ s.op = "tx" => s.sends = s.tx.id /\ s.tx # NoTx
Fifo(s) ==
  \A o \in Streams :
    /\ \A i, j \in DOMAIN s.wq[o] : i < j => s.wq[o][i] < s.wq[o][j]
    /\ s.tx.q = o => \A i \in DOMAIN s.wq[o] : s.tx.id < s.wq[o][i]
Known(s, n) ==
  /\ \A o \in Streams : \A i \in DOMAIN s.wq[o] : s.wq[o][i] <= n
  /\ s.tx.id <= n
Counted(s) ==
  /\ IsFiniteSet(Places(s.wq)) /\ Cardinality(Places(s.wq)) <= s.wqcnt
  /\ s.flushed \/ s.wqcnt = Cardinality(Places(s.wq))
Core(s, n) ==
  /\ s \in Driver /\ s.op # "mac"
  /\ One(s) /\ Runs(s) /\ Intact(s) /\ Fifo(s) /\ Known(s, n) /\ Counted(s)

Due(s) == s.tx # NoTx \/ s.rxwant \/ s.reinit > 0
Stall(s) == s.up /\ Due(s) => s.busy
Stops(s) == s.active => s.q # <<>>
Down(s) == ~s.up => s.tx = NoTx /\ ~s.rxwant /\ ~s.busy
DriverOk(s, n) == Core(s, n) /\ Stall(s) /\ Stops(s) /\ Down(s)

(* What does not matter to Core changes.                                   *)
Same(s, t) ==
  /\ t.q = s.q /\ t.active = s.active /\ t.busy = s.busy /\ t.op = s.op /\ t.sends = s.sends
  /\ t.up = s.up /\ t.tx = s.tx /\ t.wq = s.wq /\ t.wqcnt = s.wqcnt /\ t.flushed = s.flushed
LEMMA CoreSame ==
  ASSUME NEW s, NEW t \in Driver, NEW n, Core(s, n), Same(s, t)
  PROVE  Core(t, n)
BY DEF Core, Same, One, Runs, Intact, Fifo, Known, Counted

LEMMA TxIs ==
  ASSUME NEW t \in Frames
  PROVE  t.id \in 0 .. MaxFrames /\ (t = NoTx <=> t.id = 0)
BY DpAssumption DEF Frames, NoTx

(* dpSTART: what runs is the queue                                         *)
Started(s, t) ==
  /\ t \in Driver /\ t.active = (s.q # <<>>)
  /\ t.q = s.q /\ t.busy = s.busy /\ t.op = s.op /\ t.sends = s.sends /\ t.up = s.up /\ t.tx = s.tx
  /\ t.rxwant = s.rxwant /\ t.reinit = s.reinit
  /\ t.wq = s.wq /\ t.wqcnt = s.wqcnt /\ t.flushed = s.flushed
LEMMA StartIs ==
  ASSUME NEW s \in Driver, NEW first \in BOOLEAN
  PROVE  Started(s, Start(s, first))
<1>1. CASE s.q = <<>>
  <2>1. Start(s, first) = [s EXCEPT !.active = FALSE]
    BY <1>1 DEF Start
  <2> QED  BY <1>1, <2>1 DEF Driver, Started
<1>2. CASE s.q # <<>>
  <2>1. PICK e \in 0 .. Retries : Start(s, first) = [s EXCEPT !.active = TRUE, !.errcnt = e]
    <3>1. s.errcnt \in 0 .. Retries /\ 0 \in 0 .. Retries
      BY DpAssumption DEF Driver
    <3>2. Start(s, first) = [s EXCEPT !.active = TRUE, !.errcnt = IF first THEN 0 ELSE s.errcnt]
      BY <1>2 DEF Start
    <3> QED  BY <3>1, <3>2
  <2> QED  BY <1>2, <2>1 DEF Driver, Started
<1> QED  BY <1>1, <1>2

(* At the queue's end                                                      *)
Queued(s, which, start, t) ==
  /\ t \in Driver /\ t.q = Append(s.q, which) /\ t.active = (s.active \/ start)
  /\ t.busy = s.busy /\ t.op = s.op /\ t.sends = s.sends /\ t.up = s.up /\ t.tx = s.tx
  /\ t.rxwant = s.rxwant /\ t.reinit = s.reinit
  /\ t.wq = s.wq /\ t.wqcnt = s.wqcnt /\ t.flushed = s.flushed
LEMMA QueueIs ==
  ASSUME NEW s \in Driver, NEW which \in {"async", "sync"}, NEW start \in BOOLEAN
  PROVE  Queued(s, which, start, Queue(s, which, start))
<1> DEFINE a == Append(s.q, which)
           t == [s EXCEPT !.q = a]
<1>1. s.q \in Seq({"async", "sync"}) /\ s.active \in BOOLEAN
  BY DEF Driver
<1>2. a \in Seq({"async", "sync"}) /\ a # <<>>
  BY <1>1
<1>4. Queue(s, which, start) = IF start /\ ~t.active THEN Start(t, TRUE) ELSE t
  BY DEF Queue
<1>8. a = Append(s.q, which)
  OBVIOUS
<1> HIDE DEF a
<1>7. t \in Driver /\ t.q = a
  BY <1>2 DEF Driver
<1>3. /\ t.active = s.active /\ t.busy = s.busy /\ t.op = s.op /\ t.sends = s.sends /\ t.up = s.up
      /\ t.tx = s.tx /\ t.rxwant = s.rxwant /\ t.reinit = s.reinit
      /\ t.wq = s.wq /\ t.wqcnt = s.wqcnt /\ t.flushed = s.flushed
  BY DEF Driver
<1> HIDE DEF t
<1>5. CASE start /\ ~t.active
  <2>1. Queue(s, which, start) = Start(t, TRUE)
    BY <1>4, <1>5
  <2>2. start = TRUE
    BY <1>5
  <2>3. Started(t, Queue(s, which, start))
    <3>1. Started(t, Start(t, TRUE))
      BY <1>7, StartIs
    <3> QED  BY <2>1, <3>1
  <2> QED  BY <1>2, <1>3, <1>7, <1>8, <2>2, <2>3 DEF Started, Queued
<1>6. CASE ~(start /\ ~t.active)
  BY <1>1, <1>3, <1>4, <1>6, <1>7, <1>8 DEF Queued
<1> QED  BY <1>5, <1>6

LEMMA AppendKind ==
  ASSUME NEW q \in Seq({"async", "sync"}), NEW which \in {"async", "sync"}, NEW c
  PROVE  /\ which = c /\ Kind(q, c) = {} => Kind(Append(q, which), c) = {Len(q) + 1}
         /\ which # c => Kind(Append(q, which), c) = Kind(q, c)
         /\ Len(q) + 1 \in DOMAIN Append(q, which)
         /\ DOMAIN q \subseteq DOMAIN Append(q, which)
<1> DEFINE r == Append(q, which)
<1>1. /\ DOMAIN q = 1 .. Len(q) /\ DOMAIN r = 1 .. Len(q) + 1 /\ Len(q) \in Nat
      /\ r[Len(q) + 1] = which /\ \A i \in 1 .. Len(q) : r[i] = q[i]
  OBVIOUS
<1> HIDE DEF r
<1>2. \A i : i \in Kind(r, c) <=> i \in 1 .. Len(q) + 1 /\ (IF i = Len(q) + 1 THEN which = c ELSE q[i] = c)
  BY <1>1 DEF Kind
<1>3. \A i : i \in Kind(q, c) <=> i \in 1 .. Len(q) /\ q[i] = c
  BY <1>1 DEF Kind
<1>4. which = c /\ Kind(q, c) = {} => Kind(r, c) = {Len(q) + 1}
  BY <1>1, <1>2, <1>3
<1>5. which # c => Kind(r, c) = Kind(q, c)
  <2>1. which # c => \A i : i \in Kind(r, c) <=> i \in Kind(q, c)
    BY <1>1, <1>2, <1>3
  <2> QED  BY <2>1, Zenon
<1> QED  BY <1>1, <1>4, <1>5 DEF r

LEMMA AppendAsync ==
  ASSUME NEW q \in Seq({"async", "sync"}), NEW which \in {"async", "sync"}
  PROVE  /\ which = "async" /\ Asyncs(q) = {} => Asyncs(Append(q, which)) = {Len(q) + 1}
         /\ which = "sync" => Asyncs(Append(q, which)) = Asyncs(q)
         /\ Len(q) + 1 \in DOMAIN Append(q, which)
         /\ DOMAIN q \subseteq DOMAIN Append(q, which)
<1>1. "sync" # "async"
  OBVIOUS
<1> QED  BY <1>1, AppendKind DEF Asyncs

(* dp_kick: nothing, or the command that is due next                       *)
Kicked(s, start, t) ==
  /\ ~s.busy /\ s.up /\ Due(s)
  /\ t.busy /\ t.op = DueOp(s) /\ t.sends = s.tx.id
  /\ t.q = Append(s.q, "async") /\ t.active = (s.active \/ start)
  /\ t.up = s.up /\ t.tx = s.tx /\ t.rxwant = s.rxwant /\ t.reinit = s.reinit
  /\ t.wq = s.wq /\ t.wqcnt = s.wqcnt /\ t.flushed = s.flushed
LEMMA KickIs ==
  ASSUME NEW s \in Driver, NEW start \in BOOLEAN
  PROVE  /\ Kick(s, start) \in Driver
         /\ \/ Kick(s, start) = s /\ (s.busy \/ ~s.up \/ ~Due(s))
            \/ Kicked(s, start, Kick(s, start))
<1>1. s.reinit \in 0 .. 2 /\ s.tx \in Frames /\ s.busy \in BOOLEAN /\ s.up \in BOOLEAN /\ s.rxwant \in BOOLEAN
  BY DEF Driver
<1>2. s.reinit > 0 <=> s.reinit # 0
  BY <1>1
<1>3. CASE s.busy \/ ~s.up \/ (s.reinit = 0 /\ s.tx = NoTx /\ ~s.rxwant)
  BY <1>2, <1>3 DEF Kick, Due
<1>4. CASE ~(s.busy \/ ~s.up \/ (s.reinit = 0 /\ s.tx = NoTx /\ ~s.rxwant))
  <2> DEFINE u == [s EXCEPT !.busy = TRUE, !.op = DueOp(s), !.sends = s.tx.id]
  <2>1. DueOp(s) \in Ops
    BY <1>1 DEF DueOp, Ops
  <2>2. u \in Driver
    BY <1>1, <2>1, TxIs DEF Driver
  <2>3. /\ u.busy /\ u.op = DueOp(s) /\ u.sends = s.tx.id /\ u.q = s.q /\ u.active = s.active
        /\ u.up = s.up /\ u.tx = s.tx /\ u.rxwant = s.rxwant /\ u.reinit = s.reinit
        /\ u.wq = s.wq /\ u.wqcnt = s.wqcnt /\ u.flushed = s.flushed
    BY DEF Driver
  <2>4. Kick(s, start) = Queue(u, "async", start)
    BY <1>4 DEF Kick
  <2> HIDE DEF u
  <2>5. Queued(u, "async", start, Queue(u, "async", start))
    BY <2>2, QueueIs
  <2>6. Due(s)
    BY <1>2, <1>4 DEF Due
  <2> QED  BY <1>4, <2>3, <2>4, <2>5, <2>6 DEF Queued, Kicked
<1> QED  BY <1>3, <1>4

LEMMA KickKeeps ==
  ASSUME NEW s, NEW n, Core(s, n), NEW start \in BOOLEAN, start \/ s.active
  PROVE  /\ Core(Kick(s, start), n) /\ Stall(Kick(s, start))
         /\ Kick(s, start).up = s.up /\ (s.active => Kick(s, start).active)
         /\ Stops(s) => Stops(Kick(s, start))
         /\ Kick(s, start).tx = s.tx
<1> DEFINE t == Kick(s, start)
<1>1. /\ t \in Driver
      /\ \/ t = s /\ (s.busy \/ ~s.up \/ ~Due(s))
         \/ Kicked(s, start, t)
  BY KickIs DEF Core
<1> HIDE DEF t
<1>2. CASE t = s /\ (s.busy \/ ~s.up \/ ~Due(s))
  BY <1>2 DEF Stall, t
<1>3. CASE Kicked(s, start, t)
  <2>1. s \in Driver /\ s.q \in Seq({"async", "sync"}) /\ s.reinit \in 0 .. 2 /\ Asyncs(s.q) = {}
    BY <1>3 DEF Core, Driver, One, Kicked
  <2>2. One(t)
    BY <1>3, <2>1, AppendAsync DEF One, Kicked
  <2>3. Runs(t) /\ Stall(t) /\ (Stops(s) => Stops(t))
    <3>1. t.q # <<>>
      BY <1>3, <2>1 DEF Kicked
    <3> QED  BY <1>3, <3>1 DEF Kicked, Runs, Stall, Stops
  <2>4. Intact(t) /\ t.op # "mac"
    BY <1>3, <2>1 DEF Kicked, Intact, DueOp
  <2>5. Fifo(t) /\ Known(t, n) /\ Counted(t)
    BY <1>3 DEF Kicked, Core, Fifo, Known, Counted
  <2>6. Core(t, n)
    BY <1>1, <2>2, <2>3, <2>4, <2>5 DEF Core
  <2> QED  BY <1>3, <2>3, <2>6 DEF Kicked, t
<1> QED  BY <1>1, <1>2, <1>3

-----------------------------------------------------------------------------
(* How many places the frames that wait have                               *)

CountedIn(w, n) == IsFiniteSet(Places(w)) /\ n = Cardinality(Places(w))

LEMMA PlaceIs ==
  ASSUME NEW w \in Queues, NEW q, NEW i
  PROVE  <<q, i>> \in Places(w) <=> q \in Streams /\ i \in 1 .. Len(w[q])
<1>1. <<q, i>> \in Places(w) <=> \E p \in Streams : <<q, i>> \in {p} \X DOMAIN w[p]
  BY Zenon DEF Places
<1>2. \A p \in Streams : <<q, i>> \in {p} \X DOMAIN w[p] <=> q = p /\ i \in DOMAIN w[p]
  OBVIOUS
<1>3. \A p \in Streams : DOMAIN w[p] = 1 .. Len(w[p])
  BY DEF Queues
<1> QED  BY <1>1, <1>2, <1>3

LEMMA PlacePair ==
  ASSUME NEW w, NEW x \in Places(w)
  PROVE  x = <<x[1], x[2]>>
<1>1. PICK p \in Streams : x \in {p} \X DOMAIN w[p]
  BY Zenon DEF Places
<1> QED  BY <1>1

LEMMA SamePairs ==
  ASSUME NEW A, NEW B, \A x \in A : x = <<x[1], x[2]>>, \A x \in B : x = <<x[1], x[2]>>,
         \A p, i : <<p, i>> \in A <=> <<p, i>> \in B
  PROVE  A = B
<1>1. ASSUME NEW x \in A PROVE x \in B
  <2>1. x = <<x[1], x[2]>>
    BY <1>1
  <2>2. <<x[1], x[2]>> \in A
    BY <1>1, <2>1, Zenon
  <2> QED  BY <2>1, <2>2, Zenon
<1>2. ASSUME NEW x \in B PROVE x \in A
  <2>1. x = <<x[1], x[2]>>
    BY <1>2
  <2>2. <<x[1], x[2]>> \in B
    BY <1>2, <2>1, Zenon
  <2> QED  BY <2>1, <2>2, Zenon
<1> QED  BY <1>1, <1>2

(* A frame put at a queue's end is one more, one taken from its head one   *)
(* less, and a queue freed as many less as it held.                        *)
LEMMA OneMore ==
  ASSUME NEW w \in Queues, NEW q \in Streams, NEW f \in 1 .. MaxFrames, NEW n, CountedIn(w, n)
  PROVE  CountedIn([w EXCEPT ![q] = Append(@, f)], n + 1)
<1> DEFINE u == [w EXCEPT ![q] = Append(@, f)]
           at == <<q, Len(w[q]) + 1>>
<1>1. w[q] \in Seq(1 .. MaxFrames) /\ Len(w[q]) \in Nat
  BY DEF Queues
<1>2. u \in Queues /\ Len(u[q]) = Len(w[q]) + 1 /\ \A p \in Streams : p # q => u[p] = w[p]
  BY <1>1 DEF Queues
<1> HIDE DEF u
<1>3. at \notin Places(w)
  BY <1>1, PlaceIs
<1>4. \A p, i : <<p, i>> \in Places(u) <=> <<p, i>> \in Places(w) \/ <<p, i>> = at
  <2>1. SUFFICES ASSUME NEW p, NEW i
                 PROVE  <<p, i>> \in Places(u) <=> <<p, i>> \in Places(w) \/ (p = q /\ i = Len(w[q]) + 1)
    BY Zenon
  <2>2. 1 .. Len(w[q]) + 1 = (1 .. Len(w[q])) \cup {Len(w[q]) + 1}
    BY <1>1
  <2> QED  BY <1>1, <1>2, <2>2, PlaceIs
<1>5. Places(u) = Places(w) \cup {at}
  <2>1. \A x \in Places(w) \cup {at} : x = <<x[1], x[2]>>
    BY PlacePair
  <2>2. \A p, i : <<p, i>> \in Places(u) <=> <<p, i>> \in Places(w) \cup {at}
    BY <1>4, Zenon
  <2> QED  BY <2>1, <2>2, PlacePair, SamePairs
<1>6. /\ IsFiniteSet(Places(w) \cup {at})
      /\ Cardinality(Places(w) \cup {at}) = IF at \in Places(w) THEN Cardinality(Places(w)) ELSE Cardinality(Places(w)) + 1
  BY FS_AddElement, Zenon DEF CountedIn
<1> HIDE DEF at
<1> QED  BY <1>3, <1>5, <1>6 DEF CountedIn, u

LEMMA OneLess ==
  ASSUME NEW w \in Queues, NEW q \in Streams, w[q] # <<>>, NEW n, CountedIn(w, n)
  PROVE  CountedIn([w EXCEPT ![q] = Tail(@)], n - 1)
<1> DEFINE u == [w EXCEPT ![q] = Tail(@)]
           at == <<q, Len(w[q])>>
<1>1. w[q] \in Seq(1 .. MaxFrames) /\ Len(w[q]) \in Nat \ {0}
  BY DEF Queues
<1>2. u \in Queues /\ Len(u[q]) = Len(w[q]) - 1 /\ \A p \in Streams : p # q => u[p] = w[p]
  BY <1>1 DEF Queues
<1> HIDE DEF u
<1>3. at \in Places(w)
  BY <1>1, PlaceIs
<1>4. \A p, i : <<p, i>> \in Places(u) <=> <<p, i>> \in Places(w) /\ <<p, i>> # at
  <2>1. SUFFICES ASSUME NEW p, NEW i
                 PROVE  <<p, i>> \in Places(u) <=> <<p, i>> \in Places(w) /\ ~(p = q /\ i = Len(w[q]))
    BY Zenon
  <2>2. 1 .. Len(w[q]) - 1 = (1 .. Len(w[q])) \ {Len(w[q])}
    BY <1>1
  <2> QED  BY <1>1, <1>2, <2>2, PlaceIs
<1>5. Places(u) = Places(w) \ {at}
  <2>1. \A x \in Places(w) \ {at} : x = <<x[1], x[2]>>
    BY PlacePair
  <2>2. \A p, i : <<p, i>> \in Places(u) <=> <<p, i>> \in Places(w) \ {at}
    BY <1>4, Zenon
  <2> QED  BY <2>1, <2>2, PlacePair, SamePairs
<1>6. /\ IsFiniteSet(Places(w) \ {at})
      /\ Cardinality(Places(w) \ {at}) = IF at \in Places(w) THEN Cardinality(Places(w)) - 1 ELSE Cardinality(Places(w))
  BY FS_RemoveElement, Zenon DEF CountedIn
<1> HIDE DEF at
<1> QED  BY <1>3, <1>5, <1>6 DEF CountedIn, u

LEMMA AllLess ==
  ASSUME NEW w \in Queues, NEW q \in Streams, NEW n, CountedIn(w, n)
  PROVE  CountedIn([w EXCEPT ![q] = <<>>], n - Len(w[q]))
<1> DEFINE u == [w EXCEPT ![q] = <<>>]
           own == {q} \X (1 .. Len(w[q]))
<1>1. w[q] \in Seq(1 .. MaxFrames) /\ Len(w[q]) \in Nat
  BY DEF Queues
<1>2. u \in Queues /\ Len(u[q]) = 0 /\ \A p \in Streams : p # q => u[p] = w[p]
  BY <1>1 DEF Queues
<1> HIDE DEF u
<1>3. \A p, i : <<p, i>> \in own <=> p = q /\ i \in 1 .. Len(w[q])
  OBVIOUS
<1>4. \A p, i : <<p, i>> \in Places(u) <=> <<p, i>> \in Places(w) /\ <<p, i>> \notin own
  <2>1. SUFFICES ASSUME NEW p, NEW i
                 PROVE  <<p, i>> \in Places(u) <=> <<p, i>> \in Places(w) /\ ~(p = q /\ i \in 1 .. Len(w[q]))
    BY <1>3, Zenon
  <2> QED  BY <1>1, <1>2, PlaceIs
<1>5. \A p, i : <<p, i>> \in own => <<p, i>> \in Places(w)
  BY <1>3, PlaceIs
<1>6. \A x \in own : x = <<x[1], x[2]>>
  OBVIOUS
<1>7. IsFiniteSet(own) /\ Cardinality(own) = Len(w[q])
  <2>1. IsFiniteSet({q}) /\ Cardinality({q}) = 1
    BY FS_Singleton, Zenon
  <2>2. IsFiniteSet(1 .. Len(w[q])) /\ Cardinality(1 .. Len(w[q])) = Len(w[q])
    BY <1>1, FS_Interval
  <2>3. IsFiniteSet(own) /\ Cardinality(own) = Cardinality({q}) * Cardinality(1 .. Len(w[q]))
    BY <2>1, <2>2, FS_Product, Zenon
  <2> QED  BY <1>1, <2>1, <2>2, <2>3
<1> HIDE DEF own
<1>8. Places(u) = Places(w) \ own
  <2>1. \A x \in Places(w) \ own : x = <<x[1], x[2]>>
    BY PlacePair
  <2>2. \A p, i : <<p, i>> \in Places(u) <=> <<p, i>> \in Places(w) \ own
    BY <1>4, Zenon
  <2> QED  BY <2>1, <2>2, PlacePair, SamePairs
<1>9. Places(w) \cap own = own
  <2>1. \A x \in Places(w) \cap own : x = <<x[1], x[2]>>
    BY PlacePair
  <2>2. \A p, i : <<p, i>> \in Places(w) \cap own <=> <<p, i>> \in own
    BY <1>5, Zenon
  <2> QED  BY <1>6, <2>1, <2>2, SamePairs
<1>10. /\ IsFiniteSet(Places(w) \ own)
       /\ Cardinality(Places(w) \ own) = Cardinality(Places(w)) - Cardinality(Places(w) \cap own)
  BY FS_Difference, Zenon DEF CountedIn
<1> QED  BY <1>7, <1>8, <1>9, <1>10 DEF CountedIn, u

-----------------------------------------------------------------------------
(* A function defined by its value at 0 and a step has a value wherever    *)
(* the step stays in a set.                                                *)

LEMMA Least ==
  ASSUME NEW S \in SUBSET Nat, S # {}
  PROVE  \E i \in S : \A j \in S : i <= j
<1>1. PICK i \in S : \A j \in S : <<j, i>> \notin OpToRel(<, Nat)
  BY NatLessThanWellFounded, WFMin, Zenon
<1>2. \A j \in S : i <= j
  <2>1. SUFFICES ASSUME NEW j \in S, j < i PROVE FALSE
    OBVIOUS
  <2>2. <<j, i>> \in Nat \X Nat /\ <<j, i>>[1] < <<j, i>>[2]
    BY <2>1
  <2>3. <<j, i>> \in OpToRel(<, Nat)
    BY <2>2, Zenon DEF OpToRel
  <2> QED  BY <1>1, <2>3, Zenon
<1> QED  BY <1>2

Iterate(g, a, F, N) == g = [n \in 0 .. N |-> IF n = 0 THEN a ELSE F[g[n - 1]]]

LEMMA IterateIn ==
  ASSUME NEW N \in Nat, NEW D, NEW a \in D[0], NEW F,
         \A n \in 1 .. N : \A r \in D[n - 1] : F[r] \in D[n],
         NEW g, Iterate(g, a, F, N)
  PROVE  \A n \in 0 .. N : g[n] \in D[n]
<1> DEFINE S == {n \in 0 .. N : g[n] \notin D[n]}
<1>1. SUFFICES ASSUME S # {} PROVE FALSE
  OBVIOUS
<1>2. PICK m \in S : \A j \in S : m <= j
  <2>1. S \in SUBSET Nat
    OBVIOUS
  <2> HIDE DEF S
  <2> QED  BY <1>1, <2>1, Least
<1>3. m \in 0 .. N /\ g[m] = (IF m = 0 THEN a ELSE F[g[m - 1]]) /\ g[m] \notin D[m]
  BY DEF Iterate
<1>4. m # 0
  BY <1>3
<1>5. m - 1 \in 0 .. N /\ ~(m <= m - 1) /\ m \in 1 .. N
  BY <1>3, <1>4
<1>6. g[m - 1] \in D[m - 1]
  BY <1>2, <1>5
<1> QED  BY <1>3, <1>4, <1>5, <1>6

LEMMA IterateIs ==
  ASSUME NEW D, NEW a \in D, NEW F, \A r \in D : F[r] \in D, NEW N \in Nat
  PROVE  \E g : Iterate(g, a, F, N)
<1> DEFINE Upto(g, k) == \A n \in 0 .. k : g[n] = IF n = 0 THEN a ELSE F[g[n - 1]]
           S == {k \in 0 .. N : ~ \E g \in [0 .. N -> D] : Upto(g, k)}
<1>1. S = {}
  <2>1. SUFFICES ASSUME S # {} PROVE FALSE
    OBVIOUS
  <2>2. PICK m \in S : \A j \in S : m <= j
    <3>1. S \in SUBSET Nat
      OBVIOUS
    <3> HIDE DEF S
    <3> QED  BY <2>1, <3>1, Least
  <2>3. m \in 0 .. N /\ ~ \E g \in [0 .. N -> D] : Upto(g, m)
    OBVIOUS
  <2>4. m # 0
    <3>1. [n \in 0 .. N |-> a] \in [0 .. N -> D] /\ Upto([n \in 0 .. N |-> a], 0)
      OBVIOUS
    <3> HIDE DEF Upto
    <3> QED  BY <2>3, <3>1
  <2>5. m - 1 \in 0 .. N /\ ~(m <= m - 1)
    BY <2>3, <2>4
  <2>6. m - 1 \notin S
    BY <2>2, <2>5
  <2>7. PICK g \in [0 .. N -> D] : Upto(g, m - 1)
    BY <2>5, <2>6
  <2> DEFINE h == [g EXCEPT ![m] = F[g[m - 1]]]
  <2>8. g[m - 1] \in D
    BY <2>5
  <2>9. h \in [0 .. N -> D]
    BY <2>8
  <2>10. Upto(h, m)
    <3>1. SUFFICES ASSUME NEW n \in 0 .. m PROVE h[n] = IF n = 0 THEN a ELSE F[h[n - 1]]
      OBVIOUS
    <3>2. CASE n = m
      <4>1. h[m] = F[g[m - 1]] /\ h[m - 1] = g[m - 1]
        BY <2>3, <2>5
      <4> QED  BY <2>4, <3>2, <4>1
    <3>3. CASE n # m
      <4>1. n \in 0 .. m - 1 /\ n \in 0 .. N /\ (n # 0 => n - 1 \in 0 .. N /\ n - 1 # m)
        BY <2>3, <3>3
      <4>2. h[n] = g[n] /\ (n # 0 => h[n - 1] = g[n - 1])
        BY <3>3, <4>1
      <4> QED  BY <2>7, <4>1, <4>2
    <3> QED  BY <3>2, <3>3
  <2> HIDE DEF h, Upto
  <2> QED  BY <2>3, <2>9, <2>10
<1>2. PICK g \in [0 .. N -> D] : Upto(g, N)
  <2> HIDE DEF Upto
  <2>1. N \in 0 .. N /\ N \notin S
    BY <1>1
  <2> QED  BY <2>1
<1> QED  BY <1>2 DEF Iterate

-----------------------------------------------------------------------------
(* The transmit side                                                       *)

(* dp_xmit of a frame that comes before all that its stream has waiting    *)
LEMMA XmitKeeps ==
  ASSUME NEW s, NEW n \in Nat, Core(s, n), CanXmit(s), NEW q \in Streams, NEW f \in 1 .. MaxFrames, f <= n,
         \A i \in DOMAIN s.wq[q] : f < s.wq[q][i]
  PROVE  LET t == Xmit(s, q, f)
         IN  /\ Core(t, n) /\ t.up = s.up /\ (s.active => t.active)
             /\ (Stops(s) => Stops(t)) /\ (Stall(s) => Stall(t))
<1>1. CASE f \in Bad
  BY <1>1 DEF Xmit
<1>2. CASE f \notin Bad
  <2> DEFINE x == [id |-> f, q |-> q]
             e == Passed(s, q)
             t == [s EXCEPT !.tx = x, !.passed = e]
  <2>1. x \in Frames /\ x # NoTx /\ x.id = f /\ x.q = q
    BY DEF Frames, NoTx
  <2>2. e \in [Streams -> Nat]
    BY DEF Passed, Core, Driver
  <2>3. s \in Driver /\ s.up /\ s.tx = NoTx
    BY DEF Core, CanXmit
  <2>4. Xmit(s, q, f) = Kick(t, TRUE)
    BY <1>2 DEF Xmit
  <2> HIDE DEF x, e
  <2>5. t \in Driver
    BY <2>1, <2>2, <2>3 DEF Driver
  <2>6. /\ t.tx = x /\ t.q = s.q /\ t.active = s.active /\ t.busy = s.busy /\ t.op = s.op
        /\ t.sends = s.sends /\ t.up = s.up /\ t.wq = s.wq /\ t.wqcnt = s.wqcnt /\ t.flushed = s.flushed
    BY <2>3 DEF Driver
  <2> HIDE DEF t
  <2>7. One(t) /\ Runs(t) /\ Counted(t)
    BY <2>6 DEF Core, One, Runs, Counted
  <2>8. Intact(t)
    BY <2>3, <2>6 DEF Core, Intact
  <2>9. Fifo(t) /\ Known(t, n)
    BY <2>1, <2>6 DEF Core, Fifo, Known
  <2>10. Core(t, n)
    BY <2>5, <2>6, <2>7, <2>8, <2>9 DEF Core
  <2>11. Stops(s) => Stops(t)
    BY <2>6 DEF Stops
  <2> QED  BY <2>4, <2>6, <2>10, <2>11, KickKeeps
<1> QED  BY <1>1, <1>2

LEMMA SeqElement ==
  ASSUME NEW S, NEW u \in Seq(S), NEW i \in DOMAIN u
  PROVE  u[i] \in S
OBVIOUS

LEMMA SeqParts ==
  ASSUME NEW S, NEW u \in Seq(S), u # <<>>
  PROVE  /\ Len(u) \in Nat \ {0} /\ DOMAIN u = 1 .. Len(u)
         /\ Tail(u) \in Seq(S) /\ DOMAIN Tail(u) = 1 .. Len(u) - 1
         /\ \A i \in 1 .. Len(u) - 1 : Tail(u)[i] = u[i + 1]
         /\ Head(u) = u[1] /\ Head(u) \in S
<1>1. Len(u) \in Nat \ {0} /\ DOMAIN u = 1 .. Len(u)
  OBVIOUS
<1>2. /\ Tail(u) \in Seq(S) /\ DOMAIN Tail(u) = 1 .. Len(u) - 1
      /\ \A i \in 1 .. Len(u) - 1 : Tail(u)[i] = u[i + 1]
  BY <1>1
<1>3. Head(u) = u[1] /\ Head(u) \in S
  OBVIOUS
<1> QED  BY <1>1, <1>2, <1>3

(* The first frame that waits is taken: it came before the others.         *)
LEMMA TakenKeeps ==
  ASSUME NEW s, NEW n \in Nat, Core(s, n), NEW q \in Streams, s.wq[q] # <<>>, s.wqcnt # 0
  PROVE  LET t == Taken(s, q)
             f == Head(s.wq[q])
         IN  /\ Core(t, n) /\ t.up = s.up /\ t.active = s.active /\ t.tx = s.tx
             /\ f \in 1 .. MaxFrames /\ f <= n /\ \A i \in DOMAIN t.wq[q] : f < t.wq[q][i]
<1> DEFINE w == [s.wq EXCEPT ![q] = Tail(@)]
           c == s.wqcnt - 1
           t == [s EXCEPT !.wq = w, !.wqcnt = c]
           f == Head(s.wq[q])
<1>1. s \in Driver /\ s.wq \in Queues /\ s.wqcnt \in Nat
  BY DEF Core, Driver, Queues
<1>2. Taken(s, q) = t
  BY <1>1 DEF Taken, Driver, Queues
<1>3. /\ s.wq[q] \in Seq(1 .. MaxFrames) /\ Len(s.wq[q]) \in Nat \ {0} /\ DOMAIN s.wq[q] = 1 .. Len(s.wq[q])
      /\ Tail(s.wq[q]) \in Seq(1 .. MaxFrames) /\ DOMAIN Tail(s.wq[q]) = 1 .. Len(s.wq[q]) - 1
      /\ \A i \in 1 .. Len(s.wq[q]) - 1 : Tail(s.wq[q])[i] = s.wq[q][i + 1]
      /\ f = s.wq[q][1] /\ f \in 1 .. MaxFrames
  <2>1. s.wq[q] \in Seq(1 .. MaxFrames)
    BY <1>1 DEF Queues
  <2> QED  BY <2>1, SeqParts
<1>4. w \in Queues /\ w[q] = Tail(s.wq[q]) /\ \A p \in Streams : p # q => w[p] = s.wq[p]
  BY <1>1, <1>3 DEF Queues
<1>5. c \in Nat
  BY <1>1
<1>6. CountedIn(w, Cardinality(Places(s.wq)) - 1)
  <2>1. CountedIn(s.wq, Cardinality(Places(s.wq)))
    BY DEF Core, Counted, CountedIn
  <2> QED  BY <1>1, <2>1, OneLess
<1> HIDE DEF w, f
<1>7. f <= n /\ \A i \in DOMAIN w[q] : f < w[q][i]
  <2>1. 1 \in DOMAIN s.wq[q]
    BY <1>3
  <2>2. f <= n
    BY <1>3, <2>1 DEF Core, Known
  <2>3. ASSUME NEW i \in DOMAIN w[q] PROVE f < w[q][i]
    <3>1. i + 1 \in DOMAIN s.wq[q] /\ 1 < i + 1 /\ w[q][i] = s.wq[q][i + 1]
      BY <1>3, <1>4, <2>3
    <3> QED  BY <1>3, <2>1, <3>1 DEF Core, Fifo
  <2> QED  BY <2>2, <2>3
<1>8. ASSUME NEW o \in Streams
      PROVE  /\ \A i, j \in DOMAIN w[o] : i < j => w[o][i] < w[o][j]
             /\ s.tx.q = o => \A i \in DOMAIN w[o] : s.tx.id < w[o][i]
             /\ \A i \in DOMAIN w[o] : w[o][i] <= n
  <2>1. CASE o # q
    BY <1>4, <2>1 DEF Core, Fifo, Known
  <2>2. CASE o = q
    <3>1. \A i \in DOMAIN w[q] : i \in Nat /\ i + 1 \in DOMAIN s.wq[q] /\ w[q][i] = s.wq[q][i + 1]
      BY <1>3, <1>4
    <3>2. \A i, j \in DOMAIN w[q] : i < j => i + 1 < j + 1
      BY <3>1
    <3> QED  BY <2>2, <3>1, <3>2 DEF Core, Fifo, Known
  <2> QED  BY <2>1, <2>2
<1> HIDE DEF c
<1>9. t \in Driver
  BY <1>1, <1>4, <1>5 DEF Driver, Queues
<1>10. /\ t.wq = w /\ t.wqcnt = c /\ t.tx = s.tx /\ t.q = s.q /\ t.active = s.active /\ t.busy = s.busy
       /\ t.op = s.op /\ t.sends = s.sends /\ t.up = s.up /\ t.flushed = s.flushed
  BY <1>1 DEF Driver
<1> HIDE DEF t
<1>11. One(t) /\ Runs(t) /\ Intact(t)
  BY <1>10 DEF Core, One, Runs, Intact
<1>12. Fifo(t) /\ Known(t, n)
  BY <1>8, <1>10 DEF Core, Fifo, Known
<1>13. Counted(t)
  <2>1. Cardinality(Places(s.wq)) \in Nat
    BY FS_CardinalityType DEF Core, Counted
  <2> QED  BY <1>1, <1>6, <1>10, <2>1 DEF Core, Counted, CountedIn, c
<1>14. Core(t, n)
  BY <1>9, <1>10, <1>11, <1>12, <1>13 DEF Core
<1> QED  BY <1>2, <1>3, <1>7, <1>10, <1>14 DEF f

(* en_wproc's loop while a command's end runs it                           *)
Loop(n) == {r \in [s: Driver, on: BOOLEAN] : Core(r.s, n) /\ r.s.active /\ r.s.up}
LEMMA TurnKeeps ==
  ASSUME NEW live, \A m \in Minors : live[m] \in Streams \cup {NoQ}, NEW n \in Nat, NEW r \in Loop(n)
  PROVE  Turn(live)[r] \in Loop(n)
<1> DEFINE m == (r.s.nextmin + 1) % NMinor
           q == live[m]
           u == [r.s EXCEPT !.nextmin = m]
<1>1. r \in [s: Driver, on: BOOLEAN] /\ r.s \in Driver /\ Core(r.s, n) /\ r.s.active /\ r.s.up
  BY DEF Loop
<1>2. Turn(live)[r] =
        IF ~r.on \/ r.s.wqcnt = 0 THEN r
        ELSE IF q = NoQ \/ u.wq[q] = <<>> THEN [s |-> u, on |-> TRUE]
        ELSE IF ~CanXmit(u) THEN [s |-> u, on |-> FALSE]
        ELSE [s |-> Xmit(Taken(u, q), q, Head(u.wq[q])), on |-> TRUE]
  BY <1>1 DEF Turn
<1>3. m \in Minors
  <2>1. r.s.nextmin \in Nat
    BY <1>1 DEF Driver, Minors
  <2> QED  BY <2>1, DpAssumption DEF Minors
<1>4. q \in Streams \cup {NoQ}
  BY <1>3
<1> HIDE DEF m, q
<1>5. u \in Driver
  BY <1>1, <1>3 DEF Driver
<1>6. Same(r.s, u)
  BY <1>1 DEF Driver, Same
<1> HIDE DEF u
<1>7. Core(u, n) /\ u.active /\ u.up /\ u.wqcnt = r.s.wqcnt
  BY <1>1, <1>5, <1>6, CoreSame DEF Same
<1>8. \A b \in BOOLEAN : [s |-> u, on |-> b] \in Loop(n)
  BY <1>5, <1>7 DEF Loop
<1>9. ASSUME q # NoQ, u.wq[q] # <<>>, u.wqcnt # 0, CanXmit(u)
      PROVE  [s |-> Xmit(Taken(u, q), q, Head(u.wq[q])), on |-> TRUE] \in Loop(n)
  <2> DEFINE t == Taken(u, q)
             f == Head(u.wq[q])
             x == Xmit(t, q, f)
  <2>1. q \in Streams
    BY <1>4, <1>9
  <2>2. /\ Core(t, n) /\ t.up = u.up /\ t.active = u.active /\ t.tx = u.tx
        /\ f \in 1 .. MaxFrames /\ f <= n /\ \A i \in DOMAIN t.wq[q] : f < t.wq[q][i]
    BY <1>7, <1>9, <2>1, TakenKeeps
  <2>3. CanXmit(t)
    BY <1>9, <2>2 DEF CanXmit
  <2> HIDE DEF t, f
  <2>4. Core(x, n) /\ x.up = t.up /\ (t.active => x.active)
    BY <2>1, <2>2, <2>3, XmitKeeps
  <2> HIDE DEF x
  <2>5. x \in Driver /\ x.active /\ x.up
    BY <1>7, <2>2, <2>4 DEF Core
  <2>6. [s |-> x, on |-> TRUE] \in Loop(n)
    BY <2>4, <2>5 DEF Loop
  <2> QED  BY <2>6 DEF x, t, f
<1> QED  BY <1>2, <1>7, <1>8, <1>9

LEMMA WprocIs ==
  ASSUME NEW live, \A m \in Minors : live[m] \in Streams \cup {NoQ}, NEW n \in Nat,
         NEW s, Core(s, n), s.active, s.up
  PROVE  /\ [s |-> s, on |-> TRUE] \in Loop(n)
         /\ \E g : /\ Iterate(g, [s |-> s, on |-> TRUE], Turn(live), 2 * NMinor)
                  /\ Wproc(s, live) = g[2 * NMinor].s
<1> DEFINE a == [s |-> s, on |-> TRUE]
           r[k \in 0 .. 2 * NMinor] == IF k = 0 THEN [s |-> s, on |-> TRUE] ELSE Turn(live)[r[k - 1]]
<1>1. Wproc(s, live) = r[2 * NMinor].s
  BY DEF Wproc
<1>2. r = CHOOSE g : Iterate(g, a, Turn(live), 2 * NMinor)
  BY Zenon DEF Iterate
<1>3. a \in Loop(n)
  BY DEF Loop, Core
<1>4. \A x \in Loop(n) : Turn(live)[x] \in Loop(n)
  BY TurnKeeps
<1>5. 2 * NMinor \in Nat
  BY DpAssumption
<1> HIDE DEF r, a
<1>6. \E g : Iterate(g, a, Turn(live), 2 * NMinor)
  BY <1>3, <1>4, <1>5, IterateIs
<1>7. Iterate(r, a, Turn(live), 2 * NMinor)
  BY <1>2, <1>6, Zenon
<1> QED  BY <1>1, <1>3, <1>7 DEF a

LEMMA WprocKeeps ==
  ASSUME NEW live, \A m \in Minors : live[m] \in Streams \cup {NoQ}, NEW n \in Nat,
         NEW s, Core(s, n), s.active, s.up
  PROVE  LET t == Wproc(s, live) IN Core(t, n) /\ t.active /\ t.up
<1> DEFINE a == [s |-> s, on |-> TRUE]
           N == 2 * NMinor
           D == [k \in 0 .. N |-> Loop(n)]
<1>1. N \in Nat
  BY DpAssumption
<1>2. a \in Loop(n)
  BY WprocIs
<1>3. PICK g : Iterate(g, a, Turn(live), N) /\ Wproc(s, live) = g[N].s
  BY WprocIs
<1> HIDE DEF a, N
<1>4. a \in D[0] /\ \A k \in 1 .. N : \A x \in D[k - 1] : Turn(live)[x] \in D[k]
  BY <1>1, <1>2, TurnKeeps
<1>5. D[N] = Loop(n)
  BY <1>1
<1> HIDE DEF D
<1>6. \A k \in 0 .. N : g[k] \in D[k]
  BY <1>1, <1>3, <1>4, IterateIn
<1>7. g[N] \in Loop(n)
  BY <1>1, <1>5, <1>6
<1> QED  BY <1>3, <1>7 DEF Loop

(* What the ends of the commands count does not touch the frames.          *)
LEMMA CountErrIs ==
  ASSUME NEW t \in Driver, NEW err \in BOOLEAN
  PROVE  CountErr(t, err) \in Driver /\ Same(t, CountErr(t, err))
<1> DEFINE u == CountErr(t, err)
<1>1. t.errs \in 0 .. MaxErrs /\ (~(t.errs + 1 >= MaxErrs) => t.errs + 1 \in 0 .. MaxErrs)
  BY DpAssumption DEF Driver
<1>2. \E e \in 0 .. MaxErrs, i \in 0 .. 2 : u = [t EXCEPT !.errs = e, !.reinit = i]
  <2>1. t.reinit \in 0 .. 2 /\ 0 \in 0 .. MaxErrs /\ MaxErrs \in 0 .. MaxErrs /\ 2 \in 0 .. 2
    BY DpAssumption DEF Driver
  <2>2. CASE ~err
    <3>1. u = [t EXCEPT !.errs = 0, !.reinit = t.reinit]
      BY <2>2 DEF CountErr, Driver
    <3> QED  BY <2>1, <3>1
  <2>3. CASE err /\ ~t.settled
    <3>1. u = [t EXCEPT !.errs = t.errs, !.reinit = t.reinit]
      BY <2>3 DEF CountErr, Driver
    <3> QED  BY <1>1, <2>1, <3>1
  <2>4. CASE err /\ t.settled /\ t.errs + 1 >= MaxErrs
    <3>1. u = [t EXCEPT !.errs = MaxErrs, !.reinit = 2]
      BY <2>4 DEF CountErr, Driver
    <3> QED  BY <2>1, <3>1
  <2>5. CASE err /\ t.settled /\ ~(t.errs + 1 >= MaxErrs)
    <3>1. u = [t EXCEPT !.errs = t.errs + 1, !.reinit = t.reinit]
      BY <2>5 DEF CountErr, Driver
    <3> QED  BY <1>1, <2>1, <2>5, <3>1
  <2> QED  BY <2>2, <2>3, <2>4, <2>5
<1>3. PICK e \in 0 .. MaxErrs, i \in 0 .. 2 : u = [t EXCEPT !.errs = e, !.reinit = i]
  BY <1>2
<1> HIDE DEF u
<1>4. u \in Driver
  BY <1>3 DEF Driver
<1>5. Same(t, u)
  BY <1>3 DEF Same, Driver
<1> QED  BY <1>4, <1>5 DEF u

LEMMA ReinitDoneIs ==
  ASSUME NEW t \in Driver
  PROVE  ReinitDone(t) \in Driver /\ Same(t, ReinitDone(t))
<1> DEFINE x == ReinitDone(t)
           z == IF t.reinit > 0 THEN t.reinit - 1 ELSE 0
           y == [t EXCEPT !.reinit = z]
<1>1. z \in 0 .. 2 /\ 0 \in 0 .. MaxErrs
  BY DpAssumption DEF Driver
<1>2. x = y \/ x = [y EXCEPT !.settled = FALSE, !.errs = 0]
  BY DEF ReinitDone, Driver
<1> HIDE DEF z
<1>3. y \in Driver /\ Same(t, y)
  BY <1>1 DEF Driver, Same
<1> HIDE DEF y, x
<1>4. x \in Driver /\ Same(y, x)
  BY <1>1, <1>2, <1>3 DEF Driver, Same
<1> QED  BY <1>3, <1>4 DEF Same, x

LEMMA RxDoneIs ==
  ASSUME NEW u \in Driver, NEW r \in {"err", "wedged", "empty", "frames"}
  PROVE  RxDone(u, r) \in Driver /\ Same(u, RxDone(u, r))
<1> DEFINE x == RxDone(u, r)
<1>1. \E b \in BOOLEAN, i \in 0 .. 2 : x = [u EXCEPT !.rxwant = b, !.reinit = i]
  <2>1. u.reinit \in 0 .. 2 /\ u.rxwant \in BOOLEAN /\ 2 \in 0 .. 2
    BY DEF Driver
  <2>2. CASE r = "err"
    <3>1. x = [u EXCEPT !.rxwant = FALSE, !.reinit = u.reinit]
      BY <2>2 DEF RxDone, Driver
    <3> QED  BY <2>1, <3>1
  <2>3. CASE r = "wedged"
    <3>1. x = [u EXCEPT !.rxwant = FALSE, !.reinit = 2]
      BY <2>3 DEF RxDone, Driver
    <3> QED  BY <2>1, <3>1
  <2>4. CASE r = "empty"
    <3>1. x = [u EXCEPT !.rxwant = (u.reinit > 0 /\ u.rxwant), !.reinit = u.reinit]
      BY <2>4 DEF RxDone, Driver
    <3>2. (u.reinit > 0 /\ u.rxwant) \in BOOLEAN
      BY Zenon
    <3> QED  BY <2>1, <3>1, <3>2, Zenon
  <2>5. CASE r = "frames"
    <3>1. x = [u EXCEPT !.rxwant = u.rxwant, !.reinit = u.reinit]
      BY <2>5 DEF RxDone, Driver
    <3> QED  BY <2>1, <3>1
  <2> QED  BY <2>2, <2>3, <2>4, <2>5
<1>2. PICK b \in BOOLEAN, i \in 0 .. 2 : x = [u EXCEPT !.rxwant = b, !.reinit = i]
  BY <1>1
<1> HIDE DEF x
<1>3. x \in Driver /\ Same(u, x)
  BY <1>2 DEF Driver, Same
<1> QED  BY <1>3 DEF x

(* A command has ended: what it leaves behind is due, and goes on the      *)
(* queue.                                                                  *)
LEMMA AsyncDoneKeeps ==
  ASSUME NEW live, \A m \in Minors : live[m] \in Streams \cup {NoQ}, NEW n \in Nat,
         NEW s \in Driver, s.op # "mac", s.active, s.up, Asyncs(s.q) = {}, Fifo(s), Known(s, n), Counted(s),
         NEW r, s.op = "rx" => r \in {"err", "wedged", "empty", "frames"}
  PROVE  LET t == AsyncDone(s, r, live)
         IN  Core(t, n) /\ t.up /\ Stall(t)
<1> DEFINE t == [s EXCEPT !.busy = FALSE]
           u == CountErr(t, r = "err")
<1>1. t \in Driver
  BY DEF Driver
<1>2. /\ t.busy = FALSE /\ t.q = s.q /\ t.active = s.active /\ t.op = s.op /\ t.up = s.up /\ t.tx = s.tx
      /\ t.wq = s.wq /\ t.wqcnt = s.wqcnt /\ t.flushed = s.flushed
  BY DEF Driver
<1> HIDE DEF t
<1>3. Core(t, n) /\ t.active /\ t.up /\ ~t.busy
  BY <1>1, <1>2 DEF Core, One, Runs, Intact, Fifo, Known, Counted
<1>4. ASSUME NEW x \in Driver, NEW y \in Driver, Core(x, n), x.active, x.up, ~x.busy,
             y.q = x.q, y.active = x.active, y.busy = x.busy, y.op = x.op, y.up = x.up,
             y.tx \in {x.tx, NoTx}, y.wq = x.wq, y.wqcnt = x.wqcnt, y.flushed = x.flushed
      PROVE  Core(y, n) /\ y.active /\ y.up
  <2>1. One(y) /\ Runs(y)
    BY <1>4 DEF Core, One, Runs
  <2>3. Intact(y) /\ Counted(y)
    BY <1>4 DEF Core, Intact, Counted
  <2>2. Fifo(y) /\ Known(y, n)
    <3>1. CASE y.tx = x.tx
      BY <1>4, <3>1 DEF Core, Fifo, Known
    <3>2. CASE y.tx = NoTx
      <4>1. y.tx.id = 0 /\ y.tx.q \notin Streams
        BY <3>2, DpAssumption DEF NoTx
      <4> QED  BY <1>4, <4>1 DEF Core, Fifo, Known
    <3> QED  BY <1>4, <3>1, <3>2
  <2> QED  BY <1>4, <2>1, <2>2, <2>3 DEF Core
<1>5. u \in Driver /\ Core(u, n) /\ u.active /\ u.up /\ ~u.busy /\ u.op = s.op
  <2>1. (r = "err") \in BOOLEAN
    BY Zenon
  <2>2. u \in Driver /\ Same(t, u)
    BY <1>1, <2>1, CountErrIs
  <2> HIDE DEF u
  <2> QED  BY <1>2, <1>3, <2>2, CoreSame DEF Same
<1>6. CASE s.op \in {"ena", "dis"}
  <2> DEFINE x == ReinitDone(t)
  <2>1. x \in Driver /\ Same(t, x)
    BY <1>1, ReinitDoneIs
  <2>2. AsyncDone(s, r, live) = Kick(x, FALSE)
    BY <1>6 DEF AsyncDone, t
  <2> HIDE DEF x
  <2>3. Core(x, n) /\ x.active /\ x.up
    BY <1>3, <2>1, CoreSame DEF Same
  <2> QED  BY <2>2, <2>3, KickKeeps
<1>7. CASE s.op = "tx"
  <2> DEFINE y == [u EXCEPT !.tx = NoTx]
             w == IF y.wqcnt > 0 THEN Wproc(y, live) ELSE y
             x == [w EXCEPT !.rxwant = TRUE]
  <2>1. AsyncDone(s, r, live) = Kick(x, FALSE)
    BY <1>7 DEF AsyncDone, TxDone, t, u
  <2> HIDE DEF u
  <2>2. y \in Driver
    BY <1>5 DEF Driver, Frames
  <2>3. /\ y.q = u.q /\ y.active = u.active /\ y.busy = u.busy /\ y.op = u.op /\ y.up = u.up
        /\ y.tx = NoTx /\ y.wq = u.wq /\ y.wqcnt = u.wqcnt /\ y.flushed = u.flushed
    BY <1>5 DEF Driver
  <2> HIDE DEF y
  <2>4. Core(y, n) /\ y.active /\ y.up
    BY <1>4, <1>5, <2>2, <2>3
  <2>5. Core(w, n) /\ w.active /\ w.up
    BY <2>4, WprocKeeps
  <2> HIDE DEF w
  <2>6. x \in Driver /\ Same(w, x)
    BY <2>5 DEF Core, Driver, Same
  <2> HIDE DEF x
  <2>7. Core(x, n) /\ x.active /\ x.up
    BY <2>5, <2>6, CoreSame DEF Same
  <2> QED  BY <2>1, <2>7, KickKeeps
<1>8. CASE s.op = "rx"
  <2> DEFINE x == RxDone(u, r)
  <2>1. AsyncDone(s, r, live) = Kick(x, FALSE)
    BY <1>8 DEF AsyncDone, t, u
  <2> HIDE DEF u
  <2>4. x \in Driver /\ Same(u, x)
    BY <1>5, <1>8, RxDoneIs
  <2> HIDE DEF x
  <2>5. Core(x, n) /\ x.active /\ x.up
    BY <1>5, <2>4, CoreSame DEF Same
  <2> QED  BY <2>1, <2>5, KickKeeps
<1> QED  BY <1>6, <1>7, <1>8 DEF Driver, Ops

-----------------------------------------------------------------------------
(* The driver's record in each action                                      *)

LEMMA StartKeeps ==
  ASSUME NEW s, NEW n, Core(s, n), Stall(s), Down(s), NEW first \in BOOLEAN
  PROVE  LET t == Start(s, first) IN DriverOk(t, n) /\ t.up = s.up
<1> DEFINE t == Start(s, first)
<1>1. Started(s, t)
  BY StartIs DEF Core
<1> HIDE DEF t
<1>2. One(t) /\ Runs(t) /\ Stops(t)
  BY <1>1 DEF Core, Started, One, Runs, Stops
<1>3. Intact(t) /\ Fifo(t)
  BY <1>1 DEF Core, Started, Intact, Fifo
<1>4. Known(t, n) /\ Counted(t)
  BY <1>1 DEF Core, Started, Known, Counted
<1>5. Stall(t) /\ Down(t)
  BY <1>1 DEF Started, Stall, Due, Down
<1> QED  BY <1>1, <1>2, <1>3, <1>4, <1>5 DEF Core, DriverOk, Started, t

LEMMA DriverSame ==
  ASSUME NEW s, NEW n, DriverOk(s, n), NEW t \in Driver, Same(s, t), t.rxwant = s.rxwant, t.reinit = s.reinit
  PROVE  DriverOk(t, n) /\ t.up = s.up
<1>1. Core(t, n)
  BY CoreSame DEF DriverOk
<1>2. Stall(t) /\ Down(t) /\ Stops(t)
  BY DEF DriverOk, Same, Stall, Due, Down, Stops
<1> QED  BY <1>1, <1>2 DEF DriverOk, Same

LEMMA TailKind ==
  ASSUME NEW q \in Seq({"async", "sync"}), q # <<>>, NEW c
  PROVE  /\ Tail(q) \in Seq({"async", "sync"})
         /\ Head(q) = c => 1 \in Kind(q, c)
         /\ Head(q) = c /\ (\E i \in DOMAIN q : Kind(q, c) = {i}) => Kind(Tail(q), c) = {}
         /\ Head(q) # c /\ Kind(q, c) = {} => Kind(Tail(q), c) = {}
         /\ Head(q) # c /\ (\E i \in DOMAIN q : Kind(q, c) = {i}) =>
              \E i \in DOMAIN Tail(q) : Kind(Tail(q), c) = {i}
<1> DEFINE r == Tail(q)
<1>1. /\ Len(q) \in Nat \ {0} /\ DOMAIN q = 1 .. Len(q)
      /\ r \in Seq({"async", "sync"}) /\ DOMAIN r = 1 .. Len(q) - 1
      /\ \A i \in 1 .. Len(q) - 1 : r[i] = q[i + 1]
      /\ Head(q) = q[1]
  BY SeqParts
<1> HIDE DEF r
<1>2. \A i : i \in Kind(r, c) <=> i \in 1 .. Len(q) - 1 /\ q[i + 1] = c
  BY <1>1 DEF Kind
<1>3. \A i : i \in Kind(q, c) <=> i \in 1 .. Len(q) /\ q[i] = c
  BY <1>1 DEF Kind
<1>4. Head(q) = c => 1 \in Kind(q, c)
  BY <1>1, <1>3
<1>5. \A i \in Kind(r, c) : i + 1 \in Kind(q, c) /\ i + 1 # 1
  BY <1>1, <1>2, <1>3
<1>6. ASSUME Head(q) # c, NEW j \in DOMAIN q, Kind(q, c) = {j}
      PROVE  \E i \in DOMAIN r : Kind(r, c) = {i}
  <2>1. j \in 1 .. Len(q) /\ q[j] = c /\ j # 1
    BY <1>1, <1>3, <1>6
  <2>2. j - 1 \in DOMAIN r /\ j - 1 \in Kind(r, c)
    BY <1>1, <1>2, <2>1
  <2>3. \A i \in Kind(r, c) : i = j - 1
    BY <1>1, <1>2, <1>5, <1>6, <2>1
  <2>4. Kind(r, c) = {j - 1}
    BY <2>2, <2>3
  <2> QED  BY <2>2, <2>4
<1> QED  BY <1>1, <1>4, <1>5, <1>6 DEF r

LEMMA RefuseDriver ==
  ASSUME DriverOk(d, nf), Refuse
  PROVE  DriverOk(d', nf') /\ d'.up = d.up
<1> DEFINE t == [d EXCEPT !.errcnt = @ + 1]
<1>1. d \in Driver /\ d.errcnt + 1 \in 0 .. Retries
  BY DpAssumption DEF DriverOk, Core, Driver, Refuse
<1>2. t \in Driver
  BY <1>1 DEF Driver
<1>3. Same(d, t) /\ t.rxwant = d.rxwant /\ t.reinit = d.reinit
  BY <1>1 DEF Driver, Same
<1>4. d' = Start(t, FALSE) /\ nf' = nf
  BY DEF Refuse
<1> HIDE DEF t
<1>5. DriverOk(t, nf) /\ t.up = d.up
  BY <1>2, <1>3, DriverSame
<1> QED  BY <1>4, <1>5, StartKeeps DEF DriverOk

LEMMA CompleteDriver ==
  ASSUME DriverOk(d, nf), nf \in Nat, min \in [Minors -> Minor], Complete
  PROVE  DriverOk(d', nf') /\ d'.up = d.up
<1> DEFINE a == Tail(d.q)
           t == [d EXCEPT !.q = a]
<1>1. /\ d \in Driver /\ d.q \in Seq({"async", "sync"}) /\ d.q # <<>> /\ d.active /\ nf' = nf
      /\ d.op # "mac"
  BY DEF DriverOk, Core, Driver, Complete
<1>2. \A m \in Minors : Live[m] \in Streams \cup {NoQ}
  BY DEF Live, Minor
<1>3. a \in Seq({"async", "sync"})
  BY <1>1, TailKind
<1>4. PICK r \in IF Refused THEN {"err"} ELSE Results(HeadOp) :
        IF Head1 = "async" THEN d' = Start(AsyncDone(t, r, Live), TRUE)
        ELSE d' = Start(t, TRUE)
  BY DEF Complete
<1>5. Head1 = "async" /\ d.op = "rx" => r \in {"err", "wedged", "empty", "frames"}
  BY <1>4 DEF HeadOp, Results
<1>6. Head1 = "async" => Asyncs(a) = {} /\ d.busy
  BY <1>1, TailKind DEF Head1, DriverOk, Core, One, Asyncs
<1>7. Head1 # "async" => IF d.busy THEN \E i \in DOMAIN a : Asyncs(a) = {i} ELSE Asyncs(a) = {}
  BY <1>1, TailKind DEF Head1, DriverOk, Core, One, Asyncs
<1> HIDE DEF a
<1>8. t \in Driver
  BY <1>1, <1>3 DEF Driver
<1>9. /\ t.q = a /\ t.active = d.active /\ t.busy = d.busy /\ t.op = d.op /\ t.sends = d.sends /\ t.up = d.up
      /\ t.tx = d.tx /\ t.rxwant = d.rxwant /\ t.reinit = d.reinit
      /\ t.wq = d.wq /\ t.wqcnt = d.wqcnt /\ t.flushed = d.flushed
  BY <1>1 DEF Driver
<1> HIDE DEF t
<1>10. Fifo(t) /\ Known(t, nf) /\ Counted(t)
  BY <1>9 DEF DriverOk, Core, Fifo, Known, Counted
<1>11. CASE Head1 = "async"
  <2>1. t.up /\ t.active /\ Asyncs(t.q) = {} /\ t.op # "mac"
    BY <1>1, <1>6, <1>9, <1>11 DEF DriverOk, Down
  <2> DEFINE x == AsyncDone(t, r, Live)
  <2>2. Core(x, nf) /\ x.up /\ Stall(x)
    BY <1>2, <1>5, <1>8, <1>9, <1>10, <1>11, <2>1, AsyncDoneKeeps
  <2>3. d' = Start(x, TRUE)
    BY <1>4, <1>11
  <2> HIDE DEF x
  <2>4. Down(x)
    BY <2>2 DEF Down
  <2>5. DriverOk(d', nf) /\ d'.up = x.up
    BY <2>2, <2>3, <2>4, StartKeeps
  <2>6. d'.up = d.up
    BY <1>9, <2>1, <2>2, <2>5
  <2> QED  BY <1>1, <2>5, <2>6
<1>12. CASE Head1 # "async"
  <2>1. One(t)
    BY <1>7, <1>9, <1>12 DEF One
  <2>2. Runs(t) /\ Intact(t)
    BY <1>1, <1>9 DEF DriverOk, Core, Runs, Intact
  <2>3. Core(t, nf)
    BY <1>1, <1>8, <1>9, <1>10, <2>1, <2>2 DEF Core
  <2>4. Stall(t) /\ Down(t)
    BY <1>9 DEF DriverOk, Stall, Due, Down
  <2> QED  BY <1>1, <1>4, <1>9, <1>12, <2>3, <2>4, StartKeeps
<1> QED  BY <1>11, <1>12

LEMMA IssueDriver ==
  ASSUME DriverOk(d, nf), NEW p \in Procs, Issue(p)
  PROVE  DriverOk(d', nf') /\ d'.up = d.up
<1> DEFINE t == Queue(d, "sync", TRUE)
<1>1. d \in Driver /\ d.q \in Seq({"async", "sync"}) /\ nf' = nf /\ d' = t
  BY DEF DriverOk, Core, Driver, Issue
<1>2. Queued(d, "sync", TRUE, t)
  BY <1>1, QueueIs
<1> HIDE DEF t
<1>3. t.q # <<>> /\ t.active
  <2>1. t.q = Append(d.q, "sync") /\ t.active = (d.active \/ TRUE)
    BY <1>2 DEF Queued
  <2>2. t.active
    BY <2>1, Zenon
  <2>3. t.q # <<>>
    <3>1. Append(d.q, "sync") # <<>>
      BY <1>1
    <3> QED  BY <2>1, <3>1
  <2> QED  BY <2>2, <2>3
<1>4. One(t)
  BY <1>1, <1>2, AppendAsync DEF Queued, One, DriverOk, Core
<1>5. Runs(t) /\ Stops(t)
  BY <1>3 DEF Runs, Stops
<1>6. Intact(t) /\ Fifo(t)
  BY <1>2 DEF Queued, Intact, Fifo, DriverOk, Core
<1>7. Known(t, nf) /\ Counted(t)
  BY <1>2 DEF Queued, Known, Counted, DriverOk, Core
<1>8. Stall(t) /\ Down(t)
  BY <1>2 DEF Queued, Stall, Due, Down, DriverOk
<1> QED  BY <1>1, <1>2, <1>4, <1>5, <1>6, <1>7, <1>8 DEF DriverOk, Core, Queued

LEMMA EnrsrvDriver ==
  ASSUME DriverOk(d, nf), d.up, NEW s \in Streams, Enrsrv(s)
  PROVE  DriverOk(d', nf') /\ d'.up = d.up
<1> DEFINE t == [d EXCEPT !.rxwant = TRUE]
<1>1. d \in Driver /\ nf' = nf /\ d' = Kick(t, TRUE)
  BY DEF DriverOk, Core, Enrsrv
<1>2. t \in Driver /\ Same(d, t)
  BY <1>1 DEF Driver, Same
<1> HIDE DEF t
<1>3. Core(t, nf) /\ t.up = d.up /\ Stops(t)
  BY <1>2, CoreSame DEF DriverOk, Same, Stops
<1>4. Core(d', nf) /\ Stall(d') /\ d'.up = d.up /\ Stops(d')
  BY <1>1, <1>3, KickKeeps
<1> QED  BY <1>1, <1>4 DEF DriverOk, Down

(* Frames that go: places go with them.                                    *)
LEMMA EmptiedKeeps ==
  ASSUME NEW s, NEW n, DriverOk(s, n), NEW q \in Streams, NEW t \in Driver,
         t.wq = [s.wq EXCEPT ![q] = <<>>],
         \/ t.flushed /\ t.wqcnt = s.wqcnt
         \/ /\ t.flushed = s.flushed
            /\ t.wqcnt = IF s.wqcnt > Len(s.wq[q]) THEN s.wqcnt - Len(s.wq[q]) ELSE 0,
         t.q = s.q, t.active = s.active, t.busy = s.busy, t.op = s.op, t.sends = s.sends, t.up = s.up,
         t.tx = s.tx, t.rxwant = s.rxwant, t.reinit = s.reinit
  PROVE  DriverOk(t, n)
<1>1. s \in Driver /\ s.wq \in Queues /\ s.wqcnt \in Nat
  BY DEF DriverOk, Core, Driver, Queues
<1>2. t.wq[q] = <<>> /\ \A o \in Streams : o # q => t.wq[o] = s.wq[o]
  BY <1>1 DEF Queues
<1>3. Len(s.wq[q]) \in Nat
  BY <1>1 DEF Queues
<1>4. CountedIn(t.wq, Cardinality(Places(s.wq)) - Len(s.wq[q]))
  <2>1. CountedIn(s.wq, Cardinality(Places(s.wq)))
    BY DEF DriverOk, Core, Counted, CountedIn
  <2>2. PICK w \in Queues : w = s.wq
    BY <1>1
  <2>3. CountedIn(w, Cardinality(Places(w)))
    BY <2>1, <2>2
  <2>4. CountedIn([w EXCEPT ![q] = <<>>], Cardinality(Places(w)) - Len(w[q]))
    BY <2>3, AllLess
  <2> QED  BY <2>2, <2>4
<1>5. Counted(t)
  <2>1. Cardinality(Places(s.wq)) \in Nat /\ Cardinality(Places(t.wq)) \in Nat
    BY <1>4, FS_CardinalityType DEF DriverOk, Core, Counted, CountedIn
  <2>2. /\ Cardinality(Places(t.wq)) = Cardinality(Places(s.wq)) - Len(s.wq[q])
        /\ Cardinality(Places(s.wq)) <= s.wqcnt
        /\ s.flushed \/ s.wqcnt = Cardinality(Places(s.wq))
    BY <1>4 DEF DriverOk, Core, Counted, CountedIn
  <2>3. Cardinality(Places(t.wq)) <= t.wqcnt
    BY <1>1, <1>3, <2>1, <2>2
  <2>4. t.flushed \/ t.wqcnt = Cardinality(Places(t.wq))
    BY <1>1, <1>3, <2>1, <2>2
  <2> QED  BY <1>4, <2>3, <2>4 DEF Counted, CountedIn
<1>6. Fifo(t)
  <2>1. ASSUME NEW o \in Streams
        PROVE  /\ \A i, j \in DOMAIN t.wq[o] : i < j => t.wq[o][i] < t.wq[o][j]
               /\ t.tx.q = o => \A i \in DOMAIN t.wq[o] : t.tx.id < t.wq[o][i]
    <3>1. CASE o # q
      BY <1>2, <3>1 DEF DriverOk, Core, Fifo
    <3>2. CASE o = q
      BY <1>2, <3>2
    <3> QED  BY <3>1, <3>2
  <2> QED  BY <2>1 DEF Fifo
<1>7. Known(t, n)
  <2>1. \A o \in Streams : \A i \in DOMAIN t.wq[o] : t.wq[o][i] <= n
    BY <1>2 DEF DriverOk, Core, Known
  <2> QED  BY <2>1 DEF DriverOk, Core, Known
<1>8. One(t) /\ Runs(t) /\ Stops(t)
  BY DEF DriverOk, Core, One, Runs, Stops
<1>9. Intact(t) /\ Stall(t) /\ Down(t)
  BY DEF DriverOk, Core, Intact, Stall, Due, Down
<1> QED  BY <1>5, <1>6, <1>7, <1>8, <1>9 DEF DriverOk, Core

LEMMA EncloseDriver ==
  ASSUME DriverOk(d, nf), NEW s \in Streams, Enclose(s)
  PROVE  DriverOk(d', nf') /\ d'.up = d.up
<1> DEFINE w == [d.wq EXCEPT ![s] = <<>>]
           e == [d.passed EXCEPT ![s] = 0]
           c == LessFrames(s)
<1>1. d \in Driver /\ d.wq \in Queues /\ d.passed \in [Streams -> Nat] /\ d.wqcnt \in Nat
  BY DEF DriverOk, Core, Driver, Queues
<1>2. nf' = nf /\ d' = [d EXCEPT !.wq[s] = <<>>, !.passed[s] = 0, !.wqcnt = c]
  BY DEF Enclose
<1>3. d' = [d EXCEPT !.wq = w, !.passed = e, !.wqcnt = c]
  BY <1>1, <1>2 DEF Driver
<1>4. w \in Queues /\ e \in [Streams -> Nat]
  BY <1>1 DEF Queues
<1>5. Len(d.wq[s]) \in Nat
  BY <1>1 DEF Queues
<1>6. c \in Nat /\ c = IF d.wqcnt > Len(d.wq[s]) THEN d.wqcnt - Len(d.wq[s]) ELSE 0
  BY <1>1, <1>5 DEF LessFrames
<1> HIDE DEF w, e, c
<1>8. d' \in Driver
  BY <1>1, <1>3, <1>4, <1>6 DEF Driver, Queues
<1>9. /\ d'.wq = w /\ d'.wqcnt = c /\ d'.flushed = d.flushed
      /\ d'.q = d.q /\ d'.active = d.active /\ d'.busy = d.busy /\ d'.op = d.op /\ d'.sends = d.sends
      /\ d'.up = d.up /\ d'.tx = d.tx /\ d'.rxwant = d.rxwant /\ d'.reinit = d.reinit
  BY <1>1, <1>3 DEF Driver
<1> QED  BY <1>2, <1>6, <1>8, <1>9, EmptiedKeeps DEF w

LEMMA FlushDriver ==
  ASSUME DriverOk(d, nf), NEW s \in Streams, Flush(s)
  PROVE  DriverOk(d', nf') /\ d'.up = d.up
<1> DEFINE w == [d.wq EXCEPT ![s] = <<>>]
           e == [d.passed EXCEPT ![s] = 0]
<1>1. d \in Driver /\ d.wq \in Queues /\ d.passed \in [Streams -> Nat]
  BY DEF DriverOk, Core, Driver, Queues
<1>2. nf' = nf /\ d' = [d EXCEPT !.wq[s] = <<>>, !.passed[s] = 0, !.flushed = TRUE]
  BY DEF Flush
<1>3. d' = [d EXCEPT !.wq = w, !.passed = e, !.flushed = TRUE]
  BY <1>1, <1>2 DEF Driver
<1>4. w \in Queues /\ e \in [Streams -> Nat]
  BY <1>1 DEF Queues
<1> HIDE DEF w, e
<1>5. d' \in Driver
  BY <1>1, <1>3, <1>4 DEF Driver, Queues
<1>6. /\ d'.wq = w /\ d'.wqcnt = d.wqcnt /\ d'.flushed
      /\ d'.q = d.q /\ d'.active = d.active /\ d'.busy = d.busy /\ d'.op = d.op /\ d'.sends = d.sends
      /\ d'.up = d.up /\ d'.tx = d.tx /\ d'.rxwant = d.rxwant /\ d'.reinit = d.reinit
  BY <1>1, <1>3 DEF Driver
<1>7. d'.wq = [d.wq EXCEPT ![s] = <<>>]
  BY <1>6 DEF w
<1>8. PICK t \in Driver : t = d'
  BY <1>5
<1>9. DriverOk(t, nf)
  BY <1>6, <1>7, <1>8, EmptiedKeeps
<1> QED  BY <1>2, <1>6, <1>8, <1>9

(* A frame comes down: it waits as the last of its stream, or none does    *)
(* and it is staged.                                                       *)
LEMMA UnitdataDriver ==
  ASSUME DriverOk(d, nf), nf \in Nat, NEW s \in Streams, Unitdata(s)
  PROVE  DriverOk(d', nf') /\ d'.up = d.up
<1> DEFINE f == nf + 1
           w == [d.wq EXCEPT ![s] = Append(@, f)]
           c == d.wqcnt + 1
           t == [d EXCEPT !.wq = w, !.wqcnt = c]
<1>1. /\ d \in Driver /\ d.wq \in Queues /\ d.wqcnt \in Nat /\ d.wq[s] \in Seq(1 .. MaxFrames)
      /\ f \in 1 .. MaxFrames /\ f \in Nat
  <2>1. d \in Driver
    BY DEF DriverOk, Core
  <2>2. d.wq \in Queues /\ d.wqcnt \in Nat
    BY <2>1 DEF Driver, Queues
  <2>3. nf < MaxFrames /\ MaxFrames \in Nat
    BY DpAssumption DEF Unitdata
  <2> QED  BY <2>1, <2>2, <2>3 DEF Queues
<1>2. nf' = f /\ d' = IF MustWait THEN t ELSE Xmit(d, s, f)
  BY <1>1 DEF Unitdata, Driver
<1>3. \A o \in Streams : \A i \in DOMAIN d.wq[o] : d.wq[o][i] \in Nat /\ d.wq[o][i] < f
  <2>1. ASSUME NEW o \in Streams, NEW i \in DOMAIN d.wq[o] PROVE d.wq[o][i] \in Nat
    <3>1. d.wq[o] \in Seq(1 .. MaxFrames)
      BY <1>1 DEF Queues
    <3>2. d.wq[o][i] \in 1 .. MaxFrames
      BY <3>1, SeqElement
    <3> QED  BY <3>2
  <2> QED  BY <2>1 DEF DriverOk, Core, Known
<1>4. d.tx.id \in Nat /\ d.tx.id < f
  BY <1>1, TxIs DEF DriverOk, Core, Known, Driver
<1>5. Core(d, f)
  BY <1>1, <1>3, <1>4 DEF DriverOk, Core, Known
<1>6. CASE MustWait
  <2>1. w \in Queues /\ DOMAIN w[s] = 1 .. Len(d.wq[s]) + 1 /\ \A o \in Streams : o # s => w[o] = d.wq[o]
    BY <1>1 DEF Queues
  <2>2. /\ Len(d.wq[s]) \in Nat /\ DOMAIN d.wq[s] = 1 .. Len(d.wq[s])
        /\ w[s][Len(d.wq[s]) + 1] = f /\ \A i \in DOMAIN d.wq[s] : w[s][i] = d.wq[s][i]
    BY <1>1 DEF Queues
  <2>3. CountedIn(w, Cardinality(Places(d.wq)) + 1)
    <3>1. CountedIn(d.wq, Cardinality(Places(d.wq)))
      BY DEF DriverOk, Core, Counted, CountedIn
    <3> QED  BY <1>1, <3>1, OneMore
  <2>4. c \in Nat
    BY <1>1
  <2>5. d' = t
    BY <1>2, <1>6
  <2> HIDE DEF w
  <2>6. t \in Driver
    BY <1>1, <2>1, <2>4 DEF Driver, Queues
  <2>7. /\ t.wq = w /\ t.wqcnt = c /\ t.flushed = d.flushed
        /\ t.q = d.q /\ t.active = d.active /\ t.busy = d.busy /\ t.op = d.op /\ t.sends = d.sends
        /\ t.up = d.up /\ t.tx = d.tx /\ t.rxwant = d.rxwant /\ t.reinit = d.reinit
    BY <1>1 DEF Driver
  <2> HIDE DEF t, f
  <2>8. Counted(t)
    <3>1. Cardinality(Places(d.wq)) \in Nat
      BY FS_CardinalityType DEF DriverOk, Core, Counted
    <3> QED  BY <1>1, <2>3, <2>7, <3>1 DEF DriverOk, Core, Counted, CountedIn
  <2>9. Fifo(t) /\ Known(t, f)
    <3>1. ASSUME NEW o \in Streams
          PROVE  /\ \A i, j \in DOMAIN w[o] : i < j => w[o][i] < w[o][j]
                 /\ t.tx.q = o => \A i \in DOMAIN w[o] : t.tx.id < w[o][i]
                 /\ \A i \in DOMAIN w[o] : w[o][i] <= f
      <4>1. CASE o # s
        <5>1. w[o] = d.wq[o] /\ \A i \in DOMAIN w[o] : w[o][i] \in Nat /\ w[o][i] <= f
          BY <1>1, <1>3, <2>1, <4>1 DEF f
        <5> QED  BY <2>7, <5>1 DEF DriverOk, Core, Fifo
      <4>2. CASE o = s
        <5>1. ASSUME NEW i \in DOMAIN w[s], NEW j \in DOMAIN w[s], i < j PROVE w[s][i] < w[s][j]
          <6>1. i \in DOMAIN d.wq[s] /\ (j \in DOMAIN d.wq[s] \/ j = Len(d.wq[s]) + 1)
            BY <2>1, <2>2, <5>1
          <6> QED  BY <1>3, <2>2, <5>1, <6>1 DEF DriverOk, Core, Fifo
        <5>2. ASSUME NEW i \in DOMAIN w[s] PROVE w[s][i] <= f /\ (t.tx.q = s => t.tx.id < w[s][i])
          <6>1. i \in DOMAIN d.wq[s] \/ i = Len(d.wq[s]) + 1
            BY <2>1, <2>2
          <6>2. CASE i \in DOMAIN d.wq[s]
            BY <1>1, <1>3, <2>2, <2>7, <6>2 DEF DriverOk, Core, Fifo
          <6>3. CASE i = Len(d.wq[s]) + 1
            BY <1>1, <1>4, <2>2, <2>7, <6>3
          <6> QED  BY <6>1, <6>2, <6>3
        <5> QED  BY <4>2, <5>1, <5>2
      <4> QED  BY <4>1, <4>2
    <3>2. t.tx.id <= f
      BY <1>1, <1>4, <2>7
    <3> QED  BY <2>7, <3>1, <3>2 DEF Fifo, Known
  <2>10. One(t) /\ Runs(t) /\ Stops(t)
    BY <2>7 DEF DriverOk, Core, One, Runs, Stops
  <2>11. Intact(t) /\ Stall(t) /\ Down(t)
    BY <2>7 DEF DriverOk, Core, Intact, Stall, Due, Down
  <2>12. Core(t, f)
    BY <1>5, <2>6, <2>7, <2>8, <2>9, <2>10, <2>11 DEF Core
  <2> QED  BY <1>2, <2>5, <2>7, <2>10, <2>11, <2>12 DEF DriverOk
<1>7. CASE ~MustWait
  <2>1. d.wqcnt = 0 /\ CanXmit(d) /\ d' = Xmit(d, s, f)
    BY <1>2, <1>7 DEF MustWait
  <2>2. Places(d.wq) = {}
    <3>1. Cardinality(Places(d.wq)) \in Nat
      BY FS_CardinalityType DEF DriverOk, Core, Counted
    <3>2. Cardinality(Places(d.wq)) = 0 /\ IsFiniteSet(Places(d.wq))
      BY <2>1, <3>1 DEF DriverOk, Core, Counted
    <3> QED  BY <3>2, FS_EmptySet
  <2>3. \A i : i \notin 1 .. Len(d.wq[s])
    BY <1>1, <2>2, PlaceIs
  <2>4. DOMAIN d.wq[s] = 1 .. Len(d.wq[s])
    BY <1>1
  <2> DEFINE x == Xmit(d, s, f)
  <2>7. f \in Nat /\ f \in 1 .. MaxFrames /\ f <= f /\ \A i \in DOMAIN d.wq[s] : f < d.wq[s][i]
    BY <1>1, <2>3, <2>4
  <2> HIDE DEF f
  <2>5. Core(x, f) /\ x.up = d.up /\ (Stops(d) => Stops(x)) /\ (Stall(d) => Stall(x))
    BY <1>5, <2>1, <2>7, XmitKeeps
  <2> HIDE DEF x
  <2>6. Stops(x) /\ Stall(x) /\ x.up
    BY <2>1, <2>5 DEF DriverOk, CanXmit
  <2> QED  BY <1>2, <2>1, <2>5, <2>6 DEF DriverOk, Down, x
<1> QED  BY <1>6, <1>7

LEMMA SettlesDriver ==
  ASSUME DriverOk(d, nf), DriverSettles
  PROVE  DriverOk(d', nf') /\ d'.up = d.up
<1>1. d \in Driver /\ nf' = nf /\ d' = [d EXCEPT !.settled = TRUE]
  BY DEF DriverOk, Core, DriverSettles
<1>2. d' \in Driver /\ Same(d, d') /\ d'.rxwant = d.rxwant /\ d'.reinit = d.reinit
  BY <1>1 DEF Driver, Same
<1> QED  BY <1>1, <1>2, DriverSame

(* dp_linit's end, and dp_unload, which finds nothing under way            *)
LEMMA UpDriver ==
  ASSUME DriverOk(d, nf), d' = [d EXCEPT !.up = TRUE, !.reinit = 0, !.errs = 0, !.settled = TRUE], nf' = nf
  PROVE  DriverOk(d', nf') /\ d'.up
<1>1. d \in Driver /\ 0 \in 0 .. MaxErrs /\ d.reinit \in 0 .. 2 /\ 0 \in 0 .. 2
  BY DpAssumption DEF DriverOk, Core, Driver
<1>2. d' \in Driver
  BY <1>1 DEF Driver
<1>3. /\ d'.up /\ d'.reinit = 0 /\ d'.q = d.q /\ d'.active = d.active /\ d'.busy = d.busy /\ d'.op = d.op
      /\ d'.sends = d.sends /\ d'.tx = d.tx /\ d'.rxwant = d.rxwant /\ d'.wq = d.wq
      /\ d'.wqcnt = d.wqcnt /\ d'.flushed = d.flushed
  BY <1>1 DEF Driver
<1>4. Core(d', nf)
  BY <1>2, <1>3 DEF DriverOk, Core, One, Runs, Intact, Fifo, Known, Counted
<1>5. Stall(d') /\ Stops(d') /\ Down(d')
  BY <1>1, <1>3 DEF DriverOk, Stall, Due, Stops, Down
<1> QED  BY <1>3, <1>4, <1>5 DEF DriverOk

LEMMA DownDriver ==
  ASSUME DriverOk(d, nf), ~d.busy, d' = [d EXCEPT !.up = FALSE], nf' = nf
  PROVE  DriverOk(d', nf') /\ ~d'.up
<1>1. d \in Driver
  BY DEF DriverOk, Core
<1>2. d' \in Driver
  BY <1>1 DEF Driver
<1>3. /\ ~d'.up /\ d'.reinit = d.reinit /\ d'.q = d.q /\ d'.active = d.active /\ d'.busy = d.busy /\ d'.op = d.op
      /\ d'.sends = d.sends /\ d'.tx = d.tx /\ d'.rxwant = d.rxwant /\ d'.wq = d.wq
      /\ d'.wqcnt = d.wqcnt /\ d'.flushed = d.flushed
  BY <1>1 DEF Driver
<1>4. Core(d', nf)
  BY <1>2, <1>3 DEF DriverOk, Core, One, Runs, Intact, Fifo, Known, Counted
<1>5. Stall(d') /\ Stops(d') /\ Down(d')
  BY <1>1, <1>3 DEF DriverOk, Stall, Due, Stops, Down
<1> QED  BY <1>3, <1>4, <1>5 DEF DriverOk

LEMMA NewDriver ==
  ASSUME NEW s, s = InitDriver, NEW n \in Nat
  PROVE  DriverOk(s, n) /\ ~s.up
<1> DEFINE w == [o \in Streams |-> <<>>]
           e == [o \in Streams |-> 0]
<1>1. 0 \in 0 .. Retries /\ 0 \in 0 .. MaxFrames /\ 0 \in 0 .. MaxErrs /\ 0 \in 0 .. 2 /\ 0 \in Minors
  BY DpAssumption DEF Minors
<1>2. w \in Queues /\ e \in [Streams -> Nat] /\ \A o \in Streams : w[o] = <<>>
  BY DEF Queues
<1>3. <<>> \in Seq({"async", "sync"}) /\ NoTx \in Frames /\ "rx" \in Ops
  BY DEF Frames, Ops
<1>4. s = [q |-> <<>>, active |-> FALSE, errcnt |-> 0, busy |-> FALSE, op |-> "rx",
           sends |-> 0, up |-> FALSE, tx |-> NoTx, rxwant |-> FALSE, reinit |-> 0,
           errs |-> 0, settled |-> TRUE, wq |-> w, wqcnt |-> 0,
           nextmin |-> 0, passed |-> e, flushed |-> FALSE]
  BY DEF InitDriver
<1> HIDE DEF w, e
<1>5. s \in Driver
  BY <1>1, <1>2, <1>3, <1>4 DEF Driver, Queues
<1>6. /\ s.q = <<>> /\ ~s.active /\ ~s.busy /\ s.op = "rx" /\ ~s.up /\ s.tx = NoTx /\ ~s.rxwant
      /\ s.reinit = 0 /\ s.wq = w /\ s.wqcnt = 0
  BY <1>4
<1>7. Counted(s)
  <2>1. \A x : x \notin Places(w)
    <3>1. SUFFICES ASSUME NEW x \in Places(w) PROVE FALSE
      OBVIOUS
    <3>2. <<x[1], x[2]>> \in Places(w)
      BY PlacePair, Zenon
    <3>3. x[1] \in Streams /\ x[2] \in 1 .. Len(w[x[1]])
      BY <1>2, <3>2, PlaceIs, Zenon
    <3> QED  BY <1>2, <3>3
  <2>2. Places(w) = {}
    BY <2>1, Zenon
  <2> QED  BY <1>6, <2>2, FS_EmptySet DEF Counted
<1>8. One(s) /\ Runs(s) /\ Stops(s)
  BY <1>6 DEF One, Asyncs, Kind, Runs, Stops
<1>9. Intact(s) /\ Stall(s) /\ Down(s)
  BY <1>6 DEF Intact, Stall, Due, Down
<1>10. Fifo(s) /\ Known(s, n)
  BY <1>2, <1>6, DpAssumption DEF Fifo, Known, NoTx
<1> QED  BY <1>5, <1>6, <1>7, <1>8, <1>9, <1>10 DEF DriverOk, Core

-----------------------------------------------------------------------------
(* The streams, the minors and the processes                               *)

Rest ==
  /\ min \in [Minors -> Minor] /\ qptr \in [Streams -> Minors \cup {None}]
  /\ pollq \in Streams \cup {NoQ} /\ enab \subseteq Streams
  /\ timers \in Nat /\ running \in BOOLEAN /\ loaded \in BOOLEAN
  /\ pr \in [Procs -> [pc: {"user", "ena", "mac", "undo", "unload"},
                       q: Streams \cup {NoQ}, m: Minors \cup {None}]]
  /\ sync \in [p: Procs \cup {NoProc}, op: Ops, done: BOOLEAN, err: BOOLEAN]
  /\ ad \in [on: BOOLEAN, settling: BOOLEAN, wedged: BOOLEAN]
  /\ nf \in 0 .. MaxFrames /\ faults \in 0 .. MaxFaults

(* A minor's stream is its own; the poll and the enabled queues are of     *)
(* open streams, and a queue is enabled only while the interface is up.    *)
Streamed ==
  /\ \A m \in Minors : min[m].q # NoQ => qptr[min[m].q] = m
  /\ pollq # NoQ => qptr[pollq] # None
  /\ \A s \in enab : qptr[s] # None
  /\ enab # {} => d.up

(* A stream being opened is not open, and only one process opens it;       *)
(* whoever unloads is alone.                                               *)
Bringing == {"ena", "mac", "undo"}
Openings ==
  /\ \A p \in Procs : pr[p].q # NoQ => qptr[pr[p].q] = None
  /\ \A p, o \in Procs : p # o /\ pr[p].q # NoQ => pr[o].q # pr[p].q
  /\ \A p \in Procs : pr[p].pc \in Bringing => pr[p].q \in Streams /\ pr[p].m \in Minors
Unloads ==
  /\ \A p \in Procs : pr[p] # User => loaded
  /\ \A p \in Procs : pr[p].pc = "unload" => ~d.up /\ \A o \in Procs \ {p} : pr[o] = User
  /\ ~loaded => ~d.up

Sapped ==
  /\ \A m \in Minors : IF min[m].state = "idle" THEN min[m].sap \in Saps ELSE min[m].sap = NoSap
  /\ SapUnique

Inv == Rest /\ DriverOk(d, nf) /\ Streamed /\ Openings /\ Unloads /\ Sapped

LEMMA InitInv == Init => Inv
<1> SUFFICES ASSUME Init PROVE Inv
  OBVIOUS
<1>1. DriverOk(d, nf) /\ ~d.up
  BY NewDriver DEF Init
<1>2. 0 \in 0 .. MaxFrames /\ 0 \in 0 .. MaxFaults
  BY DpAssumption
<1>3. Rest
  <2>1. min \in [Minors -> Minor] /\ qptr \in [Streams -> Minors \cup {None}]
    BY DEF Init, Minor, NoMinor
  <2>2. /\ sync \in [p: Procs \cup {NoProc}, op: Ops, done: BOOLEAN, err: BOOLEAN]
        /\ pr \in [Procs -> [pc: {"user", "ena", "mac", "undo", "unload"},
                             q: Streams \cup {NoQ}, m: Minors \cup {None}]]
    BY DEF Init, NoSync, User, Ops
  <2>3. ad \in [on: BOOLEAN, settling: BOOLEAN, wedged: BOOLEAN]
    BY DEF Init
  <2> QED  BY <1>2, <2>1, <2>2, <2>3 DEF Init, Rest
<1>4. Streamed /\ Openings
  BY DEF Init, Streamed, Openings, Bringing, NoMinor, User
<1>5. Unloads
  BY <1>1 DEF Init, Unloads, User
<1>6. Sapped
  BY DEF Init, Sapped, SapUnique, NoMinor
<1> QED  BY <1>1, <1>3, <1>4, <1>5, <1>6 DEF Inv

(* What an action leaves alone                                             *)
LEMMA SameKeeps ==
  ASSUME Inv, d'.up = d.up, UNCHANGED <<qptr, pr, loaded>>
  PROVE  /\ UNCHANGED min => Sapped'
         /\ UNCHANGED <<min, pollq>> /\ enab' \subseteq enab => Streamed'
         /\ Openings' /\ Unloads'
<1>1. UNCHANGED min => Sapped'
  BY DEF Inv, Sapped, SapUnique
<1>2. UNCHANGED <<min, pollq>> /\ enab' \subseteq enab => Streamed'
  BY DEF Inv, Streamed
<1>3. Openings' /\ Unloads'
  BY DEF Inv, Openings, Unloads
<1> QED  BY <1>1, <1>2, <1>3

(* The commands, the adapter and the poll                                  *)
LEMMA RefuseKeeps == Inv /\ Refuse => Inv'
<1> SUFFICES ASSUME Inv, Refuse PROVE Inv'
  OBVIOUS
<1>1. DriverOk(d', nf') /\ d'.up = d.up
  BY RefuseDriver DEF Inv
<1>2. UNCHANGED <<min, qptr, pollq, enab, timers, running, loaded, pr, sync, ad, nf, faults>>
  BY DEF Refuse
<1>3. Rest'
  BY <1>2 DEF Inv, Rest
<1> QED  BY <1>1, <1>2, <1>3, SameKeeps DEF Inv

LEMMA CompleteKeeps == Inv /\ Complete => Inv'
<1> SUFFICES ASSUME Inv, Complete PROVE Inv'
  OBVIOUS
<1>1. DriverOk(d', nf') /\ d'.up = d.up
  BY CompleteDriver DEF Inv, Rest
<1>2. UNCHANGED <<min, qptr, pollq, enab, timers, running, loaded, pr, nf, faults>>
  BY DEF Complete
<1>3. Rest'
  <2>1. ad' \in [on: BOOLEAN, settling: BOOLEAN, wedged: BOOLEAN]
    <3>1. ad' = IF Refused THEN ad ELSE Adapter(HeadOp)
      BY DEF Complete
    <3>2. ad \in [on: BOOLEAN, settling: BOOLEAN, wedged: BOOLEAN]
      BY DEF Inv, Rest
    <3>3. Adapter(HeadOp) \in [on: BOOLEAN, settling: BOOLEAN, wedged: BOOLEAN]
      BY <3>2 DEF Adapter
    <3> QED  BY <3>1, <3>2, <3>3
  <2>2. sync' \in [p: Procs \cup {NoProc}, op: Ops, done: BOOLEAN, err: BOOLEAN]
    <3>1. sync \in [p: Procs \cup {NoProc}, op: Ops, done: BOOLEAN, err: BOOLEAN]
      BY DEF Inv, Rest
    <3>2. sync' = sync \/ \E r : sync' = [sync EXCEPT !.done = TRUE, !.err = r = "err"]
      BY DEF Complete
    <3>3. CASE \E r : sync' = [sync EXCEPT !.done = TRUE, !.err = r = "err"]
      <4>1. PICK r : sync' = [sync EXCEPT !.done = TRUE, !.err = r = "err"]
        BY <3>3
      <4>2. (r = "err") \in BOOLEAN
        BY Zenon
      <4> QED  BY <3>1, <4>1, <4>2
    <3> QED  BY <3>1, <3>2, <3>3
  <2> QED  BY <1>2, <2>1, <2>2 DEF Inv, Rest
<1> QED  BY <1>1, <1>2, <1>3, SameKeeps DEF Inv

LEMMA AdKeeps == Inv /\ (AdSettles \/ AdFails \/ DriverSettles) => Inv'
<1> SUFFICES ASSUME Inv, AdSettles \/ AdFails \/ DriverSettles PROVE Inv'
  OBVIOUS
<1>1. UNCHANGED <<min, qptr, pollq, enab, timers, running, loaded, pr, sync, nf>>
  BY DEF AdSettles, AdFails, DriverSettles
<1>2. DriverOk(d', nf') /\ d'.up = d.up
  <2>1. CASE DriverSettles
    BY <2>1, SettlesDriver DEF Inv
  <2>2. CASE AdSettles \/ AdFails
    <3>1. d' = d
      BY <2>2 DEF AdSettles, AdFails
    <3> QED  BY <1>1, <3>1 DEF Inv
  <2> QED  BY <2>1, <2>2
<1>3. ad' \in [on: BOOLEAN, settling: BOOLEAN, wedged: BOOLEAN] /\ faults' \in 0 .. MaxFaults
  <2>1. ad \in [on: BOOLEAN, settling: BOOLEAN, wedged: BOOLEAN] /\ faults \in 0 .. MaxFaults
    BY DEF Inv, Rest
  <2>2. faults' \in 0 .. MaxFaults
    BY <2>1, DpAssumption DEF AdSettles, AdFails, DriverSettles
  <2>3. ad' \in [on: BOOLEAN, settling: BOOLEAN, wedged: BOOLEAN]
    <3>1. \/ ad' = ad \/ ad' = [ad EXCEPT !.settling = FALSE] \/ ad' = [ad EXCEPT !.wedged = TRUE]
          \/ ad' = [on |-> FALSE, settling |-> FALSE, wedged |-> FALSE]
      BY Zenon DEF AdSettles, AdFails, DriverSettles
    <3>2. /\ [ad EXCEPT !.settling = FALSE] \in [on: BOOLEAN, settling: BOOLEAN, wedged: BOOLEAN]
          /\ [ad EXCEPT !.wedged = TRUE] \in [on: BOOLEAN, settling: BOOLEAN, wedged: BOOLEAN]
          /\ [on |-> FALSE, settling |-> FALSE, wedged |-> FALSE] \in [on: BOOLEAN, settling: BOOLEAN, wedged: BOOLEAN]
      BY <2>1
    <3> QED  BY <2>1, <3>1, <3>2, Zenon
  <2> QED  BY <2>2, <2>3
<1>4. Rest'
  BY <1>1, <1>3 DEF Inv, Rest
<1> QED  BY <1>1, <1>2, <1>4, SameKeeps DEF Inv

LEMMA PollKeeps == Inv /\ Poll => Inv'
<1> SUFFICES ASSUME Inv, Poll PROVE Inv'
  OBVIOUS
<1>1. UNCHANGED <<d, min, qptr, pollq, running, loaded, pr, sync, ad, nf, faults>>
  BY DEF Poll
<1>2. DriverOk(d', nf') /\ d'.up = d.up
  BY <1>1 DEF Inv
<1>3. /\ timers' \in Nat
      /\ enab' = enab \/ (d.up /\ pollq # NoQ /\ enab' = enab \cup {pollq})
  BY DEF Poll, Inv, Rest
<1>4. Rest'
  BY <1>1, <1>3 DEF Inv, Rest
<1>5. Streamed'
  BY <1>1, <1>2, <1>3 DEF Inv, Streamed
<1> QED  BY <1>1, <1>2, <1>4, <1>5, SameKeeps DEF Inv

LEMMA EnrsrvKeeps == ASSUME Inv, NEW s \in Streams, Enrsrv(s) PROVE Inv'
<1>1. d.up
  BY DEF Inv, Streamed, Enrsrv
<1>2. DriverOk(d', nf') /\ d'.up = d.up
  BY <1>1, EnrsrvDriver DEF Inv
<1>3. UNCHANGED <<min, qptr, pollq, timers, running, loaded, pr, sync, ad, nf, faults>> /\ enab' = enab \ {s}
  BY DEF Enrsrv
<1>4. Rest'
  BY <1>3 DEF Inv, Rest
<1> QED  BY <1>2, <1>3, <1>4, SameKeeps DEF Inv

LEMMA IssueKeeps == ASSUME Inv, NEW p \in Procs, Issue(p) PROVE Inv'
<1>1. DriverOk(d', nf') /\ d'.up = d.up
  BY IssueDriver DEF Inv
<1>2. /\ UNCHANGED <<min, qptr, pollq, enab, timers, running, loaded, pr, ad, nf, faults>>
      /\ sync' = [p |-> p, op |-> OpOf(pr[p].pc), done |-> FALSE, err |-> FALSE]
  BY DEF Issue
<1>3. Rest'
  <2>1. OpOf(pr[p].pc) \in Ops
    BY DEF OpOf, Ops
  <2>2. sync' \in [p: Procs \cup {NoProc}, op: Ops, done: BOOLEAN, err: BOOLEAN]
    BY <1>2, <2>1
  <2> QED  BY <1>2, <2>2 DEF Inv, Rest
<1> QED  BY <1>1, <1>2, <1>3, SameKeeps DEF Inv

(* The DLPI half                                                           *)
LEMMA FlushKeeps == ASSUME Inv, NEW s \in Streams, Flush(s) PROVE Inv'
<1>1. DriverOk(d', nf') /\ d'.up = d.up
  BY FlushDriver DEF Inv
<1>2. UNCHANGED <<min, qptr, pollq, enab, timers, running, loaded, pr, sync, ad, nf, faults>>
  BY DEF Flush
<1>3. Rest'
  BY <1>2 DEF Inv, Rest
<1> QED  BY <1>1, <1>2, <1>3, SameKeeps DEF Inv

LEMMA UnitdataKeeps == ASSUME Inv, NEW s \in Streams, Unitdata(s) PROVE Inv'
<1>1. nf \in 0 .. MaxFrames /\ nf \in Nat
  BY DEF Inv, Rest
<1>2. DriverOk(d', nf') /\ d'.up = d.up
  BY <1>1, UnitdataDriver DEF Inv
<1>3. UNCHANGED <<min, qptr, pollq, enab, timers, running, loaded, pr, sync, ad, faults>>
  BY DEF Unitdata
<1>4. nf' \in 0 .. MaxFrames
  BY <1>1, DpAssumption DEF Unitdata
<1>5. Rest'
  BY <1>3, <1>4 DEF Inv, Rest
<1> QED  BY <1>2, <1>3, <1>5, SameKeeps DEF Inv

LEMMA BindKeeps ==
  ASSUME Inv, NEW s \in Streams, Unbind(s) \/ \E sap \in Saps : Bind(s, sap)
  PROVE  Inv'
<1> DEFINE m == qptr[s]
<1>1. UNCHANGED <<d, qptr, pollq, enab, timers, running, loaded, pr, sync, ad, nf, faults>>
  BY DEF Bind, Unbind
<1>2. min \in [Minors -> Minor] /\ m \in Minors
  <2>1. m # None /\ m \in Minors \cup {None}
    BY DEF Inv, Rest, Bind, Unbind
  <2> QED  BY <2>1 DEF Inv, Rest
<1>3. DriverOk(d', nf') /\ d'.up = d.up
  BY <1>1 DEF Inv
<1>4. CASE Unbind(s)
  <2>1. min' = [min EXCEPT ![m].state = "unbound", ![m].sap = NoSap]
    BY <1>4 DEF Unbind
  <2> HIDE DEF m
  <2>2. /\ min' \in [Minors -> Minor] /\ min'[m].state = "unbound" /\ min'[m].sap = NoSap
        /\ min'[m].q = min[m].q /\ \A o \in Minors : o # m => min'[o] = min[o]
    BY <1>2, <2>1 DEF Minor
  <2>3. Rest'
    BY <1>1, <2>2 DEF Inv, Rest
  <2>4. Streamed'
    <3>1. \A o \in Minors : min'[o].q = min[o].q
      BY <2>2
    <3> QED  BY <1>1, <3>1 DEF Inv, Streamed
  <2>5. Sapped'
    <3>1. \A o \in Minors : IF min'[o].state = "idle" THEN min'[o].sap \in Saps ELSE min'[o].sap = NoSap
      BY <2>2 DEF Inv, Sapped
    <3>2. \A a, o \in Minors : a # o /\ min'[a].state = "idle" => min'[a].sap # min'[o].sap
      BY <2>2, <3>1, DpAssumption DEF Inv, Sapped, SapUnique
    <3> QED  BY <3>1, <3>2 DEF Sapped, SapUnique
  <2> QED  BY <1>1, <1>3, <2>3, <2>4, <2>5, SameKeeps DEF Inv
<1>5. ASSUME NEW sap \in Saps, Bind(s, sap) PROVE Inv'
  <2>1. min' = [min EXCEPT ![m].state = "idle", ![m].sap = sap] /\ ~SapTaken(sap)
    BY <1>5 DEF Bind
  <2> HIDE DEF m
  <2>2. /\ min' \in [Minors -> Minor] /\ min'[m].state = "idle" /\ min'[m].sap = sap
        /\ min'[m].q = min[m].q /\ \A o \in Minors : o # m => min'[o] = min[o]
    BY <1>2, <2>1 DEF Minor
  <2>3. Rest'
    BY <1>1, <2>2 DEF Inv, Rest
  <2>4. Streamed'
    <3>1. \A o \in Minors : min'[o].q = min[o].q
      BY <2>2
    <3> QED  BY <1>1, <3>1 DEF Inv, Streamed
  <2>5. Sapped'
    <3>1. \A o \in Minors : IF min'[o].state = "idle" THEN min'[o].sap \in Saps ELSE min'[o].sap = NoSap
      BY <2>2 DEF Inv, Sapped
    <3>2. \A o \in Minors : min[o].sap # sap
      BY <2>1, DpAssumption DEF Inv, Sapped, SapTaken
    <3>3. \A a, o \in Minors : a # o /\ min'[a].state = "idle" => min'[a].sap # min'[o].sap
      BY <2>2, <3>1, <3>2 DEF Inv, Sapped, SapUnique
    <3> QED  BY <3>1, <3>3 DEF Sapped, SapUnique
  <2> QED  BY <1>1, <1>3, <2>3, <2>4, <2>5, SameKeeps DEF Inv
<1> QED  BY <1>4, <1>5

(* The end of enopen                                                       *)
LEMMA OpenDoneKeeps ==
  ASSUME Inv, NEW s \in Streams, NEW m \in Minors, OpenDone(s, m), qptr[s] = None
  PROVE  /\ min' \in [Minors -> Minor] /\ qptr' \in [Streams -> Minors \cup {None}]
         /\ pollq' \in Streams \cup {NoQ}
         /\ qptr'[s] = m /\ \A o \in Streams : o # s => qptr'[o] = qptr[o]
         /\ \A o \in Minors : min'[o].q # NoQ => qptr'[min'[o].q] = o
         /\ pollq' # NoQ => qptr'[pollq'] # None
         /\ Sapped'
<1>1. /\ qptr' = [qptr EXCEPT ![s] = m]
      /\ min' = [min EXCEPT ![m] = [q |-> s, state |-> "unbound", sap |-> NoSap]]
      /\ pollq' = IF pollq = NoQ THEN s ELSE pollq
  BY DEF OpenDone
<1>2. min \in [Minors -> Minor] /\ qptr \in [Streams -> Minors \cup {None}] /\ pollq \in Streams \cup {NoQ}
  BY DEF Inv, Rest
<1>3. m # None
  BY DpAssumption DEF Minors, None
<1>4. /\ qptr' \in [Streams -> Minors \cup {None}]
      /\ qptr'[s] = m /\ \A o \in Streams : o # s => qptr'[o] = qptr[o]
  BY <1>1, <1>2
<1>5. /\ min' \in [Minors -> Minor]
      /\ min'[m].q = s /\ min'[m].state = "unbound" /\ min'[m].sap = NoSap
      /\ \A o \in Minors : o # m => min'[o] = min[o]
  BY <1>1, <1>2 DEF Minor
<1>6. \A o \in Minors : min'[o].q # NoQ => qptr'[min'[o].q] = o
  <2>1. SUFFICES ASSUME NEW o \in Minors, min'[o].q # NoQ PROVE qptr'[min'[o].q] = o
    OBVIOUS
  <2>2. CASE o = m
    BY <1>4, <1>5, <2>2
  <2>3. CASE o # m
    <3>1. min'[o] = min[o] /\ min[o].q \in Streams /\ qptr[min[o].q] = o
      BY <1>2, <1>5, <2>1, <2>3 DEF Inv, Streamed, Minor
    <3>2. o # None
      BY DpAssumption DEF Minors, None
    <3> QED  BY <1>4, <3>1, <3>2
  <2> QED  BY <2>2, <2>3
<1>7. pollq' \in Streams \cup {NoQ} /\ (pollq' # NoQ => qptr'[pollq'] # None)
  BY <1>1, <1>2, <1>3, <1>4 DEF Inv, Streamed
<1>8. Sapped'
  <2>1. \A o \in Minors : IF min'[o].state = "idle" THEN min'[o].sap \in Saps ELSE min'[o].sap = NoSap
    BY <1>5 DEF Inv, Sapped
  <2>2. \A a, o \in Minors : a # o /\ min'[a].state = "idle" => min'[a].sap # min'[o].sap
    BY <1>5, <2>1, DpAssumption DEF Inv, Sapped, SapUnique
  <2> QED  BY <2>1, <2>2 DEF Sapped, SapUnique
<1> QED  BY <1>4, <1>5, <1>6, <1>7, <1>8

LEMMA LinitKeeps == ASSUME Inv, NEW p \in Procs, Linit(p) PROVE Inv'
<1> DEFINE s == pr[p].q
           m == pr[p].m
<1>1. /\ pr[p].pc \in Bringing /\ UNCHANGED <<enab, loaded, ad, nf, faults>>
      /\ sync' = NoSync
  BY DEF Linit, Bringing
<1>2. /\ s \in Streams /\ m \in Minors /\ qptr[s] = None /\ s # NoQ /\ loaded
      /\ \A o \in Procs : pr[o].pc # "unload"
  <2>1. s \in Streams /\ m \in Minors
    BY <1>1 DEF Inv, Openings
  <2>2. s # NoQ /\ qptr[s] = None
    BY <2>1, DpAssumption DEF Inv, Openings
  <2>3. pr[p] # User
    BY <1>1 DEF User, Bringing
  <2> QED  BY <1>1, <2>1, <2>2, <2>3 DEF Inv, Unloads, Bringing
<1>3. /\ pr \in [Procs -> [pc: {"user", "ena", "mac", "undo", "unload"}, q: Streams \cup {NoQ}, m: Minors \cup {None}]]
      /\ sync' \in [p: Procs \cup {NoProc}, op: Ops, done: BOOLEAN, err: BOOLEAN]
  BY <1>1 DEF Inv, Rest, NoSync, Ops
<1>4. \/ \E pc \in {"mac", "undo"} : Goes(p, pc)
      \/ /\ Opened(p) /\ timers' \in Nat /\ running' \in BOOLEAN
         /\ \/ d' = d
            \/ d' = [d EXCEPT !.up = TRUE, !.reinit = 0, !.errs = 0, !.settled = TRUE]
  <2>1. timers \in Nat /\ running \in BOOLEAN
    BY DEF Inv, Rest
  <2>2. \/ Goes(p, "mac") \/ Goes(p, "undo")
        \/ Opened(p) /\ UNCHANGED <<d, timers, running>>
        \/ /\ running' = TRUE /\ timers' = timers + 1
           /\ d' = [d EXCEPT !.up = TRUE, !.reinit = 0, !.errs = 0, !.settled = TRUE]
           /\ Opened(p)
    BY Zenon DEF Linit
  <2>3. CASE Opened(p) /\ UNCHANGED <<d, timers, running>>
    BY <2>1, <2>3
  <2>4. CASE /\ running' = TRUE /\ timers' = timers + 1
             /\ d' = [d EXCEPT !.up = TRUE, !.reinit = 0, !.errs = 0, !.settled = TRUE]
             /\ Opened(p)
    <3>1. timers' \in Nat /\ running' \in BOOLEAN
      BY <2>1, <2>4
    <3> QED  BY <2>4, <3>1, Zenon
  <2> QED  BY <2>2, <2>3, <2>4
<1>5. ASSUME NEW pc \in {"mac", "undo"}, Goes(p, pc) PROVE Inv'
  <2>1. pr' = [pr EXCEPT ![p].pc = pc] /\ UNCHANGED <<d, min, qptr, pollq, timers, running>>
    BY <1>5 DEF Goes
  <2>2. /\ pr' \in [Procs -> [pc: {"user", "ena", "mac", "undo", "unload"}, q: Streams \cup {NoQ}, m: Minors \cup {None}]]
        /\ pr'[p].pc = pc /\ pr'[p].q = s /\ pr'[p].m = m /\ \A o \in Procs : o # p => pr'[o] = pr[o]
    BY <1>3, <2>1
  <2>3. Rest'
    BY <1>1, <1>3, <2>1, <2>2 DEF Inv, Rest
  <2>4. DriverOk(d', nf') /\ d'.up = d.up
    BY <1>1, <2>1 DEF Inv
  <2>5. Streamed' /\ Sapped'
    BY <1>1, <2>1 DEF Inv, Streamed, Sapped, SapUnique
  <2>6. Openings'
    <3>1. \A o \in Procs : pr'[o].q = pr[o].q /\ pr'[o].m = pr[o].m
      BY <2>2
    <3>2. \A o \in Procs : pr'[o].pc \in Bringing => pr[o].pc \in Bringing
      BY <1>1, <2>2
    <3>3. \A o \in Procs : pr'[o].q # NoQ => qptr'[pr'[o].q] = None
      BY <2>1, <3>1 DEF Inv, Openings
    <3>4. \A a, o \in Procs : a # o /\ pr'[a].q # NoQ => pr'[o].q # pr'[a].q
      BY <3>1 DEF Inv, Openings
    <3>5. \A o \in Procs : pr'[o].pc \in Bringing => pr'[o].q \in Streams /\ pr'[o].m \in Minors
      BY <3>1, <3>2 DEF Inv, Openings
    <3> QED  BY <3>3, <3>4, <3>5 DEF Openings
  <2>7. Unloads'
    <3>1. \A o \in Procs : pr'[o].pc # "unload"
      BY <1>2, <2>2
    <3> QED  BY <1>1, <1>2, <3>1 DEF Unloads
  <2> QED  BY <2>3, <2>4, <2>5, <2>6, <2>7 DEF Inv
<1>6. ASSUME Opened(p), timers' \in Nat, running' \in BOOLEAN,
             \/ d' = d
             \/ d' = [d EXCEPT !.up = TRUE, !.reinit = 0, !.errs = 0, !.settled = TRUE]
      PROVE  Inv'
  <2>1. OpenDone(s, m) /\ pr' = [pr EXCEPT ![p] = User]
    BY <1>6 DEF Opened
  <2> HIDE DEF s, m
  <2>2. /\ min' \in [Minors -> Minor] /\ qptr' \in [Streams -> Minors \cup {None}]
        /\ pollq' \in Streams \cup {NoQ}
        /\ qptr'[s] = m /\ \A o \in Streams : o # s => qptr'[o] = qptr[o]
        /\ \A o \in Minors : min'[o].q # NoQ => qptr'[min'[o].q] = o
        /\ pollq' # NoQ => qptr'[pollq'] # None
        /\ Sapped'
    BY <1>2, <2>1, OpenDoneKeeps
  <2>3. /\ pr' \in [Procs -> [pc: {"user", "ena", "mac", "undo", "unload"}, q: Streams \cup {NoQ}, m: Minors \cup {None}]]
        /\ pr'[p] = User /\ \A o \in Procs : o # p => pr'[o] = pr[o]
    BY <1>3, <2>1 DEF User
  <2>4. DriverOk(d', nf') /\ (d.up => d'.up)
    <3>1. nf' = nf /\ DriverOk(d, nf)
      BY <1>1 DEF Inv
    <3> QED  BY <1>6, <3>1, UpDriver
  <2>5. Rest'
    BY <1>1, <1>3, <1>6, <2>2, <2>3 DEF Inv, Rest
  <2>6. Streamed'
    <3>1. enab' = enab /\ \A o \in enab : o \in Streams /\ qptr[o] # None
      BY <1>1 DEF Inv, Rest, Streamed
    <3>2. \A o \in enab : qptr'[o] # None
      BY <1>2, <2>2, <3>1
    <3>3. enab # {} => d'.up
      BY <2>4 DEF Inv, Streamed
    <3> QED  BY <2>2, <3>1, <3>2, <3>3 DEF Streamed
  <2>7. Openings'
    <3>1. pr'[p].q = NoQ /\ pr'[p].pc = "user" /\ \A o \in Procs : o # p => pr[o].q # s /\ pr'[o] = pr[o]
      BY <1>2, <2>3 DEF Inv, Openings, User, s
    <3>2. \A o \in Procs : pr[o].q \in Streams \cup {NoQ}
      BY <1>3
    <3>3. \A o \in Procs : pr'[o].q # NoQ => qptr'[pr'[o].q] = None
      BY <2>2, <3>1, <3>2 DEF Inv, Openings
    <3>4. \A a, o \in Procs : a # o /\ pr'[a].q # NoQ => pr'[o].q # pr'[a].q
      BY <3>1 DEF Inv, Openings
    <3>5. \A o \in Procs : pr'[o].pc \in Bringing => pr'[o].q \in Streams /\ pr'[o].m \in Minors
      BY <3>1 DEF Inv, Openings, Bringing
    <3> QED  BY <3>3, <3>4, <3>5 DEF Openings
  <2>8. Unloads'
    <3>1. \A o \in Procs : pr'[o].pc # "unload"
      BY <1>2, <2>3 DEF User
    <3> QED  BY <1>1, <1>2, <3>1 DEF Unloads
  <2> QED  BY <2>2, <2>4, <2>5, <2>6, <2>7, <2>8 DEF Inv
<1> QED  BY <1>4, <1>5, <1>6

LEMMA EnopenKeeps == ASSUME Inv, NEW p \in Procs, NEW s \in Streams, Enopen(p, s) PROVE Inv'
<1>1. /\ loaded /\ (\A o \in Procs : pr[o].pc # "unload") /\ pr[p] = User /\ qptr[s] = None /\ s \notin Opening
      /\ UNCHANGED <<d, enab, timers, running, loaded, sync, ad, nf, faults>>
  BY DEF Enopen
<1>2. PICK m \in Minors :
        IF running THEN OpenDone(s, m) /\ UNCHANGED pr
        ELSE /\ pr' = [pr EXCEPT ![p] = [pc |-> "ena", q |-> s, m |-> m]]
             /\ UNCHANGED <<qptr, min, pollq>>
  BY DEF Enopen, FreeMinors
<1>3. s # NoQ /\ \A o \in Procs : pr[o].q # s
  BY <1>1, DpAssumption DEF Opening
<1>4. DriverOk(d', nf') /\ d'.up = d.up
  BY <1>1 DEF Inv
<1>5. /\ pr \in [Procs -> [pc: {"user", "ena", "mac", "undo", "unload"}, q: Streams \cup {NoQ}, m: Minors \cup {None}]]
      /\ \A o \in Procs : pr[o].q \in Streams \cup {NoQ}
  BY DEF Inv, Rest
<1>6. CASE running
  <2>1. OpenDone(s, m) /\ pr' = pr
    BY <1>2, <1>6
  <2>2. /\ min' \in [Minors -> Minor] /\ qptr' \in [Streams -> Minors \cup {None}]
        /\ pollq' \in Streams \cup {NoQ}
        /\ qptr'[s] = m /\ \A o \in Streams : o # s => qptr'[o] = qptr[o]
        /\ \A o \in Minors : min'[o].q # NoQ => qptr'[min'[o].q] = o
        /\ pollq' # NoQ => qptr'[pollq'] # None
        /\ Sapped'
    BY <1>1, <2>1, OpenDoneKeeps
  <2>3. Rest'
    BY <1>1, <2>1, <2>2 DEF Inv, Rest
  <2>4. Streamed'
    <3>1. enab' = enab /\ \A o \in enab : o \in Streams /\ qptr[o] # None
      BY <1>1 DEF Inv, Rest, Streamed
    <3>2. \A o \in enab : qptr'[o] # None
      BY <1>1, <2>2, <3>1
    <3>3. enab # {} => d'.up
      BY <1>4 DEF Inv, Streamed
    <3> QED  BY <2>2, <3>1, <3>2, <3>3 DEF Streamed
  <2>5. Openings'
    BY <1>3, <1>5, <2>1, <2>2 DEF Inv, Openings
  <2>6. Unloads'
    BY <1>1, <1>4, <2>1 DEF Inv, Unloads
  <2> QED  BY <1>4, <2>2, <2>3, <2>4, <2>5, <2>6 DEF Inv
<1>7. CASE ~running
  <2>1. pr' = [pr EXCEPT ![p] = [pc |-> "ena", q |-> s, m |-> m]] /\ UNCHANGED <<qptr, min, pollq>>
    BY <1>2, <1>7
  <2>2. /\ pr' \in [Procs -> [pc: {"user", "ena", "mac", "undo", "unload"}, q: Streams \cup {NoQ}, m: Minors \cup {None}]]
        /\ pr'[p].pc = "ena" /\ pr'[p].q = s /\ pr'[p].m = m /\ \A o \in Procs : o # p => pr'[o] = pr[o]
    BY <1>5, <2>1
  <2>3. Rest'
    BY <1>1, <2>1, <2>2 DEF Inv, Rest
  <2>4. Streamed' /\ Sapped'
    BY <1>1, <2>1 DEF Inv, Streamed, Sapped, SapUnique
  <2>5. Openings'
    <3>1. \A o \in Procs : pr'[o].q # NoQ => qptr'[pr'[o].q] = None
      BY <1>1, <2>1, <2>2 DEF Inv, Openings
    <3>2. \A a, o \in Procs : a # o /\ pr'[a].q # NoQ => pr'[o].q # pr'[a].q
      BY <1>3, <2>2 DEF Inv, Openings
    <3>3. \A o \in Procs : pr'[o].pc \in Bringing => pr'[o].q \in Streams /\ pr'[o].m \in Minors
      BY <2>2 DEF Inv, Openings
    <3> QED  BY <3>1, <3>2, <3>3 DEF Openings
  <2>6. Unloads'
    <3>1. \A o \in Procs : pr'[o].pc # "unload"
      BY <1>1, <2>2
    <3> QED  BY <1>1, <3>1 DEF Unloads
  <2> QED  BY <1>4, <2>3, <2>4, <2>5, <2>6 DEF Inv
<1> QED  BY <1>6, <1>7

LEMMA EncloseKeeps == ASSUME Inv, NEW s \in Streams, Enclose(s) PROVE Inv'
<1> DEFINE m == qptr[s]
<1>1. /\ m # None /\ qptr' = [qptr EXCEPT ![s] = None] /\ min' = [min EXCEPT ![m] = NoMinor]
      /\ pollq' = PollTo(s, m) /\ enab' = enab \ {s}
      /\ UNCHANGED <<timers, running, loaded, pr, sync, ad, nf, faults>>
  BY DEF Enclose
<1>2. DriverOk(d', nf') /\ d'.up = d.up
  BY EncloseDriver DEF Inv
<1>3. /\ min \in [Minors -> Minor] /\ qptr \in [Streams -> Minors \cup {None}] /\ m \in Minors
      /\ pollq \in Streams \cup {NoQ} /\ enab \subseteq Streams
  BY <1>1 DEF Inv, Rest
<1> DEFINE left == {o \in Minors \ {m} : min[o].q # NoQ}
           at == CHOOSE o \in left : \A x \in left : o <= x
<1>4. pollq' = IF pollq # s THEN pollq ELSE IF left = {} THEN NoQ ELSE min[at].q
  BY <1>1 DEF PollTo
<1>5. left # {} => at \in left
  <2>1. SUFFICES ASSUME left # {} PROVE at \in left
    OBVIOUS
  <2>2. left \in SUBSET Nat
    BY DpAssumption DEF Minors
  <2> HIDE DEF left
  <2> QED  BY <2>1, <2>2, Least, Zenon
<1>6. /\ qptr' \in [Streams -> Minors \cup {None}] /\ qptr'[s] = None
      /\ \A o \in Streams : o # s => qptr'[o] = qptr[o]
  BY <1>1, <1>3
<1>7. /\ min' \in [Minors -> Minor] /\ min'[m] = NoMinor
      /\ \A o \in Minors : o # m => min'[o] = min[o]
  BY <1>1, <1>3 DEF Minor, NoMinor
<1>8. \A o \in Minors : o # m /\ min[o].q # NoQ => min[o].q \in Streams /\ min[o].q # s /\ qptr[min[o].q] = o
  BY <1>3 DEF Inv, Streamed, Minor
<1>9. pollq' \in Streams \cup {NoQ} /\ (pollq' # NoQ => pollq' # s /\ qptr[pollq'] # None)
  <2>1. CASE pollq # s
    BY <1>3, <1>4, <2>1 DEF Inv, Streamed
  <2>2. CASE pollq = s /\ left = {}
    BY <1>4, <2>2, DpAssumption
  <2>3. CASE pollq = s /\ left # {}
    <3>1. at \in Minors /\ at # m /\ min[at].q # NoQ /\ pollq' = min[at].q
      BY <1>4, <1>5, <2>3
    <3>2. at # None
      BY <3>1, DpAssumption DEF Minors, None
    <3> QED  BY <1>8, <3>1, <3>2
  <2> QED  BY <2>1, <2>2, <2>3
<1> HIDE DEF m, left, at
<1>10. Rest'
  BY <1>1, <1>6, <1>7, <1>9 DEF Inv, Rest
<1>11. Streamed'
  <2>1. \A o \in Minors : min'[o].q # NoQ => qptr'[min'[o].q] = o
    BY <1>6, <1>7, <1>8 DEF NoMinor
  <2>2. pollq' # NoQ => qptr'[pollq'] # None
    BY <1>6, <1>9
  <2>3. \A o \in enab' : qptr'[o] # None
    BY <1>1, <1>3, <1>6 DEF Inv, Streamed
  <2>4. enab' # {} => d'.up
    BY <1>1, <1>2 DEF Inv, Streamed
  <2> QED  BY <2>1, <2>2, <2>3, <2>4 DEF Streamed
<1>12. Openings'
  <2>1. \A p \in Procs : pr[p].q \in Streams \cup {NoQ}
    BY DEF Inv, Rest
  <2> QED  BY <1>1, <1>6, <2>1 DEF Inv, Openings
<1>13. Unloads'
  BY <1>1, <1>2 DEF Inv, Unloads
<1>14. Sapped'
  <2>1. \A o \in Minors : IF min'[o].state = "idle" THEN min'[o].sap \in Saps ELSE min'[o].sap = NoSap
    BY <1>7 DEF Inv, Sapped, NoMinor
  <2>2. \A a, o \in Minors : a # o /\ min'[a].state = "idle" => min'[a].sap # min'[o].sap
    BY <1>7, <2>1, DpAssumption DEF Inv, Sapped, SapUnique, NoMinor
  <2> QED  BY <2>1, <2>2 DEF Sapped, SapUnique
<1> QED  BY <1>2, <1>10, <1>11, <1>12, <1>13, <1>14 DEF Inv

(* Load and unload                                                         *)
LEMMA LoadKeeps == Inv /\ Load => Inv'
<1> SUFFICES ASSUME Inv, Load PROVE Inv'
  OBVIOUS
<1>1. /\ ~loaded /\ loaded' = TRUE /\ d' = InitDriver
      /\ UNCHANGED <<min, qptr, pollq, enab, timers, running, pr, sync, ad, nf, faults>>
  BY DEF Load
<1>2. nf \in Nat /\ ~d.up
  BY <1>1 DEF Inv, Rest, Unloads
<1>3. DriverOk(d', nf') /\ ~d'.up
  BY <1>1, <1>2, NewDriver
<1>4. d'.up = d.up
  <2>1. d.up \in BOOLEAN /\ d'.up \in BOOLEAN
    BY <1>3 DEF Inv, DriverOk, Core, Driver
  <2> QED  BY <1>2, <1>3, <2>1
<1>5. Rest' /\ Streamed' /\ Openings' /\ Sapped'
  BY <1>1, <1>4 DEF Inv, Rest, Streamed, Openings, Sapped, SapUnique
<1>6. Unloads'
  BY <1>1, <1>3 DEF Inv, Unloads
<1> QED  BY <1>3, <1>5, <1>6 DEF Inv

LEMMA UnloadKeeps == ASSUME Inv, NEW p \in Procs, Unload(p) PROVE Inv'
<1>1. /\ loaded /\ (\A o \in Procs : pr[o] = User) /\ (\A s \in Streams : qptr[s] = None) /\ ~d.busy
      /\ d' = [d EXCEPT !.up = FALSE] /\ timers' = Untimeout
      /\ UNCHANGED <<min, qptr, pollq, enab, running, sync, ad, nf, faults>>
  BY DEF Unload
<1>2. DriverOk(d', nf') /\ ~d'.up
  BY <1>1, DownDriver DEF Inv
<1>3. \/ /\ pr' = [pr EXCEPT ![p] = [pc |-> "unload", q |-> NoQ, m |-> None]] /\ loaded' = loaded
      \/ loaded' = FALSE /\ pr' = pr
  BY DEF Unload
<1>4. pr \in [Procs -> [pc: {"user", "ena", "mac", "undo", "unload"}, q: Streams \cup {NoQ}, m: Minors \cup {None}]]
  BY DEF Inv, Rest
<1>5. /\ pr' \in [Procs -> [pc: {"user", "ena", "mac", "undo", "unload"}, q: Streams \cup {NoQ}, m: Minors \cup {None}]]
      /\ \A o \in Procs : o # p => pr'[o] = User
      /\ pr'[p] = User \/ (pr'[p] = [pc |-> "unload", q |-> NoQ, m |-> None] /\ loaded' = loaded)
      /\ pr'[p] = User \/ loaded'
  <2>1. CASE loaded' = FALSE /\ pr' = pr
    BY <1>1, <1>4, <2>1
  <2>2. CASE /\ pr' = [pr EXCEPT ![p] = [pc |-> "unload", q |-> NoQ, m |-> None]]
             /\ loaded' = loaded
    <3> DEFINE u == [pc |-> "unload", q |-> NoQ, m |-> None]
    <3>1. u \in [pc: {"user", "ena", "mac", "undo", "unload"}, q: Streams \cup {NoQ}, m: Minors \cup {None}]
      OBVIOUS
    <3> HIDE DEF u
    <3>2. /\ pr' \in [Procs -> [pc: {"user", "ena", "mac", "undo", "unload"}, q: Streams \cup {NoQ}, m: Minors \cup {None}]]
          /\ pr'[p] = u /\ \A o \in Procs : o # p => pr'[o] = pr[o]
      BY <1>4, <2>2, <3>1 DEF u
    <3> QED  BY <1>1, <2>2, <3>2 DEF u
  <2> QED  BY <1>3, <2>1, <2>2
<1>6. timers' \in Nat /\ loaded' \in BOOLEAN
  <2>1. timers \in Nat /\ loaded \in BOOLEAN
    BY DEF Inv, Rest
  <2>2. timers' \in Nat
    BY <1>1, <2>1 DEF Untimeout
  <2> QED  BY <1>3, <2>1, <2>2
<1>7. Rest'
  BY <1>1, <1>5, <1>6 DEF Inv, Rest
<1>8. enab = {}
  BY <1>1 DEF Inv, Rest, Streamed
<1>9. Streamed'
  BY <1>1, <1>8 DEF Inv, Streamed
<1>10. Openings'
  <2>1. \A o \in Procs : pr'[o].q = NoQ /\ pr'[o].pc \notin Bringing
    BY <1>5 DEF User, Bringing
  <2> QED  BY <2>1 DEF Openings
<1>11. Unloads'
  BY <1>2, <1>5 DEF Unloads, User
<1>12. Sapped'
  BY <1>1 DEF Inv, Sapped, SapUnique
<1> QED  BY <1>2, <1>7, <1>9, <1>10, <1>11, <1>12 DEF Inv

LEMMA UnloadedKeeps == ASSUME Inv, NEW p \in Procs, Unloaded(p) PROVE Inv'
<1>1. /\ pr[p].pc = "unload" /\ sync' = NoSync /\ pr' = [pr EXCEPT ![p] = User]
      /\ running' = FALSE /\ loaded' = FALSE
      /\ UNCHANGED <<d, min, qptr, pollq, enab, timers, ad, nf, faults>>
  BY DEF Unloaded
<1>2. ~d.up /\ \A o \in Procs \ {p} : pr[o] = User
  BY <1>1 DEF Inv, Unloads
<1>3. DriverOk(d', nf')
  BY <1>1 DEF Inv
<1>4. /\ pr' \in [Procs -> [pc: {"user", "ena", "mac", "undo", "unload"}, q: Streams \cup {NoQ}, m: Minors \cup {None}]]
      /\ \A o \in Procs : pr'[o] = User
  BY <1>1, <1>2 DEF Inv, Rest, User
<1>5. Rest'
  <2>1. sync' \in [p: Procs \cup {NoProc}, op: Ops, done: BOOLEAN, err: BOOLEAN]
    BY <1>1 DEF NoSync, Ops
  <2> QED  BY <1>1, <1>4, <2>1 DEF Inv, Rest
<1>6. Streamed' /\ Sapped'
  BY <1>1 DEF Inv, Streamed, Sapped, SapUnique
<1>7. Openings' /\ Unloads'
  BY <1>1, <1>2, <1>4 DEF Openings, Unloads, User, Bringing
<1> QED  BY <1>3, <1>5, <1>6, <1>7 DEF Inv

LEMMA NextKeeps == Inv /\ [Next]_vars => Inv'
<1> SUFFICES ASSUME Inv, [Next]_vars PROVE Inv'
  OBVIOUS
<1>1. CASE UNCHANGED vars
  BY <1>1 DEF vars, Inv, Rest, Streamed, Openings, Unloads, Sapped, SapUnique
<1>2. CASE Refuse \/ Complete \/ AdSettles \/ DriverSettles \/ AdFails \/ Load \/ Poll
  BY <1>2, RefuseKeeps, CompleteKeeps, AdKeeps, LoadKeeps, PollKeeps
<1>3. ASSUME NEW p \in Procs,
             (\E s \in Streams : Enopen(p, s)) \/ Issue(p) \/ Linit(p) \/ Unload(p) \/ Unloaded(p)
      PROVE  Inv'
  BY <1>3, EnopenKeeps, IssueKeeps, LinitKeeps, UnloadKeeps, UnloadedKeeps
<1>4. ASSUME NEW s \in Streams,
             Enclose(s) \/ Enrsrv(s) \/ Unbind(s) \/ Unitdata(s) \/ Flush(s) \/ \E sap \in Saps : Bind(s, sap)
      PROVE  Inv'
  BY <1>4, EncloseKeeps, EnrsrvKeeps, BindKeeps, UnitdataKeeps, FlushKeeps
<1> QED  BY <1>1, <1>2, <1>3, <1>4, Zenon DEF Next

LEMMA InvSound == Inv => TypeOK /\ CommandSound
<1> SUFFICES ASSUME Inv PROVE TypeOK /\ CommandSound
  OBVIOUS
<1>1. TypeOK
  BY DEF Inv, Rest, DriverOk, Core, TypeOK
<1>2. OneCommand
  <2>1. {i \in DOMAIN d.q : d.q[i] = "async"} = Asyncs(d.q)
    BY DEF Asyncs, Kind
  <2>2. CASE d.busy
    <3>1. PICK i : Asyncs(d.q) = {i}
      BY <2>2 DEF Inv, DriverOk, Core, One
    <3>2. Cardinality({i}) = 1
      BY FS_Singleton
    <3> QED  BY <2>1, <2>2, <3>1, <3>2 DEF OneCommand
  <2>3. CASE ~d.busy
    <3>1. Asyncs(d.q) = {}
      BY <2>3 DEF Inv, DriverOk, Core, One
    <3>2. Cardinality({}) = 0
      BY FS_EmptySet
    <3> QED  BY <2>1, <2>3, <3>1, <3>2 DEF OneCommand
  <2> QED  BY <2>2, <2>3
<1>3. NoStall
  <2>1. d.active \in BOOLEAN
    BY DEF Inv, DriverOk, Core, Driver
  <2> QED  BY <2>1 DEF Inv, DriverOk, Core, Runs, Stops, Stall, Due, NoStall
<1>4. FrameIntact /\ FifoOrder
  BY DEF Inv, DriverOk, Core, Intact, Fifo, FrameIntact, FifoOrder
<1>5. WqCount
  BY DEF Inv, DriverOk, Core, Counted, Places, WqCount, Waiting
<1>6. SapUnique
  BY DEF Inv, Sapped
<1> QED  BY <1>1, <1>2, <1>3, <1>4, <1>5, <1>6 DEF CommandSound

(* Every variable of the driver keeps its type: its counts stay within     *)
(* dp.c's, the retries within sj_terminate's.                              *)
THEOREM DpTyped == Spec => []TypeOK
<1> QED  BY InitInv, NextKeeps, InvSound, PTL DEF Spec

(* dp.c's one command and its frames, for any processes that open at any   *)
(* moment, streams, minors, frames and failures: dpabuf is queued once or  *)
(* not at all, something is under way whenever something is due, dptx is   *)
(* left alone while it is sent, a stream's frames leave in order,          *)
(* if_wqcnt is what waits until a flush, and no SAP is bound twice.        *)
THEOREM CommandAlways == Spec => []CommandSound
<1> QED  BY InitInv, NextKeeps, InvSound, PTL DEF Spec

-----------------------------------------------------------------------------
(* What waits, and the synchronous command, beside the driver's commands   *)

(* dp_linit and dp_unload are called by one process at a time.             *)
OneOpener == \A p, o \in Procs : p = o
(* At most one frame is longer than 1514 bytes.                            *)
OneLong == \A a, b \in Bad \cap (1 .. MaxFrames) : a = b

Apart(w) == \A a, b \in Streams : a # b => \A i \in DOMAIN w[a], j \in DOMAIN w[b] : w[a][i] # w[b][j]
NoneLong(w) == \A o \in Streams : \A i \in DOMAIN w[o] : w[o][i] \notin Bad
Empty(w) == \A o \in Streams : w[o] = <<>>
SameFrames(s, t) ==
  t.tx = s.tx /\ t.wq = s.wq /\ t.flushed = s.flushed /\ t.up = s.up /\ Syncs(t.q) = Syncs(s.q)

LEMMA StartFrames ==
  ASSUME NEW s \in Driver, NEW first \in BOOLEAN
  PROVE  SameFrames(s, Start(s, first))
BY StartIs DEF Started, SameFrames

LEMMA KickFrames ==
  ASSUME NEW s \in Driver, NEW start \in BOOLEAN
  PROVE  SameFrames(s, Kick(s, start)) /\ Kick(s, start) \in Driver
<1> DEFINE t == Kick(s, start)
<1>1. /\ t \in Driver
      /\ t = s \/ Kicked(s, start, t)
  BY KickIs
<1> HIDE DEF t
<1>2. s.q \in Seq({"async", "sync"}) /\ "async" # "sync"
  BY DEF Driver
<1>3. Syncs(Append(s.q, "async")) = Syncs(s.q)
  BY <1>2, AppendKind DEF Syncs
<1> QED  BY <1>1, <1>3 DEF Kicked, SameFrames, t

(* dp_xmit drops a frame that is too long, and stages any other.           *)
LEMMA XmitFrames ==
  ASSUME NEW s \in Driver, NEW q \in Streams, NEW f \in 1 .. MaxFrames
  PROVE  LET t == Xmit(s, q, f)
         IN  IF f \in Bad THEN t = s
             ELSE /\ t.tx # NoTx /\ t.wq = s.wq /\ t.flushed = s.flushed /\ t.up = s.up
                  /\ Syncs(t.q) = Syncs(s.q)
<1> DEFINE x == [id |-> f, q |-> q]
           e == Passed(s, q)
           u == [s EXCEPT !.tx = x, !.passed = e]
<1>1. CASE f \in Bad
  BY <1>1 DEF Xmit
<1>2. CASE f \notin Bad
  <2>1. x \in Frames /\ x # NoTx
    BY DEF Frames, NoTx
  <2>2. e \in [Streams -> Nat]
    BY DEF Passed, Driver
  <2>3. Xmit(s, q, f) = Kick(u, TRUE)
    BY <1>2 DEF Xmit
  <2> HIDE DEF x, e
  <2>4. u \in Driver
    BY <2>1, <2>2 DEF Driver
  <2>5. u.tx = x /\ u.wq = s.wq /\ u.flushed = s.flushed /\ u.up = s.up /\ u.q = s.q
    BY DEF Driver
  <2> HIDE DEF u
  <2>6. SameFrames(u, Kick(u, TRUE))
    BY <2>4, KickFrames
  <2> QED  BY <1>2, <2>1, <2>3, <2>5, <2>6 DEF SameFrames
<1> QED  BY <1>1, <1>2

LEMMA TakenFrames ==
  ASSUME NEW s \in Driver, NEW q \in Streams, s.wq[q] # <<>>, s.wqcnt # 0
  PROVE  LET t == Taken(s, q)
         IN  /\ t \in Driver /\ t.wq = [s.wq EXCEPT ![q] = Tail(@)] /\ t.wqcnt = s.wqcnt - 1
             /\ t.tx = s.tx /\ t.q = s.q /\ t.flushed = s.flushed /\ t.up = s.up /\ t.nextmin = s.nextmin
<1> DEFINE w == [s.wq EXCEPT ![q] = Tail(@)]
           c == s.wqcnt - 1
           t == [s EXCEPT !.wq = w, !.wqcnt = c]
<1>1. s.wq \in Queues /\ s.wqcnt \in Nat
  BY DEF Driver, Queues
<1>2. Taken(s, q) = t
  BY <1>1 DEF Taken, Driver, Queues
<1>3. Tail(s.wq[q]) \in Seq(1 .. MaxFrames)
  <2>1. s.wq[q] \in Seq(1 .. MaxFrames)
    BY <1>1 DEF Queues
  <2> QED  BY <2>1, SeqParts
<1>4. w \in Queues /\ c \in Nat
  BY <1>1, <1>3 DEF Queues
<1>5. w = [s.wq EXCEPT ![q] = Tail(@)] /\ c = s.wqcnt - 1
  OBVIOUS
<1> HIDE DEF w, c
<1>6. t \in Driver
  BY <1>4 DEF Driver, Queues
<1>7. /\ t.wq = w /\ t.wqcnt = c /\ t.tx = s.tx /\ t.q = s.q /\ t.flushed = s.flushed /\ t.up = s.up
      /\ t.nextmin = s.nextmin
  BY DEF Driver
<1> QED  BY <1>2, <1>5, <1>6, <1>7

(* The frame taken from a queue's head waits nowhere any more.             *)
LEMMA TailApart ==
  ASSUME NEW w \in Queues, Apart(w), NEW q \in Streams, w[q] # <<>>,
         \A i, j \in DOMAIN w[q] : i < j => w[q][i] < w[q][j],
         NEW u, u = [w EXCEPT ![q] = Tail(@)]
  PROVE  /\ Apart(u) /\ \A o \in Streams : w[o] = <<>> => u[o] = <<>>
         /\ \A o \in Streams : \A i \in DOMAIN u[o] : u[o][i] # Head(w[q]) /\ u[o][i] \in 1 .. MaxFrames
         /\ Head(w[q]) \in Bad => ~NoneLong(w)
<1>1. w[q] \in Seq(1 .. MaxFrames)
  BY DEF Queues
<1>2. /\ Len(w[q]) \in Nat \ {0} /\ DOMAIN w[q] = 1 .. Len(w[q])
      /\ Tail(w[q]) \in Seq(1 .. MaxFrames) /\ DOMAIN Tail(w[q]) = 1 .. Len(w[q]) - 1
      /\ \A i \in 1 .. Len(w[q]) - 1 : Tail(w[q])[i] = w[q][i + 1]
      /\ Head(w[q]) = w[q][1] /\ Head(w[q]) \in 1 .. MaxFrames
  BY <1>1, SeqParts
<1>3. u \in Queues /\ u[q] = Tail(w[q]) /\ \A o \in Streams : o # q => u[o] = w[o]
  BY <1>2 DEF Queues
<1>4. 1 \in DOMAIN w[q]
  BY <1>2
<1>5. ASSUME NEW i \in DOMAIN u[q] PROVE i + 1 \in DOMAIN w[q] /\ 1 < i + 1 /\ u[q][i] = w[q][i + 1]
  <2>1. u[q] = Tail(w[q]) /\ i \in DOMAIN Tail(w[q])
    BY <1>3, <1>5
  <2>2. i \in 1 .. Len(w[q]) - 1 /\ Tail(w[q])[i] = w[q][i + 1]
    BY <1>2, <2>1
  <2>3. i + 1 \in DOMAIN w[q] /\ 1 < i + 1
    BY <1>2, <2>2
  <2> QED  BY <2>1, <2>2, <2>3
<1>6. \A o \in Streams : \A i \in DOMAIN u[o] : \E j \in DOMAIN w[o] : u[o][i] = w[o][j]
  BY <1>3, <1>5
<1>7. Apart(u)
  BY <1>6 DEF Apart
<1>9. Head(w[q]) \in Bad => ~NoneLong(w)
  BY <1>2, <1>4 DEF NoneLong
<1>10. ASSUME NEW o \in Streams, NEW i \in DOMAIN u[o]
       PROVE  u[o][i] # Head(w[q]) /\ u[o][i] \in 1 .. MaxFrames
  <2>1. u[o][i] \in 1 .. MaxFrames
    <3>1. u[o] \in Seq(1 .. MaxFrames)
      BY <1>3 DEF Queues
    <3> QED  BY <1>10, <3>1, SeqElement
  <2>2. CASE o = q
    <3>1. w[q][1] < w[q][i + 1]
      BY <1>4, <1>5, <1>10, <2>2
    <3>2. u[o][i] = w[q][i + 1] /\ w[q][1] \in Nat
      BY <1>2, <1>5, <1>10, <2>2
    <3> QED  BY <1>2, <2>1, <3>1, <3>2
  <2>3. CASE o # q
    <3>1. u[o] = w[o]
      BY <1>3, <2>3
    <3> QED  BY <1>2, <1>4, <1>10, <2>1, <2>3, <3>1 DEF Apart
  <2> QED  BY <2>2, <2>3
<1>11. \A o \in Streams : w[o] = <<>> => u[o] = <<>>
  BY <1>3
<1> QED  BY <1>7, <1>9, <1>10, <1>11

(* How many turns ago a minor had its turn, after n turns of the round     *)
Dist(m, at) == IF m <= at THEN at - m ELSE at + NMinor - m
LEMMA DistStep ==
  ASSUME NEW m \in Minors, NEW at \in Minors
  PROVE  /\ (at + 1) % NMinor \in Minors
         /\ Dist(m, at) \in 0 .. NMinor - 1
         /\ Dist(m, (at + 1) % NMinor) = IF m = (at + 1) % NMinor THEN 0 ELSE Dist(m, at) + 1
<1>1. NMinor \in Nat \ {0} /\ at \in 0 .. NMinor - 1 /\ m \in 0 .. NMinor - 1
  BY DpAssumption DEF Minors
<1>2. (at + 1) % NMinor = IF at = NMinor - 1 THEN 0 ELSE at + 1
  BY <1>1
<1> DEFINE n == (at + 1) % NMinor
<1>3. n = IF at = NMinor - 1 THEN 0 ELSE at + 1
  BY <1>2
<1> HIDE DEF n
<1>4. n \in 0 .. NMinor - 1
  BY <1>1, <1>3
<1>5. Dist(m, at) \in 0 .. NMinor - 1 /\ Dist(m, n) = IF m = n THEN 0 ELSE Dist(m, at) + 1
  BY <1>1, <1>3, <1>4 DEF Dist
<1> QED  BY <1>4, <1>5 DEF n, Minors

(* en_wproc's loop from s: what it leaves of the frames, and how far back  *)
(* its last turns found nothing waiting.                                   *)
Since(s, t) ==
  /\ Apart(t.wq) /\ Syncs(t.q) = Syncs(s.q) /\ t.flushed = s.flushed
  /\ \A o \in Streams : s.wq[o] = <<>> => t.wq[o] = <<>>
Emptied(s, q) == q = NoQ \/ s.wq[q] = <<>>
Swept(s, live, e) == \A m \in Minors : Dist(m, s.nextmin) < e => Emptied(s, live[m])
Searched(r, live, k) ==
  /\ ~r.on => r.s.tx # NoTx
  /\ r.s.tx = NoTx /\ r.s.wqcnt # 0 =>
       \E e \in Nat : Swept(r.s, live, e) /\ (e >= k \/ (e + NMinor >= k /\ NoneLong(r.s.wq)))

LEMMA TurnSearches ==
  ASSUME OneLong, NEW live, \A m \in Minors : live[m] \in Streams \cup {NoQ}, NEW n \in Nat,
         NEW s0, NEW k \in Nat, NEW r \in Loop(n), Since(s0, r.s), Searched(r, live, k)
  PROVE  Since(s0, Turn(live)[r].s) /\ Searched(Turn(live)[r], live, k + 1)
<1> DEFINE m == (r.s.nextmin + 1) % NMinor
           q == live[m]
           u == [r.s EXCEPT !.nextmin = m]
           t == Taken(u, q)
           f == Head(u.wq[q])
           x == Xmit(t, q, f)
<1>1. r \in [s: Driver, on: BOOLEAN] /\ r.s \in Driver /\ Core(r.s, n) /\ r.s.up /\ r.s.nextmin \in Minors
      /\ r.s.wq \in Queues
  BY DEF Loop, Driver, Queues
<1>2. Turn(live)[r] =
        IF ~r.on \/ r.s.wqcnt = 0 THEN r
        ELSE IF q = NoQ \/ u.wq[q] = <<>> THEN [s |-> u, on |-> TRUE]
        ELSE IF ~CanXmit(u) THEN [s |-> u, on |-> FALSE]
        ELSE [s |-> x, on |-> TRUE]
  BY <1>1 DEF Turn
<1>3. /\ m \in Minors
      /\ \A o \in Minors : /\ Dist(o, r.s.nextmin) \in 0 .. NMinor - 1
                           /\ Dist(o, m) = IF o = m THEN 0 ELSE Dist(o, r.s.nextmin) + 1
  BY <1>1, DistStep
<1>4. q \in Streams \cup {NoQ}
  BY <1>3
<1>5. u \in Driver /\ u.nextmin = m /\ u.wq = r.s.wq /\ u.wqcnt = r.s.wqcnt /\ u.tx = r.s.tx /\ u.q = r.s.q
      /\ u.flushed = r.s.flushed /\ u.up = r.s.up
  BY <1>1, <1>3 DEF Driver
<1>6. q = live[m]
  OBVIOUS
<1> HIDE DEF m, q, u
<1>7. Since(s0, u)
  BY <1>5 DEF Since
<1>8. NMinor \in Nat \ {0}
  BY DpAssumption
<1>9. CASE ~r.on \/ r.s.wqcnt = 0
  <2>1. Turn(live)[r] = r
    BY <1>2, <1>9
  <2> QED  BY <1>9, <2>1 DEF Searched
<1>10. ASSUME r.on, r.s.wqcnt # 0, r.s.tx = NoTx
       PROVE  \E e \in Nat : Swept(r.s, live, e) /\ (e >= k \/ (e + NMinor >= k /\ NoneLong(r.s.wq)))
  BY <1>10 DEF Searched
<1>11. CASE r.on /\ r.s.wqcnt # 0 /\ Emptied(u, q)
  <2>1. Turn(live)[r] = [s |-> u, on |-> TRUE]
    BY <1>2, <1>11 DEF Emptied
  <2>2. ASSUME u.tx = NoTx
        PROVE  \E e \in Nat : Swept(u, live, e) /\ (e >= k + 1 \/ (e + NMinor >= k + 1 /\ NoneLong(u.wq)))
    <3>1. PICK e \in Nat : Swept(r.s, live, e) /\ (e >= k \/ (e + NMinor >= k /\ NoneLong(r.s.wq)))
      BY <1>5, <1>10, <1>11, <2>2
    <3>2. Swept(u, live, e + 1)
      <4>1. SUFFICES ASSUME NEW o \in Minors, Dist(o, m) < e + 1 PROVE Emptied(u, live[o])
        BY <1>5 DEF Swept
      <4>2. CASE o = m
        BY <1>6, <1>11, <4>2
      <4>3. CASE o # m
        <5>1. Dist(o, r.s.nextmin) < e
          BY <1>3, <3>1, <4>1, <4>3
        <5> QED  BY <1>5, <3>1, <5>1 DEF Swept, Emptied
      <4> QED  BY <4>2, <4>3
    <3>3. e + 1 \in Nat /\ (e + 1 >= k + 1 \/ (e + 1 + NMinor >= k + 1 /\ NoneLong(u.wq)))
      BY <1>5, <1>8, <3>1
    <3> QED  BY <3>2, <3>3
  <2> QED  BY <1>7, <2>1, <2>2 DEF Searched
<1>12. CASE r.on /\ r.s.wqcnt # 0 /\ ~Emptied(u, q) /\ ~CanXmit(u)
  <2>1. Turn(live)[r] = [s |-> u, on |-> FALSE]
    BY <1>2, <1>12 DEF Emptied
  <2>2. u.tx # NoTx
    BY <1>1, <1>5, <1>12 DEF CanXmit
  <2> QED  BY <1>7, <2>1, <2>2 DEF Searched
<1>13. CASE r.on /\ r.s.wqcnt # 0 /\ ~Emptied(u, q) /\ CanXmit(u)
  <2>1. Turn(live)[r] = [s |-> x, on |-> TRUE]
    BY <1>2, <1>13 DEF Emptied
  <2>2. q \in Streams /\ u.wq[q] # <<>> /\ u.wqcnt # 0 /\ u.tx = NoTx /\ u.wq \in Queues
    BY <1>1, <1>4, <1>5, <1>13 DEF Emptied, CanXmit
  <2>3. f \in 1 .. MaxFrames
    <3>1. u.wq[q] \in Seq(1 .. MaxFrames)
      BY <2>2 DEF Queues
    <3> QED  BY <2>2, <3>1, SeqParts
  <2>4. /\ t \in Driver /\ t.wq = [u.wq EXCEPT ![q] = Tail(@)] /\ t.wqcnt = u.wqcnt - 1
        /\ t.tx = u.tx /\ t.q = u.q /\ t.flushed = u.flushed /\ t.up = u.up /\ t.nextmin = u.nextmin
    BY <1>5, <2>2, TakenFrames
  <2>5. /\ Apart(t.wq) /\ \A o \in Streams : u.wq[o] = <<>> => t.wq[o] = <<>>
        /\ \A o \in Streams : \A i \in DOMAIN t.wq[o] : t.wq[o][i] # f /\ t.wq[o][i] \in 1 .. MaxFrames
        /\ f \in Bad => ~NoneLong(u.wq)
    <3>1. Apart(u.wq)
      BY <1>7 DEF Since
    <3>2. \A i, j \in DOMAIN u.wq[q] : i < j => u.wq[q][i] < u.wq[q][j]
      BY <1>1, <1>5, <2>2 DEF Core, Fifo
    <3> HIDE DEF f
    <3>3. f = Head(u.wq[q])
      BY DEF f
    <3>4. /\ Apart(t.wq) /\ \A o \in Streams : u.wq[o] = <<>> => t.wq[o] = <<>>
          /\ \A o \in Streams : \A i \in DOMAIN t.wq[o] : t.wq[o][i] # Head(u.wq[q]) /\ t.wq[o][i] \in 1 .. MaxFrames
          /\ Head(u.wq[q]) \in Bad => ~NoneLong(u.wq)
      BY <2>2, <2>4, <3>1, <3>2, TailApart
    <3> QED  BY <3>3, <3>4
  <2>6. Since(s0, t)
    BY <1>7, <2>4, <2>5 DEF Since
  <2> HIDE DEF t, f
  <2>7. IF f \in Bad THEN x = t
        ELSE x.tx # NoTx /\ x.wq = t.wq /\ x.flushed = t.flushed /\ x.up = t.up /\ Syncs(x.q) = Syncs(t.q)
    BY <2>2, <2>3, <2>4, XmitFrames
  <2> HIDE DEF x
  <2>8. CASE f \notin Bad
    <3>1. Since(s0, x) /\ x.tx # NoTx
      BY <2>6, <2>7, <2>8 DEF Since
    <3> QED  BY <2>1, <3>1 DEF Searched
  <2>9. CASE f \in Bad
    <3>1. x = t
      BY <2>7, <2>9
    <3>2. NoneLong(t.wq)
      BY <2>3, <2>5, <2>9 DEF NoneLong, OneLong
    <3>3. k + 1 <= NMinor
      <4>1. PICK e \in Nat : Swept(r.s, live, e) /\ (e >= k \/ (e + NMinor >= k /\ NoneLong(r.s.wq)))
        BY <1>5, <1>10, <1>13, <2>2
      <4>2. e >= k
        BY <1>5, <2>5, <2>9, <4>1
      <4>3. Dist(m, r.s.nextmin) \in 0 .. NMinor - 1 /\ ~Emptied(r.s, live[m])
        BY <1>3, <1>5, <1>6, <1>13 DEF Emptied
      <4>4. ~(Dist(m, r.s.nextmin) < e)
        BY <1>3, <4>1, <4>3 DEF Swept
      <4> QED  BY <1>8, <4>2, <4>3, <4>4
    <3>4. Swept(t, live, 0)
      <4>1. \A o \in Minors : ~(Dist(o, m) < 0)
        BY <1>3
      <4> QED  BY <1>5, <2>4, <4>1 DEF Swept
    <3>5. 0 + NMinor >= k + 1
      BY <1>8, <3>3
    <3>6. \E e \in Nat : Swept(t, live, e) /\ (e >= k + 1 \/ (e + NMinor >= k + 1 /\ NoneLong(t.wq)))
      BY <3>2, <3>4, <3>5
    <3> QED  BY <2>1, <2>6, <3>1, <3>6 DEF Searched
  <2> QED  BY <2>8, <2>9
<1> QED  BY <1>9, <1>11, <1>12, <1>13

(* Nothing waits when if_wqcnt says so.                                    *)
LEMMA NoneWait ==
  ASSUME NEW s, NEW n, Core(s, n), s.wqcnt = 0
  PROVE  Empty(s.wq)
<1>1. s.wq \in Queues
  BY DEF Core, Driver, Queues
<1>2. Places(s.wq) = {}
  <2>1. Cardinality(Places(s.wq)) \in Nat /\ IsFiniteSet(Places(s.wq))
    BY FS_CardinalityType DEF Core, Counted
  <2>2. Cardinality(Places(s.wq)) = 0
    BY <2>1 DEF Core, Counted
  <2> QED  BY <2>1, <2>2, FS_EmptySet
<1>3. ASSUME NEW o \in Streams PROVE s.wq[o] = <<>>
  <2>1. s.wq[o] \in Seq(1 .. MaxFrames) /\ 1 \notin 1 .. Len(s.wq[o])
    BY <1>1, <1>2, PlaceIs DEF Queues
  <2>2. Len(s.wq[o]) \in Nat
    BY <2>1
  <2>3. Len(s.wq[o]) = 0
    BY <2>1, <2>2
  <2> QED  BY <2>1, <2>3
<1> QED  BY <1>3 DEF Empty

(* It ends with a frame staged or no minor's frame waiting.                *)
LEMMA WprocSweeps ==
  ASSUME OneLong, NEW live, \A m \in Minors : live[m] \in Streams \cup {NoQ}, NEW n \in Nat,
         NEW s, Core(s, n), s.active, s.up, Apart(s.wq),
         \A o \in Streams : s.wq[o] # <<>> => \E m \in Minors : live[m] = o
  PROVE  LET t == Wproc(s, live) IN Since(s, t) /\ (t.tx # NoTx \/ Empty(t.wq))
<1> DEFINE a == [s |-> s, on |-> TRUE]
           N == 2 * NMinor
           D == [k \in 0 .. N |-> {r \in Loop(n) : Since(s, r.s) /\ Searched(r, live, k)}]
<1>1. N \in Nat /\ NMinor \in Nat \ {0} /\ N = NMinor + NMinor
  BY DpAssumption
<1>2. a \in Loop(n)
  BY WprocIs
<1>3. PICK g : Iterate(g, a, Turn(live), N) /\ Wproc(s, live) = g[N].s
  BY WprocIs
<1>4. Since(s, a.s) /\ Searched(a, live, 0)
  <2>1. Since(s, s)
    BY DEF Since
  <2>2. Swept(s, live, 0)
    <3>1. s.nextmin \in Minors
      BY DEF Core, Driver
    <3>2. \A m \in Minors : ~(Dist(m, s.nextmin) < 0)
      BY <3>1, DistStep
    <3> QED  BY <3>2 DEF Swept
  <2>3. \E e \in Nat : Swept(s, live, e) /\ e >= 0
    BY <2>2
  <2> QED  BY <2>1, <2>3 DEF Searched
<1> HIDE DEF a, N
<1>5. a \in D[0]
  BY <1>1, <1>2, <1>4
<1>6. ASSUME NEW k \in 1 .. N, NEW r \in D[k - 1] PROVE Turn(live)[r] \in D[k]
  <2>1. k - 1 \in 0 .. N /\ k \in 0 .. N /\ k - 1 \in Nat /\ (k - 1) + 1 = k
    BY <1>1
  <2>2. r \in Loop(n) /\ Since(s, r.s) /\ Searched(r, live, k - 1)
    BY <1>6, <2>1
  <2>3. Turn(live)[r] \in Loop(n)
    BY <2>2, TurnKeeps
  <2>4. Since(s, Turn(live)[r].s) /\ Searched(Turn(live)[r], live, k)
    <3>1. Since(s, Turn(live)[r].s) /\ Searched(Turn(live)[r], live, (k - 1) + 1)
      BY <2>1, <2>2, TurnSearches
    <3> QED  BY <2>1, <3>1
  <2> QED  BY <2>1, <2>3, <2>4
<1>7. D[N] = {r \in Loop(n) : Since(s, r.s) /\ Searched(r, live, N)}
  BY <1>1
<1> HIDE DEF D
<1>8. \A k \in 0 .. N : g[k] \in D[k]
  BY <1>1, <1>3, <1>5, <1>6, IterateIn
<1>9. g[N] \in Loop(n) /\ Since(s, g[N].s) /\ Searched(g[N], live, N)
  BY <1>1, <1>7, <1>8
<1> DEFINE t == g[N].s
<1>10. t \in Driver /\ Core(t, n) /\ t.wq \in Queues /\ t.wqcnt \in Nat
  BY <1>9 DEF Loop, Driver, Queues
<1>11. ASSUME t.tx = NoTx PROVE Empty(t.wq)
  <2>1. CASE t.wqcnt = 0
    BY <1>10, <2>1, NoneWait
  <2>2. CASE t.wqcnt # 0
    <3>1. PICK e \in Nat : Swept(t, live, e) /\ (e >= N \/ (e + NMinor >= N /\ NoneLong(t.wq)))
      BY <1>9, <1>11, <2>2 DEF Searched
    <3>2. e >= NMinor /\ t.nextmin \in Minors
      BY <1>1, <1>10, <3>1 DEF Driver
    <3>3. \A m \in Minors : Emptied(t, live[m])
      <4>1. \A m \in Minors : Dist(m, t.nextmin) < e
        BY <1>1, <3>1, <3>2, DistStep
      <4> QED  BY <3>1, <4>1 DEF Swept
    <3>4. ASSUME NEW o \in Streams PROVE t.wq[o] = <<>>
      <4>1. CASE s.wq[o] = <<>>
        BY <1>9, <4>1 DEF Since
      <4>2. CASE s.wq[o] # <<>>
        <5>1. PICK m \in Minors : live[m] = o
          BY <4>2
        <5>2. o # NoQ
          BY DpAssumption
        <5> QED  BY <3>3, <5>1, <5>2 DEF Emptied
      <4> QED  BY <4>1, <4>2
    <3> QED  BY <3>4 DEF Empty
  <2> QED  BY <2>1, <2>2
<1> QED  BY <1>3, <1>9, <1>11

(* A command's end: the frames are as they were, or one is staged, or no   *)
(* frame waits.                                                            *)
LEMMA AsyncDoneFrames ==
  ASSUME OneLong, NEW live, \A m \in Minors : live[m] \in Streams \cup {NoQ}, NEW n \in Nat,
         NEW s \in Driver, s.op # "mac", s.active, s.up, Asyncs(s.q) = {}, Fifo(s), Known(s, n), Counted(s),
         NEW r, s.op = "rx" => r \in {"err", "wedged", "empty", "frames"},
         Apart(s.wq), \A o \in Streams : s.wq[o] # <<>> => \E m \in Minors : live[m] = o
  PROVE  LET t == AsyncDone(s, r, live)
         IN  /\ t \in Driver /\ Since(s, t)
             /\ t.tx # NoTx \/ Empty(t.wq) \/ (t.tx = s.tx /\ t.wq = s.wq)
<1> DEFINE t == [s EXCEPT !.busy = FALSE]
           u == CountErr(t, r = "err")
<1>1. t \in Driver
  BY DEF Driver
<1>2. /\ t.busy = FALSE /\ t.q = s.q /\ t.active = s.active /\ t.op = s.op /\ t.up = s.up /\ t.tx = s.tx
      /\ t.wq = s.wq /\ t.wqcnt = s.wqcnt /\ t.flushed = s.flushed
  BY DEF Driver
<1> HIDE DEF t
<1>3. u \in Driver /\ Same(t, u)
  <2>1. (r = "err") \in BOOLEAN
    BY Zenon
  <2> QED  BY <1>1, <2>1, CountErrIs
<1>4. ASSUME NEW x \in Driver, Same(t, x), AsyncDone(s, r, live) = Kick(x, FALSE)
      PROVE  LET z == AsyncDone(s, r, live)
             IN  /\ z \in Driver /\ Since(s, z)
                 /\ z.tx # NoTx \/ Empty(z.wq) \/ (z.tx = s.tx /\ z.wq = s.wq)
  <2>1. SameFrames(x, Kick(x, FALSE)) /\ Kick(x, FALSE) \in Driver
    BY KickFrames
  <2> QED  BY <1>2, <1>4, <2>1 DEF Same, SameFrames, Since
<1>5. CASE s.op \in {"ena", "dis"}
  <2> DEFINE x == ReinitDone(t)
  <2>1. x \in Driver /\ Same(t, x)
    BY <1>1, ReinitDoneIs
  <2>2. AsyncDone(s, r, live) = Kick(x, FALSE)
    BY <1>5 DEF AsyncDone, t
  <2> HIDE DEF x
  <2> QED  BY <1>4, <2>1, <2>2
<1>6. CASE s.op = "rx"
  <2> DEFINE x == RxDone(u, r)
  <2>1. AsyncDone(s, r, live) = Kick(x, FALSE)
    BY <1>6 DEF AsyncDone, t, u
  <2> HIDE DEF u
  <2>2. x \in Driver /\ Same(u, x)
    BY <1>3, <1>6, RxDoneIs
  <2> HIDE DEF x
  <2>3. Same(t, x)
    BY <1>3, <2>2 DEF Same
  <2> QED  BY <1>4, <2>1, <2>2, <2>3
<1>7. CASE s.op = "tx"
  <2> DEFINE y == [u EXCEPT !.tx = NoTx]
             w == IF y.wqcnt > 0 THEN Wproc(y, live) ELSE y
             x == [w EXCEPT !.rxwant = TRUE]
  <2>1. AsyncDone(s, r, live) = Kick(x, FALSE)
    BY <1>7 DEF AsyncDone, TxDone, t, u
  <2> HIDE DEF u
  <2>2. y \in Driver
    BY <1>3 DEF Driver, Frames
  <2>3. /\ y.q = s.q /\ y.active /\ ~y.busy /\ y.op = s.op /\ y.up
        /\ y.tx = NoTx /\ y.wq = s.wq /\ y.wqcnt = s.wqcnt /\ y.flushed = s.flushed
    <3>1. /\ y.q = u.q /\ y.active = u.active /\ y.busy = u.busy /\ y.op = u.op /\ y.up = u.up
          /\ y.tx = NoTx /\ y.wq = u.wq /\ y.wqcnt = u.wqcnt /\ y.flushed = u.flushed
      BY <1>3 DEF Driver
    <3> HIDE DEF y
    <3> QED  BY <1>2, <1>3, <3>1 DEF Same
  <2> HIDE DEF y
  <2>4. Core(y, n)
    <3>1. Fifo(y)
      <4>1. \A o \in Streams : y.tx.q # o
        BY <2>3, DpAssumption DEF NoTx
      <4> QED  BY <2>3, <4>1 DEF Fifo
    <3>2. Known(y, n)
      <4>1. y.tx.id <= n
        BY <2>3 DEF NoTx
      <4> QED  BY <2>3, <4>1 DEF Known
    <3>3. One(y) /\ Runs(y) /\ Intact(y) /\ Counted(y)
      BY <2>3 DEF One, Runs, Intact, Counted
    <3> QED  BY <2>2, <2>3, <3>1, <3>2, <3>3 DEF Core
  <2>5. Core(w, n) /\ Since(y, w) /\ (w.tx # NoTx \/ Empty(w.wq))
    <3>1. CASE y.wqcnt > 0
      <4>1. w = Wproc(y, live)
        BY <3>1
      <4> QED  BY <2>3, <2>4, <4>1, WprocKeeps, WprocSweeps
    <3>2. CASE ~(y.wqcnt > 0)
      <4>1. w = y
        BY <3>2
      <4>2. Since(y, y)
        BY <2>3 DEF Since
      <4>3. Empty(y.wq)
        <5>1. y.wqcnt = 0 /\ y.wq \in Queues
          BY <2>2, <3>2 DEF Driver, Queues
        <5> QED  BY <2>4, <5>1, NoneWait
      <4> QED  BY <2>4, <4>1, <4>2, <4>3
    <3> QED  BY <3>1, <3>2
  <2> HIDE DEF w
  <2>6. x \in Driver /\ Same(w, x)
    BY <2>5 DEF Core, Driver, Same
  <2> HIDE DEF x
  <2> DEFINE z == Kick(x, FALSE)
  <2>7. SameFrames(x, z) /\ z \in Driver
    BY <2>6, KickFrames
  <2> HIDE DEF z
  <2>8. z.tx = w.tx /\ z.wq = w.wq /\ z.flushed = w.flushed /\ Syncs(z.q) = Syncs(w.q)
    BY <2>6, <2>7 DEF Same, SameFrames
  <2>9. Since(s, z)
    BY <2>3, <2>5, <2>8 DEF Since
  <2> QED  BY <2>1, <2>5, <2>7, <2>8, <2>9 DEF z
<1> QED  BY <1>5, <1>6, <1>7 DEF Driver, Ops

(* While one process opens at a time: a stream's minor names it, one being *)
(* brought up is on a minor still free, and only an open stream has frames *)
(* waiting.                                                                *)
Owned ==
  /\ \A s \in Streams : qptr[s] # None => min[qptr[s]].q = s
  /\ \A p \in Procs : pr[p].pc \in Bringing => ~running /\ min[pr[p].m].q = NoQ
  /\ pollq = NoQ => \A s \in Streams : qptr[s] = None
  /\ \A s \in Streams : d.wq[s] # <<>> => qptr[s] # None
  /\ ~loaded \/ (\E p \in Procs : pr[p].pc = "unload") => \A s \in Streams : qptr[s] = None

(* The interface is up, with one callout, while it runs and stays.         *)
Ticks ==
  /\ running /\ (\A p \in Procs : pr[p].pc # "unload") => d.up
  /\ d.up => running
  /\ timers = IF d.up THEN 1 ELSE 0

(* dpbuf is on the queue once, from its issue to its end.                  *)
Synced ==
  /\ IF sync.p \in Procs /\ ~sync.done
     THEN \E i \in DOMAIN d.q : Syncs(d.q) = {i} ELSE Syncs(d.q) = {}
  /\ sync.p = NoProc => sync = NoSync
  /\ sync.p \in Procs => pr[sync.p].pc # "user"

Behind == Apart(d.wq) /\ QueuedBehindTx
Full == Inv /\ Owned /\ Ticks /\ Synced /\ Behind

LEMMA InitFull == Init => Full
<1> SUFFICES ASSUME Init PROVE Full
  OBVIOUS
<1>1. Inv
  BY InitInv
<1>2. /\ ~d.up /\ d.q = <<>> /\ \A s \in Streams : d.wq[s] = <<>>
  BY DEF Init, InitDriver
<1>3. Owned
  BY <1>2 DEF Init, Owned, Bringing, User
<1>4. Ticks
  BY <1>2 DEF Init, Ticks
<1>5. Synced
  BY <1>2, DpAssumption DEF Init, Synced, NoSync, Syncs, Kind
<1>6. Behind
  BY <1>2 DEF Behind, Apart, QueuedBehindTx
<1> QED  BY <1>1, <1>3, <1>4, <1>5, <1>6 DEF Full

(* What an action leaves alone                                             *)
LEMMA OwnedSame ==
  ASSUME Full, UNCHANGED <<qptr, pollq, running, loaded, pr>>, \A m \in Minors : min'[m].q = min[m].q,
         \A o \in Streams : d'.wq[o] # <<>> => d.wq[o] # <<>> \/ qptr[o] # None
  PROVE  Owned'
<1>1. /\ \A s \in Streams : qptr[s] # None => qptr[s] \in Minors
      /\ \A p \in Procs : pr[p].pc \in Bringing => pr[p].m \in Minors
  BY DEF Full, Inv, Rest, Openings
<1>2. /\ \A s \in Streams : qptr'[s] # None => min'[qptr'[s]].q = s
      /\ \A p \in Procs : pr'[p].pc \in Bringing => ~running' /\ min'[pr'[p].m].q = NoQ
  BY <1>1 DEF Full, Owned
<1>3. /\ pollq' = NoQ => \A s \in Streams : qptr'[s] = None
      /\ \A s \in Streams : d'.wq[s] # <<>> => qptr'[s] # None
      /\ ~loaded' \/ (\E p \in Procs : pr'[p].pc = "unload") => \A s \in Streams : qptr'[s] = None
  BY DEF Full, Owned
<1> QED  BY <1>2, <1>3 DEF Owned

LEMMA FullSame ==
  ASSUME Full
  PROVE  /\ UNCHANGED <<timers, running, pr>> /\ d'.up = d.up => Ticks'
         /\ UNCHANGED <<sync, pr>> /\ Syncs(d'.q) = Syncs(d.q) => Synced'
         /\ d'.wq = d.wq /\ d'.tx = d.tx /\ d'.flushed = d.flushed => Behind'
<1>1. UNCHANGED <<timers, running, pr>> /\ d'.up = d.up => Ticks'
  BY DEF Full, Ticks
<1>2. ASSUME UNCHANGED <<sync, pr>>, Syncs(d'.q) = Syncs(d.q) PROVE Synced'
  <2>1. \A i \in DOMAIN d.q : Syncs(d.q) = {i} => i \in DOMAIN d'.q
    BY <1>2 DEF Syncs, Kind
  <2> QED  BY <1>2, <2>1 DEF Full, Synced
<1>3. d'.wq = d.wq /\ d'.tx = d.tx /\ d'.flushed = d.flushed => Behind'
  BY DEF Full, Behind, QueuedBehindTx
<1> QED  BY <1>1, <1>2, <1>3

(* The driver's record is well, and every waiting frame's stream is one of *)
(* the minors'.                                                            *)
LEMMA FullDriver ==
  ASSUME Full
  PROVE  /\ d \in Driver /\ Core(d, nf) /\ nf \in Nat
         /\ \A m \in Minors : Live[m] \in Streams \cup {NoQ}
         /\ \A o \in Streams : d.wq[o] # <<>> => \E m \in Minors : Live[m] = o
<1>1. d \in Driver /\ Core(d, nf) /\ nf \in Nat
  BY DEF Full, Inv, Rest, DriverOk, Core
<1>2. \A m \in Minors : Live[m] \in Streams \cup {NoQ}
  BY DEF Full, Inv, Rest, Live, Minor
<1>3. ASSUME NEW o \in Streams, d.wq[o] # <<>> PROVE \E m \in Minors : Live[m] = o
  <2>1. qptr[o] \in Minors /\ min[qptr[o]].q = o
    BY <1>3 DEF Full, Inv, Rest, Owned
  <2> QED  BY <2>1 DEF Live
<1> QED  BY <1>1, <1>2, <1>3

(* The commands, the adapter and the poll                                  *)
LEMMA CommandsFull ==
  ASSUME Full, Refuse \/ AdSettles \/ AdFails \/ DriverSettles \/ Poll \/ \E s \in Streams : Enrsrv(s)
  PROVE  Owned' /\ Ticks' /\ Synced' /\ Behind'
<1>1. UNCHANGED <<min, qptr, pollq, running, loaded, pr, sync, nf>>
  BY Zenon DEF Refuse, AdSettles, AdFails, DriverSettles, Poll, Enrsrv
<1>2. timers' = timers
  <2>1. CASE Poll
    <3>1. d.up
      BY <2>1 DEF Poll, Full, Ticks
    <3> QED  BY <2>1, <3>1 DEF Poll
  <2>2. CASE Refuse \/ AdSettles \/ AdFails \/ DriverSettles \/ \E s \in Streams : Enrsrv(s)
    BY <2>2, Zenon DEF Refuse, AdSettles, AdFails, DriverSettles, Enrsrv
  <2> QED  BY <2>1, <2>2
<1>3. SameFrames(d, d')
  <2>1. d \in Driver
    BY FullDriver
  <2>2. CASE Refuse
    <3> DEFINE u == [d EXCEPT !.errcnt = @ + 1]
    <3>1. d.errcnt + 1 \in 0 .. Retries
      BY <2>1, <2>2, DpAssumption DEF Driver, Refuse
    <3>2. u \in Driver /\ SameFrames(d, u)
      BY <2>1, <3>1 DEF Driver, SameFrames
    <3>3. d' = Start(u, FALSE)
      BY <2>2 DEF Refuse
    <3> HIDE DEF u
    <3>4. SameFrames(u, d')
      BY <3>2, <3>3, StartFrames
    <3> QED  BY <3>2, <3>4 DEF SameFrames
  <2>3. CASE AdSettles \/ AdFails \/ Poll
    <3>1. d' = d
      BY <2>3 DEF AdSettles, AdFails, Poll
    <3> QED  BY <3>1 DEF SameFrames
  <2>4. CASE DriverSettles
    <3>1. d' = [d EXCEPT !.settled = TRUE]
      BY <2>4 DEF DriverSettles
    <3> QED  BY <2>1, <3>1 DEF Driver, SameFrames
  <2>5. CASE \E s \in Streams : Enrsrv(s)
    <3> DEFINE u == [d EXCEPT !.rxwant = TRUE]
    <3>1. u \in Driver /\ SameFrames(d, u)
      BY <2>1 DEF Driver, SameFrames
    <3>2. d' = Kick(u, TRUE)
      BY <2>5 DEF Enrsrv
    <3> HIDE DEF u
    <3>3. SameFrames(u, d')
      BY <3>1, <3>2, KickFrames
    <3> QED  BY <3>1, <3>3 DEF SameFrames
  <2> QED  BY <2>2, <2>3, <2>4, <2>5
<1>4. Owned'
  BY <1>1, <1>3, OwnedSame DEF SameFrames
<1> QED  BY <1>1, <1>2, <1>3, <1>4, FullSame DEF SameFrames

LEMMA CompleteFull ==
  ASSUME Full, OneLong, Complete
  PROVE  Owned' /\ Ticks' /\ Synced' /\ Behind'
<1> DEFINE a == Tail(d.q)
           t == [d EXCEPT !.q = a]
<1>1. /\ d \in Driver /\ d.q \in Seq({"async", "sync"}) /\ d.q # <<>> /\ d.active /\ d.op # "mac"
      /\ Core(d, nf) /\ nf \in Nat
  BY FullDriver DEF Core, Driver, Complete
<1>2. UNCHANGED <<min, qptr, pollq, enab, timers, running, loaded, pr, nf, faults>>
  BY DEF Complete
<1>3. a \in Seq({"async", "sync"}) /\ "async" # "sync"
  BY <1>1, TailKind
<1>4. PICK r \in IF Refused THEN {"err"} ELSE Results(HeadOp) :
        IF Head1 = "async" THEN d' = Start(AsyncDone(t, r, Live), TRUE) /\ UNCHANGED sync
        ELSE d' = Start(t, TRUE) /\ sync' = [sync EXCEPT !.done = TRUE, !.err = r = "err"]
  BY DEF Complete
<1>5. Head1 = "async" /\ d.op = "rx" => r \in {"err", "wedged", "empty", "frames"}
  BY <1>4 DEF HeadOp, Results
<1>6. Head1 = "async" => /\ Asyncs(a) = {} /\ d.busy
                         /\ Syncs(d.q) = {} => Syncs(a) = {}
                         /\ (\E i \in DOMAIN d.q : Syncs(d.q) = {i}) => \E i \in DOMAIN a : Syncs(a) = {i}
  <2>1. Head1 = "async" => Asyncs(a) = {} /\ d.busy
    BY <1>1, TailKind DEF Head1, Core, One, Asyncs
  <2>2. Head1 = "async" => /\ Syncs(d.q) = {} => Syncs(a) = {}
                           /\ (\E i \in DOMAIN d.q : Syncs(d.q) = {i}) => \E i \in DOMAIN a : Syncs(a) = {i}
    BY <1>1, <1>3, TailKind DEF Head1, Syncs
  <2> QED  BY <2>1, <2>2
<1>7. Head1 # "async" => Syncs(d.q) # {} /\ ((\E i \in DOMAIN d.q : Syncs(d.q) = {i}) => Syncs(a) = {})
  <2>1. Head1 \in {"async", "sync"}
    BY <1>1, SeqParts DEF Head1
  <2>2. Head1 = "sync" => 1 \in Syncs(d.q) /\ ((\E i \in DOMAIN d.q : Syncs(d.q) = {i}) => Syncs(a) = {})
    BY <1>1, TailKind DEF Head1, Syncs
  <2> QED  BY <2>1, <2>2
<1> HIDE DEF a
<1>8. t \in Driver
  BY <1>1, <1>3 DEF Driver
<1>9. /\ t.q = a /\ t.active = d.active /\ t.op = d.op /\ t.up = d.up
      /\ t.tx = d.tx /\ t.wq = d.wq /\ t.wqcnt = d.wqcnt /\ t.flushed = d.flushed
  BY <1>1 DEF Driver
<1> HIDE DEF t
<1>10. d'.up = d.up
  BY CompleteDriver DEF Full, Inv, Rest
<1>11. Ticks'
  BY <1>2, <1>10, FullSame
<1>12. CASE Head1 = "async"
  <2>1. d.up
    BY <1>6, <1>12 DEF Full, Inv, DriverOk, Down
  <2>2. Fifo(t) /\ Known(t, nf) /\ Counted(t)
    BY <1>1, <1>9 DEF Core, Fifo, Known, Counted
  <2> DEFINE x == AsyncDone(t, r, Live)
  <2>3. /\ x \in Driver /\ Since(t, x)
        /\ x.tx # NoTx \/ Empty(x.wq) \/ (x.tx = t.tx /\ x.wq = t.wq)
    <3>1. Apart(t.wq) /\ \A o \in Streams : t.wq[o] # <<>> => \E m \in Minors : Live[m] = o
      BY <1>9, FullDriver DEF Full, Behind
    <3>2. \A m \in Minors : Live[m] \in Streams \cup {NoQ}
      BY FullDriver
    <3>3. t.active /\ t.up /\ t.op # "mac" /\ Asyncs(t.q) = {}
          /\ (t.op = "rx" => r \in {"err", "wedged", "empty", "frames"})
      BY <1>1, <1>5, <1>6, <1>9, <1>12, <2>1
    <3> QED  BY <1>1, <1>8, <2>2, <3>1, <3>2, <3>3, AsyncDoneFrames
  <2>4. d' = Start(x, TRUE) /\ sync' = sync
    BY <1>4, <1>12
  <2> HIDE DEF x
  <2>5. SameFrames(x, d')
    BY <2>3, <2>4, StartFrames
  <2>6. Synced'
    <3>1. Syncs(d'.q) = Syncs(a)
      BY <1>9, <2>3, <2>5 DEF Since, SameFrames
    <3>2. \A i \in DOMAIN a : Syncs(a) = {i} => i \in DOMAIN d'.q
      BY <3>1 DEF Syncs, Kind
    <3> QED  BY <1>2, <1>6, <1>12, <2>4, <3>1, <3>2 DEF Full, Synced
  <2>7. Owned'
    <3>1. \A o \in Streams : d'.wq[o] # <<>> => d.wq[o] # <<>>
      BY <1>9, <2>3, <2>5 DEF Since, SameFrames
    <3> QED  BY <1>2, <3>1, OwnedSame
  <2>8. Behind'
    <3>1. Apart(d'.wq)
      BY <2>3, <2>5 DEF Since, SameFrames
    <3>2. QueuedBehindTx'
      BY <1>9, <2>3, <2>5 DEF Full, Behind, QueuedBehindTx, Since, SameFrames, Empty
    <3> QED  BY <3>1, <3>2 DEF Behind
  <2> QED  BY <1>11, <2>6, <2>7, <2>8
<1>13. CASE Head1 # "async"
  <2>1. /\ d' = Start(t, TRUE) /\ sync' = [sync EXCEPT !.done = TRUE, !.err = r = "err"]
    BY <1>4, <1>13
  <2>2. SameFrames(t, d')
    BY <1>8, <2>1, StartFrames
  <2>3. sync.p \in Procs /\ ~sync.done /\ Syncs(a) = {}
    BY <1>7, <1>13 DEF Full, Synced
  <2>4. sync'.p = sync.p /\ sync'.done
    BY <2>1 DEF Full, Inv, Rest
  <2>5. Synced'
    <3>1. Syncs(d'.q) = {}
      BY <1>9, <2>2, <2>3 DEF SameFrames
    <3>2. NoProc \notin Procs
      BY DpAssumption
    <3> QED  BY <1>2, <2>3, <2>4, <3>1, <3>2 DEF Full, Synced
  <2>6. d'.wq = d.wq /\ d'.tx = d.tx /\ d'.flushed = d.flushed
    BY <1>9, <2>2 DEF SameFrames
  <2>7. Owned'
    BY <1>2, <2>6, OwnedSame
  <2> QED  BY <1>11, <2>5, <2>6, <2>7, FullSame
<1> QED  BY <1>12, <1>13

(* The streams                                                             *)
LEMMA BindFull ==
  ASSUME Full, NEW s \in Streams, Unbind(s) \/ \E sap \in Saps : Bind(s, sap)
  PROVE  Owned' /\ Ticks' /\ Synced' /\ Behind'
<1>1. UNCHANGED <<d, qptr, pollq, timers, running, loaded, pr, sync>>
  BY Zenon DEF Bind, Unbind
<1>2. \A m \in Minors : min'[m].q = min[m].q
  <2>1. min \in [Minors -> Minor]
    BY DEF Full, Inv, Rest
  <2>2. \E st \in {"idle", "unbound"}, sap \in Saps \cup {NoSap} :
          min' = [min EXCEPT ![qptr[s]].state = st, ![qptr[s]].sap = sap]
    BY DEF Bind, Unbind
  <2> QED  BY <2>1, <2>2 DEF Minor
<1>3. Owned'
  BY <1>1, <1>2, OwnedSame
<1> QED  BY <1>1, <1>3, FullSame

LEMMA FlushFull ==
  ASSUME Full, NEW s \in Streams, Flush(s)
  PROVE  Owned' /\ Ticks' /\ Synced' /\ Behind'
<1>1. UNCHANGED <<min, qptr, pollq, timers, running, loaded, pr, sync>>
  BY DEF Flush
<1>2. /\ d'.up = d.up /\ d'.q = d.q /\ d'.flushed
      /\ d'.wq = [d.wq EXCEPT ![s] = <<>>]
  <2>1. d \in Driver /\ d' = [d EXCEPT !.wq[s] = <<>>, !.passed[s] = 0, !.flushed = TRUE]
    BY FullDriver DEF Flush
  <2> QED  BY <2>1 DEF Driver
<1>3. \A o \in Streams : d'.wq[o] = IF o = s THEN <<>> ELSE d.wq[o]
  BY <1>2, FullDriver DEF Driver
<1>4. Owned'
  BY <1>1, <1>3, OwnedSame
<1>5. Behind'
  BY <1>2, <1>3 DEF Full, Behind, Apart, QueuedBehindTx
<1> QED  BY <1>1, <1>2, <1>4, <1>5, FullSame

(* A frame comes down: it finds one staged, or none waiting.               *)
LEMMA UnitdataFull ==
  ASSUME Full, NEW s \in Streams, Unitdata(s)
  PROVE  Owned' /\ Ticks' /\ Synced' /\ Behind'
<1> DEFINE f == nf + 1
           w == [d.wq EXCEPT ![s] = Append(@, f)]
           c == d.wqcnt + 1
           t == [d EXCEPT !.wq = w, !.wqcnt = c]
<1>1. /\ UNCHANGED <<min, qptr, pollq, timers, running, loaded, pr, sync>>
      /\ running /\ qptr[s] # None /\ nf < MaxFrames
  BY DEF Unitdata
<1>2. /\ d \in Driver /\ d.wq \in Queues /\ d.wqcnt \in Nat /\ d.wq[s] \in Seq(1 .. MaxFrames)
      /\ f \in 1 .. MaxFrames /\ Core(d, nf)
  BY <1>1, FullDriver, DpAssumption DEF Driver, Queues
<1>3. d.up
  BY <1>1 DEF Full, Owned, Ticks
<1>4. d' = IF MustWait THEN t ELSE Xmit(d, s, f)
  BY <1>2 DEF Unitdata, Driver
<1>5. CASE MustWait
  <2>1. /\ w \in Queues /\ w[s] = Append(d.wq[s], f) /\ \A o \in Streams : o # s => w[o] = d.wq[o]
        /\ DOMAIN w[s] = 1 .. Len(d.wq[s]) + 1
    BY <1>2 DEF Queues
  <2>2. /\ Len(d.wq[s]) \in Nat /\ DOMAIN d.wq[s] = 1 .. Len(d.wq[s])
        /\ w[s][Len(d.wq[s]) + 1] = f /\ \A i \in DOMAIN d.wq[s] : w[s][i] = d.wq[s][i]
    BY <1>2, <2>1
  <2>3. \A o \in Streams : \A i \in DOMAIN d.wq[o] : d.wq[o][i] \in Nat /\ d.wq[o][i] < f
    <3>1. ASSUME NEW o \in Streams, NEW i \in DOMAIN d.wq[o] PROVE d.wq[o][i] \in Nat
      <4>1. d.wq[o] \in Seq(1 .. MaxFrames)
        BY <1>2 DEF Queues
      <4>2. d.wq[o][i] \in 1 .. MaxFrames
        BY <4>1, SeqElement
      <4> QED  BY <4>2
    <3> QED  BY <1>2, <3>1, FullDriver DEF Core, Known
  <2>4. d' = t /\ c \in Nat
    BY <1>2, <1>4, <1>5
  <2> HIDE DEF w, c, f
  <2>5. d'.up = d.up /\ d'.q = d.q /\ d'.wq = w /\ d'.tx = d.tx /\ d'.flushed = d.flushed
    BY <1>2, <2>4 DEF Driver
  <2> HIDE DEF t
  <2>6. Owned'
    <3>1. \A o \in Streams : d'.wq[o] # <<>> => d.wq[o] # <<>> \/ qptr[o] # None
      BY <1>1, <2>1, <2>5
    <3> QED  BY <1>1, <3>1, OwnedSame
  <2>7. Apart(d'.wq)
    <3>1. \A o \in Streams : o # s => \A i \in DOMAIN w[o], j \in DOMAIN w[s] : w[o][i] # w[s][j]
      <4>1. SUFFICES ASSUME NEW o \in Streams, o # s, NEW i \in DOMAIN w[o], NEW j \in DOMAIN w[s]
                     PROVE  w[o][i] # w[s][j]
        OBVIOUS
      <4>2. w[o] = d.wq[o] /\ i \in DOMAIN d.wq[o]
        BY <2>1, <4>1
      <4>3. j \in DOMAIN d.wq[s] \/ j = Len(d.wq[s]) + 1
        BY <2>1, <2>2
      <4>4. CASE j \in DOMAIN d.wq[s]
        BY <2>2, <4>1, <4>2, <4>4 DEF Full, Behind, Apart
      <4>5. CASE j = Len(d.wq[s]) + 1
        BY <1>2, <2>2, <2>3, <4>2, <4>5
      <4> QED  BY <4>3, <4>4, <4>5
    <3>2. \A a, b \in Streams : a # b /\ a # s /\ b # s => \A i \in DOMAIN w[a], j \in DOMAIN w[b] : w[a][i] # w[b][j]
      BY <2>1 DEF Full, Behind, Apart
    <3> QED  BY <2>5, <3>1, <3>2 DEF Apart
  <2>8. QueuedBehindTx'
    <3>1. CASE ~CanXmit(d)
      BY <1>3, <2>5, <3>1 DEF CanXmit, QueuedBehindTx
    <3>2. CASE d.wqcnt # 0
      <4>1. CASE Empty(d.wq)
        <5>1. Places(d.wq) = {}
          <6>1. ASSUME NEW x \in Places(d.wq) PROVE FALSE
            <7>1. <<x[1], x[2]>> \in Places(d.wq)
              BY PlacePair, Zenon
            <7>2. x[1] \in Streams /\ x[2] \in 1 .. Len(d.wq[x[1]])
              BY <1>2, <7>1, PlaceIs, Zenon
            <7> QED  BY <4>1, <7>2 DEF Empty
          <6> QED  BY <6>1, Zenon
        <5>2. d.flushed
          BY <1>2, <3>2, <5>1, FS_EmptySet DEF Core, Counted
        <5> QED  BY <2>5, <5>2 DEF QueuedBehindTx
      <4>2. CASE ~Empty(d.wq)
        BY <2>5, <4>2 DEF Full, Behind, QueuedBehindTx, Empty
      <4> QED  BY <4>1, <4>2
    <3> QED  BY <1>5, <3>1, <3>2 DEF MustWait
  <2> QED  BY <1>1, <2>5, <2>6, <2>7, <2>8, FullSame DEF Behind
<1>6. CASE ~MustWait
  <2>1. d.wqcnt = 0 /\ d' = Xmit(d, s, f)
    BY <1>4, <1>6 DEF MustWait
  <2>2. Empty(d.wq)
    BY <1>2, <2>1, NoneWait
  <2> HIDE DEF f
  <2>3. d'.wq = d.wq /\ d'.flushed = d.flushed /\ d'.up = d.up /\ Syncs(d'.q) = Syncs(d.q)
    BY <1>2, <2>1, XmitFrames
  <2>4. Owned'
    BY <1>1, <2>3, OwnedSame
  <2>5. Behind'
    BY <2>2, <2>3 DEF Full, Behind, QueuedBehindTx, Empty
  <2> QED  BY <1>1, <2>3, <2>4, <2>5, FullSame
<1> QED  BY <1>5, <1>6

LEMMA EncloseFull ==
  ASSUME Full, NEW s \in Streams, Enclose(s)
  PROVE  Owned' /\ Ticks' /\ Synced' /\ Behind'
<1> DEFINE m == qptr[s]
           left == {o \in Minors \ {m} : min[o].q # NoQ}
           at == CHOOSE o \in left : \A x \in left : o <= x
<1>1. /\ m # None /\ qptr' = [qptr EXCEPT ![s] = None] /\ min' = [min EXCEPT ![m] = NoMinor]
      /\ UNCHANGED <<timers, running, loaded, pr, sync>>
  BY DEF Enclose
<1>2. pollq' = IF pollq # s THEN pollq ELSE IF left = {} THEN NoQ ELSE min[at].q
  BY DEF Enclose, PollTo
<1>3. /\ d'.up = d.up /\ d'.q = d.q /\ d'.tx = d.tx /\ d'.flushed = d.flushed
      /\ \A o \in Streams : d'.wq[o] = IF o = s THEN <<>> ELSE d.wq[o]
  <2>1. d \in Driver /\ d' = [d EXCEPT !.wq[s] = <<>>, !.passed[s] = 0, !.wqcnt = LessFrames(s)]
    BY FullDriver DEF Enclose
  <2> QED  BY <2>1 DEF Driver
<1>4. /\ min \in [Minors -> Minor] /\ qptr \in [Streams -> Minors \cup {None}] /\ m \in Minors
  BY <1>1 DEF Full, Inv, Rest
<1>5. left # {} => at \in left
  <2>1. SUFFICES ASSUME left # {} PROVE at \in left
    OBVIOUS
  <2>2. left \in SUBSET Nat
    BY DpAssumption DEF Minors
  <2> HIDE DEF left
  <2> QED  BY <2>1, <2>2, Least, Zenon
<1>6. /\ \A o \in Streams : qptr'[o] = IF o = s THEN None ELSE qptr[o]
      /\ \A o \in Minors : min'[o] = IF o = m THEN NoMinor ELSE min[o]
  BY <1>1, <1>4
<1>7. \A o \in Streams : qptr'[o] # None => qptr[o] \in Minors \ {m} /\ min[qptr[o]].q = o /\ min[qptr[o]].q # NoQ
  <2>1. ASSUME NEW o \in Streams, qptr'[o] # None
        PROVE  qptr[o] \in Minors \ {m} /\ min[qptr[o]].q = o /\ min[qptr[o]].q # NoQ
    <3>1. o # s /\ qptr[o] # None /\ qptr[o] \in Minors
      BY <1>4, <1>6, <2>1
    <3>2. min[qptr[o]].q = o /\ min[qptr[s]].q = s
      BY <1>1, <3>1 DEF Full, Owned
    <3> QED  BY <3>1, <3>2, DpAssumption
  <2> QED  BY <2>1
<1>8. pollq' = NoQ => \A o \in Streams : qptr'[o] = None
  <2>1. CASE pollq # s
    BY <1>1, <1>2, <2>1 DEF Full, Owned
  <2>2. CASE pollq = s /\ left = {}
    BY <1>7, <2>2
  <2>3. CASE pollq = s /\ left # {}
    BY <1>2, <1>5, <2>3
  <2> QED  BY <2>1, <2>2, <2>3
<1> HIDE DEF m, left, at
<1>9. Owned'
  <2>1. \A o \in Streams : qptr'[o] # None => min'[qptr'[o]].q = o
    BY <1>6, <1>7
  <2>2. \A p \in Procs : pr'[p].pc \in Bringing => ~running' /\ min'[pr'[p].m].q = NoQ
    <3>1. \A p \in Procs : pr[p].pc \in Bringing => pr[p].m \in Minors /\ ~running /\ min[pr[p].m].q = NoQ
      BY DEF Full, Inv, Openings, Owned
    <3> QED  BY <1>1, <1>6, <3>1 DEF NoMinor
  <2>3. \A o \in Streams : d'.wq[o] # <<>> => qptr'[o] # None
    BY <1>3, <1>6 DEF Full, Owned
  <2>4. ~loaded' \/ (\E p \in Procs : pr'[p].pc = "unload") => \A o \in Streams : qptr'[o] = None
    BY <1>1, <1>6 DEF Full, Owned
  <2> QED  BY <1>8, <2>1, <2>2, <2>3, <2>4 DEF Owned
<1>10. Behind'
  BY <1>3 DEF Full, Behind, Apart, QueuedBehindTx
<1> QED  BY <1>1, <1>3, <1>9, <1>10, FullSame

(* The end of enopen, by the only process that opens                       *)
LEMMA OpenFull ==
  ASSUME Full, NEW s \in Streams, NEW m \in Minors, OpenDone(s, m), qptr[s] = None, min[m].q = NoQ,
         loaded', UNCHANGED d.wq, \A o \in Procs : pr'[o] = User
  PROVE  Owned'
<1>1. /\ qptr' = [qptr EXCEPT ![s] = m]
      /\ min' = [min EXCEPT ![m] = [q |-> s, state |-> "unbound", sap |-> NoSap]]
      /\ pollq' = IF pollq = NoQ THEN s ELSE pollq
  BY DEF OpenDone
<1>2. min \in [Minors -> Minor] /\ qptr \in [Streams -> Minors \cup {None}]
  BY DEF Full, Inv, Rest
<1>3. m # None /\ s # NoQ
  BY DpAssumption DEF Minors, None
<1>4. /\ \A o \in Streams : qptr'[o] = IF o = s THEN m ELSE qptr[o]
      /\ min'[m].q = s /\ \A o \in Minors : o # m => min'[o] = min[o]
  BY <1>1, <1>2 DEF Minor
<1>5. \A o \in Streams : qptr'[o] # None => min'[qptr'[o]].q = o
  <2>1. ASSUME NEW o \in Streams, qptr'[o] # None, o # s PROVE min'[qptr'[o]].q = o
    <3>1. qptr'[o] = qptr[o] /\ qptr[o] \in Minors /\ min[qptr[o]].q = o
      BY <1>2, <1>4, <2>1 DEF Full, Owned
    <3>2. qptr[o] # m
      BY <3>1, DpAssumption
    <3> QED  BY <1>4, <3>1, <3>2
  <2> QED  BY <1>4, <2>1
<1>6. pollq' # NoQ
  BY <1>1, <1>3
<1>7. \A o \in Streams : d'.wq[o] # <<>> => qptr'[o] # None
  BY <1>3, <1>4 DEF Full, Owned
<1>8. \A o \in Procs : pr'[o].pc = "user"
  BY DEF User
<1> QED  BY <1>5, <1>6, <1>7, <1>8 DEF Owned, Bringing

LEMMA EnopenFull ==
  ASSUME Full, OneOpener, NEW p \in Procs, NEW s \in Streams, Enopen(p, s)
  PROVE  Owned' /\ Ticks' /\ Synced' /\ Behind'
<1>1. /\ loaded /\ pr[p] = User /\ qptr[s] = None
      /\ UNCHANGED <<d, enab, timers, running, loaded, sync, ad, nf, faults>>
  BY DEF Enopen
<1>2. PICK m \in Minors :
        /\ min[m].q = NoQ
        /\ IF running THEN OpenDone(s, m) /\ UNCHANGED pr
           ELSE /\ pr' = [pr EXCEPT ![p] = [pc |-> "ena", q |-> s, m |-> m]]
                /\ UNCHANGED <<qptr, min, pollq>>
  BY DEF Enopen, FreeMinors
<1>3. \A o \in Procs : o = p
  BY DEF OneOpener
<1>4. sync.p \notin Procs
  BY <1>1, <1>3 DEF Full, Synced, User
<1>5. Synced' /\ Behind'
  BY <1>1, <1>4 DEF Full, Synced, Behind, QueuedBehindTx
<1>6. CASE running
  <2>1. OpenDone(s, m) /\ pr' = pr
    BY <1>2, <1>6
  <2>2. Owned'
    BY <1>1, <1>2, <1>3, <2>1, OpenFull
  <2> QED  BY <1>1, <1>5, <2>1, <2>2, FullSame
<1>7. CASE ~running
  <2>1. pr' = [pr EXCEPT ![p] = [pc |-> "ena", q |-> s, m |-> m]] /\ UNCHANGED <<qptr, min, pollq>>
    BY <1>2, <1>7
  <2>2. \A o \in Procs : pr'[o].pc = "ena" /\ pr'[o].m = m
    BY <1>3, <2>1 DEF Full, Inv, Rest
  <2>3. Owned'
    BY <1>1, <1>2, <1>7, <2>1, <2>2 DEF Full, Owned
  <2>4. Ticks'
    BY <1>1, <1>7 DEF Full, Ticks
  <2> QED  BY <1>5, <2>3, <2>4
<1> QED  BY <1>6, <1>7

(* The synchronous command, and the processes that wait for it             *)
LEMMA IssueFull ==
  ASSUME Full, NEW p \in Procs, Issue(p)
  PROVE  Owned' /\ Ticks' /\ Synced' /\ Behind'
<1> DEFINE t == Queue(d, "sync", TRUE)
<1>1. /\ UNCHANGED <<min, qptr, pollq, enab, timers, running, loaded, pr>>
      /\ pr[p].pc # "user" /\ sync = NoSync /\ d' = t
      /\ sync' = [p |-> p, op |-> OpOf(pr[p].pc), done |-> FALSE, err |-> FALSE]
  BY DEF Issue
<1>2. Queued(d, "sync", TRUE, t) /\ d.q \in Seq({"async", "sync"})
  BY FullDriver, QueueIs DEF Driver
<1> HIDE DEF t
<1>3. Syncs(d.q) = {} /\ NoProc \notin Procs
  BY <1>1, DpAssumption DEF Full, Synced, NoSync
<1>4. Syncs(t.q) = {Len(d.q) + 1} /\ Len(d.q) + 1 \in DOMAIN t.q
  BY <1>2, <1>3, AppendKind DEF Queued, Syncs
<1>5. Synced'
  BY <1>1, <1>3, <1>4 DEF Synced
<1>6. d'.wq = d.wq /\ d'.tx = d.tx /\ d'.flushed = d.flushed /\ d'.up = d.up
  BY <1>1, <1>2 DEF Queued
<1>7. Owned'
  BY <1>1, <1>6, OwnedSame
<1> QED  BY <1>1, <1>5, <1>6, <1>7, FullSame

LEMMA LinitFull ==
  ASSUME Full, OneOpener, NEW p \in Procs, Linit(p)
  PROVE  Owned' /\ Ticks' /\ Synced' /\ Behind'
<1> DEFINE s == pr[p].q
           m == pr[p].m
<1>1. /\ sync.p = p /\ sync.done /\ pr[p].pc \in Bringing /\ sync' = NoSync
      /\ UNCHANGED <<enab, loaded, ad, nf, faults>>
  BY DEF Linit, Bringing
<1>2. /\ s \in Streams /\ m \in Minors /\ qptr[s] = None /\ min[m].q = NoQ /\ loaded
      /\ ~running /\ ~d.up /\ timers = 0
  <2>1. s \in Streams /\ m \in Minors /\ min[m].q = NoQ /\ ~running
    BY <1>1 DEF Full, Inv, Openings, Owned
  <2>2. s # NoQ /\ qptr[s] = None
    BY <2>1, DpAssumption DEF Full, Inv, Openings
  <2>3. pr[p] # User
    BY <1>1 DEF User, Bringing
  <2>4. ~d.up /\ timers = 0
    BY <2>1 DEF Full, Ticks
  <2> QED  BY <2>1, <2>2, <2>3, <2>4 DEF Full, Inv, Unloads
<1>3. \A o \in Procs : o = p
  BY DEF OneOpener
<1>4. Syncs(d.q) = {} /\ NoProc \notin Procs
  BY <1>1, DpAssumption DEF Full, Synced
<1>5. \/ \E pc \in {"mac", "undo"} : Goes(p, pc)
      \/ Opened(p) /\ UNCHANGED <<d, timers, running>>
      \/ /\ Opened(p) /\ running' = TRUE /\ timers' = timers + 1
         /\ d' = [d EXCEPT !.up = TRUE, !.reinit = 0, !.errs = 0, !.settled = TRUE]
  BY Zenon DEF Linit
<1>6. ASSUME d'.q = d.q PROVE Synced'
  BY <1>1, <1>4, <1>6 DEF Synced, NoSync
<1>7. ASSUME NEW pc \in {"mac", "undo"}, Goes(p, pc)
      PROVE  Owned' /\ Ticks' /\ Synced' /\ Behind'
  <2>1. pr' = [pr EXCEPT ![p].pc = pc] /\ UNCHANGED <<d, min, qptr, pollq, timers, running>>
    BY <1>7 DEF Goes
  <2>2. \A o \in Procs : pr'[o].pc = pc /\ pr'[o].m = m
    BY <1>3, <2>1 DEF Full, Inv, Rest
  <2>3. Owned'
    BY <1>1, <1>2, <2>1, <2>2 DEF Full, Owned
  <2>4. Ticks'
    BY <1>2, <2>1 DEF Full, Ticks
  <2> QED  BY <1>6, <2>1, <2>3, <2>4, FullSame
<1>8. ASSUME Opened(p), UNCHANGED d.wq PROVE Owned' /\ \A o \in Procs : pr'[o] = User
  <2>1. OpenDone(s, m) /\ pr' = [pr EXCEPT ![p] = User]
    BY <1>8 DEF Opened
  <2>2. \A o \in Procs : pr'[o] = User
    BY <1>3, <2>1 DEF Full, Inv, Rest
  <2> HIDE DEF s, m
  <2>3. Owned'
    BY <1>1, <1>2, <1>8, <2>1, <2>2, OpenFull
  <2> QED  BY <2>2, <2>3
<1>9. CASE Opened(p) /\ UNCHANGED <<d, timers, running>>
  <2>1. Ticks'
    BY <1>2, <1>9 DEF Full, Ticks
  <2> QED  BY <1>6, <1>8, <1>9, <2>1, FullSame
<1>10. CASE /\ Opened(p) /\ running' = TRUE /\ timers' = timers + 1
            /\ d' = [d EXCEPT !.up = TRUE, !.reinit = 0, !.errs = 0, !.settled = TRUE]
  <2>1. /\ d'.up /\ d'.q = d.q /\ d'.wq = d.wq /\ d'.tx = d.tx /\ d'.flushed = d.flushed
    BY <1>10, FullDriver DEF Driver
  <2>2. Ticks'
    BY <1>2, <1>10, <2>1 DEF Ticks
  <2> QED  BY <1>6, <1>8, <1>10, <2>1, <2>2, FullSame
<1> QED  BY <1>5, <1>7, <1>9, <1>10

(* Load and unload                                                         *)
LEMMA LoadFull ==
  ASSUME Full, Load
  PROVE  Owned' /\ Ticks' /\ Synced' /\ Behind'
<1>1. /\ ~loaded /\ loaded' = TRUE /\ d' = InitDriver
      /\ UNCHANGED <<min, qptr, pollq, enab, timers, running, pr, sync, ad, nf, faults>>
  BY DEF Load
<1>2. /\ d'.q = <<>> /\ ~d'.up /\ \A o \in Streams : d'.wq[o] = <<>>
  BY <1>1 DEF InitDriver
<1>3. ~d.up /\ \A p \in Procs : pr[p].pc = "user"
  BY <1>1 DEF Full, Inv, Unloads, User
<1>4. sync.p \notin Procs
  BY <1>3 DEF Full, Synced
<1>5. Synced'
  BY <1>1, <1>2, <1>4 DEF Full, Synced, Syncs, Kind
<1>6. Behind'
  BY <1>2 DEF Behind, Apart, QueuedBehindTx
<1>7. Ticks'
  BY <1>1, <1>2, <1>3 DEF Full, Ticks
<1>8. Owned'
  BY <1>1, <1>2, <1>3 DEF Full, Owned
<1> QED  BY <1>5, <1>6, <1>7, <1>8

LEMMA UnloadFull ==
  ASSUME Full, NEW p \in Procs, Unload(p)
  PROVE  Owned' /\ Ticks' /\ Synced' /\ Behind'
<1>1. /\ loaded /\ (\A o \in Procs : pr[o] = User) /\ (\A s \in Streams : qptr[s] = None) /\ ~d.busy
      /\ d' = [d EXCEPT !.up = FALSE] /\ timers' = Untimeout
      /\ UNCHANGED <<min, qptr, pollq, enab, running, sync, ad, nf, faults>>
  BY DEF Unload
<1>2. ~d'.up /\ d'.q = d.q /\ d'.wq = d.wq /\ d'.tx = d.tx /\ d'.flushed = d.flushed
  BY <1>1, FullDriver DEF Driver
<1>3. timers' = 0
  BY <1>1 DEF Full, Ticks, Untimeout
<1>4. sync.p \notin Procs
  BY <1>1 DEF Full, Synced, User
<1>5. Synced'
  BY <1>1, <1>2, <1>4 DEF Full, Synced
<1>6. \/ running /\ pr' = [pr EXCEPT ![p] = [pc |-> "unload", q |-> NoQ, m |-> None]]
      \/ ~running /\ pr' = pr
  BY <1>1 DEF Unload
<1>7. \A o \in Procs : pr'[o].pc \in {"user", "unload"} /\ (running => pr'[p].pc = "unload")
  BY <1>1, <1>6 DEF Full, Inv, Rest, User
<1>8. Ticks'
  BY <1>1, <1>2, <1>3, <1>7 DEF Ticks
<1>9. Owned'
  BY <1>1, <1>2, <1>7 DEF Full, Owned, Bringing
<1> QED  BY <1>2, <1>5, <1>8, <1>9, FullSame

LEMMA UnloadedFull ==
  ASSUME Full, NEW p \in Procs, Unloaded(p)
  PROVE  Owned' /\ Ticks' /\ Synced' /\ Behind'
<1>1. /\ sync.p = p /\ sync.done /\ pr[p].pc = "unload" /\ sync' = NoSync /\ pr' = [pr EXCEPT ![p] = User]
      /\ running' = FALSE /\ loaded' = FALSE
      /\ UNCHANGED <<d, min, qptr, pollq, enab, timers, ad, nf, faults>>
  BY DEF Unloaded
<1>2. ~d.up /\ (\A o \in Procs \ {p} : pr[o] = User) /\ \A s \in Streams : qptr[s] = None
  BY <1>1 DEF Full, Inv, Unloads, Owned
<1>3. \A o \in Procs : pr'[o].pc = "user"
  BY <1>1, <1>2 DEF Full, Inv, Rest, User
<1>4. Syncs(d.q) = {} /\ NoProc \notin Procs
  BY <1>1, DpAssumption DEF Full, Synced
<1>5. Synced'
  BY <1>1, <1>4 DEF Synced, NoSync
<1>6. Ticks'
  BY <1>1, <1>2 DEF Full, Ticks
<1>7. Owned'
  BY <1>1, <1>2, <1>3 DEF Full, Owned, Bringing
<1> QED  BY <1>1, <1>5, <1>6, <1>7, FullSame

LEMMA NextFull == ASSUME OneOpener, OneLong PROVE Full /\ [Next]_vars => Full'
<1> SUFFICES ASSUME Full, [Next]_vars PROVE Full'
  OBVIOUS
<1>1. Inv'
  BY NextKeeps DEF Full
<1>2. CASE UNCHANGED vars
  BY <1>1, <1>2 DEF vars, Full, Owned, Ticks, Synced, Behind, QueuedBehindTx
<1>3. CASE Refuse \/ Complete \/ AdSettles \/ DriverSettles \/ AdFails \/ Load \/ Poll
  BY <1>1, <1>3, CommandsFull, CompleteFull, LoadFull DEF Full
<1>4. ASSUME NEW p \in Procs,
             (\E s \in Streams : Enopen(p, s)) \/ Issue(p) \/ Linit(p) \/ Unload(p) \/ Unloaded(p)
      PROVE  Full'
  BY <1>1, <1>4, EnopenFull, IssueFull, LinitFull, UnloadFull, UnloadedFull DEF Full
<1>5. ASSUME NEW s \in Streams,
             Enclose(s) \/ Enrsrv(s) \/ Unbind(s) \/ Unitdata(s) \/ Flush(s) \/ \E sap \in Saps : Bind(s, sap)
      PROVE  Full'
  BY <1>1, <1>5, EncloseFull, CommandsFull, BindFull, UnitdataFull, FlushFull DEF Full
<1> QED  BY <1>2, <1>3, <1>4, <1>5, Zenon DEF Next

LEMMA FullSound == Full => StreamsSound
<1> SUFFICES ASSUME Full PROVE StreamsSound
  OBVIOUS
<1>1. PollAlive
  <2>1. d.up => timers > 0
    BY DEF Full, Ticks
  <2>2. (\E s \in Streams : qptr[s] # None) => pollq # NoQ
    BY DEF Full, Owned
  <2> QED  BY <2>1, <2>2 DEF Full, Inv, Streamed, PollAlive
<1>2. UnloadClean
  <2>1. SUFFICES ASSUME ~loaded PROVE timers = 0 /\ d.q = <<>> /\ enab = {} /\ pollq = NoQ
    BY DEF UnloadClean
  <2>2. ~d.up /\ ~d.busy /\ \A p \in Procs : pr[p].pc = "user"
    BY <2>1 DEF Full, Inv, Unloads, User, DriverOk, Down
  <2>3. timers = 0 /\ enab = {}
    BY <2>2 DEF Full, Ticks, Inv, Streamed
  <2>4. pollq = NoQ
    BY <2>1 DEF Full, Owned, Inv, Rest, Streamed
  <2>5. Asyncs(d.q) = {} /\ Syncs(d.q) = {}
    BY <2>2 DEF Full, Synced, Inv, DriverOk, Core, One
  <2>6. d.q = <<>>
    <3>1. d.q \in Seq({"async", "sync"})
      BY FullDriver DEF Driver
    <3>2. SUFFICES ASSUME d.q # <<>> PROVE FALSE
      OBVIOUS
    <3>3. 1 \in DOMAIN d.q /\ d.q[1] \in {"async", "sync"}
      BY <3>1, <3>2
    <3> QED  BY <2>5, <3>3 DEF Asyncs, Syncs, Kind
  <2> QED  BY <2>3, <2>4, <2>6
<1> QED  BY <1>1, <1>2 DEF Full, Behind, StreamsSound

(* While one process at a time opens or unloads and at most one frame is   *)
(* too long: dp_poll goes on through an open stream, dp_unload leaves      *)
(* nothing behind, and after each transmit en_wproc's 2 * DP_NMINOR turns  *)
(* stage a frame or find none waiting, so that no frame waits for nothing. *)
(* Without either hypothesis the code breaks the promise.                  *)
THEOREM StreamsAlways == ASSUME OneOpener, OneLong PROVE Spec => []StreamsSound
<1>1. Full /\ [Next]_vars => Full'
  BY NextFull
<1> QED  BY <1>1, InitFull, FullSound, PTL DEF Spec
=============================================================================
