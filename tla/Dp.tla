-------------------------------- MODULE Dp --------------------------------
(***************************************************************************)
(* The DaynaPORT network driver (src/driver-dp/dp.c): a DLPI STREAMS       *)
(* driver above one SCSI target.                                           *)
(*                                                                         *)
(* At any time at most one asynchronous command (dpabuf) is queued or in   *)
(* flight: a step of bringing the interface up again, the transmit of the  *)
(* staged frame, or a receive, in that order.  Frames that find one staged *)
(* wait on their stream's write queue; the end of a transmit stages the    *)
(* next.  Opens and the unload use a synchronous command and sleep for it. *)
(* A SCSI completion (spl4), STREAMS code (splstr) and a callout do not    *)
(* preempt one another, so each is one step.                               *)
(*                                                                         *)
(* External: the kernel's SCSI core (sj_op, sj_terminate), which takes the *)
(* finished command off the queue and calls dpSTART, and retries one that  *)
(* the target refuses; the adapter; the STREAMS scheduler.                 *)
(***************************************************************************)
EXTENDS Naturals, Sequences, FiniteSets

CONSTANTS
  Procs,       \* processes that open and unload
  NoProc,
  Streams,     \* queue pairs, named by their read queue
  NoQ,
  NMinor,      \* DP_NMINOR
  Saps,
  NoSap,
  Bad,         \* frames longer than 1514 bytes
  MaxFrames,   \* bound: frames sent
  MaxFaults,   \* bound: times the adapter resets or wedges
  MaxErrs,     \* DP_MAXERRS
  Retries,     \* times sj_terminate starts a refused command again
  Flushes      \* M_FLUSH of the write side happens

ASSUME DpAssumption ==
  /\ NMinor \in Nat \ {0} /\ MaxFrames \in Nat /\ MaxFaults \in Nat
  /\ MaxErrs \in Nat \ {0} /\ Retries \in Nat
  /\ Bad \subseteq Nat /\ Flushes \in BOOLEAN
  /\ NoProc \notin Procs /\ NoQ \notin Streams /\ NoSap \notin Saps

VARIABLES
  d,        \* the driver's own variables, the queue and dpabuf
  min,      \* en_min
  qptr,     \* each read queue's q_ptr: its minor
  pollq,    \* dp_pollq
  enab,     \* read queues that qenable put on the scheduler's list
  timers,   \* pending dp_poll callouts
  running,  \* ENF_RUNNING
  loaded,   \* the module is in the kernel
  pr,       \* the processes
  sync,     \* dpbuf, the synchronous command
  ad,       \* the adapter
  nf,       \* frames sent down so far; the next one's name
  faults

vars == <<d, min, qptr, pollq, enab, timers, running, loaded, pr, sync, ad, nf, faults>>

Minors == 0 .. NMinor - 1
None == NMinor
NoTx == [id |-> 0, q |-> NoQ]
Frames == [id: 1 .. MaxFrames, q: Streams] \cup {NoTx}
Ops == {"ena", "dis", "tx", "rx", "mac"}

(* passed counts, for the properties only, the frames of other streams     *)
(* staged since a stream's first waiting frame could have been; flushed    *)
(* tells that a flush has happened since the module was loaded.            *)
Driver ==
  [q: Seq({"async", "sync"}), active: BOOLEAN, errcnt: 0 .. Retries,
   busy: BOOLEAN, op: Ops, sends: 0 .. MaxFrames,
   up: BOOLEAN, tx: Frames, rxwant: BOOLEAN, reinit: 0 .. 2,
   errs: 0 .. MaxErrs, settled: BOOLEAN,
   wq: [Streams -> Seq(1 .. MaxFrames)], wqcnt: Nat, nextmin: Minors,
   passed: [Streams -> Nat], flushed: BOOLEAN]
Minor == [q: Streams \cup {NoQ}, state: {"unbound", "idle"}, sap: Saps \cup {NoSap}]
NoMinor == [q |-> NoQ, state |-> "unbound", sap |-> NoSap]
User == [pc |-> "user", q |-> NoQ, m |-> None]
NoSync == [p |-> NoProc, op |-> "mac", done |-> FALSE, err |-> FALSE]

TypeOK ==
  /\ d \in Driver
  /\ min \in [Minors -> Minor] /\ qptr \in [Streams -> Minors \cup {None}]
  /\ pollq \in Streams \cup {NoQ} /\ enab \subseteq Streams
  /\ timers \in Nat /\ running \in BOOLEAN /\ loaded \in BOOLEAN
  /\ pr \in [Procs -> [pc: {"user", "ena", "mac", "undo", "unload"},
                       q: Streams \cup {NoQ}, m: Minors \cup {None}]]
  /\ sync \in [p: Procs \cup {NoProc}, op: Ops, done: BOOLEAN, err: BOOLEAN]
  /\ ad \in [on: BOOLEAN, settling: BOOLEAN, wedged: BOOLEAN]
  /\ nf \in 0 .. MaxFrames /\ faults \in 0 .. MaxFaults

(* the module's data as loaded *)
InitDriver ==
  [q |-> <<>>, active |-> FALSE, errcnt |-> 0, busy |-> FALSE, op |-> "rx",
   sends |-> 0, up |-> FALSE, tx |-> NoTx, rxwant |-> FALSE, reinit |-> 0,
   errs |-> 0, settled |-> TRUE, wq |-> [s \in Streams |-> <<>>], wqcnt |-> 0,
   nextmin |-> 0, passed |-> [s \in Streams |-> 0], flushed |-> FALSE]

Init ==
  /\ d = InitDriver
  /\ min = [m \in Minors |-> NoMinor] /\ qptr = [s \in Streams |-> None]
  /\ pollq = NoQ /\ enab = {} /\ timers = 0
  /\ running = FALSE /\ loaded = FALSE
  /\ pr = [p \in Procs |-> User] /\ sync = NoSync
  /\ ad = [on |-> FALSE, settling |-> FALSE, wedged |-> FALSE]
  /\ nf = 0 /\ faults = 0

-----------------------------------------------------------------------------
(* The driver's procedures, from the state of d to the state of d          *)

(* mutant: every start counts as the first (dp-design.md, "hung the boot") *)
StartForgetting(s, first) ==
  IF s.q = <<>> THEN [s EXCEPT !.active = FALSE]
  ELSE [s EXCEPT !.active = TRUE, !.errcnt = 0]
(* dpSTART: starts the head of the queue; first is its flag                *)
Start(s, first) ==
  IF s.q = <<>> THEN [s EXCEPT !.active = FALSE]
  ELSE [s EXCEPT !.active = TRUE, !.errcnt = IF first THEN 0 ELSE @]

(* dpstrategy and the end of dp_kick: at the end of the queue              *)
Queue(s, which, start) ==
  LET t == [s EXCEPT !.q = Append(@, which)]
  IN  IF start /\ ~t.active THEN Start(t, TRUE) ELSE t

DueOp(s) ==
  CASE s.reinit = 2 -> "dis"
    [] s.reinit = 1 -> "ena"
    [] s.reinit = 0 /\ s.tx # NoTx -> "tx"
    [] OTHER -> "rx"

(* mutant: a command is queued while another is in flight                  *)
KickAlways(s, start) ==
  IF ~s.up \/ (s.reinit = 0 /\ s.tx = NoTx /\ ~s.rxwant) THEN s
  ELSE Queue([s EXCEPT !.busy = TRUE, !.op = DueOp(s), !.sends = s.tx.id],
             "async", start)
(* mutant: a due re-bring-up does not come before other commands           *)
KickNoReinit(s, start) ==
  IF s.busy \/ ~s.up \/ (s.tx = NoTx /\ ~s.rxwant) THEN s
  ELSE Queue([s EXCEPT !.busy = TRUE, !.op = IF s.tx # NoTx THEN "tx" ELSE "rx",
                       !.sends = s.tx.id], "async", start)
Kick(s, start) ==
  IF s.busy \/ ~s.up \/ (s.reinit = 0 /\ s.tx = NoTx /\ ~s.rxwant) THEN s
  ELSE Queue([s EXCEPT !.busy = TRUE, !.op = DueOp(s), !.sends = s.tx.id],
             "async", start)

(* dp_xmit *)
(* mutant: a frame is staged over the one in flight                        *)
CanXmitUp(s) == s.up
CanXmit(s) == s.up /\ s.tx = NoTx
Passed(s, q) ==
  [o \in Streams |-> IF o = q \/ s.wq[o] = <<>> THEN 0 ELSE s.passed[o] + 1]
Xmit(s, q, f) ==
  IF f \in Bad THEN s
  ELSE Kick([s EXCEPT !.tx = [id |-> f, q |-> q], !.passed = Passed(s, q)], TRUE)

(* A turn of en_wproc's loop; live is who has a minor, on whether the loop *)
(* still runs. A frame that cannot be staged goes back to its place.       *)
Taken(u, q) == [u EXCEPT !.wq[q] = Tail(@), !.wqcnt = @ - 1]
(* mutant: putq for putbq                                                  *)
TurnPutq(live) == [r \in [s: Driver, on: BOOLEAN] |->
  LET m == (r.s.nextmin + 1) % NMinor
      q == live[m]
      u == [r.s EXCEPT !.nextmin = m]
  IN  IF ~r.on \/ r.s.wqcnt = 0 THEN r
      ELSE IF q = NoQ \/ u.wq[q] = <<>> THEN [s |-> u, on |-> TRUE]
      ELSE IF ~CanXmit(u) THEN [s |-> [u EXCEPT !.wq[q] = Append(Tail(@), Head(@))], on |-> FALSE]
      ELSE [s |-> Xmit(Taken(u, q), q, Head(u.wq[q])), on |-> TRUE]]
Turn(live) == [r \in [s: Driver, on: BOOLEAN] |->
  LET m == (r.s.nextmin + 1) % NMinor
      q == live[m]
      u == [r.s EXCEPT !.nextmin = m]
  IN  IF ~r.on \/ r.s.wqcnt = 0 THEN r
      ELSE IF q = NoQ \/ u.wq[q] = <<>> THEN [s |-> u, on |-> TRUE]
      ELSE IF ~CanXmit(u) THEN [s |-> u, on |-> FALSE]
      ELSE [s |-> Xmit(Taken(u, q), q, Head(u.wq[q])), on |-> TRUE]]

(* en_wproc: r is the loop after n turns                                   *)
Wproc(s, live) ==
  LET r[n \in 0 .. 2 * NMinor] ==
        IF n = 0 THEN [s |-> s, on |-> TRUE] ELSE Turn(live)[r[n - 1]]
  IN  r[2 * NMinor].s

(* dp_async_done; r says what a receive brought                            *)
(* mutant: the write queues wait for the next frame sent                   *)
TxDoneOnly(s, live) == [s EXCEPT !.tx = NoTx, !.rxwant = TRUE]
TxDone(s, live) ==
  LET t == [s EXCEPT !.tx = NoTx]
      u == IF t.wqcnt > 0 THEN Wproc(t, live) ELSE t
  IN  [u EXCEPT !.rxwant = TRUE]
RxDone(s, r) ==
  CASE r = "err" -> [s EXCEPT !.rxwant = FALSE]
    [] r = "wedged" -> [s EXCEPT !.rxwant = FALSE, !.reinit = 2]
    [] r = "empty" -> [s EXCEPT !.rxwant = s.reinit > 0 /\ @]
    [] r = "frames" -> s
ReinitDone(s) ==
  LET t == [s EXCEPT !.reinit = IF @ > 0 THEN @ - 1 ELSE 0]
  IN  IF t.reinit = 0 THEN [t EXCEPT !.settled = FALSE, !.errs = 0] ELSE t
(* mutant: failures are not counted                                        *)
CountErrNever(s, err) == s
(* mutant: they are, and nothing comes of it                               *)
CountErrOnly(s, err) ==
  IF ~err THEN [s EXCEPT !.errs = 0]
  ELSE IF s.settled THEN [s EXCEPT !.errs = @ + 1] ELSE s
CountErr(s, err) ==
  IF ~err THEN [s EXCEPT !.errs = 0]
  ELSE IF ~s.settled THEN s
  ELSE IF s.errs + 1 >= MaxErrs THEN [s EXCEPT !.errs = MaxErrs, !.reinit = 2]
  ELSE [s EXCEPT !.errs = @ + 1]
AsyncDone(s, r, live) ==
  LET t == [s EXCEPT !.busy = FALSE]
      u == CountErr(t, r = "err")
  IN  Kick(CASE s.op \in {"ena", "dis"} -> ReinitDone(t)
             [] s.op = "tx" -> TxDone(u, live)
             [] s.op = "rx" -> RxDone(u, r), FALSE)
-----------------------------------------------------------------------------
(* The SCSI core and the adapter                                           *)

Head1 == Head(d.q)
HeadOp == IF Head1 = "async" THEN d.op ELSE sync.op
Refused == HeadOp \in {"tx", "rx", "mac"} /\ (~ad.on \/ ad.settling)
Live == [m \in Minors |-> min[m].q]

(* the target refuses the command: started again, a few times              *)
Refuse ==
  /\ d.active /\ d.q # <<>> /\ Refused /\ d.errcnt < Retries
  /\ d' = Start([d EXCEPT !.errcnt = @ + 1], FALSE)
  /\ UNCHANGED <<min, qptr, pollq, enab, timers, running, loaded, pr, sync, ad, nf, faults>>

(* sj_terminate: the head is done, or given up; dpSTART(job, 1)            *)
Adapter(op) ==
  CASE op = "ena" -> [on |-> TRUE, settling |-> TRUE, wedged |-> FALSE]
    [] op = "dis" -> [on |-> FALSE, settling |-> FALSE, wedged |-> FALSE]
    [] OTHER -> ad
Results(op) ==
  IF op # "rx" THEN {"ok"} ELSE IF ad.wedged THEN {"wedged"} ELSE {"empty", "frames"}
Complete ==
  /\ d.active /\ d.q # <<>> /\ (Refused => d.errcnt = Retries)
  /\ ad' = IF Refused THEN ad ELSE Adapter(HeadOp)
  /\ \E r \in IF Refused THEN {"err"} ELSE Results(HeadOp) :
       LET t == [d EXCEPT !.q = Tail(@)]
       IN  IF Head1 = "async"
           THEN d' = Start(AsyncDone(t, r, Live), TRUE) /\ UNCHANGED sync
           ELSE /\ d' = Start(t, TRUE)
                /\ sync' = [sync EXCEPT !.done = TRUE, !.err = r = "err"]
  /\ UNCHANGED <<min, qptr, pollq, enab, timers, running, loaded, pr, nf, faults>>

(* 500 ms after an enable, as the adapter and as the driver see it         *)
AdSettles ==
  /\ ad.settling /\ ad' = [ad EXCEPT !.settling = FALSE]
  /\ UNCHANGED <<d, min, qptr, pollq, enab, timers, running, loaded, pr, sync, nf, faults>>
DriverSettles ==
  /\ ~d.settled /\ d' = [d EXCEPT !.settled = TRUE]
  /\ UNCHANGED <<min, qptr, pollq, enab, timers, running, loaded, pr, sync, ad, nf, faults>>

(* it drops a packet and wedges, or resets itself                          *)
AdFails ==
  /\ faults < MaxFaults /\ faults' = faults + 1 /\ ad.on
  /\ \/ ad' = [ad EXCEPT !.wedged = TRUE]
     \/ ad' = [on |-> FALSE, settling |-> FALSE, wedged |-> FALSE]
  /\ UNCHANGED <<d, min, qptr, pollq, enab, timers, running, loaded, pr, sync, nf>>

-----------------------------------------------------------------------------
(* Open, close, load, unload                                               *)

Opening == {pr[p].q : p \in Procs} \ {NoQ}
FreeMinors == {m \in Minors : min[m].q = NoQ}

(* the loader has read the module in: its data is new                      *)
Load ==
  /\ ~loaded /\ loaded' = TRUE
  /\ d' = InitDriver
  /\ UNCHANGED <<min, qptr, pollq, enab, timers, running, pr, sync, ad, nf, faults>>

(* the end of enopen, with the minor chosen at its start                   *)
OpenDone(s, m) ==
  /\ qptr' = [qptr EXCEPT ![s] = m]
  /\ min' = [min EXCEPT ![m] = [q |-> s, state |-> "unbound", sap |-> NoSap]]
  /\ pollq' = IF pollq = NoQ THEN s ELSE pollq

(* enopen of the clone device: the first free minor, then dp_linit if the  *)
(* interface is not running yet. The dlm core holds an open back while a   *)
(* module unloads.                                                         *)
Enopen(p, s) ==
  /\ loaded /\ (\A o \in Procs : pr[o].pc # "unload") /\ pr[p] = User /\ qptr[s] = None /\ s \notin Opening
  /\ \E m \in FreeMinors :
       /\ \A o \in FreeMinors : m <= o
       /\ IF running
          THEN OpenDone(s, m) /\ UNCHANGED pr
          ELSE /\ pr' = [pr EXCEPT ![p] = [pc |-> "ena", q |-> s, m |-> m]]
               /\ UNCHANGED <<qptr, min, pollq>>
  /\ UNCHANGED <<d, enab, timers, running, loaded, sync, ad, nf, faults>>

(* dpcmd: sj_op waits for dpbuf, queues it and sleeps                      *)
OpOf(pc) == CASE pc = "ena" -> "ena" [] pc = "mac" -> "mac" [] OTHER -> "dis"
Issue(p) ==
  /\ pr[p].pc # "user" /\ sync = NoSync
  /\ sync' = [p |-> p, op |-> OpOf(pr[p].pc), done |-> FALSE, err |-> FALSE]
  /\ d' = Queue(d, "sync", TRUE)
  /\ UNCHANGED <<min, qptr, pollq, enab, timers, running, loaded, pr, ad, nf, faults>>

(* dp_linit after each of its commands: the address is asked for until it  *)
(* comes, or the interface is disabled again and stays down; the open      *)
(* succeeds either way.                                                    *)
Goes(p, pc) ==
  pr' = [pr EXCEPT ![p].pc = pc] /\ UNCHANGED <<d, min, qptr, pollq, timers, running>>
Opened(p) == OpenDone(pr[p].q, pr[p].m) /\ pr' = [pr EXCEPT ![p] = User]
Linit(p) ==
  /\ sync.p = p /\ sync.done /\ pr[p].pc \in {"ena", "mac", "undo"}
  /\ sync' = NoSync
  /\ \/ pr[p].pc = "ena" /\ ~sync.err /\ Goes(p, "mac")
     \/ pr[p].pc = "mac" /\ sync.err /\ (Goes(p, "mac") \/ Goes(p, "undo"))
     \/ /\ (pr[p].pc = "ena" /\ sync.err) \/ pr[p].pc = "undo"
        /\ Opened(p) /\ UNCHANGED <<d, timers, running>>
     \/ /\ pr[p].pc = "mac" /\ ~sync.err
        /\ running' = TRUE /\ timers' = timers + 1
        /\ d' = [d EXCEPT !.up = TRUE, !.reinit = 0, !.errs = 0, !.settled = TRUE]
        /\ Opened(p)
  /\ UNCHANGED <<enab, loaded, ad, nf, faults>>

(* enclose: frames never sent go, the poll goes to another open minor      *)
(* mutant: the poll stays with the stream that closed                      *)
PollToSame(s, m) == pollq
PollTo(s, m) ==
  IF pollq # s THEN pollq
  ELSE LET left == {o \in Minors \ {m} : min[o].q # NoQ}
       IN  IF left = {} THEN NoQ
           ELSE min[CHOOSE o \in left : \A x \in left : o <= x].q
(* mutant: the frames freed at close stay counted                          *)
LessNone(s) == d.wqcnt
LessFrames(s) == IF d.wqcnt > Len(d.wq[s]) THEN d.wqcnt - Len(d.wq[s]) ELSE 0
Enclose(s) ==
  LET m == qptr[s]
  IN  /\ m # None
      /\ d' = [d EXCEPT !.wq[s] = <<>>, !.passed[s] = 0, !.wqcnt = LessFrames(s)]
      /\ qptr' = [qptr EXCEPT ![s] = None]
      /\ min' = [min EXCEPT ![m] = NoMinor]
      /\ pollq' = PollTo(s, m)
      /\ enab' = enab \ {s}
      /\ UNCHANGED <<timers, running, loaded, pr, sync, ad, nf, faults>>

(* mutant: the callout is not cancelled                                    *)
UntimeoutNone == timers
Untimeout == IF d.up /\ timers > 0 THEN timers - 1 ELSE timers
(* dp_unload: by the loader, when no open is left or under way             *)
Unload(p) ==
  /\ loaded /\ \A o \in Procs : pr[o] = User
  /\ \A s \in Streams : qptr[s] = None
  /\ ~d.busy
  /\ d' = [d EXCEPT !.up = FALSE]
  /\ timers' = Untimeout
  /\ IF running
     THEN /\ pr' = [pr EXCEPT ![p] = [pc |-> "unload", q |-> NoQ, m |-> None]]
          /\ UNCHANGED loaded
     ELSE loaded' = FALSE /\ UNCHANGED pr
  /\ UNCHANGED <<min, qptr, pollq, enab, running, sync, ad, nf, faults>>
Unloaded(p) ==
  /\ sync.p = p /\ sync.done /\ pr[p].pc = "unload"
  /\ sync' = NoSync /\ pr' = [pr EXCEPT ![p] = User]
  /\ running' = FALSE /\ loaded' = FALSE
  /\ UNCHANGED <<d, min, qptr, pollq, enab, timers, ad, nf, faults>>

-----------------------------------------------------------------------------
(* The poll and the DLPI half                                              *)

(* dp_poll, a callout: it enables a read queue, and is due again           *)
Poll ==
  /\ timers > 0
  /\ IF d.up
     THEN /\ enab' = IF pollq = NoQ THEN enab ELSE enab \cup {pollq}
          /\ UNCHANGED timers
     ELSE timers' = timers - 1 /\ UNCHANGED enab
  /\ UNCHANGED <<d, min, qptr, pollq, running, loaded, pr, sync, ad, nf, faults>>

(* enrsrv, the read queue's service procedure                              *)
Enrsrv(s) ==
  /\ s \in enab /\ enab' = enab \ {s}
  /\ d' = Kick([d EXCEPT !.rxwant = TRUE], TRUE)
  /\ UNCHANGED <<min, qptr, pollq, timers, running, loaded, pr, sync, ad, nf, faults>>

(* en_proto: DL_BIND_REQ, DL_UNBIND_REQ                                    *)
(* mutant: the other minors are not asked                                  *)
SapTakenNever(sap) == FALSE
SapTaken(sap) == \E m \in Minors : min[m].state = "idle" /\ min[m].sap = sap
Bind(s, sap) ==
  /\ running /\ qptr[s] # None /\ min[qptr[s]].state = "unbound" /\ ~SapTaken(sap)
  /\ min' = [min EXCEPT ![qptr[s]].state = "idle", ![qptr[s]].sap = sap]
  /\ UNCHANGED <<d, qptr, pollq, enab, timers, running, loaded, pr, sync, ad, nf, faults>>
Unbind(s) ==
  /\ running /\ qptr[s] # None /\ min[qptr[s]].state = "idle"
  /\ min' = [min EXCEPT ![qptr[s]].state = "unbound", ![qptr[s]].sap = NoSap]
  /\ UNCHANGED <<d, qptr, pollq, enab, timers, running, loaded, pr, sync, ad, nf, faults>>

MustWait == d.wqcnt # 0 \/ ~CanXmit(d)
(* DL_UNITDATA_REQ                                                         *)
Unitdata(s) ==
  /\ running /\ qptr[s] # None /\ min[qptr[s]].state = "idle"
  /\ nf < MaxFrames /\ nf' = nf + 1
  /\ d' = IF MustWait
          THEN [d EXCEPT !.wq[s] = Append(@, nf + 1), !.wqcnt = @ + 1]
          ELSE Xmit(d, s, nf + 1)
  /\ UNCHANGED <<min, qptr, pollq, enab, timers, running, loaded, pr, sync, ad, faults>>

(* enwput, M_FLUSH with FLUSHW: flushq frees what waits                    *)
Flush(s) ==
  /\ Flushes /\ qptr[s] # None
  /\ d' = [d EXCEPT !.wq[s] = <<>>, !.passed[s] = 0, !.flushed = TRUE]
  /\ UNCHANGED <<min, qptr, pollq, enab, timers, running, loaded, pr, sync, ad, nf, faults>>

Next ==
  \/ Refuse \/ Complete \/ AdSettles \/ DriverSettles \/ AdFails
  \/ Load \/ Poll
  \/ \E p \in Procs :
       \/ \E s \in Streams : Enopen(p, s)
       \/ Issue(p) \/ Linit(p) \/ Unload(p) \/ Unloaded(p)
  \/ \E s \in Streams :
       \/ Enclose(s) \/ Enrsrv(s) \/ Unbind(s) \/ Unitdata(s) \/ Flush(s)
       \/ \E sap \in Saps : Bind(s, sap)

Spec == Init /\ [][Next]_vars

(* The SCSI core ends every command, callouts fire, the STREAMS scheduler  *)
(* runs enabled queues, time passes and a process that was woken runs.     *)
Fairness ==
  /\ WF_vars(Refuse \/ Complete) /\ WF_vars(AdSettles) /\ WF_vars(DriverSettles)
  /\ WF_vars(Poll)
  /\ \A s \in Streams : WF_vars(Enrsrv(s))
  /\ \A p \in Procs : WF_vars(Issue(p) \/ Linit(p) \/ Unloaded(p))
FairSpec == Spec /\ Fairness

-----------------------------------------------------------------------------
(* Properties                                                              *)

(* dpabuf is on the queue once while it is busy, and never otherwise: it   *)
(* is one static buffer.                                                   *)
OneCommand ==
  Cardinality({i \in DOMAIN d.q : d.q[i] = "async"}) = IF d.busy THEN 1 ELSE 0

(* Nothing due waits for a completion that will not come: while there is   *)
(* a staged frame, a receive or a re-bring-up step due, a command is under *)
(* way, and the queue is running (dp.c:283).                               *)
NoStall ==
  /\ d.up /\ (d.tx # NoTx \/ d.rxwant \/ d.reinit > 0) => d.busy
  /\ d.active <=> d.q # <<>>

(* A frame waits on a write queue only behind a staged one, whose end      *)
(* stages it: "caller queues it and en_wproc retries when the transmit     *)
(* completes" (dp.c:573). A flush breaks this: it leaves if_wqcnt as it    *)
(* was (dp.c:978), and from then on frames wait behind nothing.            *)
QueuedBehindTx == (\E s \in Streams : d.wq[s] # <<>>) => d.tx # NoTx \/ d.flushed

(* Until a flush, if_wqcnt is the number of frames on the write queues     *)
(* (dp.c:916).                                                             *)
Waiting == UNION {{s} \X DOMAIN d.wq[s] : s \in Streams}
WqCount == d.flushed \/ d.wqcnt = Cardinality(Waiting)

(* The frame under transmission is the staged one: dptx is not written     *)
(* while the adapter reads it.                                             *)
FrameIntact == d.busy /\ d.op = "tx" => d.sends = d.tx.id /\ d.tx # NoTx

(* A stream's frames leave in the order they came.                         *)
FifoOrder ==
  \A s \in Streams :
    /\ \A i, j \in DOMAIN d.wq[s] : i < j => d.wq[s][i] < d.wq[s][j]
    /\ d.tx.q = s => \A i \in DOMAIN d.wq[s] : d.tx.id < d.wq[s][i]

(* A received frame has one place to go (en_rproc).                        *)
SapUnique ==
  \A m, o \in Minors : m # o /\ min[m].state = "idle" => min[m].sap # min[o].sap

(* While the interface is up and a stream is open, the poll runs through   *)
(* an open stream (dp.c:1066).                                             *)
PollAlive ==
  d.up /\ (\E s \in Streams : qptr[s] # None) =>
    timers > 0 /\ pollq # NoQ /\ qptr[pollq] # None

(* An unloaded module left nothing behind that runs its code: no callout,  *)
(* no queued buffer, no enabled queue.                                     *)
UnloadClean ==
  ~loaded => timers = 0 /\ d.q = <<>> /\ enab = {} /\ pollq = NoQ

(* Each stream has a minor of its own.                                     *)
MinorOwner == \A s \in Streams : qptr[s] # None => min[qptr[s]].q = s

(* "round-robin the minors' write queues" (dp.c:753): no stream is passed  *)
(* over by more frames than there are other streams.                       *)
RoundRobin == \A s \in Streams : d.passed[s] < Cardinality(Streams)

(* An adapter that wedged or reset is brought up again, as long as one     *)
(* stream stays the polled one (dp.c:154: "consecutive failures that mean  *)
(* the adapter reset"; dp.c:376).                                          *)
Broken == d.up /\ (~ad.on \/ ad.wedged)
Recovers == \A s \in Streams : <>[](pollq = s) => []<>~Broken

(* Every frame a stream was given leaves, sent or dropped with an error,   *)
(* unless a flush has happened and what counts the waiting ones is wrong.  *)
FramesLeave ==
  []<>(d.flushed \/ \A s \in Streams : d.wq[s] = <<>>) /\ []<>(d.tx = NoTx)

(* What holds of the one command and of the frames, however many processes *)
(* open: one command at a time, none missing while something is due, the   *)
(* staged frame left alone, frames in order and counted, and one place for *)
(* each received one.                                                      *)
CommandSound ==
  /\ OneCommand /\ NoStall /\ FrameIntact /\ FifoOrder /\ WqCount /\ SapUnique
(* What the streams are promised: no frame waits for nothing, the poll goes *)
(* on, on an open stream, and an unload leaves nothing behind.             *)
StreamsSound == PollAlive /\ UnloadClean /\ QueuedBehindTx
(* Frames leave, and a broken adapter is brought up again.                 *)
GoesOn == FramesLeave /\ Recovers
=============================================================================
