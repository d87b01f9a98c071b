-------------------------------- MODULE Isp --------------------------------
(***************************************************************************)
(* The ISP1160's transfers (driver-ub/isp116x.c): jobs of the one transfer *)
(* list (isp116x_submit_job), the control and bulk messages made of them,  *)
(* and the keyboards' and mice's poll (isp116x_poll_int), down to the data *)
(* toggles that tell a packet from its repetition.                         *)
(*                                                                         *)
(* Data is counted in packets, numbered as the sender numbers them.  The   *)
(* bus may lose a packet, lose the acknowledgement of one, find the device *)
(* busy or the frame over, stall; how often is not bounded.  One process   *)
(* uses the controller (module Ub's lock), so a job's steps are its own.   *)
(*                                                                         *)
(* External: the devices' end of each pipe and the controller's schedule,  *)
(* as the comments of the code describe it.                                *)
(***************************************************************************)
EXTENDS Integers, Sequences, FiniteSets

CONSTANTS
  Hids,      \* keyboards and mice polled
  MaxJob,    \* packets one job can carry (max_transfer_len)
  MaxMsg,    \* bound: packets of a message
  Retries,   \* time_out: what a job may spend on errors and busy devices
  ErrCost,   \* what an error costs (100)
  MaxReports,\* bound: reports of a keyboard or mouse
  MaxBreaks  \* bound: unrecoverable errors, and recoveries that come to nothing

ASSUME IspAssumption ==
  /\ MaxJob \in Nat \ {0} /\ MaxMsg \in Nat \ {0} /\ Retries \in Nat /\ ErrCost \in Nat \ {0}
  /\ MaxReports \in Nat /\ MaxBreaks \in Nat
  /\ Hids \cap {"in", "out", "cin", "cout", "none"} = {}

VARIABLES
  tog,      \* the host's toggle of each pipe (usb_settoggle)
  dtog,     \* the devices' toggles
  msg,      \* the message under way
  job,      \* the job under way and its transfer descriptor (PTD)
  locked,   \* job_in_progress
  disabled, \* isp116x->disabled
  moved,    \* the packets of the message that arrived
  src,      \* a sending device's next packet (-1: one the last message had)
  rep,      \* reports each keyboard or mouse has had acknowledged
  seen,     \* reports of it the class driver was given
  adrift,   \* history: bulk pipes whose recovery not both ends carried out
  breaks

vars == <<tog, dtog, msg, job, locked, disabled, moved, src, rep, seen, adrift, breaks>>
hidvars == <<rep, seen, adrift>>
ends == <<dtog, moved, src>>

Bulk == {"in", "out"}
Ctl == {"cin", "cout"}
Pipes == Bulk \cup Ctl \cup Hids
Codes == {"ok", "notaccessed", "underrun", "error"}

NoMsg == [p |-> "none", st |-> "none", left |-> 0, act |-> 0, result |-> "none"]
NoJob == [pc |-> "none", dir |-> "out", len |-> 0, n |-> 0, done |-> 0, retries |-> 0,
          t |-> 0, count |-> 0, cc |-> "ok", active |-> FALSE]

TypeOK ==
  /\ tog \in [Pipes -> {0, 1}] /\ dtog \in [Pipes -> {0, 1}]
  /\ msg \in [p: Pipes \cup {"none"}, st: {"none", "bulk", "setup", "data", "status", "failed"}, left: 0 .. MaxMsg,
              act: 0 .. MaxMsg, result: {"none", "ok", "failed"}]
  /\ job \in [pc: {"none", "tx", "unpack", "ended", "failed"}, dir: {"in", "out"}, len: 0 .. MaxJob, n: 0 .. MaxJob,
              done: 0 .. MaxJob, retries: 0 .. Retries, t: {0, 1}, count: 0 .. MaxJob, cc: Codes, active: BOOLEAN]
  /\ locked \in BOOLEAN /\ disabled \in BOOLEAN
  /\ moved \in Seq(-1 .. MaxMsg) /\ src \in -1 .. MaxMsg + 1
  /\ rep \in [Hids -> 0 .. MaxReports] /\ seen \in [Hids -> 0 .. MaxReports] /\ adrift \subseteq Bulk
  /\ breaks \in 0 .. MaxBreaks

Init ==
  /\ tog = [p \in Pipes |-> 0] /\ dtog = tog /\ msg = NoMsg /\ job = NoJob
  /\ locked = FALSE /\ disabled = FALSE /\ moved = <<>> /\ src = 0
  /\ rep = [h \in Hids |-> 0] /\ seen = rep /\ adrift = {} /\ breaks = 0

Data == msg.st \in {"bulk", "data"}
Sends(p) == p \in {"out", "cout"}

-----------------------------------------------------------------------------
(* A job                                                                   *)

(* isp116x_submit_job, its refusals                                        *)
Submit(n, dir, t) ==
  IF disabled \/ locked THEN job' = [NoJob EXCEPT !.pc = "failed"] /\ UNCHANGED locked
  ELSE /\ locked' = TRUE
       /\ job' = [NoJob EXCEPT !.pc = "tx", !.dir = dir, !.len = n, !.n = n, !.retries = Retries, !.t = t]

(* A transaction of the descriptor in the transfer list.  The chip counts  *)
(* it and flips its toggle; the receiver keeps a packet with the toggle it *)
(* expects and acknowledges, but does not keep, another.                   *)
Setup == msg.st = "setup"      \* a SETUP packet is always taken, and sets the toggle after it
Fresh == Setup \/ job.t = dtog[msg.p]
Next1 == [job EXCEPT !.count = @ + 1, !.t = 1 - @]
AfterData == IF Setup THEN 1 ELSE 1 - dtog[msg.p]
Taken ==       \* the device takes an OUT packet
  /\ dtog' = IF Fresh THEN [dtog EXCEPT ![msg.p] = AfterData] ELSE dtog
  /\ IF Data /\ Fresh THEN moved' = Append(moved, msg.act + job.done + job.count) ELSE UNCHANGED moved
  /\ UNCHANGED src
Given(acked) ==  \* the host takes an IN packet with the toggle it expects
  /\ IF Data THEN moved' = Append(moved, src) ELSE UNCHANGED moved
  /\ IF acked THEN /\ dtog' = [dtog EXCEPT ![msg.p] = 1 - @]
                   /\ IF Data THEN src' = src + 1 ELSE UNCHANGED src
     ELSE UNCHANGED <<dtog, src>>

Running == job.pc = "tx" /\ job.count < job.n
Stops(j, cc, active) == job' = [j EXCEPT !.pc = "unpack", !.cc = cc, !.active = active]
Good ==
  /\ Running
  /\ \/ job.dir = "out" /\ Taken /\ job' = Next1
     \/ job.dir = "in" /\ Fresh /\ Given(TRUE) /\ job' = Next1
  /\ UNCHANGED <<tog, msg, locked, disabled, hidvars, breaks>>
(* the error flips the descriptor's toggle too                             *)
Wrong == Stops([job EXCEPT !.t = 1 - @], "error", TRUE)
LostData == Running /\ Wrong /\ UNCHANGED <<tog, ends, msg, locked, disabled, hidvars, breaks>>
LostAck ==
  /\ Running
  /\ \/ job.dir = "out" /\ Taken /\ Wrong
     \/ job.dir = "in" /\ Fresh /\ Given(FALSE) /\ Stops(Next1, "ok", job.count + 1 < job.n)
  /\ UNCHANGED <<tog, msg, locked, disabled, hidvars, breaks>>
(* an IN packet again, its acknowledgement lost: acknowledged, dropped     *)
Repeated ==
  /\ Running /\ job.dir = "in" /\ ~Fresh /\ Wrong
  /\ dtog' = [dtog EXCEPT ![msg.p] = 1 - @] /\ src' = IF Data THEN src + 1 ELSE src
  /\ UNCHANGED <<tog, msg, moved, locked, disabled, hidvars, breaks>>
Busy ==
  /\ Running /\ Stops(job, IF job.count = 0 THEN "notaccessed" ELSE "ok", TRUE)
  /\ UNCHANGED <<tog, ends, msg, locked, disabled, hidvars, breaks>>
(* the device has no more: its last packet is short                        *)
Short ==
  /\ Running /\ job.dir = "in" /\ Data /\ Fresh /\ Given(TRUE) /\ Stops(Next1, "underrun", FALSE)
  /\ UNCHANGED <<tog, msg, locked, disabled, hidvars, breaks>>
Completes ==
  /\ job.pc = "tx" /\ job.count = job.n /\ Stops(job, "ok", FALSE)
  /\ UNCHANGED <<tog, ends, msg, locked, disabled, hidvars, breaks>>

(* isp116x_interrupt: an unrecoverable error resets the chip and disables  *)
(* the controller; the list is not done, the job fails                     *)
Breaks ==
  /\ job.pc = "tx" /\ breaks < MaxBreaks /\ breaks' = breaks + 1
  /\ disabled' = TRUE /\ locked' = FALSE /\ job' = [job EXCEPT !.pc = "failed"]
  /\ UNCHANGED <<tog, ends, msg, hidvars>>

(* What became of the descriptor, in the order of the code's tests.        *)
Unpacked == [job EXCEPT !.done = @ + job.count, !.n = @ - job.count]
Again(j, t) == job' = [j EXCEPT !.pc = "tx", !.count = 0, !.cc = "ok", !.active = FALSE, !.t = t]
Partly == \/ job.cc = "notaccessed" \/ job.active
          \/ job.cc # "underrun" /\ job.count < job.n
Ends(pc) == job' = [Unpacked EXCEPT !.pc = pc] /\ locked' = FALSE

(* an error: the toggle back to the failed transaction's, and from there   *)
(* mutant: the descriptor's toggle is taken as it is *)
RetryTogFlipped == job.t
RetryTog == 1 - job.t
RetryError ==
  /\ job.pc = "unpack" /\ job.cc = "error" /\ job.retries >= ErrCost
  /\ tog' = [tog EXCEPT ![msg.p] = RetryTog]
  /\ Again([Unpacked EXCEPT !.retries = @ - ErrCost], RetryTog)
  /\ UNCHANGED <<ends, msg, locked, disabled, hidvars, breaks>>
GivesUp ==
  /\ job.pc = "unpack"
  /\ \/ job.cc = "error" /\ job.retries < ErrCost
     \/ job.cc = "notaccessed" /\ job.retries = 0
  /\ Ends("failed")
  /\ UNCHANGED <<tog, ends, msg, disabled, hidvars, breaks>>
(* busy or out of time: the same descriptor, or one for the rest           *)
(* mutant: a busy device costs nothing *)
SpentNothing(r) == r
Spent(r) == r - 1
(* mutant: the rest starts with the toggle the job started with *)
RestTogStale == tog[msg.p]
RestTog == job.t
RetryRest ==
  /\ job.pc = "unpack" /\ job.cc # "error" /\ Partly /\ job.retries > 0
  /\ IF job.cc = "notaccessed" /\ job.count = 0 THEN UNCHANGED tog
     ELSE tog' = [tog EXCEPT ![msg.p] = RestTog]
  /\ Again([Unpacked EXCEPT !.retries = Spent(@)], IF job.cc = "notaccessed" THEN job.t ELSE RestTog)
  /\ UNCHANGED <<ends, msg, locked, disabled, hidvars, breaks>>
(* mutant: the toggle is not kept for the next job *)
KeptTogNever == tog
KeptTog == [tog EXCEPT ![msg.p] = job.t]
Ended ==
  /\ job.pc = "unpack" /\ job.cc \in {"ok", "underrun"} /\ (Partly => job.retries = 0)
  /\ tog' = KeptTog /\ Ends("ended")
  /\ UNCHANGED <<ends, msg, disabled, hidvars, breaks>>
-----------------------------------------------------------------------------
(* Messages                                                                *)

Least(a, b) == IF a < b THEN a ELSE b
Idle == msg.st = "none"
Dir(p) == IF Sends(p) THEN "out" ELSE "in"
Starts(p) ==
  /\ moved' = <<>>
  /\ src' \in IF ~Sends(p) /\ p \in adrift THEN {-1, 0} ELSE IF tog[p] = dtog[p] THEN {0} ELSE {-1}

(* submit_bulk_msg                                                         *)
BulkMsg(p, n) ==
  /\ Idle /\ msg' = [NoMsg EXCEPT !.p = p, !.st = "bulk", !.left = n]
  /\ Submit(Least(n, MaxJob), Dir(p), tog[p]) /\ Starts(p)
  /\ UNCHANGED <<tog, dtog, disabled, hidvars, breaks>>
Counting == [msg EXCEPT !.left = @ - job.done, !.act = @ + job.done]
LastJob == msg.left = job.done \/ (~Sends(msg.p) /\ job.done < MaxJob)
BulkNext ==
  /\ msg.st = "bulk" /\ job.pc = "ended"
  /\ IF LastJob THEN msg' = [Counting EXCEPT !.st = "none", !.result = "ok"] /\ job' = NoJob /\ UNCHANGED locked
     ELSE msg' = Counting /\ Submit(Least(msg.left - job.done, MaxJob), Dir(msg.p), tog[msg.p])
  /\ UNCHANGED <<tog, ends, disabled, hidvars, breaks>>
MsgFails ==
  /\ ~Idle /\ job.pc = "failed" /\ job' = NoJob
  /\ msg' = [msg EXCEPT !.st = IF msg.p \in Bulk THEN "failed" ELSE "none", !.result = "failed"]
  /\ UNCHANGED <<tog, ends, locked, disabled, hidvars, breaks>>
(* The class driver recovers the pipe, or both: the device starts again if *)
(* CLEAR_FEATURE reaches it; the host if its answer does (usb_clear_halt), *)
(* or whatever comes of it (clear_stall).  A disabled controller tells the *)
(* device nothing.  What had moved is given up.                            *)
Recover ==
  /\ msg.st = "failed" /\ msg' = [msg EXCEPT !.st = "none"] /\ moved' = <<>>
  /\ \E host \in SUBSET Bulk, dev \in SUBSET Bulk :
       /\ tog' = [p \in Pipes |-> IF p \in host THEN 0 ELSE tog[p]]
       /\ dtog' = [p \in Pipes |-> IF p \in dev THEN 0 ELSE dtog[p]]
       /\ disabled => dev = {}
       /\ adrift' = (adrift \cup host \cup dev \cup {msg.p}) \ (host \cap dev)
  /\ breaks' = (IF disabled \/ adrift' \subseteq adrift THEN breaks ELSE breaks + 1)
  /\ breaks' <= MaxBreaks
  /\ UNCHANGED <<job, locked, disabled, src, rep, seen>>

(* submit_control_msg: the toggles of its phases are set, not kept         *)
CtlMsg(p, n) ==
  LET t == [tog EXCEPT !["cout"] = 0] IN
  /\ Idle /\ msg' = [NoMsg EXCEPT !.p = p, !.st = "setup", !.left = n]
  /\ tog' = t /\ Submit(1, "out", t[p]) /\ moved' = <<>> /\ src' = 0
  /\ UNCHANGED <<dtog, disabled, hidvars, breaks>>
Flipped(d) == IF d = "in" THEN "out" ELSE "in"
ToData == msg.left # 0 /\ msg.st = "setup"
MoreData == msg.st = "data" /\ ~LastJob
CtlNext ==
  /\ msg.p \in Ctl /\ msg.st \in {"setup", "data"} /\ job.pc = "ended"
  /\ LET m == IF msg.st = "setup" THEN msg ELSE Counting IN
     IF ToData \/ MoreData
     THEN /\ tog' = IF ToData THEN [tog EXCEPT ![msg.p] = 1] ELSE tog
          /\ msg' = [m EXCEPT !.st = "data"] /\ Submit(Least(m.left, MaxJob), Dir(msg.p), tog'[msg.p])
          /\ UNCHANGED dtog
     ELSE /\ tog' = [tog EXCEPT ![msg.p] = 1] /\ dtog' = [dtog EXCEPT ![msg.p] = 1]
          /\ msg' = [m EXCEPT !.st = "status"] /\ Submit(1, Flipped(Dir(msg.p)), 1)
  /\ UNCHANGED <<moved, src, disabled, hidvars, breaks>>
CtlEnds ==
  /\ msg.st = "status" /\ job.pc = "ended" /\ job' = NoJob
  /\ msg' = [msg EXCEPT !.st = "none", !.result = "ok"]
  /\ UNCHANGED <<tog, ends, locked, disabled, hidvars, breaks>>

(* isp116x_poll_int: one transaction with each keyboard and mouse; one     *)
(* that had nothing to say leaves the chip's toggle wrong (the B5_5 bug)   *)
(* mutant: the toggle is taken as the chip left it *)
NakTogChip(t) == 1 - t
NakTog(t) == t
Polled(h, what) ==
  CASE what = "nak" -> <<NakTog(tog[h]), dtog[h], rep[h], seen[h]>>
    [] what = "report" -> <<1 - tog[h], 1 - dtog[h], rep[h] + 1, seen[h] + 1>>
    [] what = "unacked" -> <<1 - tog[h], dtog[h], rep[h], seen[h] + 1>>
    [] what = "repeated" -> <<tog[h], 1 - dtog[h], rep[h] + 1, seen[h]>>
    [] what = "error" -> <<tog[h], dtog[h], rep[h], seen[h]>>
CanBe(h, what) ==
  what \in {"report", "unacked", "repeated"} =>
    rep[h] < MaxReports /\ (what # "repeated" <=> tog[h] = dtog[h])
PollInt ==
  /\ Idle /\ ~locked /\ ~disabled
  /\ \E w \in [Hids -> {"nak", "report", "unacked", "repeated", "error"}] :
       /\ \A h \in Hids : CanBe(h, w[h])
       /\ tog' = [p \in Pipes |-> IF p \in Hids THEN Polled(p, w[p])[1] ELSE tog[p]]
       /\ dtog' = [p \in Pipes |-> IF p \in Hids THEN Polled(p, w[p])[2] ELSE dtog[p]]
       /\ rep' = [h \in Hids |-> Polled(h, w[h])[3]] /\ seen' = [h \in Hids |-> Polled(h, w[h])[4]]
  /\ UNCHANGED <<msg, job, locked, disabled, moved, src, adrift, breaks>>

JobStep == \/ Good \/ LostData \/ LostAck \/ Repeated \/ Busy \/ Short \/ Completes \/ Breaks
           \/ RetryError \/ GivesUp \/ RetryRest \/ Ended
MsgStep == BulkNext \/ MsgFails \/ Recover \/ CtlNext \/ CtlEnds
Next ==
  \/ JobStep \/ MsgStep \/ PollInt
  \/ \E p \in Bulk : \E n \in 1 .. MaxMsg : BulkMsg(p, n)
  \/ \E p \in Ctl : \E n \in 0 .. MaxMsg : CtlMsg(p, n)
Spec == Init /\ [][Next]_vars
(* a job polls the chip until it is done                                   *)
FairSpec == Spec /\ WF_vars(JobStep \/ MsgStep)

-----------------------------------------------------------------------------
(* Whatever is lost or repeated on the bus, the packets of a message       *)
(* arrive once and in order.                                               *)
DataOnce == \A i \in 1 .. Len(moved) : moved[i] = i - 1

(* A message that succeeds reports what arrived: no packet counted that    *)
(* the other side did not take, none taken that is not counted; and all of *)
(* what was sent.                                                          *)
Counted == (msg.result = "ok" /\ msg.st = "none") =>
             msg.act = Len(moved) /\ (Sends(msg.p) => msg.left = 0)

(* The data of a message arrive once, in order, and are counted, on a pipe *)
(* whose last recovery both ends carried out.                              *)
Steady == msg.p \notin adrift
DataSound == Steady => DataOnce /\ Counted
(* On every pipe (not so: clear_stall starts the host again though the     *)
(* device was not told, and takes its next packet for a repetition).       *)
DataAlways == DataOnce /\ Counted

(* Each report of a keyboard or mouse is given to its driver once: it has  *)
(* had every report the device had acknowledged, and at most the one       *)
(* whose acknowledgement was lost besides.                                 *)
ReportsOnce == \A h \in Hids : seen[h] = rep[h] + (IF tog[h] = dtog[h] THEN 0 ELSE 1)

(* A message ends, whatever the device does: a busy one, and one that errs *)
(* for ever, use up the job's retries.                                     *)
UnderWay == msg.st # "none"
MessageEnds == UnderWay ~> ~UnderWay

(* A controller that was disabled comes back (it does not: ub_hcd_lost     *)
(* takes a disabled one for sound).                                        *)
ComesBack == disabled ~> ~disabled

(* An IN message ends short because the device had no more (it may also    *)
(* because the last job's retries were used up part of the way).           *)
EndsShort == [][BulkNext /\ msg'.result = "ok" /\ ~Sends(msg.p) /\ msg'.left # 0 => job.cc = "underrun"]_vars
=============================================================================
