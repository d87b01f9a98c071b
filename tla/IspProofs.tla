----------------------------- MODULE IspProofs -----------------------------
(***************************************************************************)
(* Theorems of Isp, for any keyboards and mice, sizes of jobs and messages *)
(* and numbers of retries, whatever is lost or repeated on the bus.        *)
(*                                                                         *)
(* DataSound rests on Inv.  Its heart is Synced: at every moment of a job  *)
(* the toggle the descriptor would go on with (NextTog) is the device's    *)
(* exactly when both ends have moved as many packets as the host counts;   *)
(* else the receiver is one ahead, since only one acknowledgement can be   *)
(* outstanding.  A sending bulk pipe ends every job in step (OutKept),     *)
(* since the next message starts from what the last one left, unless a     *)
(* recovery left the pipe adrift.                                          *)
(***************************************************************************)
EXTENDS Isp, TLAPS

-----------------------------------------------------------------------------
Msgs ==
  [p: Pipes \cup {"none"}, st: {"none", "bulk", "setup", "data", "status", "failed"}, left: Int, act: Nat,
   result: {"none", "ok", "failed"}]
Jobs ==
  [pc: {"none", "tx", "unpack", "ended", "failed"}, dir: {"in", "out"}, len: Int, n: Int, done: Nat, retries: Int,
   t: {0, 1}, count: Nat, cc: Codes, active: BOOLEAN]
Types ==
  /\ tog \in [Pipes -> {0, 1}] /\ dtog \in [Pipes -> {0, 1}]
  /\ msg \in Msgs /\ job \in Jobs /\ moved \in Seq(Int) /\ src \in Int /\ adrift \subseteq Bulk

(* Which pipe a message has, and which way its job goes.                   *)
Busying == job.pc \in {"tx", "unpack"}
Placed ==
  /\ msg.st \in {"bulk", "failed"} => msg.p \in Bulk
  /\ msg.st \in {"setup", "data", "status"} => msg.p \in Ctl
  /\ msg.p \notin Hids
  /\ msg.st \in {"none", "failed"} => job.pc = "none"
  /\ msg.st = "failed" => msg.result = "failed"
  /\ Data /\ Busying => job.dir = Dir(msg.p)
  /\ msg.st = "setup" /\ Busying => job.dir = "out"

(* What is known of a job where it is, and of how much it may still move.  *)
JobOk ==
  /\ Busying => job.n >= 1 /\ job.count <= job.n
  /\ job.pc = "unpack" =>
       /\ job.cc = "error" \/ job.active => job.count < job.n
       /\ job.cc = "notaccessed" => job.count = 0
       /\ job.cc \in {"ok", "underrun"} /\ job.dir = "out" => job.count >= 1
  /\ Data /\ Busying => job.done + job.n <= msg.left
  /\ Data /\ job.pc = "ended" => job.done <= msg.left
  /\ msg.st = "setup" => msg.left >= 0

(* The toggle the host goes on with, and the packets it counts.            *)
NextTog ==
  IF job.pc = "unpack" /\ job.cc = "error" THEN 1 - job.t
  ELSE IF job.pc = "ended" THEN tog[msg.p] ELSE job.t
Counts == msg.act + job.done + (IF Busying THEN job.count ELSE 0)
Apart == IF NextTog = dtog[msg.p] THEN 0 ELSE 1
Synced ==
  Data /\ Steady /\ (Busying \/ job.pc = "ended") =>
    IF Sends(msg.p)
    THEN /\ Len(moved) = Counts + Apart
         /\ \/ job.pc = "tx" /\ job.count > 0
            \/ job.pc = "unpack" /\ job.cc \in {"ok", "underrun"}
            \/ job.pc = "ended"
            => Apart = 0
    ELSE Len(moved) = Counts /\ Len(moved) = src + Apart

(* The phases of a control message before and after its data.              *)
Phases ==
  /\ msg.st = "setup" => moved = <<>> /\ msg.act = 0 /\ src = 0
  /\ msg.st = "setup" /\ ((Busying /\ job.count > 0) \/ job.pc = "ended") => dtog[msg.p] = 1
  /\ msg.st = "status" => msg.act = Len(moved) /\ (Sends(msg.p) => msg.left = 0)

OutKept ==
  (msg.p = "out" /\ msg.st \in {"bulk", "failed"}) \/ "out" \in adrift \/ tog["out"] = dtog["out"]

Inv == Types /\ Placed /\ JobOk /\ Synced /\ Phases /\ OutKept /\ DataSound

LEMMA PipesApart ==
  /\ {"in", "out", "cin", "cout"} \subseteq Pipes /\ Hids \subseteq Pipes
  /\ \A h \in Hids: h \notin {"in", "out", "cin", "cout", "none"}
BY IspAssumption DEF Pipes, Bulk, Ctl

LEMMA AppendNext ==
  ASSUME NEW s \in Seq(Int), \A i \in 1 .. Len(s): s[i] = i - 1
  PROVE  /\ Append(s, Len(s)) \in Seq(Int) /\ Len(Append(s, Len(s))) = Len(s) + 1
         /\ \A i \in 1 .. Len(s) + 1: Append(s, Len(s))[i] = i - 1
OBVIOUS

LEMMA InitInv == Init => Inv
<1> SUFFICES ASSUME Init PROVE Inv
  OBVIOUS
<1> USE PipesApart
<1>1. Types
  <2>1. NoMsg \in Msgs
    BY DEF NoMsg, Msgs
  <2>2. NoJob \in Jobs
    BY DEF NoJob, Jobs, Codes
  <2> QED  BY <2>1, <2>2 DEF Init, Types
<1>2. Placed /\ JobOk /\ Synced /\ Phases
  BY DEF Init, Placed, JobOk, Synced, Steady, Phases, NoMsg, NoJob, Data, Busying
<1>3. OutKept /\ DataSound
  BY DEF Init, OutKept, DataSound, Steady, DataOnce, Counted, NoMsg
<1> QED  BY <1>1, <1>2, <1>3 DEF Inv

LEMMA Facts ==
  ASSUME Inv
  PROVE  /\ msg \in Msgs /\ msg.act \in Nat /\ msg.left \in Int
         /\ job \in Jobs /\ job.count \in Nat /\ job.done \in Nat /\ job.n \in Int /\ job.t \in {0, 1}
         /\ Len(moved) \in Nat /\ moved \in Seq(Int) /\ src \in Int
         /\ tog \in [Pipes -> {0, 1}] /\ dtog \in [Pipes -> {0, 1}]
         /\ (msg.st # "none" => msg.p \in Pipes /\ tog[msg.p] \in {0, 1} /\ dtog[msg.p] \in {0, 1})
<1>1. Types /\ Placed
  BY DEF Inv
<1>2. msg.st # "none" => msg.p \in Pipes
  BY <1>1 DEF Types, Placed, Msgs, Pipes
<1> QED  BY <1>1, <1>2 DEF Types, Msgs, Jobs

-----------------------------------------------------------------------------
(* A transaction with the device leaves the message and the host's toggles *)
(* as they are: that its data stay sound is left to be shown.              *)
LEMMA Transaction ==
  ASSUME Inv, job.pc = "tx", job' \in Jobs, msg' = msg, tog' = tog, adrift' = adrift,
         job'.pc \in {"tx", "unpack"}, job'.n = job.n, job'.done = job.done, job'.dir = job.dir, job'.count <= job.n,
         job'.pc = "unpack" =>
           /\ job'.cc = "error" \/ job'.active => job'.count < job.n
           /\ job'.cc = "notaccessed" => job'.count = 0
           /\ job'.cc \in {"ok", "underrun"} /\ job.dir = "out" => job'.count >= 1,
         dtog' \in [Pipes -> {0, 1}], \A p \in Pipes: p # msg.p => dtog'[p] = dtog[p],
         moved' \in Seq(Int), src' \in Int, ~Data => moved' = moved /\ src' = src,
         msg.st = "setup" /\ job'.count > 0 => dtog'[msg.p] = 1,
         Synced', Steady => DataOnce'
  PROVE  Inv'
<1> USE PipesApart, Facts
<1>1. Types'
  BY DEF Inv, Types
<1>2. msg.st \in {"bulk", "setup", "data", "status"}
  BY DEF Inv, Placed, Msgs
<1>3. Placed'
  BY DEF Inv, Placed, Data, Dir, Sends, Busying
<1>4. JobOk'
  BY DEF Inv, JobOk, Busying, Data
<1>5. Phases'
  BY DEF Inv, Phases, Busying, Data, Sends
<1>6. OutKept'
  <2>1. CASE msg.p = "out"
    BY <1>2, <2>1 DEF Inv, Placed, OutKept, Ctl
  <2>2. CASE msg.p # "out"
    BY <2>2 DEF Inv, OutKept
  <2> QED  BY <2>1, <2>2
<1>7. DataSound'
  BY <1>2 DEF DataSound, Steady, Counted
<1> QED  BY <1>1, <1>3, <1>4, <1>5, <1>6, <1>7 DEF Inv

(* How far apart the ends are while the job runs, and after a transaction. *)
LEMMA AtTx ==
  ASSUME Inv, job.pc = "tx"
  PROVE  /\ Apart = (IF job.t = dtog[msg.p] THEN 0 ELSE 1) /\ Counts = msg.act + job.done + job.count
         /\ job.n >= 1 /\ msg.st \in {"bulk", "setup", "data", "status"}
         /\ Data /\ Steady =>
                    IF Sends(msg.p)
                    THEN /\ job.dir = "out" /\ Len(moved) = msg.act + job.done + job.count + Apart
                         /\ job.count > 0 => Apart = 0
                    ELSE job.dir = "in" /\ Len(moved) = msg.act + job.done + job.count /\ Len(moved) = src + Apart
<1>1. Apart = (IF job.t = dtog[msg.p] THEN 0 ELSE 1) /\ Counts = msg.act + job.done + job.count
  BY DEF Apart, NextTog, Counts, Busying
<1>2. msg.st \in {"bulk", "setup", "data", "status"}
  BY Facts DEF Inv, Placed, Msgs
<1> QED  BY <1>1, <1>2 DEF Inv, Synced, Steady, Placed, Dir, Busying, JobOk

LEMMA AfterTx ==
  ASSUME Inv, msg' = msg, job'.pc \in {"tx", "unpack"}, job'.done = job.done
  PROVE  /\ Apart' = (IF (IF job'.pc = "unpack" /\ job'.cc = "error" THEN 1 - job'.t ELSE job'.t) = dtog'[msg.p]
                      THEN 0 ELSE 1)
         /\ Counts' = msg.act + job.done + job'.count
BY DEF Apart, NextTog, Counts, Busying

(* What the data of a message are after one more packet, or none.          *)
LEMMA OneMore ==
  ASSUME Inv, NEW x \in Int, moved' = Append(moved, x), Steady => x = Len(moved)
  PROVE  moved' \in Seq(Int) /\ Len(moved') = Len(moved) + 1 /\ (Steady => DataOnce')
<1>1. moved' \in Seq(Int) /\ Len(moved') = Len(moved) + 1
  BY Facts
<1>2. CASE Steady
  BY <1>1, <1>2, Facts, AppendNext DEF Inv, DataSound, DataOnce
<1> QED  BY <1>1, <1>2
LEMMA NoMore ==
  ASSUME Inv, moved' = moved
  PROVE  moved' \in Seq(Int) /\ Len(moved') = Len(moved) /\ (Steady => DataOnce')
BY Facts DEF Inv, DataSound, DataOnce

(* The device takes an OUT packet: a new one it keeps.                     *)
LEMMA TakenFacts ==
  ASSUME Inv, job.pc = "tx", job.dir = "out", Taken
  PROVE  /\ dtog' \in [Pipes -> {0, 1}] /\ \A p \in Pipes: p # msg.p => dtog'[p] = dtog[p]
         /\ moved' \in Seq(Int) /\ (Steady => DataOnce') /\ src' = src /\ (~Data => moved' = moved)
         /\ msg.st = "setup" => dtog'[msg.p] = 1
         /\ Data => /\ job.t = dtog[msg.p] => dtog'[msg.p] = 1 - dtog[msg.p] /\ Len(moved') = Len(moved) + 1
                    /\ job.t # dtog[msg.p] => dtog'[msg.p] = dtog[msg.p] /\ Len(moved') = Len(moved)
<1> USE Facts, AtTx
<1>1. msg.p \in Pipes /\ AfterData \in {0, 1}
  BY DEF AfterData
<1>2. dtog' \in [Pipes -> {0, 1}] /\ \A p \in Pipes: p # msg.p => dtog'[p] = dtog[p]
  BY <1>1 DEF Taken
<1>3. msg.st = "setup" => dtog'[msg.p] = 1
  BY <1>1 DEF Taken, Fresh, Setup, AfterData
<1>4. CASE Data /\ job.t = dtog[msg.p]
  <2>1. ~Setup
    BY <1>4 DEF Data, Setup
  <2>2. moved' = Append(moved, msg.act + job.done + job.count) /\ dtog'[msg.p] = 1 - dtog[msg.p]
    BY <1>1, <1>4, <2>1 DEF Taken, Fresh, AfterData
  <2>3. Steady => msg.act + job.done + job.count = Len(moved)
    BY <1>4
  <2>4. msg.act + job.done + job.count \in Int
    OBVIOUS
  <2> QED  BY <1>2, <1>3, <1>4, <2>2, <2>3, <2>4, OneMore DEF Taken
<1>5. CASE Data /\ job.t # dtog[msg.p]
  <2>1. ~Fresh
    BY <1>5 DEF Data, Setup, Fresh
  <2> QED  BY <1>2, <1>3, <1>5, <2>1, NoMore DEF Taken
<1>6. CASE ~Data
  BY <1>2, <1>3, <1>6, NoMore DEF Taken
<1> QED  BY <1>4, <1>5, <1>6

(* The host takes an IN packet.                                            *)
LEMMA GivenFacts ==
  ASSUME Inv, job.pc = "tx", job.dir = "in", Fresh, NEW acked \in BOOLEAN, Given(acked)
  PROVE  /\ dtog' \in [Pipes -> {0, 1}] /\ \A p \in Pipes: p # msg.p => dtog'[p] = dtog[p]
         /\ moved' \in Seq(Int) /\ (Steady => DataOnce') /\ src' \in Int /\ (~Data => moved' = moved /\ src' = src)
         /\ msg.st # "setup"
         /\ job.t = dtog[msg.p] /\ dtog'[msg.p] = (IF acked THEN 1 - dtog[msg.p] ELSE dtog[msg.p])
         /\ Data => Len(moved') = Len(moved) + 1 /\ src' = (IF acked THEN src + 1 ELSE src)
<1> USE Facts, AtTx
<1>1. msg.p \in Pipes /\ msg.st # "setup"
  BY DEF Inv, Placed, Busying
<1>2. job.t = dtog[msg.p]
  BY <1>1 DEF Fresh, Setup
<1>3. dtog' \in [Pipes -> {0, 1}] /\ \A p \in Pipes: p # msg.p => dtog'[p] = dtog[p]
  <2>1. 1 - dtog[msg.p] \in {0, 1}
    BY <1>1
  <2>2. dtog' = dtog \/ dtog' = [dtog EXCEPT ![msg.p] = 1 - @]
    BY DEF Given
  <2> QED  BY <1>1, <2>1, <2>2
<1>4. dtog'[msg.p] = (IF acked THEN 1 - dtog[msg.p] ELSE dtog[msg.p])
  BY <1>1 DEF Given
<1>5. CASE Data
  <2>1. Steady => src = Len(moved)
    BY <1>2, <1>5
  <2>2. moved' = Append(moved, src) /\ src' = (IF acked THEN src + 1 ELSE src)
    BY <1>5 DEF Given
  <2> QED  BY <1>1, <1>2, <1>3, <1>4, <1>5, <2>1, <2>2, OneMore
<1>6. CASE ~Data
  BY <1>1, <1>2, <1>3, <1>4, <1>6, NoMore DEF Given
<1> QED  BY <1>5, <1>6

(* The descriptor's next transaction, and how each ends the descriptor.    *)
LEMMA NextFacts ==
  ASSUME Inv, job.pc = "tx"
  PROVE  /\ Next1 \in Jobs /\ Next1.t = 1 - job.t /\ Next1.count = job.count + 1 /\ Next1.n = job.n
         /\ Next1.done = job.done /\ Next1.dir = job.dir /\ Next1.pc = "tx"
<1> USE Facts
<1>1. job.count + 1 \in Nat /\ 1 - job.t \in {0, 1}
  OBVIOUS
<1>2. Next1 \in Jobs
  BY <1>1 DEF Next1, Jobs
<1> QED  BY <1>2 DEF Next1, Jobs

LEMMA StopFacts ==
  ASSUME NEW i \in Jobs, NEW cc \in Codes, NEW active \in BOOLEAN, Stops(i, cc, active)
  PROVE  /\ job' \in Jobs /\ job'.pc = "unpack" /\ job'.cc = cc /\ job'.active = active /\ job'.n = i.n
         /\ job'.done = i.done /\ job'.dir = i.dir /\ job'.count = i.count /\ job'.t = i.t
<1> DEFINE a == [i EXCEPT !.pc = "unpack"]
           b == [a EXCEPT !.cc = cc]
<1>1. a \in Jobs /\ a.pc = "unpack" /\ a.n = i.n /\ a.done = i.done /\ a.dir = i.dir /\ a.count = i.count /\ a.t = i.t
  BY DEF Jobs
<1>2. job' = [b EXCEPT !.active = active]
  BY DEF Stops
<1> HIDE DEF a
<1>3. /\ b \in Jobs /\ b.pc = "unpack" /\ b.n = i.n /\ b.done = i.done /\ b.dir = i.dir /\ b.count = i.count
      /\ b.t = i.t /\ b.cc = cc
  BY <1>1 DEF Jobs
<1> HIDE DEF b
<1> QED  BY <1>2, <1>3 DEF Jobs

(* An error: what the descriptor goes on with is as it was.                *)
LEMMA WrongFacts ==
  ASSUME Inv, job.pc = "tx", Wrong, msg' = msg
  PROVE  /\ job' \in Jobs /\ job'.pc = "unpack" /\ job'.cc = "error" /\ job'.n = job.n /\ job'.done = job.done
         /\ job'.dir = job.dir /\ job'.count = job.count
         /\ Apart' = (IF job.t = dtog'[msg.p] THEN 0 ELSE 1) /\ Counts' = msg.act + job.done + job.count
<1> USE Facts
<1> DEFINE i == [job EXCEPT !.t = 1 - @]
<1>1. 1 - job.t \in {0, 1}
  OBVIOUS
<1>2. i \in Jobs /\ i.t = 1 - job.t /\ i.n = job.n /\ i.done = job.done /\ i.dir = job.dir /\ i.count = job.count
  BY <1>1 DEF Jobs
<1>3. Stops(i, "error", TRUE)
  BY DEF Wrong
<1> HIDE DEF i
<1>4. /\ job' \in Jobs /\ job'.pc = "unpack" /\ job'.cc = "error" /\ job'.n = job.n /\ job'.done = job.done
      /\ job'.dir = job.dir /\ job'.count = job.count /\ job'.t = 1 - job.t
  BY <1>2, <1>3, StopFacts DEF Codes
<1> QED  BY <1>4, AfterTx

(* No error: it goes on with the toggle it has.                            *)
LEMMA GoesOnFacts ==
  ASSUME Inv, msg' = msg, job'.pc = "tx" \/ (job'.pc = "unpack" /\ job'.cc # "error"), job'.done = job.done
  PROVE  Apart' = (IF job'.t = dtog'[msg.p] THEN 0 ELSE 1) /\ Counts' = msg.act + job.done + job'.count
BY AfterTx

Typed ==
  /\ job.t \in {0, 1} /\ dtog[msg.p] \in {0, 1} /\ Len(moved) \in Nat /\ job.n \in Int /\ src \in Int
  /\ job.count \in Nat /\ job.done \in Nat /\ msg.act \in Nat /\ job \in Jobs
  /\ tog \in [Pipes -> {0, 1}] /\ dtog \in [Pipes -> {0, 1}]
LEMMA TypedTx == ASSUME Inv, job.pc # "none" PROVE Typed /\ msg.p \in Pipes
<1>1. msg.st # "none"
  BY DEF Inv, Placed, Busying
<1> QED  BY <1>1, Facts DEF Typed

(* What Synced asks of the next state.                                     *)
LEMMA SyncedNext ==
  ASSUME Inv, msg' = msg, adrift' = adrift, job'.pc \in {"tx", "unpack"},
         Data /\ Steady /\ Sends(msg.p) =>
           /\ Len(moved') = Counts' + Apart'
           /\ \/ job'.pc = "tx" /\ job'.count > 0
              \/ job'.pc = "unpack" /\ job'.cc \in {"ok", "underrun"}
              => Apart' = 0,
         Data /\ Steady /\ ~Sends(msg.p) => Len(moved') = Counts' /\ Len(moved') = src' + Apart'
  PROVE  Synced'
BY DEF Synced, Steady, Data, Busying, Sends

(* The transactions.                                                       *)
LEMMA GoodInv == ASSUME Inv, Good PROVE Inv'
<1>1. job' = Next1 /\ msg' = msg /\ tog' = tog /\ adrift' = adrift /\ job.pc = "tx" /\ job.count < job.n
  BY DEF Good, Running, hidvars
<1>2. /\ job' \in Jobs /\ job'.pc = "tx" /\ job'.count = job.count + 1 /\ job'.t = 1 - job.t /\ job'.n = job.n
      /\ job'.done = job.done /\ job'.dir = job.dir
  BY <1>1, NextFacts
<1>3. Typed
  BY <1>1, TypedTx
<1>4. /\ Apart' = (IF 1 - job.t = dtog'[msg.p] THEN 0 ELSE 1)
      /\ Counts' = msg.act + job.done + job.count + 1
  <2>1. Apart' = (IF job'.t = dtog'[msg.p] THEN 0 ELSE 1) /\ Counts' = msg.act + job.done + job'.count
    BY <1>1, <1>2, GoesOnFacts
  <2> QED  BY <1>2, <1>3, <2>1 DEF Typed
<1>5. job'.count <= job.n
  BY <1>1, <1>2, <1>3 DEF Typed
<1>6. CASE job.dir = "out" /\ Taken
  <2>1. Data /\ Steady => Sends(msg.p) /\ Len(moved') = Counts' /\ Apart' = 0
    <3> HAVE Data /\ Steady
    <3>1. /\ Sends(msg.p) /\ Len(moved) = msg.act + job.done + job.count + Apart
          /\ Apart = (IF job.t = dtog[msg.p] THEN 0 ELSE 1)
      BY <1>1, <1>6, AtTx
    <3>2. /\ job.t = dtog[msg.p] => dtog'[msg.p] = 1 - dtog[msg.p] /\ Len(moved') = Len(moved) + 1
          /\ job.t # dtog[msg.p] => dtog'[msg.p] = dtog[msg.p] /\ Len(moved') = Len(moved)
      BY <1>1, <1>6, TakenFacts
    <3> QED  BY <1>3, <1>4, <3>1, <3>2 DEF Typed
  <2>2. Synced'
    BY <1>1, <1>2, <1>3, <1>4, <2>1, SyncedNext DEF Typed
  <2>3. /\ dtog' \in [Pipes -> {0, 1}] /\ \A p \in Pipes: p # msg.p => dtog'[p] = dtog[p]
        /\ moved' \in Seq(Int) /\ (Steady => DataOnce') /\ src' = src /\ (~Data => moved' = moved)
        /\ msg.st = "setup" => dtog'[msg.p] = 1
    BY <1>1, <1>6, TakenFacts
  <2> QED  BY <1>1, <1>2, <1>3, <1>5, <2>2, <2>3, Transaction DEF Typed
<1>7. CASE job.dir = "in" /\ Fresh /\ Given(TRUE)
  <2>1. /\ dtog' \in [Pipes -> {0, 1}] /\ \A p \in Pipes: p # msg.p => dtog'[p] = dtog[p]
        /\ moved' \in Seq(Int) /\ (Steady => DataOnce') /\ src' \in Int /\ (~Data => moved' = moved /\ src' = src)
        /\ msg.st # "setup" /\ job.t = dtog[msg.p] /\ dtog'[msg.p] = 1 - dtog[msg.p]
        /\ Data => Len(moved') = Len(moved) + 1 /\ src' = src + 1
    BY <1>1, <1>7, GivenFacts
  <2>2. Data /\ Steady => ~Sends(msg.p) /\ Len(moved') = Counts' /\ Len(moved') = src' + Apart'
    <3> HAVE Data /\ Steady
    <3>1. /\ ~Sends(msg.p) /\ Len(moved) = msg.act + job.done + job.count /\ Len(moved) = src + Apart
          /\ Apart = (IF job.t = dtog[msg.p] THEN 0 ELSE 1)
      BY <1>1, <1>7, AtTx
    <3> QED  BY <1>3, <1>4, <2>1, <3>1 DEF Typed
  <2>3. Synced'
    BY <1>1, <1>2, <2>2, SyncedNext
  <2> QED  BY <1>1, <1>2, <1>3, <1>5, <2>1, <2>3, Transaction DEF Typed
<1> QED  BY <1>6, <1>7 DEF Good

LEMMA LostDataInv == ASSUME Inv, LostData PROVE Inv'
<1>1. job.pc = "tx" /\ job.count < job.n /\ Wrong /\ msg' = msg /\ tog' = tog /\ dtog' = dtog /\ moved' = moved /\ src' = src
      /\ adrift' = adrift
  BY DEF LostData, Running, ends, hidvars
<1>2. Typed
  BY <1>1, TypedTx
<1>3. Synced'
  BY <1>1, <1>2, AtTx, WrongFacts, SyncedNext DEF Typed
<1>4. msg.st = "setup" /\ job.count > 0 => dtog[msg.p] = 1
  BY <1>1 DEF Inv, Phases, Busying
<1> QED  BY <1>1, <1>2, <1>3, <1>4, WrongFacts, NoMore, Transaction DEF Typed

LEMMA RepeatedInv == ASSUME Inv, Repeated PROVE Inv'
<1>1. /\ job.pc = "tx" /\ job.count < job.n /\ Wrong /\ msg' = msg /\ tog' = tog /\ moved' = moved /\ job.dir = "in"
      /\ job.t # dtog[msg.p] /\ dtog' = [dtog EXCEPT ![msg.p] = 1 - @] /\ src' = (IF Data THEN src + 1 ELSE src)
      /\ adrift' = adrift
  BY DEF Repeated, Running, Fresh, hidvars
<1>2. Typed /\ msg.p \in Pipes
  BY <1>1, TypedTx
<1>3. msg.st # "setup"
  BY <1>1 DEF Inv, Placed, Busying
<1>4. dtog' \in [Pipes -> {0, 1}] /\ dtog'[msg.p] = job.t /\ \A p \in Pipes: p # msg.p => dtog'[p] = dtog[p]
  BY <1>1, <1>2 DEF Typed
<1>5. Synced'
  BY <1>1, <1>2, <1>4, AtTx, WrongFacts, SyncedNext DEF Typed
<1> QED  BY <1>1, <1>2, <1>3, <1>4, <1>5, WrongFacts, NoMore, Transaction DEF Typed

LEMMA LostAckInv == ASSUME Inv, LostAck PROVE Inv'
<1>1. job.pc = "tx" /\ job.count < job.n /\ msg' = msg /\ tog' = tog /\ adrift' = adrift
  BY DEF LostAck, Running, hidvars
<1>2. Typed
  BY <1>1, TypedTx
<1>3. CASE job.dir = "out" /\ Taken /\ Wrong
  <2>1. /\ job' \in Jobs /\ job'.pc = "unpack" /\ job'.cc = "error" /\ job'.n = job.n /\ job'.done = job.done
        /\ job'.dir = job.dir /\ job'.count = job.count
        /\ Apart' = (IF job.t = dtog'[msg.p] THEN 0 ELSE 1) /\ Counts' = msg.act + job.done + job.count
    BY <1>1, <1>3, WrongFacts
  <2>2. /\ dtog' \in [Pipes -> {0, 1}] /\ \A p \in Pipes: p # msg.p => dtog'[p] = dtog[p]
        /\ moved' \in Seq(Int) /\ (Steady => DataOnce') /\ src' = src /\ (~Data => moved' = moved)
        /\ msg.st = "setup" => dtog'[msg.p] = 1
    BY <1>1, <1>3, TakenFacts
  <2>3. Data /\ Steady => Sends(msg.p) /\ Len(moved') = Counts' + Apart'
    <3> HAVE Data /\ Steady
    <3>1. /\ Sends(msg.p) /\ Len(moved) = msg.act + job.done + job.count + Apart
          /\ Apart = (IF job.t = dtog[msg.p] THEN 0 ELSE 1)
      BY <1>1, <1>3, AtTx
    <3>2. /\ job.t = dtog[msg.p] => dtog'[msg.p] = 1 - dtog[msg.p] /\ Len(moved') = Len(moved) + 1
          /\ job.t # dtog[msg.p] => dtog'[msg.p] = dtog[msg.p] /\ Len(moved') = Len(moved)
      BY <1>1, <1>3, TakenFacts
    <3>3. CASE job.t = dtog[msg.p]
      <4>1. dtog'[msg.p] = 1 - job.t /\ job.t # dtog'[msg.p]
        BY <1>2, <3>2, <3>3 DEF Typed
      <4>2. Apart' = 1 /\ Apart = 0
        BY <2>1, <3>1, <3>3, <4>1
      <4> QED  BY <1>2, <2>1, <3>1, <3>2, <3>3, <4>2 DEF Typed
    <3>4. CASE job.t # dtog[msg.p]
      BY <1>2, <2>1, <3>1, <3>2, <3>4 DEF Typed
    <3> QED  BY <3>3, <3>4
  <2>4. Synced'
    BY <1>1, <2>1, <2>3, SyncedNext
  <2> QED  BY <1>1, <1>2, <2>1, <2>2, <2>4, Transaction DEF Typed
<1>4. CASE job.dir = "in" /\ Fresh /\ Given(FALSE) /\ Stops(Next1, "ok", job.count + 1 < job.n)
  <2>1. /\ job' \in Jobs /\ job'.pc = "unpack" /\ job'.cc = "ok" /\ job'.active = (job.count + 1 < job.n)
        /\ job'.n = job.n /\ job'.done = job.done /\ job'.dir = job.dir /\ job'.count = job.count + 1
        /\ job'.t = 1 - job.t
    <3> DEFINE more == job.count + 1 < job.n
    <3>1. Stops(Next1, "ok", more) /\ more \in BOOLEAN
      BY <1>4
    <3> HIDE DEF more
    <3>2. /\ job' \in Jobs /\ job'.pc = "unpack" /\ job'.cc = "ok" /\ job'.active = more /\ job'.n = Next1.n
          /\ job'.done = Next1.done /\ job'.dir = Next1.dir /\ job'.count = Next1.count /\ job'.t = Next1.t
      BY <1>1, <3>1, NextFacts, StopFacts DEF Codes
    <3> QED  BY <1>1, <3>2, NextFacts DEF more
  <2>2. Apart' = (IF job'.t = dtog'[msg.p] THEN 0 ELSE 1) /\ Counts' = msg.act + job.done + job'.count
    BY <1>1, <2>1, GoesOnFacts
  <2>3. /\ dtog' \in [Pipes -> {0, 1}] /\ \A p \in Pipes: p # msg.p => dtog'[p] = dtog[p]
        /\ moved' \in Seq(Int) /\ (Steady => DataOnce') /\ src' \in Int /\ (~Data => moved' = moved /\ src' = src)
        /\ msg.st # "setup" /\ job.t = dtog[msg.p] /\ dtog'[msg.p] = dtog[msg.p]
        /\ Data => Len(moved') = Len(moved) + 1 /\ src' = src
    BY <1>1, <1>4, GivenFacts
  <2>4. Data /\ Steady => ~Sends(msg.p) /\ Len(moved') = Counts' /\ Len(moved') = src' + Apart'
    <3> HAVE Data /\ Steady
    <3>1. /\ ~Sends(msg.p) /\ Len(moved) = msg.act + job.done + job.count /\ Len(moved) = src + Apart
          /\ Apart = (IF job.t = dtog[msg.p] THEN 0 ELSE 1)
      BY <1>1, <1>4, AtTx
    <3>2. job'.t # dtog'[msg.p]
      BY <1>2, <2>1, <2>3 DEF Typed
    <3>3. Apart' = 1 /\ Apart = 0
      BY <2>2, <2>3, <3>1, <3>2
    <3>4. Len(moved') = Len(moved) + 1 /\ src' = src
      BY <2>3
    <3>5. Counts' = msg.act + job.done + (job.count + 1)
      BY <2>1, <2>2
    <3>6. msg.act \in Nat /\ job.done \in Nat /\ job.count \in Nat /\ src \in Int /\ Len(moved) \in Nat
      BY <1>2 DEF Typed
    <3>7. Len(moved) + 1 = msg.act + job.done + (job.count + 1)
      <4>1. Len(moved) = msg.act + job.done + job.count
        BY <3>1
      <4> QED  BY <3>6, <4>1
    <3>8. Len(moved') = Counts'
      BY <3>4, <3>5, <3>7
    <3> QED  BY <3>1, <3>3, <3>4, <3>6, <3>8
  <2>5. Synced'
    BY <1>1, <2>1, <2>4, SyncedNext
  <2>6. job'.count <= job.n /\ job'.count >= 1
    BY <1>1, <1>2, <2>1 DEF Typed
  <2> QED  BY <1>1, <1>2, <2>1, <2>3, <2>5, <2>6, Transaction DEF Typed
<1> QED  BY <1>3, <1>4 DEF LostAck

LEMMA ShortInv == ASSUME Inv, Short PROVE Inv'
<1>1. /\ job.pc = "tx" /\ job.count < job.n /\ msg' = msg /\ tog' = tog /\ Data /\ job.dir = "in" /\ Fresh /\ Given(TRUE)
      /\ adrift' = adrift
      /\ Stops(Next1, "underrun", FALSE)
  BY DEF Short, Running, hidvars
<1>2. /\ job' \in Jobs /\ job'.pc = "unpack" /\ job'.cc = "underrun" /\ job'.active = FALSE
      /\ job'.n = job.n /\ job'.done = job.done /\ job'.dir = job.dir /\ job'.count = job.count + 1
      /\ job'.t = 1 - job.t
  BY <1>1, NextFacts, StopFacts DEF Codes
<1>3. Typed
  BY <1>1, TypedTx
<1>4. Apart' = (IF job'.t = dtog'[msg.p] THEN 0 ELSE 1) /\ Counts' = msg.act + job.done + job'.count
  BY <1>1, <1>2, GoesOnFacts
<1>5. /\ dtog' \in [Pipes -> {0, 1}] /\ \A p \in Pipes: p # msg.p => dtog'[p] = dtog[p]
      /\ moved' \in Seq(Int) /\ (Steady => DataOnce') /\ src' \in Int
      /\ msg.st # "setup" /\ job.t = dtog[msg.p] /\ dtog'[msg.p] = 1 - dtog[msg.p]
      /\ Len(moved') = Len(moved) + 1 /\ src' = src + 1
  BY <1>1, GivenFacts
<1>6. Steady => ~Sends(msg.p) /\ Len(moved') = Counts' /\ Len(moved') = src' + Apart'
  <2> HAVE Steady
  <2>1. /\ ~Sends(msg.p) /\ Len(moved) = msg.act + job.done + job.count /\ Len(moved) = src + Apart
        /\ Apart = (IF job.t = dtog[msg.p] THEN 0 ELSE 1)
    BY <1>1, AtTx
  <2>2. Apart' = 0 /\ Apart = 0
    BY <1>2, <1>4, <1>5, <2>1
  <2> QED  BY <1>2, <1>3, <1>4, <1>5, <2>1, <2>2 DEF Typed
<1>7. Synced'
  BY <1>1, <1>2, <1>6, SyncedNext
<1>8. job'.count <= job.n /\ job'.count >= 1
  BY <1>1, <1>2, <1>3 DEF Typed
<1> QED  BY <1>1, <1>2, <1>3, <1>5, <1>7, <1>8, Transaction DEF Typed

LEMMA IdleStopInv ==
  ASSUME Inv, Running \/ (job.pc = "tx" /\ job.count = job.n), UNCHANGED <<tog, ends, msg, adrift>>,
         NEW cc \in {"ok", "notaccessed"}, NEW active \in BOOLEAN, Stops(job, cc, active),
         active => job.count < job.n, cc = "notaccessed" <=> job.count = 0
  PROVE  Inv'
<1>1. job.pc = "tx" /\ msg' = msg /\ tog' = tog /\ dtog' = dtog /\ moved' = moved /\ src' = src /\ job.count <= job.n
      /\ job.n >= 1 /\ adrift' = adrift
  BY DEF Running, ends, hidvars, Inv, JobOk, Busying
<1>2. Typed
  BY <1>1, TypedTx
<1>3. cc \in Codes
  BY DEF Codes
<1>4. /\ job' \in Jobs /\ job'.pc = "unpack" /\ job'.cc = cc /\ job'.active = active
      /\ job'.n = job.n /\ job'.done = job.done /\ job'.dir = job.dir /\ job'.count = job.count /\ job'.t = job.t
  BY <1>2, <1>3, StopFacts DEF Typed
<1>5. /\ Apart' = (IF job.t = dtog'[msg.p] THEN 0 ELSE 1) /\ Counts' = msg.act + job.done + job.count
  BY <1>1, <1>4, GoesOnFacts
<1>6. Synced'
  BY <1>1, <1>2, <1>3, <1>4, <1>5, AtTx, SyncedNext DEF Typed
<1>7. msg.st = "setup" /\ job.count > 0 => dtog[msg.p] = 1
  BY <1>1 DEF Inv, Phases, Busying
<1> QED  BY <1>1, <1>2, <1>3, <1>4, <1>6, <1>7, NoMore, Transaction DEF Typed

LEMMA BusyInv == ASSUME Inv, Busy PROVE Inv'
<1>1. Running /\ UNCHANGED <<tog, ends, msg, adrift>> /\ job.count < job.n
  BY DEF Busy, Running, hidvars
<1>2. (Stops(job, "notaccessed", TRUE) /\ job.count = 0) \/ (Stops(job, "ok", TRUE) /\ job.count # 0)
  BY DEF Busy
<1> QED  BY <1>1, <1>2, IdleStopInv
LEMMA CompletesInv == ASSUME Inv, Completes PROVE Inv'
<1>1. job.pc = "tx" /\ job.count = job.n /\ Stops(job, "ok", FALSE) /\ UNCHANGED <<tog, ends, msg, adrift>>
  BY DEF Completes, hidvars
<1>2. job.count # 0
  BY <1>1, AtTx, Facts
<1> QED  BY <1>1, <1>2, IdleStopInv

-----------------------------------------------------------------------------
(* What becomes of the descriptor.                                         *)
LEMMA JobFailsInv ==
  ASSUME Inv, Busying, job' \in Jobs, job'.pc = "failed", UNCHANGED <<tog, dtog, msg, moved, src, adrift>>
  PROVE  Inv'
<1>1. msg.st \in {"bulk", "setup", "data", "status"}
  BY Facts DEF Inv, Placed, Busying, Msgs
<1>2. Types'
  BY DEF Inv, Types
<1>3. Placed' /\ JobOk' /\ Synced' /\ Phases'
  BY <1>1 DEF Inv, Placed, JobOk, Synced, Steady, Phases, Busying, Data, Sends
<1>4. OutKept' /\ DataSound'
  BY <1>1 DEF Inv, OutKept, DataSound, Steady, DataOnce, Counted
<1> QED  BY <1>2, <1>3, <1>4 DEF Inv

LEMMA AtUnpack ==
  ASSUME Inv, job.pc = "unpack"
  PROVE  /\ msg.st \in {"bulk", "setup", "data", "status"} /\ job.n >= 1 /\ job.count <= job.n
         /\ NextTog = (IF job.cc = "error" THEN 1 - job.t ELSE job.t) /\ Counts = msg.act + job.done + job.count
         /\ Apart = (IF NextTog = dtog[msg.p] THEN 0 ELSE 1)
         /\ Data /\ Steady /\ Sends(msg.p) => /\ Len(moved) = msg.act + job.done + job.count + Apart
                                              /\ job.cc \in {"ok", "underrun"} => Apart = 0
         /\ Data /\ Steady /\ ~Sends(msg.p) => Len(moved) = msg.act + job.done + job.count /\ Len(moved) = src + Apart
<1>1. NextTog = (IF job.cc = "error" THEN 1 - job.t ELSE job.t) /\ Counts = msg.act + job.done + job.count
  BY DEF NextTog, Counts, Busying
<1>2. msg.st \in {"bulk", "setup", "data", "status"}
  BY Facts DEF Inv, Placed, Msgs
<1>3. Apart = (IF NextTog = dtog[msg.p] THEN 0 ELSE 1)
  BY DEF Apart
<1> QED  BY <1>1, <1>2, <1>3 DEF Inv, Synced, Steady, Busying, JobOk

LEMMA UnpackedFacts ==
  ASSUME Inv
  PROVE  /\ Unpacked \in Jobs /\ Unpacked.done = job.done + job.count /\ Unpacked.n = job.n - job.count
         /\ Unpacked.dir = job.dir /\ Unpacked.t = job.t /\ Unpacked.count = job.count /\ Unpacked.retries = job.retries
<1> DEFINE a == [job EXCEPT !.done = @ + job.count]
<1>1. job.done + job.count \in Nat /\ job.n - job.count \in Int
  BY Facts
<1>2. /\ a \in Jobs /\ a.done = job.done + job.count /\ a.n = job.n /\ a.dir = job.dir /\ a.t = job.t
      /\ a.count = job.count /\ a.retries = job.retries
  BY <1>1, Facts DEF Jobs
<1>3. Unpacked = [a EXCEPT !.n = @ - job.count]
  BY DEF Unpacked
<1> HIDE DEF a
<1> QED  BY <1>1, <1>2, <1>3 DEF Jobs

LEMMA AgainFacts ==
  ASSUME NEW i \in Jobs, NEW t \in {0, 1}, Again(i, t)
  PROVE  /\ job' \in Jobs /\ job'.pc = "tx" /\ job'.count = 0 /\ job'.t = t /\ job'.n = i.n /\ job'.done = i.done
         /\ job'.dir = i.dir
<1> DEFINE a == [i EXCEPT !.pc = "tx"]
           b == [a EXCEPT !.count = 0]
           c == [b EXCEPT !.cc = "ok"]
           d == [c EXCEPT !.active = FALSE]
<1>1. a \in Jobs /\ a.pc = "tx" /\ a.n = i.n /\ a.done = i.done /\ a.dir = i.dir
  BY DEF Jobs
<1>2. job' = [d EXCEPT !.t = t]
  BY DEF Again
<1> HIDE DEF a
<1>3. b \in Jobs /\ b.pc = "tx" /\ b.n = i.n /\ b.done = i.done /\ b.dir = i.dir /\ b.count = 0
  BY <1>1 DEF Jobs
<1> HIDE DEF b
<1>4. c \in Jobs /\ c.pc = "tx" /\ c.n = i.n /\ c.done = i.done /\ c.dir = i.dir /\ c.count = 0
  BY <1>3 DEF Jobs, Codes
<1> HIDE DEF c
<1>5. d \in Jobs /\ d.pc = "tx" /\ d.n = i.n /\ d.done = i.done /\ d.dir = i.dir /\ d.count = 0
  BY <1>4 DEF Jobs
<1> HIDE DEF d
<1> QED  BY <1>2, <1>5 DEF Jobs

(* The descriptor for what is left goes on where the last one stopped.     *)
LEMMA RetriedInv ==
  ASSUME Inv, job.pc = "unpack", job.count < job.n, NEW i \in Jobs, Again(i, NextTog),
         i.n = job.n - job.count, i.done = job.done + job.count, i.dir = job.dir,
         tog' = tog \/ tog' = [tog EXCEPT ![msg.p] = NextTog], UNCHANGED <<dtog, msg, moved, src, adrift>>
  PROVE  Inv'
<1>1. Typed /\ msg.p \in Pipes
  BY TypedTx
<1>2. NextTog \in {0, 1}
  BY <1>1, AtUnpack DEF Typed
<1>3. /\ job' \in Jobs /\ job'.pc = "tx" /\ job'.count = 0 /\ job'.t = NextTog /\ job'.n = job.n - job.count
      /\ job'.done = job.done + job.count /\ job'.dir = job.dir
  BY <1>2, AgainFacts
<1>4. msg.st \in {"bulk", "setup", "data", "status"}
  BY AtUnpack
<1>5. Types'
  BY <1>1, <1>2, <1>3 DEF Inv, Types, Typed
<1>6. Placed' /\ Phases'
  BY <1>3, <1>4 DEF Inv, Placed, Phases, Busying, Data, Sends, Dir
<1>7. JobOk'
  <2>1. Data => job.done + job.n <= msg.left
    BY DEF Inv, JobOk, Busying
  <2>2. job'.n >= 1 /\ job'.count <= job'.n /\ (Data => job'.done + job'.n <= msg.left)
    BY <1>1, <1>3, <2>1, Facts DEF Typed
  <2> QED  BY <1>3, <2>2 DEF Inv, JobOk, Busying, Data
<1>8. Synced'
  <2>1. Apart' = Apart /\ Counts' = msg.act + job'.done + 0
    BY <1>3, AtUnpack DEF Apart, NextTog, Counts, Busying
  <2>2. Counts' = msg.act + job.done + job.count
    BY <1>1, <1>3, <2>1 DEF Typed
  <2>3. Data /\ Steady /\ Sends(msg.p) => Len(moved') = Counts' + Apart'
    <3> HAVE Data /\ Steady /\ Sends(msg.p)
    <3>1. Len(moved) = msg.act + job.done + job.count + Apart
      BY AtUnpack
    <3> QED  BY <2>1, <2>2, <3>1
  <2>4. Data /\ Steady /\ ~Sends(msg.p) => Len(moved') = Counts' /\ Len(moved') = src' + Apart'
    BY <2>1, <2>2, AtUnpack
  <2>5. ~(job'.count > 0)
    BY <1>3
  <2> QED  BY <1>3, <2>3, <2>4, <2>5, SyncedNext
<1>9. OutKept'
  <2>1. CASE msg.p = "out"
    BY <1>4, <2>1, PipesApart DEF Inv, Placed, OutKept, Ctl
  <2>2. CASE msg.p # "out"
    BY <1>1, <2>2, PipesApart DEF Inv, OutKept, Typed
  <2> QED  BY <2>1, <2>2
<1>10. DataSound'
  BY <1>4 DEF Inv, DataSound, Steady, DataOnce, Counted
<1> QED  BY <1>5, <1>6, <1>7, <1>8, <1>9, <1>10 DEF Inv

LEMMA RetryErrorInv == ASSUME Inv, RetryError PROVE Inv'
<1> DEFINE i == [Unpacked EXCEPT !.retries = @ - ErrCost]
<1>1. /\ job.pc = "unpack" /\ job.cc = "error" /\ tog' = [tog EXCEPT ![msg.p] = RetryTog] /\ Again(i, RetryTog)
      /\ UNCHANGED <<dtog, msg, moved, src, adrift>>
  BY DEF RetryError, ends, hidvars
<1>2. NextTog = RetryTog
  BY <1>1, AtUnpack DEF RetryTog
<1>3. job.count < job.n
  BY <1>1 DEF Inv, JobOk
<1>4. i \in Jobs /\ i.n = job.n - job.count /\ i.done = job.done + job.count /\ i.dir = job.dir
  <2>1. Unpacked.retries - ErrCost \in Int
    BY UnpackedFacts, IspAssumption DEF Jobs
  <2> QED  BY <2>1, UnpackedFacts DEF Jobs
<1> HIDE DEF i
<1> QED  BY <1>1, <1>2, <1>3, <1>4, RetriedInv

LEMMA RetryRestInv == ASSUME Inv, RetryRest PROVE Inv'
<1> DEFINE i == [Unpacked EXCEPT !.retries = Spent(@)]
<1>1. /\ job.pc = "unpack" /\ job.cc # "error" /\ Partly /\ UNCHANGED <<dtog, msg, moved, src, adrift>>
      /\ tog' = tog \/ tog' = [tog EXCEPT ![msg.p] = job.t]
      /\ Again(i, job.t)
  BY DEF RetryRest, RestTog, ends, hidvars
<1>2. NextTog = job.t
  BY <1>1, AtUnpack
<1>3. job.count < job.n
  BY <1>1, AtUnpack, Facts DEF Inv, JobOk, Partly
<1>4. i \in Jobs /\ i.n = job.n - job.count /\ i.done = job.done + job.count /\ i.dir = job.dir
  <2>1. Spent(Unpacked.retries) \in Int
    BY UnpackedFacts DEF Jobs, Spent
  <2> QED  BY <2>1, UnpackedFacts DEF Jobs
<1> HIDE DEF i
<1> QED  BY <1>1, <1>2, <1>3, <1>4, RetriedInv

LEMMA FailInv == ASSUME Inv, Breaks \/ GivesUp PROVE Inv'
<1>1. job' \in Jobs /\ job'.pc = "failed"
  BY Facts, UnpackedFacts DEF Breaks, GivesUp, Ends, Jobs
<1>2. Busying /\ UNCHANGED <<tog, dtog, msg, moved, src, adrift>>
  BY DEF Breaks, GivesUp, Busying, ends, hidvars
<1> QED  BY <1>1, <1>2, JobFailsInv

LEMMA EndedInv == ASSUME Inv, Ended PROVE Inv'
<1>1. /\ job.pc = "unpack" /\ job.cc \in {"ok", "underrun"} /\ tog' = [tog EXCEPT ![msg.p] = job.t]
      /\ job' = [Unpacked EXCEPT !.pc = "ended"] /\ UNCHANGED <<dtog, msg, moved, src, adrift>>
  BY DEF Ended, Ends, KeptTog, ends, hidvars
<1>2. Typed /\ msg.p \in Pipes
  BY <1>1, TypedTx
<1>3. job' \in Jobs /\ job'.pc = "ended" /\ job'.done = job.done + job.count
  BY <1>1, UnpackedFacts DEF Jobs
<1>4. msg.st \in {"bulk", "setup", "data", "status"} /\ NextTog = job.t
  BY <1>1, AtUnpack
<1>5. tog'[msg.p] = job.t /\ tog' \in [Pipes -> {0, 1}]
  BY <1>1, <1>2 DEF Typed
<1>6. Types'
  BY <1>1, <1>3, <1>5 DEF Inv, Types
<1>7. Placed'
  BY <1>1, <1>3, <1>4 DEF Inv, Placed, Busying, Data
<1>8. Phases'
  <2>1. msg.st = "setup" => dtog[msg.p] = 1
    <3> HAVE msg.st = "setup"
    <3>1. job.count >= 1
      BY <1>1 DEF Inv, JobOk, Placed, Busying
    <3>2. job.count > 0
      BY <1>2, <3>1 DEF Typed
    <3> QED  BY <1>1, <3>2 DEF Inv, Phases, Busying
  <2> QED  BY <1>1, <1>3, <2>1 DEF Inv, Phases, Sends
<1>9. JobOk'
  <2>1. Data => job.done + job.count <= msg.left
    BY <1>1, <1>2, AtUnpack, Facts DEF Inv, JobOk, Busying, Typed
  <2> QED  BY <1>1, <1>3, <2>1 DEF Inv, JobOk, Busying, Data
<1>10. Synced'
  <2>1. Apart' = Apart /\ Counts' = msg.act + job'.done + 0
    BY <1>1, <1>3, <1>4, <1>5, AtUnpack DEF Apart, NextTog, Counts, Busying
  <2>2. Counts' = msg.act + job.done + job.count
    BY <1>2, <1>3, <2>1 DEF Typed
  <2>3. Data /\ Steady /\ Sends(msg.p) => Len(moved') = Counts' + Apart' /\ Apart' = 0
    <3> HAVE Data /\ Steady /\ Sends(msg.p)
    <3>1. Len(moved) = msg.act + job.done + job.count + Apart /\ Apart = 0
      BY <1>1, AtUnpack
    <3> QED  BY <1>1, <2>1, <2>2, <3>1
  <2>4. Data /\ Steady /\ ~Sends(msg.p) => Len(moved') = Counts' /\ Len(moved') = src' + Apart'
    BY <1>1, <2>1, <2>2, AtUnpack
  <2> QED  BY <1>1, <1>3, <2>3, <2>4 DEF Synced, Steady, Data, Busying, Sends
<1>11. OutKept'
  <2>1. CASE msg.p = "out"
    BY <1>1, <1>4, <2>1, PipesApart DEF Inv, Placed, OutKept, Ctl
  <2>2. CASE msg.p # "out"
    BY <1>1, <2>2, PipesApart DEF Inv, OutKept
  <2> QED  BY <2>1, <2>2
<1>12. DataSound'
  BY <1>1, <1>4 DEF Inv, DataSound, Steady, DataOnce, Counted
<1> QED  BY <1>6, <1>7, <1>8, <1>9, <1>10, <1>11, <1>12 DEF Inv

-----------------------------------------------------------------------------
(* Messages.                                                               *)
LEMMA NoJobTyped == NoJob \in Jobs /\ NoJob.pc = "none"
BY DEF NoJob, Jobs, Codes

LEMMA SubmitFacts ==
  ASSUME NEW n \in Int, NEW dir \in {"in", "out"}, NEW t \in {0, 1}, Submit(n, dir, t)
  PROVE  /\ job' \in Jobs
         /\ \/ job'.pc = "failed"
            \/ /\ job'.pc = "tx" /\ job'.dir = dir /\ job'.n = n /\ job'.t = t /\ job'.done = 0 /\ job'.count = 0
<1>1. NoJob \in Jobs /\ NoJob.done = 0 /\ NoJob.count = 0
  BY NoJobTyped DEF NoJob
<1>2. CASE job' = [NoJob EXCEPT !.pc = "failed"]
  BY <1>1, <1>2 DEF Jobs
<1>3. CASE job' = [NoJob EXCEPT !.pc = "tx", !.dir = dir, !.len = n, !.n = n, !.retries = Retries, !.t = t]
  <2> DEFINE a == [NoJob EXCEPT !.pc = "tx"]
             b == [a EXCEPT !.dir = dir]
             c == [b EXCEPT !.len = n]
             d == [c EXCEPT !.n = n]
             e == [d EXCEPT !.retries = Retries]
  <2>1. a \in Jobs /\ a.pc = "tx" /\ a.done = 0 /\ a.count = 0
    BY <1>1 DEF Jobs
  <2>2. job' = [e EXCEPT !.t = t]
    BY <1>3
  <2> HIDE DEF a
  <2>3. b \in Jobs /\ b.pc = "tx" /\ b.done = 0 /\ b.count = 0 /\ b.dir = dir
    BY <2>1 DEF Jobs
  <2> HIDE DEF b
  <2>4. c \in Jobs /\ c.pc = "tx" /\ c.done = 0 /\ c.count = 0 /\ c.dir = dir
    BY <2>3 DEF Jobs
  <2> HIDE DEF c
  <2>5. d \in Jobs /\ d.pc = "tx" /\ d.done = 0 /\ d.count = 0 /\ d.dir = dir /\ d.n = n
    BY <2>4 DEF Jobs
  <2> HIDE DEF d
  <2>6. e \in Jobs /\ e.pc = "tx" /\ e.done = 0 /\ e.count = 0 /\ e.dir = dir /\ e.n = n
    BY <2>5, IspAssumption DEF Jobs
  <2> HIDE DEF e
  <2> QED  BY <2>2, <2>6 DEF Jobs
<1> QED  BY <1>2, <1>3 DEF Submit

LEMMA LeastFacts ==
  ASSUME NEW a \in Int, a >= 1
  PROVE  Least(a, MaxJob) \in Int /\ Least(a, MaxJob) >= 1 /\ Least(a, MaxJob) <= a
BY IspAssumption DEF Least

(* A job of a message's data begins: it carries on from what has moved.    *)
LEMMA Begins ==
  ASSUME msg' \in Msgs, tog' \in [Pipes -> {0, 1}], dtog' \in [Pipes -> {0, 1}], moved' \in Seq(Int), src' \in Int,
         adrift' \subseteq Bulk, (msg'.st = "bulk" /\ msg'.p \in Bulk) \/ (msg'.st = "data" /\ msg'.p \in Ctl),
         NEW n \in Int, n >= 1, n <= msg'.left, NEW t \in {0, 1}, Submit(n, Dir(msg'.p), t),
         NEW apart, apart = (IF t = dtog'[msg'.p] THEN 0 ELSE 1),
         Steady' /\ Sends(msg'.p) => Len(moved') = msg'.act + apart,
         Steady' /\ ~Sends(msg'.p) => Len(moved') = msg'.act /\ Len(moved') = src' + apart,
         OutKept', Steady' => DataOnce'
  PROVE  Inv'
<1>1. Dir(msg'.p) \in {"in", "out"} /\ msg'.act \in Nat
  BY DEF Dir, Msgs
<1>2. /\ job' \in Jobs
      /\ \/ job'.pc = "failed"
         \/ /\ job'.pc = "tx" /\ job'.dir = Dir(msg'.p) /\ job'.n = n /\ job'.t = t /\ job'.done = 0 /\ job'.count = 0
  BY <1>1, SubmitFacts
<1>3. Types'
  BY <1>2 DEF Types
<1>4. Placed'
  BY <1>2, PipesApart DEF Placed, Busying, Data, Dir, Sends, Bulk, Ctl
<1>5. JobOk'
  BY <1>2 DEF JobOk, Busying, Data
<1>6. Synced'
  <2>1. CASE job'.pc = "failed"
    BY <2>1 DEF Synced, Steady, Busying
  <2>2. CASE /\ job'.pc = "tx" /\ job'.t = t /\ job'.done = 0 /\ job'.count = 0
    <3>1. Apart' = apart
      BY <2>2 DEF Apart, NextTog
    <3>2. Counts' = msg'.act
      BY <1>1, <2>2 DEF Counts, Busying
    <3>3. Steady' /\ Sends(msg'.p) => Len(moved') = Counts' + Apart' /\ (apart = 0 \/ apart = 1)
      BY <3>1, <3>2
    <3>4. Steady' /\ ~Sends(msg'.p) => Len(moved') = Counts' /\ Len(moved') = src' + Apart'
      BY <3>1, <3>2
    <3>5. ~(job'.pc = "tx" /\ job'.count > 0)
      BY <2>2
    <3> QED  BY <2>2, <3>3, <3>4, <3>5 DEF Synced, Sends
  <2> QED  BY <1>2, <2>1, <2>2
<1>7. Phases'
  BY DEF Phases
<1>8. DataSound'
  BY DEF DataSound, Counted
<1> QED  BY <1>3, <1>4, <1>5, <1>6, <1>7, <1>8 DEF Inv

MsgOf(p, st, n) == [NoMsg EXCEPT !.p = p, !.st = st, !.left = n]
LEMMA NewMsg ==
  ASSUME NEW p \in Pipes, NEW st \in {"bulk", "setup"}, NEW n \in Int
  PROVE  /\ MsgOf(p, st, n) \in Msgs /\ MsgOf(p, st, n).p = p /\ MsgOf(p, st, n).st = st
         /\ MsgOf(p, st, n).left = n /\ MsgOf(p, st, n).act = 0
<1> DEFINE a == [NoMsg EXCEPT !.p = p]
           b == [a EXCEPT !.st = st]
<1>1. NoMsg \in Msgs /\ NoMsg.act = 0 /\ NoMsg.result = "none"
  BY DEF NoMsg, Msgs
<1>2. a \in Msgs /\ a.p = p /\ a.act = 0 /\ a.result = "none"
  BY <1>1 DEF Msgs
<1>3. MsgOf(p, st, n) = [b EXCEPT !.left = n]
  BY DEF MsgOf
<1> HIDE DEF a
<1>4. b \in Msgs /\ b.p = p /\ b.st = st /\ b.act = 0 /\ b.result = "none"
  BY <1>2 DEF Msgs
<1> HIDE DEF b
<1> QED  BY <1>3, <1>4 DEF Msgs

LEMMA BulkMsgInv == ASSUME Inv, NEW p \in Bulk, NEW n \in 1 .. MaxMsg, BulkMsg(p, n) PROVE Inv'
<1>1. /\ msg.st = "none" /\ msg' = MsgOf(p, "bulk", n)
      /\ Submit(Least(n, MaxJob), Dir(p), tog[p]) /\ moved' = <<>> /\ tog' = tog /\ dtog' = dtog
      /\ adrift' = adrift /\ src' \in {-1, 0} /\ (p \notin adrift => src' = (IF tog[p] = dtog[p] THEN 0 ELSE -1))
  BY DEF BulkMsg, Starts, Idle, MsgOf, hidvars
<1>2. p \in Pipes /\ tog \in [Pipes -> {0, 1}] /\ dtog \in [Pipes -> {0, 1}] /\ tog[p] \in {0, 1} /\ dtog[p] \in {0, 1}
  BY Facts DEF Pipes
<1>3. n >= 1 /\ n \in Int
  BY IspAssumption
<1>4. msg' \in Msgs /\ msg'.p = p /\ msg'.st = "bulk" /\ msg'.left = n /\ msg'.act = 0
  BY <1>1, <1>2, <1>3, NewMsg
<1>5. "out" \in adrift \/ tog["out"] = dtog["out"]
  BY <1>1 DEF Inv, OutKept
<1>6. OutKept' /\ DataOnce'
  BY <1>1, <1>5 DEF OutKept, DataOnce
<1> DEFINE apart == IF tog[p] = dtog'[msg'.p] THEN 0 ELSE 1
<1>7. Len(moved') = 0 /\ moved' \in Seq(Int) /\ src' \in Int
  BY <1>1
<1>8. Steady' /\ Sends(p) => apart = 0
  BY <1>1, <1>4, <1>5 DEF Sends, Bulk, Steady
<1>9. Steady' => 0 = src' + apart
  <2> HAVE Steady'
  <2>1. p \notin adrift
    BY <1>1, <1>4 DEF Steady
  <2>2. apart = (IF tog[p] = dtog[p] THEN 0 ELSE 1)
    BY <1>1, <1>4
  <2>3. src' = (IF tog[p] = dtog[p] THEN 0 ELSE -1)
    BY <1>1, <2>1
  <2> HIDE DEF apart
  <2> QED  BY <2>2, <2>3
<1>10. /\ Steady' /\ Sends(msg'.p) => Len(moved') = msg'.act + apart
       /\ Steady' /\ ~Sends(msg'.p) => Len(moved') = msg'.act /\ Len(moved') = src' + apart
  <2> HIDE DEF apart
  <2> QED  BY <1>4, <1>7, <1>8, <1>9
<1>14. adrift' \subseteq Bulk
  BY <1>1 DEF Inv, Types
<1>11. Least(n, MaxJob) \in Int /\ Least(n, MaxJob) >= 1 /\ Least(n, MaxJob) <= msg'.left
  BY <1>3, <1>4, LeastFacts
<1>12. Submit(Least(n, MaxJob), Dir(msg'.p), tog[p])
  BY <1>1, <1>4
<1>13. apart = (IF tog[p] = dtog'[msg'.p] THEN 0 ELSE 1)
  OBVIOUS
<1> HIDE DEF apart
<1> QED  BY <1>1, <1>2, <1>4, <1>6, <1>7, <1>10, <1>11, <1>12, <1>13, <1>14, Begins

(* A job of a message's data has ended.                                    *)
LEMMA CountingFacts ==
  ASSUME Inv, Data, job.pc = "ended"
  PROVE  /\ Counting \in Msgs /\ Counting.p = msg.p /\ Counting.st = msg.st /\ Counting.result = msg.result
         /\ Counting.left = msg.left - job.done /\ Counting.act = msg.act + job.done
         /\ Steady /\ Sends(msg.p) => Len(moved) = Counting.act /\ tog[msg.p] = dtog[msg.p]
         /\ Steady /\ ~Sends(msg.p) => /\ Len(moved) = Counting.act
                                       /\ Len(moved) = src + (IF tog[msg.p] = dtog[msg.p] THEN 0 ELSE 1)
         /\ ~LastJob => Counting.left >= 1
         /\ LastJob /\ Sends(msg.p) => Counting.left = 0
<1> DEFINE a == [msg EXCEPT !.left = @ - job.done]
<1>1. msg.left - job.done \in Int /\ msg.act + job.done \in Nat
  BY Facts
<1>2. a \in Msgs /\ a.p = msg.p /\ a.st = msg.st /\ a.result = msg.result /\ a.left = msg.left - job.done /\ a.act = msg.act
  BY <1>1, Facts DEF Msgs
<1>3. Counting = [a EXCEPT !.act = @ + job.done]
  BY DEF Counting
<1> HIDE DEF a
<1>4. /\ Counting \in Msgs /\ Counting.p = msg.p /\ Counting.st = msg.st /\ Counting.result = msg.result
      /\ Counting.left = msg.left - job.done /\ Counting.act = msg.act + job.done
  BY <1>1, <1>2, <1>3 DEF Msgs
<1>5. Apart = (IF tog[msg.p] = dtog[msg.p] THEN 0 ELSE 1)
  BY DEF Apart, NextTog
<1>6. Counts = msg.act + job.done
  BY Facts DEF Counts, Busying
<1>7. Steady /\ Sends(msg.p) => Len(moved) = Counts + Apart /\ Apart = 0
  BY DEF Inv, Synced
<1>8. Steady /\ ~Sends(msg.p) => Len(moved) = Counts /\ Len(moved) = src + Apart
  BY DEF Inv, Synced
<1>9. job.done <= msg.left
  BY DEF Inv, JobOk
<1>10. ~LastJob => msg.left - job.done >= 1
  BY <1>9, Facts DEF LastJob
<1>11. LastJob /\ Sends(msg.p) => msg.left - job.done = 0
  BY Facts DEF LastJob
<1>12. Steady /\ Sends(msg.p) => Len(moved) = Counting.act /\ tog[msg.p] = dtog[msg.p]
  BY <1>1, <1>4, <1>5, <1>6, <1>7
<1> QED  BY <1>4, <1>5, <1>6, <1>8, <1>10, <1>11, <1>12

(* It was not the last: the next one begins.                               *)
LEMMA GoesOnInv ==
  ASSUME Inv, Data, job.pc = "ended", ~LastJob, msg' = Counting, UNCHANGED <<tog, dtog, moved, src, adrift>>,
         Submit(Least(msg.left - job.done, MaxJob), Dir(msg.p), tog[msg.p])
  PROVE  Inv'
<1>1. Counting.left >= 1 /\ Counting.left = msg.left - job.done /\ Counting.left \in Int
  BY CountingFacts DEF Msgs
<1>2. msg' \in Msgs /\ msg'.p = msg.p /\ msg'.st = msg.st /\ msg'.left = msg.left - job.done /\ msg'.act = Counting.act
  BY CountingFacts
<1>3. msg.p \in Pipes /\ tog[msg.p] \in {0, 1} /\ dtog[msg.p] \in {0, 1}
  BY Facts DEF Data
<1>4. (msg'.st = "bulk" /\ msg'.p \in Bulk) \/ (msg'.st = "data" /\ msg'.p \in Ctl)
  BY <1>2 DEF Inv, Placed, Data
<1> DEFINE n == Least(msg.left - job.done, MaxJob)
           apart == IF tog[msg.p] = dtog'[msg'.p] THEN 0 ELSE 1
<1>5. n \in Int /\ n >= 1 /\ n <= msg'.left
  BY <1>1, <1>2, LeastFacts
<1>6. apart = (IF tog[msg.p] = dtog[msg.p] THEN 0 ELSE 1)
  BY <1>2
<1>7. /\ Steady' /\ Sends(msg'.p) => Len(moved') = msg'.act + apart
      /\ Steady' /\ ~Sends(msg'.p) => Len(moved') = msg'.act /\ Len(moved') = src' + apart
  BY <1>2, <1>6, CountingFacts DEF Msgs, Steady
<1>8. OutKept' /\ (Steady' => DataOnce') /\ adrift' \subseteq Bulk
  BY <1>2 DEF Inv, Types, OutKept, DataSound, Steady, DataOnce
<1>9. Submit(n, Dir(msg'.p), tog[msg.p]) /\ apart = (IF tog[msg.p] = dtog'[msg'.p] THEN 0 ELSE 1)
  BY <1>2
<1> HIDE DEF n, apart
<1> QED  BY <1>2, <1>3, <1>4, <1>5, <1>7, <1>8, <1>9, Begins, Facts

(* The pipe a message leaves behind.                                       *)
LEMMA OutLeft ==
  ASSUME Inv, adrift' = adrift, msg.p = "out" /\ Steady => tog'["out"] = dtog'["out"],
         msg.p # "out" => tog'["out"] = tog["out"] /\ dtog'["out"] = dtog["out"]
  PROVE  OutKept'
BY DEF Inv, OutKept, Steady

LEMMA BulkNextInv == ASSUME Inv, BulkNext PROVE Inv'
<1>1. msg.st = "bulk" /\ job.pc = "ended" /\ Data /\ UNCHANGED <<tog, dtog, moved, src, adrift>>
  BY DEF BulkNext, ends, hidvars, Data
<1>2. CASE LastJob
  <2> DEFINE m == [Counting EXCEPT !.st = "none"]
  <2>1. msg' = [m EXCEPT !.result = "ok"] /\ job' = NoJob
    BY <1>2 DEF BulkNext
  <2>2. m \in Msgs /\ m.st = "none" /\ m.p = msg.p /\ m.left = Counting.left /\ m.act = Counting.act
    BY <1>1, CountingFacts DEF Msgs
  <2> HIDE DEF m
  <2>3. /\ msg' \in Msgs /\ msg'.st = "none" /\ msg'.p = msg.p /\ msg'.left = Counting.left /\ msg'.act = Counting.act
    BY <2>1, <2>2 DEF Msgs
  <2>4. Types' /\ Placed' /\ JobOk' /\ Synced' /\ Phases'
    BY <1>1, <2>1, <2>3, NoJobTyped, Facts DEF Inv, Types, Placed, JobOk, Synced, Steady, Phases, Data, Busying
  <2>5. OutKept'
    BY <1>1, CountingFacts, OutLeft DEF Sends
  <2>6. DataSound'
    <3>1. Steady => DataOnce'
      BY <1>1 DEF Inv, DataSound, Steady, DataOnce
    <3>2. (Steady => Len(moved) = Counting.act) /\ (Sends(msg.p) => Counting.left = 0)
      BY <1>1, <1>2, CountingFacts
    <3> QED  BY <1>1, <2>3, <3>1, <3>2 DEF DataSound, Steady, Counted, Sends
  <2> QED  BY <2>4, <2>5, <2>6 DEF Inv
<1>3. CASE ~LastJob
  BY <1>1, <1>3, GoesOnInv DEF BulkNext
<1> QED  BY <1>2, <1>3

LEMMA MsgFailsInv == ASSUME Inv, MsgFails PROVE Inv'
<1> DEFINE st == IF msg.p \in Bulk THEN "failed" ELSE "none"
           m == [msg EXCEPT !.st = st]
<1>1. msg.st # "none" /\ job.pc = "failed" /\ job' = NoJob /\ UNCHANGED <<tog, dtog, moved, src, adrift>>
      /\ msg' = [m EXCEPT !.result = "failed"]
  BY DEF MsgFails, ends, hidvars, Idle
<1>2. m \in Msgs /\ m.p = msg.p /\ m.st = st
  BY Facts DEF Msgs
<1> HIDE DEF m
<1>3. msg' \in Msgs /\ msg'.p = msg.p /\ msg'.st = st /\ msg'.result = "failed"
  BY <1>1, <1>2 DEF Msgs
<1>4. Types' /\ Placed' /\ JobOk' /\ Synced' /\ Phases'
  BY <1>1, <1>3, NoJobTyped, Facts DEF Inv, Types, Placed, JobOk, Synced, Steady, Phases, Data, Busying
<1>5. OutKept'
  BY <1>1, <1>3 DEF Inv, OutKept, Bulk
<1>6. DataSound'
  BY <1>1, <1>3 DEF Inv, DataSound, Steady, DataOnce, Counted
<1> QED  BY <1>4, <1>5, <1>6 DEF Inv

LEMMA RecoverInv == ASSUME Inv, Recover PROVE Inv'
<1>1. PICK host \in SUBSET Bulk, dev \in SUBSET Bulk:
        /\ tog' = [p \in Pipes |-> IF p \in host THEN 0 ELSE tog[p]]
        /\ dtog' = [p \in Pipes |-> IF p \in dev THEN 0 ELSE dtog[p]]
        /\ adrift' = (adrift \cup host \cup dev \cup {msg.p}) \ (host \cap dev)
  BY DEF Recover
<1>2. msg.st = "failed" /\ msg' = [msg EXCEPT !.st = "none"] /\ moved' = <<>> /\ UNCHANGED <<job, src>>
  BY DEF Recover
<1>3. msg.p \in Bulk /\ job.pc = "none" /\ msg.result = "failed"
  BY <1>2, Facts DEF Inv, Placed
<1>4. msg' \in Msgs /\ msg'.p = msg.p /\ msg'.st = "none" /\ msg'.result = "failed"
  BY <1>2, <1>3, Facts DEF Msgs
<1>5. tog' \in [Pipes -> {0, 1}] /\ dtog' \in [Pipes -> {0, 1}]
  BY <1>1, Facts
<1>6. adrift' \subseteq Bulk /\ moved' \in Seq(Int)
  BY <1>1, <1>2, <1>3 DEF Inv, Types
<1>7. Types' /\ Placed' /\ JobOk' /\ Synced' /\ Phases'
  BY <1>2, <1>3, <1>4, <1>5, <1>6, Facts DEF Inv, Types, Placed, JobOk, Synced, Phases, Data, Busying
<1>8. OutKept'
  <2>1. CASE "out" \in host \cap dev
    BY <1>1, <2>1, PipesApart DEF OutKept
  <2>2. CASE "out" \in (host \cup dev \cup {msg.p}) \ (host \cap dev)
    BY <1>1, <2>2 DEF OutKept
  <2>3. CASE "out" \notin host \cup dev \cup {msg.p}
    <3>1. tog'["out"] = tog["out"] /\ dtog'["out"] = dtog["out"] /\ ("out" \in adrift => "out" \in adrift')
      BY <1>1, <2>3, PipesApart
    <3> QED  BY <2>3, <3>1 DEF Inv, OutKept
  <2> QED  BY <2>1, <2>2, <2>3
<1>9. DataSound'
  BY <1>2, <1>4 DEF DataSound, DataOnce, Counted
<1> QED  BY <1>7, <1>8, <1>9 DEF Inv

LEMMA CtlMsgInv == ASSUME Inv, NEW p \in Ctl, NEW n \in 0 .. MaxMsg, CtlMsg(p, n) PROVE Inv'
<1>1. /\ msg.st = "none" /\ msg' = MsgOf(p, "setup", n) /\ dtog' = dtog
      /\ tog' = [tog EXCEPT !["cout"] = 0] /\ Submit(1, "out", tog'[p]) /\ moved' = <<>> /\ src' = 0
      /\ adrift' = adrift
  BY DEF CtlMsg, Idle, MsgOf, hidvars
<1>2. n >= 0 /\ n \in Int /\ p \in Pipes /\ p \notin Hids /\ p \notin Bulk
  BY IspAssumption, PipesApart DEF Pipes, Ctl, Bulk
<1>3. msg' \in Msgs /\ msg'.p = p /\ msg'.st = "setup" /\ msg'.left = n /\ msg'.act = 0
  BY <1>1, <1>2, NewMsg
<1>4. tog' \in [Pipes -> {0, 1}] /\ dtog' \in [Pipes -> {0, 1}] /\ tog'["out"] = tog["out"] /\ tog'[p] \in {0, 1}
  BY <1>1, <1>2, Facts, PipesApart
<1>5. /\ job' \in Jobs
      /\ \/ job'.pc = "failed"
         \/ /\ job'.pc = "tx" /\ job'.dir = "out" /\ job'.n = 1 /\ job'.done = 0 /\ job'.count = 0
  BY <1>1, <1>4, SubmitFacts
<1>6. Types'
  BY <1>1, <1>3, <1>4, <1>5 DEF Inv, Types
<1>7. Placed' /\ JobOk' /\ Synced' /\ Phases'
  BY <1>1, <1>2, <1>3, <1>5 DEF Placed, JobOk, Synced, Steady, Phases, Data, Busying, Sends
<1>8. OutKept'
  BY <1>1, <1>4 DEF Inv, OutKept
<1>9. DataSound'
  BY <1>1, <1>3 DEF DataSound, Steady, DataOnce, Counted
<1> QED  BY <1>6, <1>7, <1>8, <1>9 DEF Inv

(* The data, if any, have moved: the status phase.                         *)
LEMMA StatusInv ==
  ASSUME Inv, msg.st \in {"setup", "data"}, NEW m \in Msgs, m.p = msg.p, m.act = Len(moved),
         Sends(msg.p) => m.left = 0,
         tog' = [tog EXCEPT ![msg.p] = 1], dtog' = [dtog EXCEPT ![msg.p] = 1], UNCHANGED <<moved, src, adrift>>,
         msg' = [m EXCEPT !.st = "status"], Submit(1, Flipped(Dir(msg.p)), 1)
  PROVE  Inv'
<1>1. msg.p \in Pipes /\ msg.p \in Ctl /\ msg.p # "out"
  BY Facts DEF Inv, Placed, Data, Ctl
<1>2. msg' \in Msgs /\ msg'.p = msg.p /\ msg'.st = "status" /\ msg'.act = Len(moved) /\ msg'.left = m.left
  BY DEF Msgs
<1>3. Flipped(Dir(msg.p)) \in {"in", "out"}
  BY DEF Flipped
<1>4. job' \in Jobs /\ (job'.pc = "failed" \/ (job'.pc = "tx" /\ job'.n = 1 /\ job'.done = 0 /\ job'.count = 0))
  BY <1>3, SubmitFacts
<1>5. tog' \in [Pipes -> {0, 1}] /\ dtog' \in [Pipes -> {0, 1}] /\ tog'["out"] = tog["out"] /\ dtog'["out"] = dtog["out"]
  BY <1>1, Facts, PipesApart
<1>6. Types'
  BY <1>2, <1>4, <1>5, Facts DEF Inv, Types
<1>7. Placed' /\ JobOk' /\ Synced' /\ Phases'
  BY <1>1, <1>2, <1>4, PipesApart DEF Inv, Placed, JobOk, Synced, Steady, Phases, Data, Busying, Sends, Ctl
<1>8. OutKept'
  BY <1>1, <1>5, OutLeft
<1>9. DataSound'
  BY <1>2 DEF Inv, DataSound, Steady, DataOnce, Counted
<1> QED  BY <1>6, <1>7, <1>8, <1>9 DEF Inv

LEMMA CtlNextInv == ASSUME Inv, CtlNext PROVE Inv'
<1> DEFINE m == IF msg.st = "setup" THEN msg ELSE Counting
<1>1. /\ msg.p \in Ctl /\ msg.st \in {"setup", "data"} /\ job.pc = "ended" /\ UNCHANGED <<moved, src, adrift>>
      /\ IF ToData \/ MoreData
         THEN /\ tog' = IF ToData THEN [tog EXCEPT ![msg.p] = 1] ELSE tog
              /\ msg' = [m EXCEPT !.st = "data"] /\ Submit(Least(m.left, MaxJob), Dir(msg.p), tog'[msg.p])
              /\ UNCHANGED dtog
         ELSE /\ tog' = [tog EXCEPT ![msg.p] = 1] /\ dtog' = [dtog EXCEPT ![msg.p] = 1]
              /\ msg' = [m EXCEPT !.st = "status"] /\ Submit(1, Flipped(Dir(msg.p)), 1)
  BY Zenon DEF CtlNext, hidvars
<1>2. CASE ToData
  <2>1. msg.st = "setup" /\ msg.left # 0 /\ m = msg
    BY <1>2 DEF ToData
  <2>2. tog' = [tog EXCEPT ![msg.p] = 1] /\ dtog' = dtog /\ msg' = [msg EXCEPT !.st = "data"]
        /\ Submit(Least(msg.left, MaxJob), Dir(msg.p), tog'[msg.p])
    BY <1>1, <1>2, <2>1
  <2>3. moved = <<>> /\ src = 0 /\ msg.act = 0 /\ dtog[msg.p] = 1 /\ msg.left >= 1
    BY <1>1, <2>1, Facts DEF Inv, Phases, JobOk
  <2>4. msg.p \in Pipes
    BY <2>1, Facts
  <2>5. tog' \in [Pipes -> {0, 1}] /\ dtog' \in [Pipes -> {0, 1}] /\ tog'[msg.p] = 1
    BY <2>2, <2>4, Facts
  <2>6. msg' \in Msgs /\ msg'.p = msg.p /\ msg'.st = "data" /\ msg'.left = msg.left /\ msg'.act = 0
    BY <2>2, <2>3, Facts DEF Msgs
  <2>7. OutKept' /\ DataOnce'
    BY <1>1, <2>2, <2>3, <2>6, Facts, PipesApart DEF Inv, OutKept, Ctl, DataOnce
  <2>8. Least(msg.left, MaxJob) \in Int /\ Least(msg.left, MaxJob) >= 1 /\ Least(msg.left, MaxJob) <= msg'.left
    BY <2>3, <2>6, LeastFacts, Facts
  <2>9. Submit(Least(msg.left, MaxJob), Dir(msg'.p), 1)
    BY <2>2, <2>5, <2>6
  <2>10. 0 = (IF 1 = dtog'[msg'.p] THEN 0 ELSE 1) /\ moved' \in Seq(Int) /\ src' = 0 /\ Len(moved') = 0
    BY <1>1, <2>2, <2>3, <2>6
  <2>11. Len(moved') = msg'.act + 0 /\ Len(moved') = msg'.act /\ Len(moved') = src' + 0
    BY <2>6, <2>10
  <2>12. msg'.st = "data" /\ msg'.p \in Ctl
    BY <1>1, <2>6
  <2>13. 1 \in {0, 1} /\ src' \in Int /\ adrift' \subseteq Bulk
    BY <1>1, <2>10 DEF Inv, Types
  <2> QED  BY <2>5, <2>6, <2>7, <2>8, <2>9, <2>10, <2>11, <2>12, <2>13, Begins
<1>3. CASE ~ToData /\ MoreData
  <2>1. msg.st = "data" /\ ~LastJob /\ m = Counting /\ Data
    BY <1>3 DEF MoreData, Data
  <2>2. tog' = tog /\ dtog' = dtog /\ msg' = [Counting EXCEPT !.st = "data"]
        /\ Submit(Least(Counting.left, MaxJob), Dir(msg.p), tog[msg.p])
    BY <1>1, <1>3, <2>1
  <2>3. Counting.left = msg.left - job.done /\ Counting \in Msgs /\ Counting.st = "data"
    BY <1>1, <2>1, CountingFacts
  <2>4. msg' = Counting
    BY <2>2, <2>3 DEF Msgs
  <2> QED  BY <1>1, <2>1, <2>2, <2>3, <2>4, GoesOnInv
<1>4. CASE ~ToData /\ ~MoreData
  <2>1. /\ tog' = [tog EXCEPT ![msg.p] = 1] /\ dtog' = [dtog EXCEPT ![msg.p] = 1]
        /\ msg' = [m EXCEPT !.st = "status"] /\ Submit(1, Flipped(Dir(msg.p)), 1)
    BY <1>1, <1>4
  <2>2. m \in Msgs /\ m.p = msg.p /\ m.act = Len(moved) /\ (Sends(msg.p) => m.left = 0)
    <3>1. CASE msg.st = "setup"
      <4>1. m = msg /\ msg.left = 0
        BY <1>4, <3>1 DEF ToData
      <4>2. moved = <<>> /\ msg.act = 0
        BY <3>1 DEF Inv, Phases
      <4> QED  BY <4>1, <4>2, Facts
    <3>2. CASE msg.st = "data"
      <4>1. m = Counting /\ LastJob /\ Data /\ Steady
        BY <1>1, <1>4, <3>2 DEF MoreData, Data, Inv, Types, Steady, Bulk, Ctl
      <4> QED  BY <1>1, <4>1, CountingFacts
    <3> QED  BY <1>1, <3>1, <3>2
  <2> HIDE DEF m
  <2> QED  BY <1>1, <2>1, <2>2, StatusInv
<1> QED  BY <1>2, <1>3, <1>4

LEMMA CtlEndsInv == ASSUME Inv, CtlEnds PROVE Inv'
<1> DEFINE m == [msg EXCEPT !.st = "none"]
<1>1. msg.st = "status" /\ job' = NoJob /\ UNCHANGED <<tog, dtog, moved, src, adrift>> /\ msg' = [m EXCEPT !.result = "ok"]
  BY DEF CtlEnds, ends, hidvars
<1>2. m \in Msgs /\ m.p = msg.p /\ m.st = "none" /\ m.left = msg.left /\ m.act = msg.act
  BY Facts DEF Msgs
<1> HIDE DEF m
<1>3. msg' \in Msgs /\ msg'.p = msg.p /\ msg'.st = "none" /\ msg'.left = msg.left /\ msg'.act = msg.act
  BY <1>1, <1>2 DEF Msgs
<1>4. Types' /\ Placed' /\ JobOk' /\ Synced' /\ Phases'
  BY <1>1, <1>3, NoJobTyped, Facts DEF Inv, Types, Placed, JobOk, Synced, Steady, Phases, Data, Busying
<1>5. OutKept'
  BY <1>1 DEF Inv, OutKept
<1>6. DataSound'
  BY <1>1, <1>3 DEF Inv, DataSound, Steady, DataOnce, Counted, Phases, Sends
<1> QED  BY <1>4, <1>5, <1>6 DEF Inv

-----------------------------------------------------------------------------
(* The poll: it happens between messages, and moves no other pipe.         *)
Answers == {"nak", "report", "unacked", "repeated", "error"}

LEMMA PolledFacts ==
  ASSUME NEW h
  PROVE  /\ Polled(h, "nak") = <<tog[h], dtog[h], rep[h], seen[h]>>
         /\ Polled(h, "report") = <<1 - tog[h], 1 - dtog[h], rep[h] + 1, seen[h] + 1>>
         /\ Polled(h, "unacked") = <<1 - tog[h], dtog[h], rep[h], seen[h] + 1>>
         /\ Polled(h, "repeated") = <<tog[h], 1 - dtog[h], rep[h] + 1, seen[h]>>
         /\ Polled(h, "error") = <<tog[h], dtog[h], rep[h], seen[h]>>
<1>1. Polled(h, "nak") = <<tog[h], dtog[h], rep[h], seen[h]>>
  BY Zenon DEF Polled, NakTog
<1>2. Polled(h, "report") = <<1 - tog[h], 1 - dtog[h], rep[h] + 1, seen[h] + 1>>
  BY Zenon DEF Polled, NakTog
<1>3. Polled(h, "unacked") = <<1 - tog[h], dtog[h], rep[h], seen[h] + 1>>
  BY Zenon DEF Polled, NakTog
<1>4. Polled(h, "repeated") = <<tog[h], 1 - dtog[h], rep[h] + 1, seen[h]>>
  BY Zenon DEF Polled, NakTog
<1>5. Polled(h, "error") = <<tog[h], dtog[h], rep[h], seen[h]>>
  BY Zenon DEF Polled, NakTog
<1> QED  BY <1>1, <1>2, <1>3, <1>4, <1>5

(* What a poll makes of one keyboard or mouse.                             *)
LEMMA OnePoll ==
  ASSUME NEW h, NEW what \in Answers, CanBe(h, what), tog[h] \in {0, 1}, dtog[h] \in {0, 1}, rep[h] \in Int, seen[h] \in Int,
         seen[h] = rep[h] + (IF tog[h] = dtog[h] THEN 0 ELSE 1)
  PROVE  LET a == Polled(h, what)
         IN  /\ a[1] \in {0, 1} /\ a[2] \in {0, 1} /\ a[3] \in Int /\ a[4] \in Int
             /\ a[4] = a[3] + (IF a[1] = a[2] THEN 0 ELSE 1)
<1>1. CASE what = "nak"
  BY <1>1, PolledFacts
<1>2. CASE what = "report"
  BY <1>2, PolledFacts DEF CanBe
<1>3. CASE what = "unacked"
  BY <1>3, PolledFacts DEF CanBe
<1>4. CASE what = "repeated"
  BY <1>4, PolledFacts DEF CanBe
<1>5. CASE what = "error"
  BY <1>5, PolledFacts
<1> QED  BY <1>1, <1>2, <1>3, <1>4, <1>5 DEF Answers

(* Reports rest on Inv: the pipe of a message is no keyboard's.            *)
RepInv == rep \in [Hids -> Int] /\ seen \in [Hids -> Int] /\ ReportsOnce

LEMMA PollInv == ASSUME Inv, RepInv, PollInt PROVE Inv' /\ RepInv'
<1>1. PICK w \in [Hids -> Answers]:
        /\ \A h \in Hids : CanBe(h, w[h])
        /\ tog' = [p \in Pipes |-> IF p \in Hids THEN Polled(p, w[p])[1] ELSE tog[p]]
        /\ dtog' = [p \in Pipes |-> IF p \in Hids THEN Polled(p, w[p])[2] ELSE dtog[p]]
        /\ rep' = [h \in Hids |-> Polled(h, w[h])[3]] /\ seen' = [h \in Hids |-> Polled(h, w[h])[4]]
  BY DEF PollInt, Answers
<1>2. msg.st = "none" /\ UNCHANGED <<msg, job, moved, src, adrift>>
  BY DEF PollInt, Idle, hidvars
<1>3. ASSUME NEW h \in Hids
      PROVE  LET a == Polled(h, w[h])
             IN  /\ a[1] \in {0, 1} /\ a[2] \in {0, 1} /\ a[3] \in Int /\ a[4] \in Int
                 /\ a[4] = a[3] + (IF a[1] = a[2] THEN 0 ELSE 1)
  <2>1. /\ tog[h] \in {0, 1} /\ dtog[h] \in {0, 1} /\ rep[h] \in Int /\ seen[h] \in Int
        /\ seen[h] = rep[h] + (IF tog[h] = dtog[h] THEN 0 ELSE 1)
    BY <1>3, Facts, PipesApart DEF RepInv, ReportsOnce
  <2>2. CanBe(h, w[h]) /\ w[h] \in Answers
    BY <1>1, <1>3
  <2> QED  BY <2>1, <2>2, OnePoll
<1>4. tog' \in [Pipes -> {0, 1}] /\ dtog' \in [Pipes -> {0, 1}]
  BY <1>1, <1>3, Facts
<1>5. tog'["out"] = tog["out"] /\ dtog'["out"] = dtog["out"]
  BY <1>1, PipesApart
<1>6. Inv'
  <2>1. Types' /\ Placed' /\ JobOk' /\ Synced' /\ Phases'
    BY <1>2, <1>4 DEF Inv, Types, Placed, JobOk, Synced, Steady, Phases, Data, Busying
  <2>2. OutKept' /\ DataSound'
    BY <1>2, <1>5 DEF Inv, OutKept, DataSound, Steady, DataOnce, Counted, Sends
  <2> QED  BY <2>1, <2>2 DEF Inv
<1>7. rep' \in [Hids -> Int] /\ seen' \in [Hids -> Int]
  BY <1>1, <1>3
<1>8. ASSUME NEW h \in Hids PROVE seen'[h] = rep'[h] + (IF tog'[h] = dtog'[h] THEN 0 ELSE 1)
  <2>1. h \in Pipes
    BY PipesApart
  <2>2. /\ tog'[h] = Polled(h, w[h])[1] /\ dtog'[h] = Polled(h, w[h])[2]
        /\ rep'[h] = Polled(h, w[h])[3] /\ seen'[h] = Polled(h, w[h])[4]
    BY <1>1, <2>1
  <2> QED  BY <1>3, <2>2
<1> QED  BY <1>6, <1>7, <1>8 DEF RepInv, ReportsOnce

(* No other step is about a keyboard's pipe.                               *)
LEMMA OthersKeepRep ==
  ASSUME Inv, RepInv, UNCHANGED <<rep, seen>>, \A h \in Hids: tog'[h] = tog[h] /\ dtog'[h] = dtog[h]
  PROVE  RepInv'
BY DEF RepInv, ReportsOnce

LEMMA ElsewhereKept ==
  ASSUME Inv, NEW f \in [Pipes -> {0, 1}], NEW v, NEW p, p \notin Hids
  PROVE  \A h \in Hids: [f EXCEPT ![p] = v][h] = f[h]
BY PipesApart

LEMMA JobStepRep == ASSUME Inv, RepInv, JobStep PROVE RepInv'
<1> USE Facts, PipesApart
<1>1. msg.p \notin Hids /\ UNCHANGED <<rep, seen>>
  BY DEF hidvars, Inv, Placed, JobStep, Good, LostData, LostAck, Repeated, Busy, Short, Completes, Breaks, RetryError, GivesUp,
         RetryRest, Ended
<1>2. \A h \in Hids: dtog'[h] = dtog[h]
  BY <1>1 DEF JobStep, Good, LostData, LostAck, Repeated, Busy, Short, Completes, Breaks, RetryError, GivesUp,
              RetryRest, Ended, Taken, Given, ends, hidvars
<1>3. \A h \in Hids: tog'[h] = tog[h]
  BY <1>1 DEF JobStep, Good, LostData, LostAck, Repeated, Busy, Short, Completes, Breaks, RetryError, GivesUp,
              RetryRest, Ended, KeptTog
<1> QED  BY <1>1, <1>2, <1>3, OthersKeepRep

LEMMA MsgStepRep ==
  ASSUME Inv, RepInv,
         \/ MsgStep
         \/ \E p \in Bulk : \E n \in 1 .. MaxMsg : BulkMsg(p, n)
         \/ \E p \in Ctl : \E n \in 0 .. MaxMsg : CtlMsg(p, n)
  PROVE  RepInv'
<1> USE Facts, PipesApart
<1>1. msg.p \notin Hids /\ UNCHANGED <<rep, seen>>
  BY DEF hidvars, Inv, Placed, MsgStep, BulkNext, MsgFails, Recover, CtlNext, CtlEnds, BulkMsg, CtlMsg
<1>2. CASE Recover
  <2>1. \A h \in Hids: tog'[h] = tog[h] /\ dtog'[h] = dtog[h]
    BY <1>2 DEF Recover, Bulk
  <2> QED  BY <1>1, <2>1, OthersKeepRep
<1>3. CASE ~Recover
  <2>1. \A h \in Hids: dtog'[h] = dtog[h]
    BY <1>1, <1>3 DEF MsgStep, BulkNext, MsgFails, CtlNext, CtlEnds, BulkMsg, CtlMsg, ends
  <2>2. \A h \in Hids: tog'[h] = tog[h]
    BY <1>1, <1>3 DEF MsgStep, BulkNext, MsgFails, CtlNext, CtlEnds, BulkMsg, CtlMsg
  <2> QED  BY <1>1, <2>1, <2>2, OthersKeepRep
<1> QED  BY <1>2, <1>3

-----------------------------------------------------------------------------
LEMMA StutterInv == ASSUME Inv, RepInv, UNCHANGED vars PROVE Inv' /\ RepInv'
<1>1. UNCHANGED <<tog, dtog, msg, job, moved, src, rep, seen, adrift>>
  BY DEF vars
<1>2. Inv'
  BY <1>1 DEF Inv, Types, Placed, JobOk, Synced, Steady, Phases, OutKept, DataSound, DataOnce, Counted, Data, Busying, Sends,
              Counts, Apart, NextTog, Dir
<1> QED  BY <1>1, <1>2 DEF RepInv, ReportsOnce

LEMMA InvNext == ASSUME Inv, RepInv, [Next]_vars PROVE Inv' /\ RepInv'
<1>1. CASE JobStep
  <2>1. Inv'
    BY <1>1, GoodInv, LostDataInv, LostAckInv, RepeatedInv, BusyInv, ShortInv, CompletesInv, FailInv, RetryErrorInv,
       RetryRestInv, EndedInv DEF JobStep
  <2> QED  BY <1>1, <2>1, JobStepRep
<1>2. CASE MsgStep
  BY <1>2, BulkNextInv, MsgFailsInv, RecoverInv, CtlNextInv, CtlEndsInv, MsgStepRep DEF MsgStep
<1>3. CASE PollInt
  BY <1>3, PollInv
<1>4. CASE \E p \in Bulk : \E n \in 1 .. MaxMsg : BulkMsg(p, n)
  BY <1>4, BulkMsgInv, MsgStepRep
<1>5. CASE \E p \in Ctl : \E n \in 0 .. MaxMsg : CtlMsg(p, n)
  BY <1>5, CtlMsgInv, MsgStepRep
<1>6. CASE UNCHANGED vars
  BY <1>6, StutterInv
<1> QED  BY <1>1, <1>2, <1>3, <1>4, <1>5, <1>6 DEF Next

LEMMA InvAlways == Spec => [](Inv /\ RepInv)
<1>1. Init => RepInv
  BY PipesApart DEF Init, RepInv, ReportsOnce
<1>2. Inv /\ RepInv /\ [Next]_vars => (Inv /\ RepInv)'
  BY InvNext
<1> QED  BY <1>1, <1>2, InitInv, PTL DEF Spec

(* Whatever the bus loses, and whichever retry follows (isp116x_unpack_ptd *)
(* puts the toggle back to the failed transaction's, or keeps it), each    *)
(* packet of a message arrives once and in order; a message that succeeds  *)
(* has counted what arrived, and one that sends has sent it all: on a pipe *)
(* whose last recovery both its ends carried out.                          *)
THEOREM DataKept == Spec => []DataSound
<1>1. Inv /\ RepInv => DataSound
  BY DEF Inv
<1> QED  BY <1>1, InvAlways, PTL

(* Each report of a keyboard or mouse is given to its driver once, though  *)
(* the poll puts the toggle back after a NAK (the B5_5 workaround of       *)
(* isp116x_poll_int) and an acknowledgement may be lost.                   *)
THEOREM ReportsKept == Spec => []ReportsOnce
<1>1. Inv /\ RepInv => ReportsOnce
  BY DEF RepInv
<1> QED  BY <1>1, InvAlways, PTL
=============================================================================
