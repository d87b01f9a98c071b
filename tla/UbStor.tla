------------------------------ MODULE UbStor ------------------------------
(***************************************************************************)
(* A mass storage device (driver-ub/ubstor.c): one command at a time, as a *)
(* command block out (CBW), data in or out, a status in (CSW), with stalls *)
(* cleared and the reset recovery when the two lose step (bbb_cmd), sense  *)
(* taken after a command that failed (scsi), and what storage_probe asks   *)
(* of a device that arrives (ub_stor_attach).                              *)
(*                                                                         *)
(* The data of a command is one piece, moved whole, short or not at all.   *)
(* A message fails MaxFaults times, whether the device took it or not.     *)
(*                                                                         *)
(* External: the device's side of the bulk-only transport.                 *)
(***************************************************************************)
EXTENDS Integers, FiniteSets

CONSTANTS
  Tries,     \* times a device is asked whether it is ready (10)
  MaxCmds,   \* bound: reads and writes
  MaxFaults  \* bound: messages that fail

UbStorAssumption == Tries \in Nat /\ MaxCmds \in Nat /\ MaxFaults \in Nat

VARIABLES
  cmd,     \* the command under way
  op,      \* what it is a part of
  stor,    \* struct ub_stor: ready, sense
  tag,     \* cbw_tag
  dev,     \* the device
  halted,  \* its endpoints that stall
  apart,   \* its endpoints whose toggle is not the host's
  hurt,    \* a message of the last reset recovery failed
  cmds, faults

vars == <<cmd, op, stor, tag, dev, halted, apart, hurt, cmds, faults>>
ours == <<op, stor, cmds>>

Kinds == {"ready", "inquiry", "capacity", "read", "write", "sense"}
Eps == {"in", "out"}
Senses == {"none", "becoming", "nomedium", "other"}
(* the end of a command: passed, failed, the transport broke *)
Results == {0, 1, -1}

NoCmd == [pc |-> "rest", kind |-> "ready", id |-> 0, retry |-> 0, res |-> 0, csw |-> 0, got |-> "none"]
DevUp == [st |-> "cbw", id |-> 0, tag |-> 0, kind |-> "ready", took |-> "none", sense |-> "none"]

TypeOK ==
  /\ cmd \in [pc: {"rest", "cbw", "data", "clear", "csw", "clearcsw", "reset", "unin", "unout", "ret"}, kind: Kinds,
              id: Nat, retry: 0 .. 1, res: Results, csw: Nat, got: {"none", "short", "whole", "other"}]
  /\ op \in [kind: {"none", "ready", "inquiry", "capacity", "read", "write"}, try: 0 .. Tries, ended: {"none", "ok", "failed"}]
  /\ stor \in [ready: BOOLEAN, sense: Senses] /\ tag \in Nat
  /\ dev \in [st: {"cbw", "din", "dout", "csw"}, id: Nat, tag: Nat, kind: Kinds, took: {"none", "data", "other"}, sense: Senses]
  /\ halted \subseteq Eps /\ apart \subseteq Eps /\ hurt \in BOOLEAN
  /\ cmds \in 0 .. MaxCmds /\ faults \in 0 .. MaxFaults

Ins(kind) == kind \in {"inquiry", "capacity", "read", "sense"}
HasData(kind) == kind # "ready"
Ep == IF Ins(cmd.kind) THEN "in" ELSE "out"

(* bbb_cmd: the next command *)
Begin(kind) == cmd' = [NoCmd EXCEPT !.pc = "cbw", !.kind = kind, !.id = cmd.id + 1]

Init ==
  /\ cmd = [NoCmd EXCEPT !.pc = "cbw", !.id = 1] /\ op = [kind |-> "ready", try |-> 0, ended |-> "none"]
  /\ stor = [ready |-> FALSE, sense |-> "none"] /\ tag = 1
  /\ dev = DevUp /\ halted = {} /\ apart = {} /\ hurt = FALSE /\ cmds = 0 /\ faults = 0

-----------------------------------------------------------------------------
(* External: the device.                                                   *)

(* it takes a command block; one that comes where data is due is data to it *)
TakesCbw(d) ==
  \/ /\ d.st = "cbw"
     /\ dev' = [d EXCEPT !.st = IF ~HasData(cmd.kind) THEN "csw" ELSE IF Ins(cmd.kind) THEN "din" ELSE "dout",
                         !.id = cmd.id, !.tag = tag, !.kind = cmd.kind, !.took = "none"]
  \/ d.st = "dout" /\ \E st \in {"dout", "csw"}: dev' = [d EXCEPT !.took = "other", !.st = st]

(* data in: all of it, less of it, or none with a stall *)
GivesData(got) == dev.st = "din" /\ dev' = [dev EXCEPT !.st = "csw"] /\ got \in {"whole", "short"}
(* data out: all of it *)
TakesData == dev.st = "dout" /\ dev' = [dev EXCEPT !.st = "csw", !.took = IF @ = "none" THEN "data" ELSE "other"]
(* the rest of the data is refused *)
Refuses == dev.st \in {"din", "dout"} /\ dev' = [dev EXCEPT !.st = "csw"] /\ halted' = halted \cup {Ep}

(* how a device may end the command it has; nothing taken, nothing passed *)
Statuses ==
  IF dev.took # "none" \/ ~(dev.kind = "write") THEN {0, 1, 2} ELSE {1}
(* the sense a status leaves *)
SenseOf(status) == IF status = 1 THEN Senses \ {"none"} ELSE {dev.sense}

(* it can neither take nor give what the host asks for: a time out *)
Deaf == CASE cmd.pc = "cbw" -> dev.st \in {"din", "csw"}
          [] cmd.pc = "data" -> dev.st # (IF Ep = "in" THEN "din" ELSE "dout")
          [] OTHER -> dev.st # "csw"

-----------------------------------------------------------------------------
Fault == faults < MaxFaults /\ faults' = faults + 1

(* where a transport that broke goes on: the reset recovery (bbb_reset) *)
Broken(c) == [c EXCEPT !.pc = "reset", !.res = -1]

(* usb_bulk_msg of the CBW failed or was short: the tag stays *)
CbwFails == cmd' = Broken(cmd) /\ UNCHANGED <<tag, hurt>>

SendCbw ==
  /\ cmd.pc = "cbw"
  /\ \/ /\ "out" \notin halted \cup apart /\ TakesCbw(dev)
        /\ cmd' = [cmd EXCEPT !.pc = IF HasData(cmd.kind) THEN "data" ELSE "csw"]
        /\ UNCHANGED <<tag, halted, apart, hurt, faults>>
     \/ /\ "out" \in apart \ halted                           \* taken for a repetition
        /\ cmd' = [cmd EXCEPT !.pc = IF HasData(cmd.kind) THEN "data" ELSE "csw"] /\ apart' = apart \ {"out"}
        /\ UNCHANGED <<tag, dev, halted, hurt, faults>>
     \/ ("out" \in halted \/ Deaf) /\ CbwFails /\ UNCHANGED <<dev, halted, apart, faults>>
     \/ Fault /\ CbwFails /\ (UNCHANGED dev \/ ("out" \notin halted \cup apart /\ TakesCbw(dev))) /\ UNCHANGED <<halted, apart>>
  /\ UNCHANGED ours

(* mutant: straight back to the caller *)
DataFailsOnly == [cmd EXCEPT !.pc = "ret", !.res = -1]
(* the data phase broke off: reset recovery, the tag stays *)
DataFails == Broken(cmd)

DataPhase ==
  /\ cmd.pc = "data"
  /\ \/ /\ Ep \notin halted \cup apart
        /\ \/ \E got \in {"whole", "short"}:
                Ep = "in" /\ GivesData(got)
                /\ cmd' = [cmd EXCEPT !.pc = "csw", !.got = IF dev.id = cmd.id THEN got ELSE "other"]
           \/ Ep = "out" /\ TakesData /\ cmd' = [cmd EXCEPT !.pc = "csw"]
        /\ UNCHANGED <<halted, faults>>
     \/ Ep \notin halted /\ Refuses /\ cmd' = [cmd EXCEPT !.pc = "clear"] /\ UNCHANGED faults
     \/ Ep \in halted /\ cmd' = [cmd EXCEPT !.pc = "clear"] /\ UNCHANGED <<dev, halted, faults>>
     \/ Ep \notin halted /\ (Deaf \/ Ep \in apart) /\ cmd' = DataFails /\ UNCHANGED <<dev, halted, faults>>
     \/ Fault /\ cmd' = DataFails /\ (UNCHANGED dev \/ (Ep \notin halted \cup apart /\ (TakesData \/ GivesData("whole"))))
        /\ UNCHANGED halted
  /\ UNCHANGED <<ours, tag, apart, hurt>>

(* the host asks for an endpoint to be unhalted; its own toggle starts again
   in clear_stall whether the device did so or not *)
ClearStall(ep, failed) ==
  \/ ~failed /\ halted' = halted \ {ep} /\ apart' = apart \ {ep} /\ UNCHANGED faults
  \/ failed /\ Fault /\ \/ UNCHANGED halted /\ apart' \in {apart, apart \cup {ep}}
                        \/ halted' = halted \ {ep} /\ apart' = apart \ {ep}

ClearData ==
  /\ cmd.pc = "clear"
  /\ \E failed \in BOOLEAN:
       ClearStall(Ep, failed) /\ cmd' = IF failed THEN DataFails ELSE [cmd EXCEPT !.pc = "csw"]
  /\ UNCHANGED <<ours, tag, dev, hurt>>

(* a status that stalls is asked for once more, the result of the clearing not looked at *)
ClearCsw ==
  /\ cmd.pc = "clearcsw"
  /\ \E failed \in BOOLEAN: ClearStall("in", failed)
  /\ cmd' = [cmd EXCEPT !.pc = "csw", !.retry = 1]
  /\ UNCHANGED <<ours, tag, dev, hurt>>

(* no status, a bad one or another command's: reset recovery *)
CswFails == tag' = tag + 1 /\ cmd' = Broken(cmd)

(* the status is taken for this command's when its tag is this command's *)
Mine == dev.tag = tag

ReadCsw ==
  /\ cmd.pc = "csw"
  /\ \/ /\ "in" \notin halted \cup apart /\ dev.st = "csw"
        /\ \E status \in Statuses, sense \in Senses:
             /\ sense \in SenseOf(status)
             /\ dev' = [dev EXCEPT !.st = "cbw", !.sense = sense]
             /\ IF status \in {0, 1} /\ Mine
                THEN tag' = tag + 1 /\ cmd' = [cmd EXCEPT !.pc = "ret", !.res = status, !.csw = dev.id]
                ELSE CswFails
        /\ UNCHANGED <<halted, faults>>
     \/ "in" \notin halted \cup apart /\ dev.st = "din" /\ dev' = [dev EXCEPT !.st = "csw"] /\ CswFails /\ UNCHANGED <<halted, faults>>
     \/ /\ "in" \in halted \/ (cmd.retry = 0 /\ dev.st = "csw")  \* it stalls, perhaps only now
        /\ halted' = halted \cup {"in"} /\ UNCHANGED <<dev, faults>>
        /\ IF cmd.retry = 0 THEN cmd' = [cmd EXCEPT !.pc = "clearcsw"] /\ UNCHANGED tag ELSE CswFails
     \/ "in" \notin halted /\ (dev.st \in {"cbw", "dout"} \/ "in" \in apart) /\ CswFails /\ UNCHANGED <<dev, halted, faults>>
     \/ Fault /\ CswFails /\ (UNCHANGED dev \/ (dev.st = "csw" /\ "in" \notin halted /\ dev' = [dev EXCEPT !.st = "cbw"]))
        /\ UNCHANGED halted
  /\ UNCHANGED <<ours, apart, hurt>>

-----------------------------------------------------------------------------
(* bbb_reset: three messages, their results not looked at                  *)

Reset ==
  /\ cmd.pc = "reset" /\ cmd' = [cmd EXCEPT !.pc = "unin"]
  /\ \/ dev' = [dev EXCEPT !.st = "cbw"] /\ hurt' = FALSE /\ UNCHANGED faults
     \/ Fault /\ hurt' = TRUE /\ (UNCHANGED dev \/ dev' = [dev EXCEPT !.st = "cbw"])
  /\ UNCHANGED <<ours, tag, halted, apart>>

(* mutant: only the endpoint data comes from *)
UnhaltedIn(ep) == halted' = halted \ {"in"} /\ apart' = apart \ {"in"}
(* usb_clear_halt: the host's toggle only starts again when the device's did *)
Unhalted(ep) == halted' = halted \ {ep} /\ apart' = apart \ {ep}

Unhalt(ep) ==
  \/ Unhalted(ep) /\ UNCHANGED <<hurt, faults>>
  \/ Fault /\ hurt' = TRUE /\ UNCHANGED halted
     /\ apart' \in {apart} \cup (IF ep \in halted \/ ep \in apart THEN {} ELSE {apart \cup {ep}})

UnhaltIn == cmd.pc = "unin" /\ Unhalt("in") /\ cmd' = [cmd EXCEPT !.pc = "unout"] /\ UNCHANGED <<ours, tag, dev>>
UnhaltOut == cmd.pc = "unout" /\ Unhalt("out") /\ cmd' = [cmd EXCEPT !.pc = "ret"] /\ UNCHANGED <<ours, tag, dev>>

-----------------------------------------------------------------------------
(* scsi, ub_stor_attach and the callers                                    *)

(* a command failed: its sense is asked for, once *)
Sense ==
  /\ cmd.pc = "ret" /\ cmd.kind # "sense" /\ cmd.res = 1
  /\ stor' = [stor EXCEPT !.sense = "none"] /\ Begin("sense")
  /\ UNCHANGED <<op, tag, dev, halted, apart, hurt, cmds, faults>>

(* scsi returns: the operation's command passed, or did not *)
Over == cmd.pc = "ret" /\ (cmd.kind = "sense" \/ cmd.res # 1)
Passed == cmd.kind # "sense" /\ cmd.res = 0
SenseNow == IF cmd.kind = "sense" /\ cmd.got = "whole" THEN dev.sense ELSE stor.sense

(* ub_stor_attach: ready or not after so many tries, then what it is and how big *)
Attach ==
  /\ Over /\ op.kind \in {"ready", "inquiry", "capacity"}
  /\ LET s == SenseNow
         next == CASE op.kind = "ready" /\ Passed -> "inquiry"
                   [] op.kind = "ready" /\ s = "nomedium" -> "failed"
                   [] op.kind = "ready" /\ op.try < Tries - 1 -> "ready"
                   [] op.kind = "ready" -> "inquiry"
                   [] ~Passed -> "failed"
                   [] op.kind = "inquiry" -> "capacity"
                   [] OTHER -> "ok"
     IN /\ stor' = [sense |-> s, ready |-> next = "ok"]
        /\ IF next \in {"ok", "failed"}
           THEN op' = [kind |-> "none", try |-> 0, ended |-> next] /\ cmd' = [NoCmd EXCEPT !.id = cmd.id]
           ELSE op' = [op EXCEPT !.kind = next, !.try = IF next = "ready" THEN @ + 1 ELSE 0] /\ Begin(next)
  /\ UNCHANGED <<tag, dev, halted, apart, hurt, cmds, faults>>

(* ub_stor_read, ub_stor_write of a unit that is ready, with the stack locked *)
ReadWrite ==
  /\ cmd.pc = "rest" /\ stor.ready /\ cmds < MaxCmds
  /\ \E kind \in {"read", "write"}:
       op' = [kind |-> kind, try |-> 0, ended |-> "none"] /\ Begin(kind)
  /\ cmds' = cmds + 1 /\ UNCHANGED <<stor, tag, dev, halted, apart, hurt, faults>>

RwDone ==
  /\ Over /\ op.kind \in {"read", "write"}
  /\ op' = [op EXCEPT !.kind = "none", !.ended = IF Passed THEN "ok" ELSE "failed"]
  /\ stor' = [stor EXCEPT !.sense = SenseNow]
  /\ cmd' = [NoCmd EXCEPT !.id = cmd.id]
  /\ UNCHANGED <<tag, dev, halted, apart, hurt, cmds, faults>>

Next ==
  \/ SendCbw \/ DataPhase \/ ClearData \/ ReadCsw \/ ClearCsw \/ Reset \/ UnhaltIn \/ UnhaltOut
  \/ Sense \/ Attach \/ ReadWrite \/ RwDone

Spec == Init /\ [][Next]_vars

-----------------------------------------------------------------------------
Own ==
  cmd.pc = "ret" /\ cmd.res # -1 =>
    /\ cmd.csw = cmd.id
    /\ cmd.kind = "write" /\ cmd.res = 0 => dev.took = "data"

(* A command is only reported as passed or failed on the status the device
   gave to this very command, and a write only as passed when the device took
   the command's data for it: never on the status of an earlier command that
   was still waiting, or after a command block was taken for data; unless a
   message of the last reset recovery failed.
   (cbw_tag and bbb_reset of bbb_cmd)                                       *)
StatusOwn == ~hurt => Own

(* Not so: without the exception. After a data phase that broke off the next
   command has the same tag, and nobody looks at the results of bbb_reset.  *)
StatusAlways == Own

(* Between commands the two are in step: the device waits for a command block,
   no endpoint is halted and the toggles agree, however the last command ended,
   unless a message of the reset recovery itself failed.
   (clear_stall, bbb_reset)                                                 *)
InStep == cmd.pc \in {"ret", "rest"} /\ ~hurt => dev.st = "cbw" /\ halted = {} /\ apart = {}

(* Not so: a read that passed has moved all its data. The length the data
   phase moved (actp, nobody's) and the residue of the status are not looked at. *)
ReadWhole == cmd.pc = "ret" /\ cmd.res = 0 /\ cmd.kind = "read" => cmd.got = "whole"
=============================================================================
