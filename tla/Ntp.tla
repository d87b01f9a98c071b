-------------------------------- MODULE Ntp --------------------------------
(***************************************************************************)
(* Atari System V's clock and ttntp (tools/ttntp/ttntp.c): the chip keeps  *)
(* local time, the kernel reads it as GMT at boot, -b moves the clock and  *)
(* this boot's login records by the zone's offset, a time server's answer  *)
(* sets the clock right, -z tells the driver the offset, which from then   *)
(* on writes the chip whenever the time is set; -u moves the records alone.*)
(*                                                                         *)
(* Times count in units of EARLY_WINDOW. err is the clock's error, chip    *)
(* that of the chip as local time. A server's answer is exact: what a step *)
(* of whole seconds leaves is slewed. The log (wtmp) only grows; the table *)
(* (utmp), whose entries are overwritten, follows it and is left out.      *)
(*                                                                         *)
(* External: the kernel's clock and its driver, init's records.            *)
(***************************************************************************)
EXTENDS Integers, Sequences

CONSTANTS
  Zones,     \* zone offsets to choose from, west positive
  Window,    \* EARLY_WINDOW
  Step,      \* a step of the clock that moves the records too (300 seconds)
  MaxTime, MaxBoots, MaxRecs,  \* bounds: the true time, boots, records
  ChipErrs   \* what the chip may be off by at first

NtpAssumption == Zones \subseteq Int /\ ChipErrs \subseteq Int /\ Window \in Nat /\ Step \in Nat \ {0}

VARIABLES Zone, tru, err, told, chip, phase, log, boots, logged, fixed
vars == <<Zone, tru, err, told, chip, phase, log, boots, logged, fixed>>

Clock == tru + err
Mag == IF Zone < 0 THEN -Zone ELSE Zone

TypeOK ==
  /\ Zone \in Zones /\ tru \in 0 .. MaxTime /\ err \in Int /\ chip \in Int /\ told \in BOOLEAN
  /\ phase \in {"off", "init", "up"} /\ boots \in 0 .. MaxBoots /\ logged \in 0 .. MaxRecs
  /\ log \in Seq([boot: BOOLEAN, stamp: Int, at: 0 .. MaxTime, no: 1 .. MaxBoots]) /\ fixed \in BOOLEAN

Init ==
  /\ Zone \in Zones /\ tru = 0 /\ err = 0 /\ told = FALSE /\ chip \in ChipErrs /\ phase = "off"
  /\ log = <<>> /\ boots = 0 /\ logged = 0 /\ fixed = FALSE

Record(boot, c, n) == [boot |-> boot, stamp |-> tru + c, at |-> tru, no |-> n]

-----------------------------------------------------------------------------
(* External: time passes, the machine boots, init and login write records  *)

Pass ==
  /\ tru < MaxTime /\ phase # "init" /\ tru' = tru + 1
  /\ UNCHANGED <<Zone, err, told, chip, phase, log, boots, logged, fixed>>

Boot ==
  /\ boots < MaxBoots /\ boots' = boots + 1 /\ phase' = "init"
  /\ err' = chip - Zone /\ told' = FALSE
  /\ log' = Append(log, Record(TRUE, err', boots')) /\ fixed' = FALSE
  /\ UNCHANGED <<Zone, tru, chip, logged>>

LogRecord ==
  /\ phase # "off" /\ logged < MaxRecs /\ logged' = logged + 1 /\ log' = Append(log, Record(FALSE, err, boots))
  /\ UNCHANGED <<Zone, tru, err, told, chip, phase, boots, fixed>>

-----------------------------------------------------------------------------
(* shift_file of the log: this boot's records with a stamp from the boot
   record's to hi                                                          *)

Last == CHOOSE i \in DOMAIN log: log[i].boot /\ \A j \in DOMAIN log: log[j].boot => j <= i
Tb == log[Last].stamp
(* mutant: the log is gone through from its start *)
FromStart == 1
From == Last
Shifted(delta, hi) ==
  [i \in DOMAIN log |-> IF i >= From /\ Tb <= log[i].stamp /\ log[i].stamp <= hi
                        THEN [log[i] EXCEPT !.stamp = @ + delta] ELSE log[i]]

(* -u: are this boot's early records early? *)
Later == {log[i].stamp: i \in {j \in DOMAIN log: j >= Last /\ log[j].stamp > Tb + Window}} \cup {Clock}
Early ==
  IF Zone > 0 THEN \A t \in Later: t >= Tb + Mag - Window
  ELSE \E j \in DOMAIN log: j >= Last /\ log[j].stamp < Tb

(* mutant: the boot record alone is moved *)
EarlyToBoot == Tb
EarlyTo == Tb + Window

-----------------------------------------------------------------------------
(* boot_local (-b), once, by the boot script *)
BootLocal ==
  /\ phase = "init" /\ phase' = "up"
  /\ err' = err + Zone /\ log' = Shifted(Zone, Clock + 1) /\ fixed' = TRUE
  /\ UNCHANGED <<Zone, tru, told, chip, boots, logged>>

(* a boot script without it *)
NoLocal == phase = "init" /\ phase' = "up" /\ UNCHANGED <<Zone, tru, err, told, chip, log, boots, logged, fixed>>

Abs(x) == IF x < 0 THEN -x ELSE x
(* mutant: the records stay behind *)
MovedNot == log
(* setclock: stepped by what it is off; a long step takes the records along *)
Moved == IF Abs(err) >= Step THEN Shifted(-err, Clock + 1) ELSE log

(* the kernel writes the chip when the time is set, once it has been told the offset; -z sets it again *)
Written(zone) == IF zone \/ (told /\ err # 0) THEN 0 ELSE chip

(* main: a server answered; -z *)
Sntp(zone) ==
  /\ phase = "up" /\ err' = 0 /\ log' = Moved /\ told' = (told \/ zone) /\ chip' = Written(zone)
  /\ UNCHANGED <<Zone, tru, phase, boots, logged, fixed>>

(* External: the clock is set right by hand, the records left as they are *)
SetByHand ==
  /\ phase = "up" /\ err # 0 /\ err' = 0 /\ chip' = Written(FALSE) /\ fixed' = FALSE
  /\ UNCHANGED <<Zone, tru, told, phase, log, boots, logged>>

(* -u *)
FixRecords ==
  /\ phase = "up" /\ fixed' = FALSE
  /\ log' = IF Early THEN Shifted(Zone, EarlyTo) ELSE log
  /\ UNCHANGED <<Zone, tru, err, told, chip, phase, boots, logged>>

Next == Pass \/ Boot \/ LogRecord \/ BootLocal \/ NoLocal \/ (\E zone \in BOOLEAN: Sntp(zone)) \/ SetByHand \/ FixRecords
Spec == Init /\ [][Next]_vars

-----------------------------------------------------------------------------
(* The records of an earlier boot are never moved. (shift_file)            *)
OldStep == \A i \in DOMAIN log: log[i].no < boots => log'[i] = log[i]
OldKept == [][OldStep]_vars

(* Once -b has run, and the clock was set by a server since or not, this
   boot's records agree with the clock, whenever they were written.
   (boot_local, setclock, shift_records)                                   *)
RecordsRight ==
  phase = "up" /\ fixed => \A i \in DOMAIN log: log[i].no = boots => Abs(log[i].stamp - log[i].at - err) < Step

(* -u, on a machine whose clock was set right another way, leaves each of this
   boot's early records right, and spoils only right ones whose stamps lie in the
   window from the boot record's on: it knows records by their stamps alone. That
   is if the early ones were written within the window and, east of Greenwich, a
   right record says someone has logged in within the offset since.
   (shift_file)                                                            *)
Wrong == {i \in DOMAIN log: i >= Last /\ log[i].stamp # log[i].at}
Mistaken == {i \in DOMAIN log \ Wrong: i >= Last /\ log[i].stamp \in Tb .. Tb + Window}
FixStep ==
  FixRecords /\ err = 0 /\ Last \in Wrong
     /\ (\A i \in Wrong: log[i].stamp = log[i].at - Zone /\ log[i].stamp <= Tb + Window)
     /\ (Zone < 0 => \E i \in DOMAIN log: i > Last /\ i \notin Wrong /\ log[i].stamp < Tb)
     => Wrong' = Mistaken
FixHelps == [][FixStep]_vars

(* Not so: of an early boot no right record is spoilt. East of Greenwich one that
   was written when the clock, right by then, showed what it had at the boot is
   moved too.                                                              *)
NoneSpoilt == [][FixRecords /\ err = 0 /\ Last \in Wrong => Wrong' \subseteq Wrong]_vars

(* Not so: "A second -u then finds nothing." It does on a machine where nobody
   has logged in for as long as the zone is off.                           *)
SecondNothing == [][FixRecords /\ err = 0 /\ Wrong = {} => log' = log]_vars
=============================================================================
