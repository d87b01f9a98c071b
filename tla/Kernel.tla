------------------------------- MODULE Kernel -------------------------------
(***************************************************************************)
(* Parts of the loader beside its core (DlmCore): registration, opens,     *)
(* linking, the exec and STREAMS module switches, boot modules, the        *)
(* kernel's symbol table; and of the drivers: the USB stack's storage,     *)
(* keyboard and mouse, and configuration code, its controller's FIFO, the NetUSBee driver's       *)
(* message blocks, the DaynaPORT driver; and the gate for AMIX's programs. None touches another's state: a   *)
(* behaviour is one of one part, the others staying as they began. Each    *)
(* part's bounds are here.                                                 *)
(***************************************************************************)
EXTENDS Integers, Sequences, FiniteSets, TLC

CONSTANTS o1, o2, o3   \* the processes of DlmOpen

VARIABLES
  part,
  ext, cs, sd, rpr,  \* DlmRegister
  ost, linked, orefs, oincall, set, good, opens, left, opr,  \* DlmOpen
  file, deps, pc, bufs, ls, size, tab, img,  \* DlmLd
  kind, loaded, refs, incall, stays, stuck, rows, slots, frows, st, pr, loads,  \* DlmLinks
  bm, mem, call, calls,  \* DlmBoot
  image, ksym, whole, check, up, ans, runs,  \* KSym
  cmd, op, stor, tag, sdev, halted, apart, hurt, cmds, faults,  \* UbStor
  plugged, held, due, old, mouse, mold, hring, seen, spoilt,  \* UbHid
  cdev, cpc, cfgbuf, config, epmaxpacket, came, sent, langid, str, cout, rounds, shorts, clost,  \* UsbConf
  board, swap, fmem, fjob, fifo, fcount, latch, spl7, first, got, flost,  \* IspFifo
  own, cont, min, ntold, nans, nomem,  \* NuDlpi
  dp, dmin, qptr, pollq, enab, timers, running, dloaded, dpr, sync, ad, nf, dfaults,  \* Dp
  uctab, ucnext, acalls, apr, stk, mask, asked, regs, abufs, alost, aleft, redone, amask  \* Amx

(* Two majors for character drivers, two for STREAMS drivers (one slot for them); 54
   is a driver's of the kernel's own *)
TheDriver == "a" :> <<"cdev", 50>> @@ "b" :> <<"cdev", 51>> @@ "c" :> <<"sdev", 52>> @@ "d" :> <<"sdev", 53>>
TheAsks == ({"cdev"} \X {"a", "b"} \X {50, 51}) \cup ({"sdev"} \X {"c", "d"} \X {52, 53}) \cup {<<"cdev", "a", 54>>}
Reg == INSTANCE DlmRegister WITH pr <- rpr, Procs <- {"p", "q"}, Names <- DOMAIN TheDriver, NoName <- "none", Exts <- 50 .. 54,
         NoExt <- 0, Static <- {54}, NSpare <- 3, SdSlots <- {1}, Asks <- TheAsks, Driver <- TheDriver
Open == INSTANCE DlmOpen WITH st <- ost, refs <- orefs, incall <- oincall, pr <- opr, Procs <- {o1, o2, o3}, Devs <- {"d1", "d2"},
         Layered <- "l", Streams <- {"s"}, Images <- {"x"}, NOpen <- 1, NoKey <- "none", MaxLost <- 1,
         MaxOpens <- 2, CloseSleeps <- TRUE
(* The linker's files: every layout of up to two sections and a common, one relocation
   of each kind, and every sequence of up to three symbols of two names, but for
   names that are common and anything but local elsewhere, or weak twice, then global *)
TheHash == "a" :> 1 @@ "b" :> 3
TheBits == 1 :> 2 @@ 2 :> 3 @@ 4 :> 5
SeqsUpTo(U, n) == UNION {[1 .. k -> U]: k \in 0 .. n}
File(s, y, r) == [secs |-> s, syms |-> y, rels |-> r]
Sec(k, n, a) == [kind |-> k, size |-> n, align |-> a]
Sym(x, b, t, n, a) == [name |-> x, bind |-> b, at |-> t, size |-> n, align |-> a]
Rel(s, o, n, p, y, a) == [sec |-> s, off |-> o, bytes |-> n, pc |-> p, sym |-> y, addend |-> a]
TheSyms ==
  {Sym(x, b, t, 0, 0): x \in {"a", "b"}, b \in {"global", "weak"}, t \in {"undef", "sec"}}
  \cup {Sym("a", "local", "sec", 0, 0), Sym("a", "global", "abs", 0, 0), Sym("b", "global", "debug", 0, 0)}
  \cup {Sym(x, "global", "common", 1 + k, k): x \in {"a", "b"}, k \in {0, 2}}
Usual(q) ==
  /\ \A i, j \in DOMAIN q: i # j /\ q[i].at = "common" /\ q[i].name = q[j].name => q[j].bind = "local"
  /\ \A i, j, k \in DOMAIN q: i < j /\ j < k /\ q[i].name = q[j].name /\ q[j].name = q[k].name
       => ~(q[i].bind = "weak" /\ q[j].bind = "weak" /\ q[k].bind = "global")
Layouts ==
  LET secs == {Sec(k, n, a): k \in {"progbits", "debug"}, n \in {0, 1, 3}, a \in {0, 4}}
                \cup {Sec("nobits", 3, 4), Sec("progbits", 1, 3), Sec("other", 1, 0)}
  IN {File(s, <<Sym("a", "global", "common", 3, al)>>, <<>>): s \in SeqsUpTo(secs, 2), al \in {1, 3, 4}}
RelFiles ==
  {File(<<Sec("progbits", 4, 0), Sec("nobits", 4, 0), Sec("debug", 4, 0)>>, <<Sym("a", "global", t, 0, 0)>>,
        <<Rel(s, o, n, p, y, a)>>):
     t \in {"sec", "debug"}, s \in 1 .. 3, o \in {0, 3}, n \in {1, 2, 4}, p \in BOOLEAN, y \in 0 .. 2,
     a \in {0, 1, 3, 4, 7, 15, 16, 25, 29, 31}}
None == <<{}, {}, {}>>
TheInputs ==
  [file: Layouts \cup RelFiles, deps: {None}]
  \cup [file: {File(<<Sec("progbits", 3, 2)>>, y, <<>>): y \in {q \in SeqsUpTo(TheSyms, 3): Usual(q)}},
        deps: {<<{"a"}, {"a"}, {"a"}>>, <<{"a"}, {}, {"a"}>>, <<{}, {}, {"a"}>>, None}]
Ld == INSTANCE DlmLd WITH held <- bufs, Names <- {"a", "b"}, Inputs <- TheInputs, MaxImage <- 10, Hash <- TheHash, Buckets <- 2,
         Bits <- TheBits, Base <- 7, Min <- 2
Links == INSTANCE DlmLinks WITH Kinds <- {"exec", "str"}, Mods <- {"m1", "m2", "m3"},
         StrName <- "m1" :> "x" @@ "m2" :> "x" @@ "m3" :> "y", Procs <- {"p1", "p2"},
         Magics <- {"a", "b", "c"}, Stock <- <<"a", "b">>, Slots <- 2, Reserve <- 2, Streams <- {"s1", "s2"},
         MaxLoads <- 3, MaxLost <- 1
TheRanges == {[lo |-> l, hi |-> h, copy |-> c]: l \in {0, 4}, h \in {4, 8, 12}, c \in BOOLEAN}
               \ {[lo |-> 4, hi |-> 4, copy |-> c]: c \in BOOLEAN}
Boot == INSTANCE DlmBoot WITH Last <- 13, Sizes <- {1, 4, 6}, Places <- {0, 4, 8, 12}, Across <- FALSE, MaxMods <- 3, Grain <- 4,
         Ranges <- TheRanges, MaxCalls <- 2
S(n, v, b, k) == [name |-> n, val |-> v, bind |-> b, kind |-> k]
TheImages == {
  [lo |-> 1, hi |-> 6, syms |-> <<S(1, 2, "local", 0), S(3, 5, "global", 0), S(1, 4, "global", 0), S(2, 3, "weak", 0)>>],
  [lo |-> 2, hi |-> 7, syms |-> <<S(3, 6, "local", 1), S(2, 2, "global", 0), S(1, 3, "global", 0)>>]}
KTab == INSTANCE KSym WITH Images <- TheImages, Hash <- <<2, 5, 4>>, Least <- 2, Space <- 38, MaxRuns <- 2
Stor == INSTANCE UbStor WITH dev <- sdev, Tries <- 2, MaxCmds <- 2, MaxFaults <- 2
Hid == INSTANCE UbHid WITH ring <- hring, Kbds <- {"k1"}, Mods <- {"rshift"}, Keys <- {"end"}, Slots <- 1, OutSize <- 5,
         RingSize <- 4, Wheel <- 1, MaxMoves <- 1
Ep(d, n, m) == [t |-> "ep", dir |-> d, num |-> n, max |-> m]
TheDevices == {
  [ifs |-> <<[n |-> 0, alts |-> << <<Ep("in", 1, 8)>> >>]>>, text |-> <<"a">>, blank |-> TRUE],
  [ifs |-> <<[n |-> 0, alts |-> << <<Ep("in", 1, 64), Ep("out", 1, 64)>> >>],
             [n |-> 1, alts |-> << <<Ep("in", 2, 8)>>, <<Ep("in", 2, 16), Ep("out", 2, 16)>> >>]>>,
   text |-> <<"a", "w", "b">>, blank |-> FALSE],
  [ifs |-> <<[n |-> 0, alts |-> << <<>>, <<Ep("in", 1, 32)>> >>], [n |-> 1, alts |-> << <<Ep("out", 3, 64)>> >>]>>,
   text |-> <<"w", "a">>, blank |-> TRUE],
  [ifs |-> <<[n |-> 0, alts |-> <<[k \in 1 .. 9 |-> Ep("in", k, 8)]>>]>>, text |-> <<"a">>, blank |-> FALSE]}
Conf == INSTANCE UsbConf WITH dev <- cdev, pc <- cpc, whole <- came, lost <- clost, out <- cout, Devices <- TheDevices,
         BufSize <- 9, Rooms <- {2, 8}, MaxRounds <- 2, MaxShort <- 1, MaxLost <- 1
Fifo == INSTANCE IspFifo WITH mem <- fmem, job <- fjob, count <- fcount, lost <- flost, Buffers <- {1, 2}, MaxLen <- 7, MaxParts <- 3,
         Memory <- 0 .. 10
Dlpi == INSTANCE NuDlpi WITH told <- ntold, ans <- nans, Blocks <- 1 .. 6, Minors <- {1}, Saps <- {1}, MaxNoMem <- 1
Net == INSTANCE Dp WITH d <- dp, min <- dmin, loaded <- dloaded, pr <- dpr, faults <- dfaults, Procs <- {"p"},
         NoProc <- "none", Streams <- {"ip", "arp"}, NoQ <- "none", NMinor <- 2, Saps <- {2048}, NoSap <- 0,
         Bad <- {2}, MaxFrames <- 4, MaxFaults <- 1, MaxErrs <- 2, Retries <- 1, Flushes <- TRUE
AC(f, n, i, o) == [fn |-> f, n |-> n, in |-> i, out |-> o]
TheCalls == {
  AC("sigprocmask", 3, TRUE, FALSE), AC("waitsys", 4, FALSE, TRUE), AC("getcontext", 2, FALSE, TRUE),
  AC("setcontext", 2, TRUE, FALSE), AC("fork", 0, FALSE, FALSE), AC("exec", 3, FALSE, FALSE), AC("exit", 1, FALSE, FALSE)}
Gate == INSTANCE Amx WITH amx_uctab <- uctab, amx_ucnext <- ucnext, amx_calls <- acalls, pr <- apr, bufs <- abufs,
         lost <- alost, left <- aleft, first <- amask, Procs <- {"p", "q"}, NoProc <- "none", NUc <- 2, Calls <- TheCalls, Sigs <- {21},
         Inherits <- {{}, {21}}, MaxCalls <- 3, MaxDepth <- 2

ASSUME Reg!RegisterAssumption
ASSUME Open!OpenAssumption
ASSUME Links!LinksAssumption
ASSUME Stor!UbStorAssumption
ASSUME Fifo!FifoAssumption

reg_vars == <<ext, cs, sd, rpr>>
open_vars == <<ost, linked, orefs, oincall, set, good, opens, left, opr>>
ld_vars == <<file, deps, pc, bufs, ls, size, tab, img>>
links_vars == <<kind, loaded, refs, incall, stays, stuck, rows, slots, frows, st, pr, loads>>
boot_vars == <<bm, mem, call, calls>>
ksym_vars == <<image, ksym, whole, check, up, ans, runs>>
stor_vars == <<cmd, op, stor, tag, sdev, halted, apart, hurt, cmds, faults>>
hid_vars == <<plugged, held, due, old, mouse, mold, hring, seen, spoilt>>
conf_vars == <<cdev, cpc, cfgbuf, config, epmaxpacket, came, sent, langid, str, cout, rounds, shorts, clost>>
fifo_vars == <<board, swap, fmem, fjob, fifo, fcount, latch, spl7, first, got, flost>>
dlpi_vars == <<own, cont, min, ntold, nans, nomem>>
dp_vars == <<dp, dmin, qptr, pollq, enab, timers, running, dloaded, dpr, sync, ad, nf, dfaults>>
amx_vars == <<uctab, ucnext, acalls, apr, stk, mask, asked, regs, abufs, alost, aleft, redone, amask>>
vars == <<part, reg_vars, open_vars, ld_vars, links_vars, boot_vars, ksym_vars, stor_vars, hid_vars, conf_vars, fifo_vars, dlpi_vars, dp_vars, amx_vars>>

(* A part that is not the behaviour's *)
RegOff == ext = 0 /\ cs = 0 /\ sd = 0 /\ rpr = 0
OpenOff == ost = 0 /\ linked = 0 /\ orefs = 0 /\ oincall = 0 /\ set = 0 /\ good = 0 /\ opens = 0 /\ left = 0 /\
  opr = 0
LdOff == file = 0 /\ deps = 0 /\ pc = 0 /\ bufs = 0 /\ ls = 0 /\ size = 0 /\ tab = 0 /\ img = 0
LinksOff == kind = 0 /\ loaded = 0 /\ refs = 0 /\ incall = 0 /\ stays = 0 /\ stuck = 0 /\ rows = 0 /\ slots = 0 /\ frows = 0 /\ st = 0 /\
  pr = 0 /\ loads = 0
BootOff == bm = 0 /\ mem = 0 /\ call = 0 /\ calls = 0
KTabOff == image = 0 /\ ksym = 0 /\ whole = 0 /\ check = 0 /\ up = 0 /\ ans = 0 /\ runs = 0
StorOff == cmd = 0 /\ op = 0 /\ stor = 0 /\ tag = 0 /\ sdev = 0 /\ halted = 0 /\ apart = 0 /\ hurt = 0 /\
  cmds = 0 /\ faults = 0
HidOff == plugged = 0 /\ held = 0 /\ due = 0 /\ old = 0 /\ mouse = 0 /\ mold = 0 /\ hring = 0 /\ seen = 0 /\
  spoilt = 0
ConfOff == cdev = 0 /\ cpc = 0 /\ cfgbuf = 0 /\ config = 0 /\ epmaxpacket = 0 /\ came = 0 /\ sent = 0 /\
  langid = 0 /\ str = 0 /\ cout = 0 /\ rounds = 0 /\ shorts = 0 /\ clost = 0
FifoOff == board = 0 /\ swap = 0 /\ fmem = 0 /\ fjob = 0 /\ fifo = 0 /\ fcount = 0 /\ latch = 0 /\
  spl7 = 0 /\ first = 0 /\ got = 0 /\ flost = 0
DlpiOff == own = 0 /\ cont = 0 /\ min = 0 /\ ntold = 0 /\ nans = 0 /\ nomem = 0
NetOff == dp = 0 /\ dmin = 0 /\ qptr = 0 /\ pollq = 0 /\ enab = 0 /\ timers = 0 /\ running = 0 /\
  dloaded = 0 /\ dpr = 0 /\ sync = 0 /\ ad = 0 /\ nf = 0 /\ dfaults = 0
GateOff == uctab = 0 /\ ucnext = 0 /\ acalls = 0 /\ apr = 0 /\ stk = 0 /\ mask = 0 /\ asked = 0 /\ regs = 0 /\
  abufs = 0 /\ alost = 0 /\ aleft = 0 /\ redone = 0 /\ amask = 0
Init ==
  \/ part = "reg" /\ Reg!Init /\ OpenOff /\ LdOff /\ LinksOff /\ BootOff /\ KTabOff /\ StorOff /\ HidOff /\
     ConfOff /\ FifoOff /\ DlpiOff /\ NetOff /\ GateOff
  \/ part = "open" /\ Open!Init /\ RegOff /\ LdOff /\ LinksOff /\ BootOff /\ KTabOff /\ StorOff /\ HidOff /\
     ConfOff /\ FifoOff /\ DlpiOff /\ NetOff /\ GateOff
  \/ part = "ld" /\ Ld!Init /\ RegOff /\ OpenOff /\ LinksOff /\ BootOff /\ KTabOff /\ StorOff /\ HidOff /\
     ConfOff /\ FifoOff /\ DlpiOff /\ NetOff /\ GateOff
  \/ part = "links" /\ Links!Init /\ RegOff /\ OpenOff /\ LdOff /\ BootOff /\ KTabOff /\ StorOff /\ HidOff /\
     ConfOff /\ FifoOff /\ DlpiOff /\ NetOff /\ GateOff
  \/ part = "boot" /\ Boot!Init /\ RegOff /\ OpenOff /\ LdOff /\ LinksOff /\ KTabOff /\ StorOff /\ HidOff /\
     ConfOff /\ FifoOff /\ DlpiOff /\ NetOff /\ GateOff
  \/ part = "ksym" /\ KTab!Init /\ RegOff /\ OpenOff /\ LdOff /\ LinksOff /\ BootOff /\ StorOff /\ HidOff /\
     ConfOff /\ FifoOff /\ DlpiOff /\ NetOff /\ GateOff
  \/ part = "stor" /\ Stor!Init /\ RegOff /\ OpenOff /\ LdOff /\ LinksOff /\ BootOff /\ KTabOff /\ HidOff /\
     ConfOff /\ FifoOff /\ DlpiOff /\ NetOff /\ GateOff
  \/ part = "hid" /\ Hid!Init /\ RegOff /\ OpenOff /\ LdOff /\ LinksOff /\ BootOff /\ KTabOff /\ StorOff /\
     ConfOff /\ FifoOff /\ DlpiOff /\ NetOff /\ GateOff
  \/ part = "conf" /\ Conf!Init /\ RegOff /\ OpenOff /\ LdOff /\ LinksOff /\ BootOff /\ KTabOff /\ StorOff /\
     HidOff /\ FifoOff /\ DlpiOff /\ NetOff /\ GateOff
  \/ part = "fifo" /\ Fifo!Init /\ RegOff /\ OpenOff /\ LdOff /\ LinksOff /\ BootOff /\ KTabOff /\ StorOff /\
     HidOff /\ ConfOff /\ DlpiOff /\ NetOff /\ GateOff
  \/ part = "dlpi" /\ Dlpi!Init /\ RegOff /\ OpenOff /\ LdOff /\ LinksOff /\ BootOff /\ KTabOff /\ StorOff /\
     HidOff /\ ConfOff /\ FifoOff /\ NetOff /\ GateOff
  \/ part = "dp" /\ Net!Init /\ RegOff /\ OpenOff /\ LdOff /\ LinksOff /\ BootOff /\ KTabOff /\ StorOff /\
     HidOff /\ ConfOff /\ FifoOff /\ DlpiOff /\ GateOff
  \/ part = "amx" /\ Gate!Init /\ RegOff /\ OpenOff /\ LdOff /\ LinksOff /\ BootOff /\ KTabOff /\ StorOff /\ HidOff /\
     ConfOff /\ FifoOff /\ DlpiOff /\ NetOff

Next ==
  \/ part = "reg" /\ Reg!Next /\ UNCHANGED <<part, open_vars, ld_vars, links_vars, boot_vars, ksym_vars, stor_vars, hid_vars, conf_vars, fifo_vars, dlpi_vars, dp_vars, amx_vars>>
  \/ part = "open" /\ Open!Next /\ UNCHANGED <<part, reg_vars, ld_vars, links_vars, boot_vars, ksym_vars, stor_vars, hid_vars, conf_vars, fifo_vars, dlpi_vars, dp_vars, amx_vars>>
  \/ part = "ld" /\ Ld!Next /\ UNCHANGED <<part, reg_vars, open_vars, links_vars, boot_vars, ksym_vars, stor_vars, hid_vars, conf_vars, fifo_vars, dlpi_vars, dp_vars, amx_vars>>
  \/ part = "links" /\ Links!Next /\ UNCHANGED <<part, reg_vars, open_vars, ld_vars, boot_vars, ksym_vars, stor_vars, hid_vars, conf_vars, fifo_vars, dlpi_vars, dp_vars, amx_vars>>
  \/ part = "boot" /\ Boot!Next /\ UNCHANGED <<part, reg_vars, open_vars, ld_vars, links_vars, ksym_vars, stor_vars, hid_vars, conf_vars, fifo_vars, dlpi_vars, dp_vars, amx_vars>>
  \/ part = "ksym" /\ KTab!Next /\ UNCHANGED <<part, reg_vars, open_vars, ld_vars, links_vars, boot_vars, stor_vars, hid_vars, conf_vars, fifo_vars, dlpi_vars, dp_vars, amx_vars>>
  \/ part = "stor" /\ Stor!Next /\ UNCHANGED <<part, reg_vars, open_vars, ld_vars, links_vars, boot_vars, ksym_vars, hid_vars, conf_vars, fifo_vars, dlpi_vars, dp_vars, amx_vars>>
  \/ part = "hid" /\ Hid!Next /\ UNCHANGED <<part, reg_vars, open_vars, ld_vars, links_vars, boot_vars, ksym_vars, stor_vars, conf_vars, fifo_vars, dlpi_vars, dp_vars, amx_vars>>
  \/ part = "conf" /\ Conf!Next /\ UNCHANGED <<part, reg_vars, open_vars, ld_vars, links_vars, boot_vars, ksym_vars, stor_vars, hid_vars, fifo_vars, dlpi_vars, dp_vars, amx_vars>>
  \/ part = "fifo" /\ Fifo!Next /\ UNCHANGED <<part, reg_vars, open_vars, ld_vars, links_vars, boot_vars, ksym_vars, stor_vars, hid_vars, conf_vars, dlpi_vars, dp_vars, amx_vars>>
  \/ part = "dlpi" /\ Dlpi!Next /\ UNCHANGED <<part, reg_vars, open_vars, ld_vars, links_vars, boot_vars, ksym_vars, stor_vars, hid_vars, conf_vars, fifo_vars, dp_vars, amx_vars>>
  \/ part = "dp" /\ Net!Next /\ UNCHANGED <<part, reg_vars, open_vars, ld_vars, links_vars, boot_vars, ksym_vars, stor_vars, hid_vars, conf_vars, fifo_vars, dlpi_vars, amx_vars>>
  \/ part = "amx" /\ Gate!Next /\ UNCHANGED <<part, reg_vars, open_vars, ld_vars, links_vars, boot_vars, ksym_vars, stor_vars, hid_vars, conf_vars, fifo_vars, dlpi_vars, dp_vars>>
Symmetric == Permutations({o1, o2, o3})
Spec == Init /\ [][Next]_vars

-----------------------------------------------------------------------------
(* Each part's variables have their types. *)
TypeOK ==
  /\ part = "reg" => Reg!TypeOK
  /\ part = "open" => Open!TypeOK
  /\ part = "ld" => Ld!TypeOK
  /\ part = "links" => Links!TypeOK
  /\ part = "boot" => Boot!TypeOK
  /\ part = "ksym" => KTab!TypeOK
  /\ part = "stor" => Stor!TypeOK
  /\ part = "hid" => Hid!TypeOK
  /\ part = "conf" => Conf!TypeOK
  /\ part = "fifo" => Fifo!TypeOK
  /\ part = "dlpi" => Dlpi!TypeOK
  /\ part = "dp" => Net!TypeOK
  /\ part = "amx" => Gate!TypeOK

(* A registered slot is on a row its major reaches, no row is lost, and a slot's
   module is the one that owns it; a module in use or with a call in it stays loaded,
   each hold has one reason, the last close leaves the module free but for what
   signals left, and an image nobody takes is shown to its stock row wherever the
   rows have moved. (dlm_slot.c, dlm_creg, dlm_cdev_open, dlm_cdev_close, xcall,
   xnext, dlm_xreg; dlm_str.c, dlm_sreg; dlm_asv.c)                        *)
ModulesHeld ==
  /\ part = "reg" => Reg!SlotReached /\ Reg!RowsUsed /\ Reg!LinkOwn
  /\ part = "open" => Open!UsedLoaded /\ Open!HoldsExact /\ Open!CleanCloseFrees /\ Open!SetIsOpen
  /\ part = "links" => Links!RunsLoaded /\ Links!HoldsExact /\ Links!CallsExact /\ Links!StockTried

(* What a registration was granted, no registration of another takes back.
   (dlm_creg, dlm_sreg)                                                    *)
RegistrationKept == [][part = "reg" => Reg!KeptStep]_vars

(* An image's sections and commons lie apart and aligned, a reference goes to the
   definition the rules give it, a field holds its value or the link fails, the
   table finds each name, and no buffer outlives the link; a boot module that was
   moved has the bytes the boot loader read; the kernel's table answers each name
   with its symbol and each address with the nearest. (dlm_ld.c, dlm_sym.c,
   dlm_boot.c; mkksym.c)                                                   *)
LinkedRight ==
  /\ part = "ld" => Ld!BuffersFreed /\ Ld!Placed /\ Ld!Resolves /\ Ld!TableFinds /\ Ld!FieldsHold
  /\ part = "boot" => Boot!Intact
  /\ part = "ksym" => KTab!NamesFound /\ KTab!AddressNamed

(* Storage commands take the status that is theirs and keep to the phases the device
   is in; what the stack keeps of a device's descriptors is what the device said,
   under short and failing reads; the bytes of a job go through the controller's FIFO
   whole and in order; what the reader of /dev/ikbd takes to be down is,
   and what the mouse moved has arrived, once all is read and nothing was lost; every
   message block has one owner, whichever allocations fail; the DaynaPORT has one
   command at a time and its streams what Dp says they are promised; an AMIX program
   returns by each context as it is, has its registers and its mask back, and no
   buffer outlives a call. (ubstor.c, ub_scsi;
   usb.c, usb_parse_config, usb_string; isp116x.c,
   write_ptddata_to_fifo, read_ptddata_from_fifo; ubhid.c, hid_kbd, hid_mouse; nu.c,
   en_proto; dp.c; amx.c)                                                      *)
DriversSound ==
  /\ part = "stor" => Stor!StatusOwn /\ Stor!InStep
  /\ part = "conf" => Conf!ConfigIs /\ Conf!OnlySeveral /\ Conf!StringIs
  /\ part = "hid" => Hid!KeysMatch /\ Hid!MouseMatches
  /\ part = "fifo" => Fifo!BytesMove
  /\ part = "dlpi" => Dlpi!OneOwner
  /\ part = "dp" => Net!CommandSound /\ Net!StreamsSound
  /\ part = "amx" => /\ Gate!BuffersFreed /\ Gate!TableSound /\ Gate!ContextsRight /\ Gate!RegsBack
                     /\ Gate!MaskRight /\ (acalls = 0 => Gate!SignalsBack)
=============================================================================
