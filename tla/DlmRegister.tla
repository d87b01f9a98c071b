---------------------------- MODULE DlmRegister ----------------------------
(***************************************************************************)
(* Driver registration on Atari System V: modadm's MOD_TY_CDEV and         *)
(* MOD_TY_SDEV (dlm_creg of src/dlm/upstream/dlm_slot.c and dlm_sreg of    *)
(* dlm_str.c, as asv.patch changes them), the spare switch rows            *)
(* (src/dlm/asv/dlm_asv.c), and the linkage that puts a driver module into *)
(* the row its major was given (drv_install, dlm_sdev_install).            *)
(*                                                                         *)
(* A character major reaches a switch row through MAJOR[]; a registration  *)
(* points the major at a spare row and puts a slot with the module's name  *)
(* on it.  dlm_creg allocates its slot and may sleep there; dlm_sreg takes *)
(* one of a few static slots and does not sleep.                           *)
(***************************************************************************)
EXTENDS Naturals, FiniteSets

CONSTANTS
  Procs,     \* processes
  Names,     \* module names
  NoName,    \* no name
  Exts,      \* external majors
  NoExt,     \* spare_ext[i] < 0
  Static,    \* majors of drivers configured into the kernel
  NSpare,    \* spare rows, 1 .. NSpare
  SdSlots,   \* slots of STREAMS drivers
  Asks,      \* the registrations a process may ask for: <<kind, name, major>>
  Driver     \* Driver[n]: the kind and the major in module n's own data

Kinds == {"cdev", "sdev"}

RegisterAssumption ==
  /\ NoName \notin Names /\ NoExt \notin Exts
  /\ Static \subseteq Exts /\ NSpare \in Nat
  /\ Asks \subseteq Kinds \X Names \X Exts
  /\ Driver \in [Names -> Kinds \X Exts]

VARIABLES
  ext,   \* spare_ext: the major each spare row serves, or NoExt
  cs,    \* the dlm_cslot on a row; for is the major it was asked for
  sd,    \* sds[]
  pr     \* the processes in dlm_creg's dlm_zalloc

vars == <<ext, cs, sd, pr>>

Rows == 1 .. NSpare

(* The slots' names, the major asked for (kept for the properties only)    *)
(* and the linked module, cs_mod and sd_mod.                               *)
CSlot == [name: Names \cup {NoName}, for: Exts \cup {NoExt},
          mod: Names \cup {NoName}]
SSlot == [name: Names \cup {NoName}, for: Exts \cup {NoExt},
          mod: Names \cup {NoName}, row: Rows \cup {0}]
NoCSlot == [name |-> NoName, for |-> NoExt, mod |-> NoName]
NoSSlot == [name |-> NoName, for |-> NoExt, mod |-> NoName, row |-> 0]

Out == [pc |-> "user", name |-> NoName, for |-> NoExt, row |-> 0]

TypeOK ==
  /\ ext \in [Rows -> (Exts \ Static) \cup {NoExt}]
  /\ cs \in [Rows -> CSlot]
  /\ sd \in [SdSlots -> SSlot]
  /\ pr \in [Procs -> [pc: {"user", "alloc"}, name: Names \cup {NoName},
                       for: Exts \cup {NoExt}, row: Rows \cup {0}]]

(* dlminit: every placeholder's row is free                                *)
Init ==
  /\ ext = [r \in Rows |-> NoExt]
  /\ cs = [r \in Rows |-> NoCSlot]
  /\ sd = [k \in SdSlots |-> NoSSlot]
  /\ pr = [p \in Procs |-> Out]

-----------------------------------------------------------------------------
(* dlm_asv_row: the row a major has, or the first free one                 *)
(* (mutant: a static driver's major is given a row)                        *)
RowsOf(e) == {r \in Rows : ext[r] = e}
FreeRows == {r \in Rows : ext[r] = NoExt}
HasRowOrStatic(e) == RowsOf(e) # {} \/ FreeRows # {}
HasRow(e) == e \notin Static /\ (RowsOf(e) # {} \/ FreeRows # {})
AsvRow(e) ==
  LET from == IF RowsOf(e) # {} THEN RowsOf(e) ELSE FreeRows
  IN  CHOOSE r \in from : \A o \in from : r <= o
TakenRow(e) == [ext EXCEPT ![AsvRow(e)] = e]

(* dlm_asv_unrow *)
Unrow(f, r) == [f EXCEPT ![r] = NoExt]

SdOn(r) == {k \in SdSlots : sd[k].name # NoName /\ sd[k].row = r}
FreeSd == {k \in SdSlots : sd[k].name = NoName}

(* cempty: no trampolines of either kind on the row                        *)
Empty(r) == cs[r].name = NoName /\ SdOn(r) = {}

(* dlm_creg up to its allocation: a row that has a slot, of this or of     *)
(* another name, ends the call; so does a row with a STREAMS driver.       *)
Creg(p, n, e) ==
  /\ pr[p].pc = "user" /\ <<"cdev", n, e>> \in Asks
  /\ HasRow(e)
  /\ ext' = TakenRow(e)
  /\ pr' = IF Empty(AsvRow(e))
           THEN [pr EXCEPT ![p] = [pc |-> "alloc", name |-> n, for |-> e,
                                   row |-> AsvRow(e)]]
           ELSE pr
  /\ UNCHANGED <<cs, sd>>

(* mutant: a failed registration frees the row whoever has it              *)
CregResumesUnrows(p) ==
  LET r == pr[p].row
  IN  /\ pr[p].pc = "alloc"
      /\ pr' = [pr EXCEPT ![p] = Out]
      /\ IF Empty(r)
         THEN /\ cs' = [cs EXCEPT ![r] = [name |-> pr[p].name, for |-> pr[p].for,
                                          mod |-> NoName]]
              /\ UNCHANGED ext
         ELSE UNCHANGED cs /\ ext' = Unrow(ext, r)
      /\ UNCHANGED sd

(* and after it: the row is looked at again, and given back when the call  *)
(* fails and no slot of this kind is on it                                 *)
CregResumes(p) ==
  LET r == pr[p].row
  IN  /\ pr[p].pc = "alloc"
      /\ pr' = [pr EXCEPT ![p] = Out]
      /\ IF Empty(r)
         THEN /\ cs' = [cs EXCEPT ![r] = [name |-> pr[p].name, for |-> pr[p].for,
                                          mod |-> NoName]]
              /\ UNCHANGED ext
         ELSE /\ UNCHANGED cs
              /\ ext' = IF cs[r].name = NoName THEN Unrow(ext, r) ELSE ext
      /\ UNCHANGED sd

(* mutant: no slot left, and the row is kept                               *)
SregKeepsRow(p, n, e) ==
  /\ pr[p].pc = "user" /\ <<"sdev", n, e>> \in Asks
  /\ HasRow(e)
  /\ LET r == AsvRow(e)
     IN  /\ ext' = TakenRow(e)
         /\ IF Empty(r) /\ FreeSd # {}
            THEN \E k \in FreeSd : sd' = [sd EXCEPT ![k] =
                   [name |-> n, for |-> e, mod |-> NoName, row |-> r]]
            ELSE sd' = sd
  /\ UNCHANGED <<cs, pr>>

Sreg(p, n, e) ==
  /\ pr[p].pc = "user" /\ <<"sdev", n, e>> \in Asks
  /\ HasRow(e)
  /\ LET r == AsvRow(e)
     IN  \/ ~Empty(r) /\ ext' = TakenRow(e) /\ UNCHANGED sd
         \/ /\ Empty(r) /\ FreeSd = {}
            /\ ext' = Unrow(TakenRow(e), r)
            /\ UNCHANGED sd
         \/ \E k \in FreeSd :
              /\ Empty(r)
              /\ ext' = TakenRow(e)
              /\ sd' = [sd EXCEPT ![k] = [name |-> n, for |-> e, mod |-> NoName,
                                          row |-> r]]
  /\ UNCHANGED <<cs, pr>>

(* mutant: whoever asks first gets the row                                 *)
MayLinkAnyone(n, name, linked) == linked \in {NoName, n}
(* the test of both linkages on a slot                                     *)
MayLink(n, name, linked) == name = n /\ linked \in {NoName, n}

(* drv_install of module n, and dlm_sdev_install for a STREAMS driver,     *)
(* through MAJOR[]; a module whose row is not its own is refused           *)
InstallC(n, r) ==
  /\ Driver[n][1] = "cdev" /\ cs[r].name # NoName
  /\ MayLink(n, cs[r].name, cs[r].mod)
  /\ cs' = [cs EXCEPT ![r].mod = n]
  /\ UNCHANGED sd
InstallS(n, r) ==
  /\ Driver[n][1] = "sdev"
  /\ \E k \in SdOn(r) :
       /\ MayLink(n, sd[k].name, sd[k].mod)
       /\ sd' = [sd EXCEPT ![k].mod = n]
  /\ UNCHANGED cs
Install(n) ==
  LET e == Driver[n][2]
  IN  /\ RowsOf(e) # {}
      /\ InstallC(n, AsvRow(e)) \/ InstallS(n, AsvRow(e))
      /\ UNCHANGED <<ext, pr>>

(* cplace, sdplace: the slot's row has the trampolines, and no module      *)
PlacedC(slot) == [slot EXCEPT !.mod = NoName]
PlacedS(slot) == [slot EXCEPT !.mod = NoName]

(* drv_remove and dlm_sdev_remove: by the module, wherever it is linked    *)
Linked(n) == (\E r \in Rows : cs[r].mod = n) \/ (\E k \in SdSlots : sd[k].mod = n)
SdevRemove(n) == sd' = [k \in SdSlots |-> IF sd[k].mod = n THEN PlacedS(sd[k]) ELSE sd[k]]
Remove(n) ==
  /\ Linked(n) /\ SdevRemove(n)
  /\ cs' = [r \in Rows |-> IF cs[r].mod = n THEN PlacedC(cs[r]) ELSE cs[r]]
  /\ UNCHANGED <<ext, pr>>

Next ==
  \/ \E p \in Procs : CregResumes(p)
  \/ \E p \in Procs, n \in Names, e \in Exts : Creg(p, n, e) \/ Sreg(p, n, e)
  \/ \E n \in Names : Install(n) \/ Remove(n)

Spec == Init /\ [][Next]_vars
-----------------------------------------------------------------------------
(* Properties                                                              *)

(* A slot is on a row that its major reaches: a registration that was      *)
(* reported done is never on a row taken back, or given to another major,  *)
(* by a call that was asleep meanwhile (dlm_asv.c:9-12).                   *)
SlotReached ==
  /\ \A r \in Rows : cs[r].name # NoName => ext[r] = cs[r].for
  /\ \A k \in SdSlots : sd[k].name # NoName => ext[sd[k].row] = sd[k].for

(* A row a major points at has a slot, or a registration on its way: the   *)
(* few spare rows are not used up by registrations that fail.              *)
RowsUsed ==
  \A r \in Rows : ext[r] # NoExt =>
    ~Empty(r) \/ \E p \in Procs : pr[p].pc = "alloc" /\ pr[p].row = r

(* Once a module's name is registered for a major, opens of that major go  *)
(* to its slot for ever: there is no way to unregister.                    *)
Serves(n, e) ==
  \E r \in RowsOf(e) : cs[r].name = n \/ \E k \in SdOn(r) : sd[k].name = n
KeptStep ==
  \A n \in Names, e \in Exts : Serves(n, e) => Serves(n, e)'

(* A module is linked only into a row that the major of its own data       *)
(* reaches, under its own name, and one row has one kind of slot.          *)
LinkOwn ==
  /\ \A r \in Rows : cs[r].mod # NoName =>
       cs[r].name = cs[r].mod /\ ext[r] = Driver[cs[r].mod][2]
  /\ \A k \in SdSlots : sd[k].mod # NoName =>
       /\ sd[k].name = sd[k].mod /\ ext[sd[k].row] = Driver[sd[k].mod][2]
       /\ cs[sd[k].row].name = NoName
=============================================================================
