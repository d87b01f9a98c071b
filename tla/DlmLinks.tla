------------------------------ MODULE DlmLinks ------------------------------
(***************************************************************************)
(* The loader's other two tables: exec formats (src/dlm/upstream/          *)
(* dlm_slot.c: dlm_xreg, exec_install, xcall) and STREAMS modules          *)
(* (dlm_str.c: str_install, dlm_str_open). The loader as Atari System V    *)
(* builds it leaves both tables as they were (dlm/asv/asv.patch).          *)
(*                                                                         *)
(* A behaviour uses one of the two (kind). Loading and unloading a module  *)
(* are single steps here; DlmCore has them whole.                          *)
(*                                                                         *)
(* External: exec(2) goes through the rows with the image's magic from the *)
(* first on until one takes it; I_PUSH finds a row, then opens it.         *)
(***************************************************************************)
EXTENDS Integers, Sequences, FiniteSets

CONSTANTS
  Kinds,      \* of {"exec", "str"}
  Mods,       \* modules
  StrName,    \* the name of each in fmodsw
  Procs,
  Magics,
  Stock,      \* the magics of the stock rows, in their order
  Slots,      \* EXEC_RESERVE
  Reserve,    \* FMOD_RESERVE
  Streams,    \* queue pairs
  MaxLoads,   \* bound: loads
  MaxLost     \* bound: closes of a module that a signal leaves

LinksAssumption ==
  /\ IsFiniteSet(Procs) /\ IsFiniteSet(Streams) /\ "none" \notin Mods \cup Magics \cup Streams
  /\ Stock \in Seq(Magics) /\ Slots \in Nat

VARIABLES
  kind,
  loaded,     \* the modules that are
  refs,       \* m_refs of each
  incall,     \* m_incall
  stays, stuck,  \* holds and calls that a signal out of a close left behind (history)
  rows,       \* execsw: a row's magic, and its slot (0: a stock row)
  slots,      \* the slots: the module registered, its magic and EXF_FIRST; is it installed
  frows,      \* fmodsw past the stock rows: a row's name and module
  st,         \* the streams: the row (0: nothing pushed), the module with a hold, whether q_ptr is set
  pr,         \* the processes
  loads
vars == <<kind, loaded, refs, incall, stays, stuck, rows, slots, frows, st, pr, loads>>

None == "none"
User == [pc |-> "user", slot |-> 0, magic |-> None, mod |-> None, s |-> None, row |-> 0, stock |-> FALSE]
Slot0 == [mod |-> None, magic |-> None, first |-> FALSE, on |-> FALSE]
Str0 == [row |-> 0, mod |-> None, had |-> FALSE]

TypeOK ==
  /\ kind \in Kinds /\ loaded \subseteq Mods /\ refs \in [Mods -> Nat] /\ incall \in [Mods -> Nat] /\ loads \in 0 .. MaxLoads
  /\ stays \in [Mods -> Nat] /\ stuck \in [Mods -> 0 .. MaxLost]
  /\ \A i \in DOMAIN rows: rows[i].magic \in Magics /\ rows[i].slot \in 0 .. Slots
  /\ slots \in [1 .. Slots -> [mod: Mods \cup {None}, magic: Magics \cup {None}, first: BOOLEAN, on: BOOLEAN]]
  /\ Len(frows) <= Reserve /\ \A j \in DOMAIN frows: frows[j].own \in Mods \cup {None}
  /\ st \in [Streams -> [row: 0 .. Reserve, mod: Mods \cup {None}, had: BOOLEAN]]
  /\ \A p \in Procs: pr[p].pc \in {"user", "run", "xnext", "noexec", "found", "open", "close"}

Init ==
  /\ kind \in Kinds /\ loaded = {} /\ refs = [m \in Mods |-> 0] /\ incall = [m \in Mods |-> 0]
  /\ stays = [m \in Mods |-> 0] /\ stuck = [m \in Mods |-> 0]
  /\ rows = [i \in DOMAIN Stock |-> [magic |-> Stock[i], slot |-> 0]]
  /\ slots = [k \in 1 .. Slots |-> Slot0] /\ frows = <<>>
  /\ st = [s \in Streams |-> Str0] /\ pr = [p \in Procs |-> User] /\ loads = 0

left == <<stays, stuck>>
core == <<kind, loaded, incall, left, loads>>
execs == <<rows, slots>>
strs == <<frows, st>>
Hold(m) == refs' = [refs EXCEPT ![m] = @ + 1]
Rele(m) == refs' = [refs EXCEPT ![m] = @ - 1]
To(p, r) == pr' = [pr EXCEPT ![p] = r]

-----------------------------------------------------------------------------
(* The linkages                                                            *)

(* exec_install: the slots registered to the module; there must be one *)
SlotsOf(m) == {k \in 1 .. Slots: slots[k].mod = m}
OnIn(S, on) == [k \in 1 .. Slots |-> IF k \in S THEN [slots[k] EXCEPT !.on = on] ELSE slots[k]]

(* mutant: a row another module has is taken *)
GetsAny(m) == {j \in DOMAIN frows: frows[j].name = StrName[m]}
(* str_install: a row of the name without a module, or a new one *)
Gets(m) == {j \in DOMAIN frows: frows[j].name = StrName[m] /\ frows[j].own = None}
Named(m) == {j \in DOMAIN frows: frows[j].name = StrName[m]}
StrInstall(m) ==
  IF Named(m) # {} THEN \E j \in Gets(m): frows' = [frows EXCEPT ![j].own = m]
  ELSE Len(frows) < Reserve /\ frows' = Append(frows, [name |-> StrName[m], own |-> m])

Install(m) ==
  /\ m \notin loaded /\ loads < MaxLoads /\ loaded' = loaded \cup {m} /\ loads' = loads + 1
  /\ IF kind = "exec" THEN SlotsOf(m) # {} /\ slots' = OnIn(SlotsOf(m), TRUE) /\ UNCHANGED frows
     ELSE StrInstall(m) /\ UNCHANGED slots
  /\ UNCHANGED <<kind, incall, left, rows, st>>

Load(m) == Install(m) /\ UNCHANGED <<refs, pr>>

(* exec_remove, str_remove: the rows stay *)
Unload(m) ==
  /\ m \in loaded /\ refs[m] = 0 /\ incall[m] = 0 /\ loaded' = loaded \ {m}
  /\ slots' = OnIn(SlotsOf(m), FALSE)
  /\ frows' = [j \in DOMAIN frows |-> IF frows[j].own = m THEN [frows[j] EXCEPT !.own = None] ELSE frows[j]]
  /\ UNCHANGED <<kind, refs, incall, left, rows, st, pr, loads>>

-----------------------------------------------------------------------------
(* dlm_xreg: a row before the stock one of the magic, or at the end        *)

RowsOf(mg) == {i \in DOMAIN rows: rows[i].magic = mg}
Least(S) == CHOOSE i \in S: \A j \in S: i <= j
Xreg(m, mg, first) ==
  /\ kind = "exec" /\ \A k \in 1 .. Slots: slots[k].magic # mg
  /\ RowsOf(mg) # {} => first
  /\ \E k \in 1 .. Slots:
       /\ slots[k].mod = None /\ \A l \in 1 .. k - 1: slots[l].mod # None
       /\ slots' = [slots EXCEPT ![k] = [mod |-> m, magic |-> mg, first |-> first, on |-> FALSE]]
       /\ LET i == Least(RowsOf(mg) \cup {Len(rows) + 1})
          IN rows' = SubSeq(rows, 1, i - 1) \o <<[magic |-> mg, slot |-> k]>> \o SubSeq(rows, i, Len(rows))
  /\ UNCHANGED <<core, refs, strs, pr>>

(* exec(2) calls the first row of the magic *)
Exec(p, mg) ==
  /\ kind = "exec" /\ pr[p].pc = "user" /\ RowsOf(mg) # {}
  /\ LET k == rows[Least(RowsOf(mg))].slot IN
       To(p, [User EXCEPT !.pc = IF k = 0 THEN "noexec" ELSE "found", !.slot = k, !.magic = mg, !.stock = k = 0])
  /\ UNCHANGED <<core, refs, execs, strs>>

(* xcall: the module, loaded if need be, is held and called *)
Declines(p) == [pr[p] EXCEPT !.pc = IF slots[pr[p].slot].first THEN "xnext" ELSE "noexec", !.mod = None]
Runs(p, m) == [pr[p] EXCEPT !.pc = "run", !.mod = m]
Xcall(p) ==
  /\ kind = "exec" /\ pr[p].pc = "found"
  /\ LET m == slots[pr[p].slot].mod IN
       \/ slots[pr[p].slot].on /\ Hold(m) /\ To(p, Runs(p, m)) /\ UNCHANGED <<core, execs, strs>>
       \/ ~slots[pr[p].slot].on /\ Install(m) /\ Hold(m) /\ To(p, Runs(p, m))
       \/ ~slots[pr[p].slot].on /\ To(p, Declines(p)) /\ UNCHANGED <<core, refs, execs, strs>>

(* it takes the image, a signal ends it, or it declines *)
XcallReturns(p) ==
  /\ kind = "exec" /\ pr[p].pc = "run" /\ Rele(pr[p].mod)
  /\ To(p, User) \/ To(p, Declines(p))
  /\ UNCHANGED <<core, execs, strs>>

(* mutant: the row after the one the slot had first *)
NextOnce(k) == {i \in RowsOf(slots[k].magic): i > k}
RowOf(k) == CHOOSE i \in DOMAIN rows: rows[i].slot = k
NextRows(k) == {i \in RowsOf(slots[k].magic): i > RowOf(k)}
(* xnext: the next row of the magic takes the image, or does not *)
Xnext(p) ==
  /\ pr[p].pc = "xnext"
  /\ LET S == NextRows(pr[p].slot)
         stock == S # {} /\ rows[Least(S)].slot = 0
     IN (S # {} /\ To(p, User)) \/ To(p, [pr[p] EXCEPT !.pc = "noexec", !.stock = stock])
  /\ UNCHANGED <<core, refs, execs, strs>>

Enoexec(p) == pr[p].pc = "noexec" /\ To(p, User) /\ UNCHANGED <<core, refs, execs, strs>>

-----------------------------------------------------------------------------
(* STREAMS modules. The stream head does one thing at a time on a stream   *)

Busy(s) == \E p \in Procs: pr[p].s = s

(* I_PUSH has found the row; or the stream is opened again *)
Push(p, s, j) ==
  /\ kind = "str" /\ pr[p].pc = "user" /\ ~Busy(s) /\ st[s].row = 0
  /\ To(p, [User EXCEPT !.pc = "found", !.s = s, !.row = j]) /\ UNCHANGED <<core, refs, execs, strs>>
Again(p, s) ==
  /\ kind = "str" /\ pr[p].pc = "user" /\ ~Busy(s) /\ st[s].row # 0
  /\ To(p, [User EXCEPT !.pc = "found", !.s = s, !.row = st[s].row]) /\ UNCHANGED <<core, refs, execs, strs>>

(* dlm_str_open *)
Entered(j) == frows[j].own # None
StrOpen(p) ==
  /\ kind = "str" /\ pr[p].pc = "found"
  /\ LET j == pr[p].row m == frows[j].own IN
       IF Entered(j) THEN Hold(m) /\ To(p, [pr[p] EXCEPT !.pc = "open", !.mod = m])
       ELSE To(p, User) /\ UNCHANGED refs
  /\ UNCHANGED <<core, execs, strs>>

(* mutant: an open that is not the first keeps its hold too *)
KeepsEvery(had) == TRUE
Keeps(had) == ~had
(* the module's open: it sets q_ptr; or leaves it 0, and the stream holds nothing; or
   it fails, or a signal ends it *)
StrOpens(p) ==
  /\ pr[p].pc = "open"
  /\ LET s == pr[p].s m == pr[p].mod IN
       \/ /\ IF Keeps(st[s].had) THEN UNCHANGED refs ELSE Rele(m)
          /\ st' = [st EXCEPT ![s] = [row |-> pr[p].row, mod |-> m, had |-> TRUE]]
       \/ ~st[s].had /\ Rele(m) /\ st' = [st EXCEPT ![s] = [Str0 EXCEPT !.row = pr[p].row]]
       \/ Rele(m) /\ UNCHANGED st
  /\ To(p, User) /\ UNCHANGED <<core, execs, frows>>

(* dlm_str_close: the row's module, which a stream without a hold need not be of *)
StrClose(p, s) ==
  /\ kind = "str" /\ pr[p].pc = "user" /\ ~Busy(s) /\ st[s].row # 0
  /\ LET m == frows[st[s].row].own IN
       \/ m = None /\ st' = [st EXCEPT ![s] = Str0] /\ UNCHANGED <<incall, pr>>
       \/ /\ m # None /\ incall' = [incall EXCEPT ![m] = @ + 1] /\ UNCHANGED st
          /\ To(p, [User EXCEPT !.pc = "close", !.s = s, !.mod = m])
  /\ UNCHANGED <<kind, loaded, loads, refs, left, execs, frows>>
StrCloses(p) ==
  /\ pr[p].pc = "close" /\ incall' = [incall EXCEPT ![pr[p].mod] = @ - 1]
  /\ IF st[pr[p].s].had THEN Rele(pr[p].mod) ELSE UNCHANGED refs
  /\ st' = [st EXCEPT ![pr[p].s] = Str0] /\ To(p, User)
  /\ UNCHANGED <<kind, loaded, loads, left, execs, frows>>
(* a signal ends the module's own close: the call stays, and the hold if it has one *)
StrCloseLeft(p) ==
  /\ pr[p].pc = "close" /\ stuck[pr[p].mod] < MaxLost
  /\ stuck' = [stuck EXCEPT ![pr[p].mod] = @ + 1]
  /\ stays' = IF st[pr[p].s].had THEN [stays EXCEPT ![pr[p].mod] = @ + 1] ELSE stays
  /\ st' = [st EXCEPT ![pr[p].s] = Str0] /\ To(p, User)
  /\ UNCHANGED <<kind, loaded, loads, refs, incall, execs, frows>>

Next ==
  \/ \E m \in Mods: Load(m) \/ Unload(m)
  \/ \E m \in Mods, mg \in Magics, first \in BOOLEAN: Xreg(m, mg, first)
  \/ \E p \in Procs:
       \/ \E mg \in Magics: Exec(p, mg)
       \/ Xcall(p) \/ XcallReturns(p) \/ Xnext(p) \/ Enoexec(p) \/ StrOpen(p) \/ StrOpens(p) \/ StrCloses(p)
       \/ StrCloseLeft(p)
       \/ \E s \in Streams: (\E j \in DOMAIN frows: Push(p, s, j)) \/ Again(p, s) \/ StrClose(p, s)

Spec == Init /\ [][Next]_vars

-----------------------------------------------------------------------------
(* Nobody runs in a module that is not loaded, and the module of an open stream
   whose q_ptr is set is loaded and still its row's, whatever was loaded under
   that name since it was pushed. (dlm_str_open, dlm_str_close, xcall)     *)
RunsLoaded ==
  /\ \A p \in Procs: pr[p].pc \in {"run", "open", "close"} => pr[p].mod \in loaded
  /\ \A s \in Streams: st[s].had => st[s].mod \in loaded /\ frows[st[s].row].own = st[s].mod

(* A module's holds are its open streams, the calls that run in it and what
   signals left of its closes, and its calls are its closes under way and left:
   none is lost, and no other stays. (dlm_str_open, dlm_str_close, xcall)  *)
HoldsExact ==
  \A m \in Mods:
    refs[m] = Cardinality({s \in Streams: st[s].mod = m})
                + Cardinality({p \in Procs: pr[p].pc \in {"run", "open"} /\ pr[p].mod = m}) + stays[m]
CallsExact == \A m \in Mods: incall[m] = Cardinality({p \in Procs: pr[p].pc = "close" /\ pr[p].mod = m}) + stuck[m]
(* Not so: a stream is open with its module loaded. One whose open leaves q_ptr 0 has
   no hold, its module may go, and the close goes to the row's next one    *)
StreamsLoaded == \A s \in Streams: st[s].row # 0 => frows[st[s].row].own # None

(* An image that nobody took has been shown to the stock row of its magic,
   wherever registrations have moved the rows while its module looked at it.
   (xcall, xnext, dlm_xreg)                                                *)
StockTried == \A p \in Procs: pr[p].pc = "noexec" /\ (\E i \in DOMAIN Stock: Stock[i] = pr[p].magic) => pr[p].stock
=============================================================================
