------------------------------- MODULE DlmLd -------------------------------
(***************************************************************************)
(* Linking one module (src/dlm/upstream/dlm_ld.c) and its symbol table     *)
(* (dlm_sym.c): the sections laid out, the symbols resolved, the commons   *)
(* placed, the relocations applied, the table hashed, and the loader's     *)
(* buffers given back, at the end or at whatever step a read fails, is cut *)
(* short or is interrupted by a signal (lf_fail of dlm_core.c).            *)
(*                                                                         *)
(* A file is its sections, its symbols and its relocations. What a symbol  *)
(* defines is told from the rest by its number: symbol i is at i in its    *)
(* section, or is Abs + i. An address has Bits[4] bits, a long's.          *)
(* Left out: the checks of the headers' sizes, links and magic numbers,    *)
(* the dependencies' names (DlmCore loads them), the text of strings.      *)
(***************************************************************************)
EXTENDS Integers, Sequences, FiniteSets

CONSTANTS
  Names,
  Inputs,    \* the files, each with the tables to resolve its names against:
             \* sets of names, the dependencies' in their order, the kernel's last
  MaxImage,  \* dlm_maximage
  Hash,      \* dlm_elfhash
  Buckets,   \* DLM_MODBUCKETS
  Bits,      \* bits of a byte, a word and a long: Bits[1], Bits[2], Bits[4]
  Base,      \* ld_base
  Min        \* the least alignment (4)

VARIABLES file, deps, pc, held, ls, size, tab, img
vars == <<file, deps, pc, held, ls, size, tab, img>>

Abs == 10
Foreign(k) == 20 + k        \* where table k has its names
NoSec == -1
S32(x) == IF x >= 2 ^ (Bits[4] - 1) THEN x - 2 ^ Bits[4] ELSE x
M32(x) == x % (2 ^ Bits[4])
Pow2(n) == \E k \in 0 .. n: n = 2 ^ k
Up(n, al) == n + al - 1 - ((n + al - 1) % al)
Larger(a, b) == IF a > b THEN a ELSE b
Secs == file.secs
Syms == file.syms

-----------------------------------------------------------------------------
(* dlm_ld_hdr: the sections in their order, each aligned                   *)

Align(s) == Larger(s.align, Min)
LaidOut ==
  LET f[i \in 0 .. Len(Secs)] ==
        IF i = 0 THEN [err |-> "ok", off |-> <<>>, end |-> 0]
        ELSE LET p == f[i - 1] s == Secs[i] at == Up(p.end, Align(s)) IN
          CASE p.err # "ok" -> p
            [] s.kind = "debug" -> [p EXCEPT !.off = Append(@, NoSec)]
            [] s.kind = "other" \/ ~Pow2(Align(s)) -> [p EXCEPT !.err = "ERELOC"]
            [] OTHER -> [off |-> Append(p.off, at), end |-> at + s.size,
                         err |-> IF s.size > MaxImage \/ at + s.size > MaxImage THEN "ENOMEM" ELSE "ok"]
  IN f[Len(Secs)]
SecOff == LaidOut.off

-----------------------------------------------------------------------------
(* dlm_blkhash and dlm_blklookup: a block's names are those of its rows    *)

Mod(name) == Hash[name] % Buckets
(* mutant: a row takes its bucket over *)
OldNone(b, k) == 0
Old(b, k) == b[k]
Hashed(rows) ==
  LET h[i \in 0 .. Len(rows)] ==
        IF i = 0 THEN [bucket |-> [k \in 0 .. Buckets - 1 |-> 0], chain |-> <<>>]
        ELSE LET p == h[i - 1] k == Mod(rows[i].name) IN
          [bucket |-> [p.bucket EXCEPT ![k] = i], chain |-> Append(p.chain, Old(p.bucket, k))]
  IN h[Len(rows)]

(* the row of a name, 0 when there is none *)
Lookup(rows, name) ==
  LET b == Hashed(rows)
      w[n \in 0 .. Len(rows)] ==
        IF n = 0 THEN b.bucket[Mod(name)]
        ELSE LET i == w[n - 1] IN IF i = 0 \/ rows[i].name = name THEN i ELSE b.chain[i]
      i == w[Len(rows)]
  IN IF i # 0 /\ rows[i].name = name THEN i ELSE 0

-----------------------------------------------------------------------------
(* dlm_ld_syms                                                             *)

NoneSym == [kind |-> "none", val |-> 0, tab |-> FALSE]
Own(i) ==
  LET s == Syms[i] IN
  IF s.at = "abs" THEN [kind |-> "abs", val |-> Abs + i, tab |-> FALSE]
  ELSE IF s.at = "debug" THEN NoneSym ELSE [kind |-> "rel", val |-> SecOff[1] + i, tab |-> FALSE]

(* the definitions: a name's first weak one, which a global one replaces *)
Defined ==
  LET d[i \in 0 .. Len(Syms)] ==
        IF i = 0 THEN [err |-> "ok", ls |-> <<>>, own |-> [x \in Names |-> 0]]
        ELSE LET p == d[i - 1] s == Syms[i] j == p.own[s.name]
                 as(l) == [p EXCEPT !.ls = Append(@, l)]
                 mine == [Own(i) EXCEPT !.tab = TRUE]
             IN CASE p.err # "ok" -> p
                  [] s.at \in {"undef", "common"} \/ s.bind = "local" \/ s.at = "debug" ->
                       as(IF s.at \in {"undef", "common"} THEN NoneSym ELSE Own(i))
                  [] j = 0 -> [as(mine) EXCEPT !.own[s.name] = i]
                  [] j # 0 /\ s.bind = "global" /\ Syms[j].bind = "global" -> [p EXCEPT !.err = "ERELOC"]
                  [] j # 0 /\ s.bind = "weak" -> as([p.ls[j] EXCEPT !.tab = FALSE])
                  [] OTHER -> [as(mine) EXCEPT !.ls[j] = Own(i), !.own[s.name] = i]
  IN d[Len(Syms)]

(* mutant: the dependency listed first is asked first *)
AskedFirst(k) == k
(* the dependencies are asked from the last listed, the kernel at the end *)
Asked(k) == IF k = Len(deps) THEN k ELSE Len(deps) - k
Foreigns(name) ==
  LET has == {k \in DOMAIN deps: name \in deps[Asked(k)]}
  IN IF has = {} THEN 0 ELSE Asked(CHOOSE k \in has: \A l \in has: k <= l)

(* mutant: a common goes right after what is before it *)
PlaceTight(cur, al) == cur
Place(cur, al) == Up(cur, al)

(* the others: an own definition, a foreign one, a common's place, a weak one's 0 *)
Resolved ==
  LET def == Defined
      r[i \in 0 .. Len(Syms)] ==
        IF i = 0 THEN [err |-> def.err, ls |-> def.ls, cur |-> LaidOut.end, undef |-> 0]
        ELSE LET p == r[i - 1] s == Syms[i] j == def.own[s.name] k == Foreigns(s.name)
                 as(l) == [p EXCEPT !.ls[i] = l]
                 al == Larger(s.align, 1)
                 o == Place(p.cur, al)
             IN CASE p.err # "ok" \/ s.at \notin {"undef", "common"} -> p
                  [] s.at = "undef" /\ j # 0 -> as([p.ls[j] EXCEPT !.tab = FALSE])
                  [] k # 0 -> as([kind |-> "abs", val |-> Foreign(k), tab |-> FALSE])
                  [] s.at = "common" ->
                       IF ~Pow2(al) THEN [p EXCEPT !.err = "ERELOC"]
                       ELSE IF s.size > MaxImage \/ o + s.size > MaxImage THEN [p EXCEPT !.err = "ENOMEM"]
                       ELSE [as([kind |-> "rel", val |-> o, tab |-> TRUE]) EXCEPT !.cur = o + s.size]
                  [] s.bind = "weak" -> as([kind |-> "abs", val |-> 0, tab |-> FALSE])
                  [] OTHER -> [p EXCEPT !.undef = @ + 1]
      e == r[Len(Syms)]
  IN [e EXCEPT !.err = IF @ = "ok" /\ e.undef > 0 THEN "ERELOC" ELSE @]

-----------------------------------------------------------------------------
(* reloc1                                                                  *)

Address(l) == IF l.kind = "rel" THEN l.val + Base ELSE l.val
(* mutant: a field relative to its place may hold what only an absolute one can *)
FitsAny(r, v) == -(2 ^ (Bits[r.bytes] - 1)) <= v /\ v < 2 ^ Bits[r.bytes]
Fits(r, v) ==
  r.bytes = 4 \/ (-(2 ^ (Bits[r.bytes] - 1)) <= v /\ v < 2 ^ (IF r.pc THEN Bits[r.bytes] - 1 ELSE Bits[r.bytes]))

Value(r) ==
  LET s == IF r.sym = 0 THEN 0 ELSE Address(ls[r.sym])
      p == Base + SecOff[r.sec] + r.off
  IN M32(IF r.pc THEN M32(s + r.addend) - p ELSE s + r.addend)

BadReloc(r) ==
  \/ Secs[r.sec].kind = "nobits" \/ r.off + r.bytes > Secs[r.sec].size
  \/ r.sym > Len(Syms) \/ (r.sym # 0 /\ ls[r.sym].kind = "none")
  \/ ~Fits(r, S32(Value(r)))
(* a field's bits *)
Field(r) == Value(r) % (2 ^ Bits[r.bytes])

Live == {n \in DOMAIN file.rels: SecOff[file.rels[n].sec] # NoSec}
Relocated == \A n \in Live: ~BadReloc(file.rels[n])

-----------------------------------------------------------------------------
(* The steps, as load (dlm_core.c) takes them. Each may fail where it reads *)

Rels == file.rels
Init ==
  /\ \E in \in Inputs: file = in.file /\ deps = in.deps
  /\ pc = "hdr" /\ held = {} /\ ls = <<>> /\ size = 0 /\ tab = <<>> /\ img = {}

Take(bufs) == held' = held \cup bufs
Step(at, next) == pc = at /\ pc' = next /\ UNCHANGED <<file, deps>>
(* a read that fails, is short or interrupted: lf_fail *)
Cut(at, bufs) == Step(at, "fail") /\ Take(bufs) /\ UNCHANGED <<ls, size, tab, img>>

Hdr ==
  \/ Step("hdr", "moddata") /\ LaidOut.err = "ok" /\ size' = LaidOut.end /\ Take({"sh", "secoff"}) /\ UNCHANGED <<ls, tab, img>>
  \/ Cut("hdr", {}) \/ Cut("hdr", {"sh", "secoff"})
Moddata ==
  \/ Step("moddata", "syms") /\ Take({"mod"}) /\ UNCHANGED <<ls, size, tab, img>>
  \/ Cut("moddata", {"mod"})
(* the hash of the own names is given back in every case *)
ResolveSyms ==
  \/ /\ Step("syms", "image") /\ Resolved.err = "ok" /\ Take({"syms", "str", "ls"})
     /\ ls' = Resolved.ls /\ size' = Resolved.cur /\ UNCHANGED <<tab, img>>
  \/ Cut("syms", {"syms", "str", "ls"})
Image ==
  \/ Step("image", "reloc") /\ UNCHANGED <<held, ls, size, tab, img>>
  \/ Cut("image", {})
Reloc ==
  \/ /\ Step("reloc", "table") /\ Relocated
     /\ img' = {[rel |-> n, at |-> SecOff[Rels[n].sec] + Rels[n].off, field |-> Field(Rels[n])]: n \in Live}
     /\ UNCHANGED <<held, ls, size, tab>>
  \/ Cut("reloc", {}) /\ ~Relocated
  \/ Cut("reloc", {"rbuf"})        \* left by a signal: still held

(* dlm_ld_table: the table is the module's, no more the loader's *)
Rows == SelectSeq([i \in DOMAIN Syms |-> [name |-> Syms[i].name, val |-> Address(ls[i]), tab |-> ls[i].tab]],
                  LAMBDA r: r.tab)
Table == Step("table", "done") /\ tab' = Rows /\ UNCHANGED <<held, ls, size, img>>

(* mutant: what a signal left of the relocations is not given back *)
AllBuffersButR == {"sh", "secoff", "syms", "str", "ls", "mod"}
AllBuffers == {"sh", "secoff", "syms", "str", "ls", "mod", "rbuf"}
Free ==
  /\ pc \in {"done", "fail"} /\ pc' = IF pc = "done" THEN "loaded" ELSE "gone"
  /\ held' = held \ AllBuffers /\ UNCHANGED <<file, deps, ls, size, tab, img>>

Next == Hdr \/ Moddata \/ ResolveSyms \/ Image \/ Reloc \/ Table \/ Free
Spec == Init /\ [][Next]_vars

TypeOK ==
  /\ Len(ls) \in {0, Len(Syms)} /\ size \in 0 .. MaxImage /\ held \subseteq AllBuffers
  /\ pc \in {"hdr", "moddata", "syms", "image", "reloc", "table", "done", "fail", "loaded", "gone"}
  /\ \A i \in DOMAIN ls: ls[i].kind \in {"none", "rel", "abs"} /\ ls[i].val \in Nat /\ ls[i].tab \in BOOLEAN

-----------------------------------------------------------------------------
(* Once a module is linked or has failed, its loader holds no buffer, at
   whatever step it failed. (dlm_ld_free, dlm_ld_reloc)                    *)
BuffersFreed == pc \in {"loaded", "gone"} => held = {}

(* The sections and the module's own commons lie in the image, each where its
   alignment allows, and none on another. (dlm_ld_hdr, dlm_ld_syms)         *)
Linked == pc \in {"table", "done", "loaded"}
Commons == {i \in DOMAIN Syms: Syms[i].at = "common" /\ ls[i].kind = "rel"}
Spans ==
  {[id |-> <<"sec", i>>, at |-> SecOff[i], size |-> Secs[i].size, align |-> Align(Secs[i])]: i \in {k \in DOMAIN Secs: SecOff[k] # NoSec}}
  \cup {[id |-> <<"com", i>>, at |-> ls[i].val, size |-> Syms[i].size, align |-> Larger(Syms[i].align, 1)]: i \in Commons}
Placed ==
  Linked =>
    /\ \A s \in Spans: s.at % s.align = 0 /\ s.at + s.size <= size
    /\ \A s, t \in Spans: s.id # t.id => s.at + s.size <= t.at \/ t.at + t.size <= s.at

(* A reference goes to the module's own global definition, else its weak one,
   else to the last dependency that has the name, else to the kernel, else, when
   weak, to 0. (dlm_ld_syms) This is the code's order, and another than
   dlm-spec.md:251-254 gives: its own, the static kernel, then the declared
   dependencies. A name that both the kernel and a dependency define goes to
   the dependency.                                                          *)
OwnDefs(name) == {i \in DOMAIN Syms: Syms[i].name = name /\ Syms[i].bind # "local" /\ Syms[i].at \in {"sec", "abs"}}
Best(name) ==
  LET o == OwnDefs(name) g == {i \in o: Syms[i].bind = "global"}
      t == {k \in 1 .. Len(deps) - 1: name \in deps[k]}
  IN IF g # {} THEN Own(CHOOSE i \in g: TRUE).val
     ELSE IF o # {} THEN Own(CHOOSE i \in o: \A j \in o: i <= j).val
     ELSE IF t # {} THEN Foreign(CHOOSE k \in t: \A l \in t: k >= l)
     ELSE IF name \in deps[Len(deps)] THEN Foreign(Len(deps)) ELSE 0
Resolves ==
  Linked => \A i \in DOMAIN Syms: Syms[i].at = "undef" => ls[i].kind # "none" /\ ls[i].val = Best(Syms[i].name)

(* The module's table has the names it defines for others, and every look finds
   the definition its own references go to. (dlm_ld_table, dlm_blklookup)  *)
TableFinds ==
  pc = "loaded" =>
    \A x \in Names:
      LET i == Lookup(tab, x) c == {j \in Commons: Syms[j].name = x} o == OwnDefs(x) IN
        IF o # {} THEN i # 0 /\ tab[i].val = Best(x) + (IF \E j \in o: Own(j).val = Best(x) /\ Own(j).kind = "rel" THEN Base ELSE 0)
        ELSE IF c # {} THEN \E j \in c: i # 0 /\ tab[i].val = ls[j].val + Base ELSE i = 0

(* A field of a module that was linked, read back as the processor will, is
   the value: an absolute one with a sign or without, a relative one with; and
   it lies in its section. (reloc1)                                        *)
Signed(f, b) == IF f >= 2 ^ (b - 1) THEN f - 2 ^ b ELSE f
FieldsHold ==
  Linked => \A f \in img:
    LET r == Rels[f.rel] IN
      /\ M32(Signed(f.field, Bits[r.bytes])) = Value(r) \/ (~r.pc /\ f.field = Value(r))
      /\ f.at + r.bytes <= SecOff[r.sec] + Secs[r.sec].size

(* Not so: whatever the table of symbols, all definitions of a name have one
   address. Of a weak, another weak and a global one the second stays.      *)
OneAddress ==
  Linked => \A i, j \in DOMAIN Syms:
    Syms[i].name = Syms[j].name /\ {i, j} \subseteq OwnDefs(Syms[i].name) => ls[i].val = ls[j].val
=============================================================================
