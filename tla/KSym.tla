-------------------------------- MODULE KSym --------------------------------
(***************************************************************************)
(* The kernel's symbol table: the block mkksym (dlm/upstream/tools) writes *)
(* into a linked kernel's dlm_ksym, its -c check, dlm_init's, and getksym  *)
(* in the running kernel, by name and by address (dlm_sym.c). A table is   *)
(* words: a header, three words a symbol, a word a name, a hash.           *)
(*                                                                         *)
(* A name is a number. The write may be cut short at any word. Modules'    *)
(* tables are module DlmLd's; reading the ELF file is left out.            *)
(***************************************************************************)
EXTENDS Naturals, Sequences, SequencesExt, FiniteSetsExt

CONSTANTS
  Images,  \* linked kernels: [lo, hi, syms: Seq([name, val, bind, kind])], the locals first
  Hash,    \* dlm_elfhash: [name -> number]
  Least,   \* the fewest buckets
  Space,   \* words of dlm_ksym
  MaxRuns  \* bound: runs of mkksym

VARIABLES
  image,  \* the image's symbols
  ksym,   \* dlm_ksym's words
  whole,  \* the last mkksym that wrote, wrote all: "none", "plain", "locals", "cut"
  check,  \* what mkksym -c said since: "none", "ok", "bad"
  up,     \* the kernel runs: "no", "on", "disabled"
  ans,    \* getksym's last answer
  runs
vars == <<image, ksym, whole, check, up, ans, runs>>

Blank == [i \in 1 .. Space |-> 0]
NoAns == [asked |-> 0, found |-> FALSE, val |-> 0, name |-> 0]
TypeOK ==
  /\ image \in Images /\ ksym \in Seq(Nat) /\ Len(ksym) = Space
  /\ whole \in {"none", "plain", "locals", "cut"} /\ check \in {"none", "ok", "bad"}
  /\ up \in {"no", "on", "disabled"} /\ runs \in 0 .. MaxRuns
Init ==
  /\ image \in Images /\ ksym = Blank /\ whole = "none" /\ check = "none"
  /\ up = "no" /\ ans = NoAns /\ runs = 0

-----------------------------------------------------------------------------
(* The block's words *)

Magic == 9
Hdrsz == 9    \* magic, nsym, symoff, stroff, strsize, hashoff, lo, hi, size
At(b, w) == b[w + 1]
Nsym(b) == At(b, 1)
Symoff(b) == At(b, 2)
Stroff(b) == At(b, 3)
Hashoff(b) == At(b, 5)
Lo(b) == At(b, 6)
Hi(b) == At(b, 7)
Nb(b) == At(b, Hashoff(b))
NameOf(b, i) == At(b, Stroff(b) + At(b, Symoff(b) + 3 * i))
ValOf(b, i) == At(b, Symoff(b) + 3 * i + 1)
KindOf(b, i) == At(b, Symoff(b) + 3 * i + 2)

(* dlm_prime, dlm_blksize *)
Prime(n) == IF n < Least THEN Least
            ELSE Max({p \in Least .. n: \A d \in 2 .. p - 1: p % d # 0})
Size(n, ss, nb) == Hdrsz + 3 * n + ss + 2 + nb + n

(* dlm_blkhash: each symbol goes before those its bucket has *)
(* mutant: after them *)
HashedLast(names, nb) ==
  LET In(k) == SelectSeq([i \in 1 .. Len(names) |-> i], LAMBDA i: Hash[names[i]] % nb = k)
      After(i) == LET s == In(Hash[names[i]] % nb) n == IndexFirstSubSeq(<<i>>, s) IN
        IF n = Len(s) THEN 0 ELSE s[n + 1]
  IN [k \in 1 .. nb |-> IF In(k - 1) = <<>> THEN 0 ELSE Head(In(k - 1))] \o <<0>> \o [i \in 1 .. Len(names) |-> After(i)]
Hashed(names, nb) ==
  LET Of(k, n) == {i \in 1 .. n: Hash[names[i]] % nb = k}
      Newest(k, n) == IF Of(k, n) = {} THEN 0 ELSE Max(Of(k, n))
  IN [k \in 1 .. nb |-> Newest(k - 1, Len(names))] \o <<0>>
     \o [i \in 1 .. Len(names) |-> Newest(Hash[names[i]] % nb, i - 1)]

(* selected, build *)
Selected(l) == SelectSeq(image.syms, LAMBDA s: s.bind # "local" \/ (l /\ s.kind = 0))
Built(l) ==
  LET ss == Selected(l) n == Len(ss) + 1 nb == Prime(n \div 4) names == [i \in DOMAIN ss |-> ss[i].name] IN
  <<Magic, n, Hdrsz, Hdrsz + 3 * n, n, Hdrsz + 4 * n, image.lo, image.hi, Size(n, n, nb)>>
  \o <<0, 0, 0>> \o FlattenSeq([i \in DOMAIN ss |-> <<i, ss[i].val, ss[i].kind>>])
  \o <<0>> \o names \o <<nb, n>> \o Hashed(names, nb)

-----------------------------------------------------------------------------
(* dlm_blkcheck: every offset, name and index is inside *)
BlkCheck(b) == LET n == Nsym(b) ho == Hashoff(b) IN
  /\ At(b, 0) = Magic /\ At(b, 8) <= Space /\ n >= 1 /\ At(b, 4) >= 1
  /\ Symoff(b) >= Hdrsz /\ Symoff(b) + 3 * n <= Stroff(b) /\ Stroff(b) + At(b, 4) <= ho /\ ho + 2 <= Space
  /\ Nb(b) >= 1 /\ At(b, ho + 1) = n /\ ho + 2 + Nb(b) + n <= At(b, 8)
  /\ \A i \in 0 .. n - 1: At(b, Symoff(b) + 3 * i) < At(b, 4)
  /\ \A i \in 0 .. Nb(b) + n - 1: At(b, ho + 2 + i) < n

(* dlm_blklookup: along the bucket's chain, no further than there are symbols *)
BlkLookup(b, name) ==
  LET Next1(i) == At(b, Hashoff(b) + 2 + Nb(b) + i)
      walk[k \in 1 .. Nsym(b)] == IF k = 1 THEN At(b, Hashoff(b) + 2 + (Hash[name] % Nb(b)))
                                  ELSE IF walk[k - 1] = 0 THEN 0 ELSE Next1(walk[k - 1])
      Hits == {k \in 1 .. Nsym(b): walk[k] # 0 /\ NameOf(b, walk[k]) = name}
  IN IF Hits = {} THEN [found |-> FALSE, val |-> 0] ELSE [found |-> TRUE, val |-> ValOf(b, walk[Min(Hits)])]

(* dlm_blkaddr: the greatest value not above; sections and files do not count *)
(* mutant: the last one not above *)
NearestLast(b, addr) == LET S == {i \in 1 .. Nsym(b) - 1: KindOf(b, i) = 0 /\ ValOf(b, i) <= addr} IN
  IF S = {} THEN 0 ELSE Max(S)
Nearest(b, addr) == LET S == {i \in 1 .. Nsym(b) - 1: KindOf(b, i) = 0 /\ ValOf(b, i) <= addr} IN
  IF S = {} THEN 0 ELSE Min({i \in S: \A j \in S: ValOf(b, j) <= ValOf(b, i)})

-----------------------------------------------------------------------------
(* mkksym: the block, then zeros to the end; cut words of it were written *)
Fill(l, cut) == LET new == Built(l) IN
  /\ up = "no" /\ runs < MaxRuns /\ runs' = runs + 1
  /\ IF Len(new) > Space THEN UNCHANGED <<ksym, whole, check>>
     ELSE /\ ksym' = [i \in 1 .. Space |-> IF i > cut THEN ksym[i] ELSE IF i <= Len(new) THEN new[i] ELSE 0]
          /\ whole' = IF cut < Space THEN "cut" ELSE IF l THEN "locals" ELSE "plain"
          /\ check' = "none"
  /\ UNCHANGED <<image, up, ans>>

(* mkksym -c *)
(* mutant: it takes the kernel's check for the answer *)
SaysBlock(l) == IF BlkCheck(ksym) THEN "ok" ELSE "bad"
Says(l) ==
  IF /\ BlkCheck(ksym) /\ Lo(ksym) = image.lo /\ Hi(ksym) = image.hi
     /\ Nsym(ksym) - 1 = Len(Selected(l))
     /\ \A i \in DOMAIN Selected(l): LET s == Selected(l)[i] IN
          (l /\ s.bind = "local") \/ BlkLookup(ksym, s.name) = [found |-> TRUE, val |-> s.val]
  THEN "ok" ELSE "bad"
Check(l) == /\ up = "no" /\ check = "none" /\ check' = Says(l)
            /\ UNCHANGED <<image, ksym, whole, up, ans, runs>>

(* dlm_init *)
Boot == /\ up = "no"
        /\ up' = IF BlkCheck(ksym) /\ Lo(ksym) = image.lo /\ Hi(ksym) = image.hi THEN "on" ELSE "disabled"
        /\ UNCHANGED <<image, ksym, whole, check, ans, runs>>

(* dlm_getksym, by name *)
ByName(name) == LET r == BlkLookup(ksym, name) IN
  /\ up = "on" /\ ans' = [asked |-> name, found |-> r.found, val |-> r.val, name |-> name]
  /\ UNCHANGED <<image, ksym, whole, check, up, runs>>
(* by address *)
ByAddr(a) == LET i == Nearest(ksym, a) IN
  /\ up = "on" /\ Lo(ksym) <= a /\ a < Hi(ksym)
  /\ ans' = [asked |-> 0, found |-> i # 0, val |-> a, name |-> IF i = 0 THEN 0 ELSE NameOf(ksym, i)]
  /\ UNCHANGED <<image, ksym, whole, check, up, runs>>

Next ==
  \/ \E l \in BOOLEAN, cut \in 0 .. Space: Fill(l, cut)
  \/ \E l \in BOOLEAN: Check(l)
  \/ Boot
  \/ (\E name \in DOMAIN Hash: ByName(name)) \/ (\E a \in image.lo .. image.hi: ByAddr(a))
Spec == Init /\ [][Next]_vars

-----------------------------------------------------------------------------
Globals == {s \in Range(image.syms): s.bind # "local"}

(* A kernel whose table was written whole, or that mkksym -c passed, is on, and by
   name answers each global's own value, a local of that name or not. (dlm_blkhash,
   dlm_blklookup, check)                                                   *)
NamesFound ==
  /\ (up = "disabled" => whole \notin {"plain", "locals"} /\ check # "ok")
  /\ (whole \in {"plain", "locals"} \/ check = "ok") /\ ans.asked # 0 /\ ans.asked \in {s.name: s \in Globals}
       => ans.found /\ \E s \in Globals: s.name = ans.asked /\ s.val = ans.val

(* By address the name is of a symbol of the table no other lies between. (dlm_blkaddr) *)
AddressNamed ==
  whole \in {"plain", "locals"} /\ ans.asked = 0 /\ ans.found =>
    \E s \in Range(image.syms): /\ s.name = ans.name /\ s.val <= ans.val
      /\ \A t \in Globals: t.kind = 0 /\ t.val <= ans.val => t.val <= s.val

(* A kernel that is on finds every global. Holds where no write is cut: the kernel's
   check does not tell an empty bucket. (dlm_blkcheck)                     *)
OnFinds == up = "on" /\ ans.asked \in {s.name: s \in Globals} => ans.found
=============================================================================
