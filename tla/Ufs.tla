-------------------------------- MODULE Ufs --------------------------------
(***************************************************************************)
(* The read-only UFS of FreeMiNT (mint/ufsxfs/ufs.c): a file's blocks,     *)
(* direct and through the indirect ones (ufs_bmap), its bytes in whole     *)
(* blocks and a last one of fragments (ufs_readfile), directories searched *)
(* and listed, and the path of a directory found by walking up (getname).  *)
(*                                                                         *)
(* A data block's address says which block of the file it is, an indirect  *)
(* one's the indices that lead to it, so what a read returns can be told   *)
(* from what it should. bad are the blocks that cannot be read. A unit     *)
(* stands for the bytes of a fragment (fsize), Frag of them for a block.   *)
(* per * nindir leaves 32 bits only for a file past the 2 GB size can say. *)
(***************************************************************************)
EXTENDS Integers, Sequences, FiniteSets, TLC

CONSTANTS
  NDADDR, NIADDR,  \* direct and indirect addresses of an inode
  Nindir,          \* addresses in an indirect block
  Fsize, Frag,     \* units in a fragment; fragments in a block
  MaxSize,         \* bound: a file's size
  Lens,            \* lengths asked for
  Inos,            \* the directories' inodes but the root's
  Names,           \* names in directories
  PathMax          \* bound: names in a path getname may have room for

UfsAssumption ==
  /\ {NDADDR, NIADDR, Nindir, Fsize, Frag} \subseteq Nat \ {0} /\ MaxSize \in Nat /\ PathMax \in Nat

VARIABLES file, tree, bad, f, dirh, ans
vars == <<file, tree, bad, f, dirh, ans>>
disk == <<file, tree, bad>>

Bsize == Fsize * Frag
Hole == <<>>
Root == 2
Least(a, b) == IF a < b THEN a ELSE b

-----------------------------------------------------------------------------
(* The disk: a block of the file is <<n>>, the table reached by the indices
   of path from the inode's entry at a level <<level, path>>               *)

Power[k \in 0 .. NIADDR] == IF k = 0 THEN 1 ELSE Nindir * Power[k - 1]
(* blocks before those of a level *)
First[l \in 0 .. NIADDR] == IF l = 0 THEN NDADDR ELSE First[l - 1] + Power[l]
(* the first block a table leads to *)
Leads(l, path) ==
  LET at[i \in 0 .. Len(path)] == IF i = 0 THEN First[l] ELSE at[i - 1] + path[i] * Power[l + 1 - i] IN at[Len(path)]
Span(l, path) == Power[l + 1 - Len(path)]
Blocks == (file.size + Bsize - 1) \div Bsize
(* there is no table, nor block, where the file has only a hole *)
Data(n) == IF n \in file.holes \/ n >= Blocks THEN Hole ELSE <<n>>
Table(l, path) ==
  IF Len(path) = l + 1 THEN Data(Leads(l, path))
  ELSE IF \A n \in Leads(l, path) .. Leads(l, path) + Span(l, path) - 1: Data(n) = Hole THEN Hole ELSE <<l, path>>
(* what a fragment that was not read holds *)
Stray == -1
Byte(n, off) == n * Bsize + off + 1

-----------------------------------------------------------------------------
(* ufs_bmap                                                                *)

(* mutant: the blocks of a level before are not taken off *)
PastNot(n, per) == n
(* past a level: its blocks taken off *)
Past(n, per) == n - per * Nindir

(* after l levels: n counts from the level's first block; at is the level it is in *)
LevelOf(n) ==
  LET s[l \in 0 .. NIADDR] ==
        IF l = 0 THEN [n |-> n - NDADDR, per |-> 1, at |-> -1]
        ELSE LET p == s[l - 1] IN
          IF p.at >= 0 THEN p
          ELSE IF p.n < p.per * Nindir THEN [p EXCEPT !.at = l - 1]
          ELSE [n |-> Past(p.n, p.per), per |-> p.per * Nindir, at |-> -1]
  IN s[NIADDR]

(* the walk down: the address after k tables; a table that cannot be read is a hole *)
Bmap(n) ==
  IF n < NDADDR THEN Data(n)
  ELSE LET s == LevelOf(n)
           w[k \in 0 .. NIADDR] ==
             IF k = 0 THEN [addr |-> IF s.at < 0 THEN Hole ELSE Table(s.at, <<>>), n |-> s.n, per |-> s.per, path |-> <<>>]
             ELSE LET p == w[k - 1]
                      path == Append(p.path, p.n \div p.per)
                  IN IF p.addr = Hole \/ k > s.at + 1 THEN p
                     ELSE IF p.addr \in bad THEN [p EXCEPT !.addr = Hole]
                     ELSE [addr |-> Table(s.at, path), n |-> p.n % p.per, per |-> p.per \div Nindir, path |-> path]
       IN w[NIADDR].addr

-----------------------------------------------------------------------------
(* ufs_readfile: the bytes of [pos, pos + len) until the end or a block that
   cannot be read                                                          *)

(* mutant: the last fragment, when not full, is not read *)
HaveFloor(blk) == LET h == Least(file.size - blk * Bsize, Bsize) IN h - (h % Fsize)
(* what is read of a block: the last may be fragments only *)
Have(blk) == LET h == Least(file.size - blk * Bsize, Bsize) IN h + Fsize - 1 - ((h + Fsize - 1) % Fsize)

Copy(blk, off, n) ==
  LET a == Bmap(blk) IN
    [i \in 1 .. n |-> IF a = Hole THEN 0 ELSE IF off + i > Have(blk) THEN Stray ELSE Byte(a[1], off + i - 1)]

Readfile(pos, len) ==
  LET all == IF pos >= file.size THEN 0 ELSE Least(len, file.size - pos)
      r[k \in 0 .. all] ==                    \* after k pieces
        IF k = 0 THEN [done |-> <<>>, stop |-> all = 0]
        ELSE LET p == r[k - 1]
                 at == pos + Len(p.done)
                 blk == at \div Bsize
                 off == at % Bsize
                 n == Least(Bsize - off, all - Len(p.done))
             IN IF p.stop THEN p
                ELSE IF Bmap(blk) \in bad THEN [p EXCEPT !.stop = TRUE]
                ELSE [done |-> p.done \o Copy(blk, off, n), stop |-> Len(p.done) + n = all]
  IN r[all].done

-----------------------------------------------------------------------------
(* ufs_open, ufs_read, ufs_lseek; ans is the last call's answer            *)

NoAns == [op |-> "none"]

(* Bound: no call of a file, a directory and a path comes between those of another.
   They share nothing but the disk, which does not change.                 *)
NoFile == ~f.open
NoDir == dirh.dir = 0

Open == NoFile /\ NoDir /\ f' = [open |-> TRUE, pos |-> 0] /\ ans' = NoAns /\ UNCHANGED <<disk, dirh>>

Read(len) ==
  /\ f.open
  /\ LET d == Readfile(f.pos, len) IN
       f' = [f EXCEPT !.pos = @ + Len(d)] /\ ans' = [op |-> "read", pos |-> f.pos, len |-> len, data |-> d]
  /\ UNCHANGED <<disk, dirh>>

Lseek(where) == f.open /\ where >= 0 /\ f' = [f EXCEPT !.pos = where] /\ ans' = NoAns /\ UNCHANGED <<disk, dirh>>

-----------------------------------------------------------------------------
(* Directories: the entries, in blocks of Frag. A block that cannot be read,
   or of no entries, ends each walk: its record lengths are 0              *)

Dir(d) == tree[d]
BlockOf(i) == (i - 1) \div Frag
(* the entries a walk gets to *)
Reached(d) == {i \in DOMAIN Dir(d): \A j \in 1 .. i: <<d, BlockOf(j)>> \notin bad}

(* mutant: an entry that was removed answers to its name *)
IsNamed(e, name) == e.name = name
(* ufs_dirlookup: the first entry of the name; 0 is none *)
Named(e, name) == e.ino # 0 /\ e.name = name
Dirlookup(d, name) ==
  LET at == {i \in Reached(d): Named(Dir(d)[i], name)}
  IN IF at = {} THEN 0 ELSE Dir(d)[CHOOSE i \in at: \A j \in at: i <= j].ino
(* ufs_dirname: the first entry of the inode *)
Dirname(d, ino) ==
  LET at == {i \in Reached(d): Dir(d)[i].ino = ino}
  IN IF at = {} THEN "" ELSE Dir(d)[CHOOSE i \in at: \A j \in at: i <= j].name

(* ufs_opendir, ufs_rewinddir, ufs_readdir: one entry at a call, those of no inode
   passed over; one too long for the caller's buffer is refused, the position past it *)
Opendir(d) ==
  /\ NoFile
  /\ dirh' = [dir |-> d, pos |-> 1, listed |-> {}, refused |-> {}, ended |-> FALSE] /\ ans' = NoAns /\ UNCHANGED <<disk, f>>

Readdir ==
  /\ dirh.dir # 0 /\ ~dirh.ended
  /\ LET next == {i \in Reached(dirh.dir): i >= dirh.pos /\ Dir(dirh.dir)[i].ino # 0}
     IN IF next = {} THEN dirh' = [dirh EXCEPT !.ended = TRUE]
        ELSE LET i == CHOOSE i \in next: \A j \in next: i <= j
                 told == {Dir(dirh.dir)[i].name}
             IN \/ dirh' = [dirh EXCEPT !.pos = i + 1, !.listed = @ \cup told]
                \/ dirh' = [dirh EXCEPT !.pos = i + 1, !.refused = @ \cup told]
  /\ ans' = NoAns /\ UNCHANGED <<disk, f>>

(* ufs_getname: up through ".." to the root given, a name at a time, while there is room *)
Getname(root, dir, room) ==
  LET up[k \in 0 .. PathMax + 1] ==
        IF k = 0 THEN [ino |-> dir, path |-> <<>>, err |-> FALSE]
        ELSE LET p == up[k - 1]
                 parent == Dirlookup(p.ino, "..")
                 name == IF parent = 0 THEN "" ELSE Dirname(parent, p.ino)
             IN IF p.err \/ p.ino = root THEN p
                ELSE IF parent = 0 \/ name = "" \/ Len(p.path) = room THEN [p EXCEPT !.err = TRUE]
                ELSE [ino |-> parent, path |-> <<name>> \o p.path, err |-> FALSE]
      r == up[PathMax + 1]
  IN [ok |-> ~r.err, path |-> r.path]

(* an inode that cannot be read, or no memory to search a directory *)
NoPath == [ok |-> FALSE, path |-> <<>>]
Path(root, dir, room) ==
  /\ NoFile /\ NoDir
  /\ \E r \in {Getname(root, dir, room), NoPath}: ans' = [op |-> "path", root |-> root, dir |-> dir, res |-> r]
  /\ UNCHANGED <<disk, f, dirh>>

-----------------------------------------------------------------------------
(* The disks: a file with a hole; or a tree, each directory with "." and
   "..", an entry that was removed, and what is in it, either way round    *)

Files == {[size |-> s, holes |-> h]: s \in 0 .. MaxSize, h \in {{}} \cup {{n}: n \in 0 .. MaxSize \div Bsize}}
File0 == [size |-> 0, holes |-> {}]
Entry(ino, name) == [ino |-> ino, name |-> name]
(* who is in whom: a directory is in the root or in one made before it *)
Parents == {p \in [Inos -> Inos \cup {Root}]: \A i \in Inos: p[i] < i}
Namings(p) == {n \in [Inos -> Names]: \A i, j \in Inos: i # j /\ p[i] = p[j] => n[i] # n[j]}
Own(d, p) == <<Entry(d, "."), Entry(IF d = Root THEN Root ELSE p[d], "..")>>
Orders(S) == {o \in [1 .. Cardinality(S) -> S]: \A i, j \in DOMAIN o: i # j => o[i] # o[j]}
Listing(d, p, n, o, gone) ==
  Own(d, p) \o gone \o [i \in DOMAIN o |-> Entry(o[i], n[o[i]])]
Tree0 == (Root :> Own(Root, <<>>))

TreesOf(p, n, gone) ==
  {[d \in Inos \cup {Root} |-> Listing(d, p, n, o[d], gone)]:
     o \in {g \in [Inos \cup {Root} -> UNION {Orders({i \in Inos: p[i] = d}): d \in Inos \cup {Root}}]:
              \A d \in Inos \cup {Root}: g[d] \in Orders({i \in Inos: p[i] = d})}}
Shapes == {t \in Parents \X [Inos -> Names] \X ({<<>>} \cup {<<Entry(0, x)>>: x \in Names}): t[2] \in Namings(t[1])}
Trees == UNION {TreesOf(t[1], t[2], t[3]): t \in Shapes}

Tables(fl) == {t \in (0 .. NIADDR - 1) \X ({<<>>} \cup {<<i>>: i \in 0 .. Nindir - 1}): Len(t[2]) <= t[1]}
Init ==
  /\ \/ /\ file \in Files /\ tree = Tree0
        /\ bad \in {{}} \cup {{<<n>>}: n \in 0 .. MaxSize \div Bsize} \cup {{t}: t \in Tables(file)}
     \/ file = File0 /\ tree \in Trees /\ bad \in {{}} \cup {{<<d, 1>>}: d \in Inos \cup {Root}}
  /\ f = [open |-> FALSE, pos |-> 0] /\ dirh = [dir |-> 0, pos |-> 1, listed |-> {}, refused |-> {}, ended |-> FALSE] /\ ans = NoAns

Next ==
  \/ Open \/ (\E len \in Lens: Read(len)) \/ (\E where \in 0 .. file.size + 1: Lseek(where))
  \/ (\E d \in DOMAIN tree: Opendir(d)) \/ Readdir
  \/ \E root, d \in DOMAIN tree, room \in 0 .. PathMax: Path(root, d, room)

Spec == Init /\ [][Next]_vars

TypeOK ==
  /\ file \in Files /\ DOMAIN tree \subseteq Inos \cup {Root} /\ f.open \in BOOLEAN /\ f.pos \in 0 .. MaxSize + 1
  /\ dirh.dir \in {0} \cup DOMAIN tree /\ dirh.pos \in Nat /\ ans.op \in {"none", "read", "path"}

-----------------------------------------------------------------------------
(* Whatever its size, its holes and where a read starts and ends, a read gives
   the file's bytes, all of them up to the end of the file, with zeros for
   the holes, unless a block cannot be read; and then it gives those before.
   (ufs_bmap, ufs_readfile)                                                *)
ByteAt(u) == IF u \div Bsize \in file.holes THEN 0 ELSE u + 1
IsData == \A b \in bad: Len(b) = 1
ReadIs ==
  ans.op = "read" /\ IsData =>
    /\ \A i \in DOMAIN ans.data: ans.data[i] = ByteAt(ans.pos + i - 1)
    /\ Len(ans.data) < ans.len => \/ ans.pos + Len(ans.data) >= file.size
                                  \/ <<(ans.pos + Len(ans.data)) \div Bsize>> \in bad

(* A listing that has come to its end has told every name the directory is
   searched for, and no other, but for the names it refused as too long for the
   buffer of the call: those it does not come back to. (ufs_readdir,
   ufs_dirlookup)                                                          *)
ListsAll ==
  dirh.ended => /\ \A x \in dirh.listed \cup dirh.refused: Dirlookup(dirh.dir, x) # 0
                /\ \A x \in (Names \cup {".", ".."}) \ dirh.refused: Dirlookup(dirh.dir, x) # 0 => x \in dirh.listed
(* Not so: a name refused is told to a caller that asks again with a longer buffer. *)
ToldLater == dirh.ended => \A x \in Names: Dirlookup(dirh.dir, x) # 0 => x \in dirh.listed

(* The path that getname gives leads from the root it was given back to the
   directory. (ufs_getname, ufs_dirname, ufs_dirlookup)                    *)
Walk(from, path) ==
  LET w[k \in 0 .. Len(path)] == IF k = 0 THEN from ELSE IF w[k - 1] = 0 THEN 0 ELSE Dirlookup(w[k - 1], path[k])
  IN w[Len(path)]
PathBack == ans.op = "path" /\ ans.res.ok => Walk(ans.root, ans.res.path) = ans.dir

(* Not so: a read gives what is on the disk or less. An indirect block that
   cannot be read makes its blocks holes: the file reads as zeros.         *)
NeverInvents == ans.op = "read" => \A i \in DOMAIN ans.data: ans.data[i] = ByteAt(ans.pos + i - 1)

(* Not so: an end of file is the file's end. A block that cannot be read ends
   the file too, and a directory.                                          *)
EndsAtEnd == ans.op = "read" /\ ans.data = <<>> => ans.pos >= file.size
=============================================================================
