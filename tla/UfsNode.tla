------------------------------ MODULE UfsNode ------------------------------
(***************************************************************************)
(* Inodes, lookup and symbolic links of the UFS driver (mint/ufsxfs/ufs.c):*)
(* where an inode lies on a slice, and where a path leads that the MiNT    *)
(* kernel walks name by name, an absolute link put on the root slice's     *)
(* drive. ".." at the root of a slice is left to the kernel (EMOUNT), and  *)
(* the walk that is modelled ends there.                                   *)
(*                                                                         *)
(* An inode is read whole; its number stands for what is in it (Tree). The *)
(* low bits of a group's number (cg & ~cgmask) are a remainder. Times,     *)
(* sizes, owners and the calls that answer EROFS or constants are left out.*)
(*                                                                         *)
(* External: the slices as mkfs and System V leave them, the kernel's walk.*)
(***************************************************************************)
EXTENDS Naturals, Sequences, FiniteSets

CONSTANTS
  Slices,    \* mounted slices; "root" is the root slice, if it is there
  Geo,       \* [Slices -> [ipg, inopb, frag, fpg, cgoffset, spread, iblkno, ncg]]
  Tree,      \* [Slices -> [inode -> [dir: name -> inode, or link: a path]]]
  RootIno,   \* UFS_ROOTINO
  Mounts,    \* where System V mounts slices: <<inode of the root slice, slice>>
  Paths,     \* the paths asked for
  Room,      \* room for a link's target, in names
  MaxLinks   \* bound: links followed

VARIABLES
  at,          \* the cookie reached
  rest,        \* names still to look up
  from, path,  \* where the walk began, and what for
  links, res,
  trouble      \* the walk met a block it could not read, or found no memory
vars == <<at, rest, from, path, links, res, trouble>>

(* Absolute paths start with "/" *)
IsAbs(p) == p # <<>> /\ p[1] = "/"
Names(p) == IF IsAbs(p) THEN Tail(p) ELSE p
Node(d, i) == Tree[d][i]
Nodes(d) == DOMAIN Tree[d]
None == [dev |-> "none", ino |-> 0]

TypeOK ==
  /\ at.dev \in Slices \cup {"none"} /\ res \in {"idle", "walk", "found", "enoent", "enotdir", "erange", "eloop", "eread", "emount"}
  /\ trouble \in BOOLEAN
  /\ links \in 0 .. MaxLinks /\ (res = "found" => at.ino \in Nodes(at.dev))

Init == at = None /\ rest = <<>> /\ from = None /\ path = <<>> /\ links = 0 /\ res = "idle" /\ trouble = FALSE

-----------------------------------------------------------------------------
(* ufs_iget                                                                *)

(* mkfs: a group's inodes in a row, from its inode blocks on *)
Start(g, cg) == g.fpg * cg + g.cgoffset * (cg % g.spread) + g.iblkno
OnDisk(g) == [i \in 0 .. g.ipg * g.ncg - 1 |-> <<Start(g, i \div g.ipg) + ((i % g.ipg) \div g.inopb) * g.frag, (i % g.ipg) % g.inopb>>]
(* mutant: the group's blocks counted from the first inode *)
WhereAll(g, i) == <<Start(g, i \div g.ipg) + (i \div g.inopb) * g.frag, i % g.inopb>>
Where(g, i) == <<Start(g, i \div g.ipg) + ((i % g.ipg) \div g.inopb) * g.frag, i % g.inopb>>
InoAt(d, w) == LET g == Geo[d] I == {i \in DOMAIN OnDisk(g): OnDisk(g)[i] = w} IN IF I = {} THEN 0 ELSE CHOOSE i \in I: TRUE
(* the root inode was read once, at the mount *)
Got(d, i) == IF i = RootIno THEN RootIno
             ELSE IF i < RootIno \/ i >= Geo[d].ipg * Geo[d].ncg THEN 0 ELSE InoAt(d, Where(Geo[d], i))

-----------------------------------------------------------------------------
(* ufs_root, and the kernel begins a path *)
Ask(d, p) ==
  /\ res \notin {"walk"} /\ path' = p /\ from' = [dev |-> d, ino |-> RootIno] /\ at' = from'
  /\ rest' = p /\ links' = 0 /\ res' = "walk" /\ trouble' = FALSE

Fails(e) == res' = e /\ UNCHANGED <<at, rest, from, path, links, trouble>>

(* ufs_readlink: an absolute target gets the root slice's drive before it *)
(* mutant: it stays on its own drive *)
DriveOwn(d) == d
Drive(d) == IF "root" \in Slices THEN "root" ELSE d
Long(t) == Len(t) + (IF IsAbs(t) /\ "root" \in Slices THEN 1 ELSE 0) > Room
Follow(d, i) ==
  LET t == Node(d, i).link IN
    IF Long(t) THEN Fails("erange")
    ELSE IF links = MaxLinks THEN Fails("eloop")
    ELSE /\ links' = links + 1 /\ rest' = Names(t) \o Tail(rest)
         /\ at' = IF IsAbs(t) THEN [dev |-> Drive(d), ino |-> RootIno] ELSE at
         /\ UNCHANGED <<from, path, res, trouble>>

(* ufs_lookup, ufs_getxattr *)
Lookup ==
  /\ res = "walk" /\ rest # <<>>
  /\ LET n == Head(rest) i == Got(at.dev, at.ino) IN
       IF n = "." THEN rest' = Tail(rest) /\ UNCHANGED <<at, from, path, links, res, trouble>>
       ELSE IF n = ".." /\ at.ino = RootIno THEN Fails("emount")
       ELSE IF i = 0 \/ i \notin Nodes(at.dev) THEN Fails("eread")
       ELSE IF Node(at.dev, i).kind # "dir" THEN Fails("enotdir")
       ELSE IF n \notin DOMAIN Node(at.dev, i).dir THEN Fails("enoent")
       ELSE LET c == Got(at.dev, Node(at.dev, i).dir[n]) IN
         IF c = 0 \/ c \notin Nodes(at.dev) THEN Fails("eread")
         ELSE IF Node(at.dev, c).kind = "link" THEN Follow(at.dev, c)
         ELSE /\ at' = [at EXCEPT !.ino = Node(at.dev, i).dir[n]] /\ rest' = Tail(rest)
              /\ UNCHANGED <<from, path, links, res, trouble>>
(* an inode or a link's target that cannot be read is EREAD (the root inode is kept);
   a directory's block, or no memory to search it, a name that is not there *)
LookupFails ==
  /\ res = "walk" /\ rest # <<>> /\ Head(rest) # "." /\ ~(Head(rest) = ".." /\ at.ino = RootIno)
  /\ \/ at.ino # RootIno /\ res' = "eread"
     \/ Node(at.dev, at.ino).kind = "dir" /\ res' = "enoent"
     \/ Node(at.dev, at.ino).kind = "dir" /\ Head(rest) \in DOMAIN Node(at.dev, at.ino).dir /\ res' = "eread"
  /\ trouble' = TRUE /\ UNCHANGED <<at, rest, from, path, links>>
Found == res = "walk" /\ rest = <<>> /\ res' = "found" /\ UNCHANGED <<at, rest, from, path, links, trouble>>

Next == (\E d \in Slices, p \in Paths: Ask(d, p)) \/ Lookup \/ LookupFails \/ Found
Spec == Init /\ [][Next]_vars

-----------------------------------------------------------------------------
(* System V's walk: from the slice's place in the one tree, mounts crossed *)
Enter(c) == IF c.dev = "root" /\ \E m \in Mounts: m[1] = c.ino
            THEN [dev |-> (CHOOSE m \in Mounts: m[1] = c.ino)[2], ino |-> RootIno] ELSE c
(* the directory a slice's root covers *)
Covered(c) == IF c.ino = RootIno /\ \E m \in Mounts: m[2] = c.dev
              THEN [dev |-> "root", ino |-> (CHOOSE m \in Mounts: m[2] = c.dev)[1]] ELSE c
SysV(d, p) ==
  LET w[n \in 0 .. 12] ==
        IF n = 0 THEN [at |-> [dev |-> d, ino |-> RootIno], rest |-> p, ok |-> TRUE]
        ELSE LET s == w[n - 1] IN
          IF ~s.ok \/ s.rest = <<>> THEN s
          ELSE LET c0 == IF Head(s.rest) = ".." THEN Covered(s.at) ELSE s.at
                   x == Node(c0.dev, c0.ino) IN
            IF Head(s.rest) = "." THEN [s EXCEPT !.rest = Tail(@)]
            ELSE IF x.kind # "dir" \/ Head(s.rest) \notin DOMAIN x.dir THEN [s EXCEPT !.ok = FALSE]
            ELSE LET c == x.dir[Head(s.rest)] IN
              IF Node(s.at.dev, c).kind = "link"
              THEN [s EXCEPT !.rest = Names(Node(s.at.dev, c).link) \o Tail(@),
                             !.at = IF IsAbs(Node(s.at.dev, c).link) THEN Enter([dev |-> "root", ino |-> RootIno]) ELSE @]
              ELSE [s EXCEPT !.rest = Tail(@), !.at = Enter([dev |-> c0.dev, ino |-> c])]
  IN w[12]

(* A path found leads where System V would have it, through links within a slice and
   from one slice to the root slice; one not found leads nowhere there either,
   unless the disk or the memory failed on the way. The paths cross no mount: see
   README. (ufs_lookup, ufs_readlink)                                      *)
AsSysV ==
  /\ res = "found" => SysV(from.dev, path).ok /\ SysV(from.dev, path).at = at
  /\ res \in {"enoent", "enotdir", "eread"} /\ ~trouble => ~SysV(from.dev, path).ok
(* Not so: "no such file" is said of names that are not there alone. A directory
   that cannot be read, or searched for want of memory, has none.          *)
NotThere == res = "enoent" => ~SysV(from.dev, path).ok
=============================================================================
