------------------------------ MODULE UfsMount ------------------------------
(***************************************************************************)
(* ufs.xfs as it starts (mint/ufsxfs/ufs.c: init_xfs, ufs_scan_device,     *)
(* ufs_mount_slice): each device's slices, one after the other, and each   *)
(* UFS slice a drive. A slice is tried in two steps, the buffer cache's    *)
(* descriptor (DI) taken in the first; either may fail. failed are the     *)
(* slices that could not be read, or found no memory or descriptor.        *)
(***************************************************************************)
EXTENDS Integers, Sequences, FiniteSets

CONSTANTS
  Slices,      \* how many slices there are, on all devices
  Drives,      \* NUM_DRIVES
  FirstDrive,  \* UFS_FIRST_DRIVE
  Reserved,    \* the letter that is not given (20, U:)
  MaxDrives,   \* UFS_MAX_DRIVES
  RootTag      \* the tag of a root slice (2)

UfsMountAssumption == Slices \in Nat /\ Drives \in Nat /\ FirstDrive \in 0 .. Drives

VARIABLES disks, at, bits, ufs, di, pending, nextDrive, rootDrv, failed
vars == <<disks, at, bits, ufs, di, pending, nextDrive, rootDrv, failed>>

None == -1
Kinds == [use: BOOLEAN, sb: BOOLEAN, dir: BOOLEAN, tag: {RootTag, RootTag + 3}]

TypeOK ==
  /\ disks \in [1 .. Slices -> Kinds] /\ at \in 1 .. Slices + 1 /\ bits \subseteq 0 .. Drives - 1
  /\ ufs \in [0 .. Drives - 1 -> 0 .. Slices] /\ di \subseteq 0 .. Drives - 1 /\ pending \in None .. Drives - 1
  /\ nextDrive \in FirstDrive .. Drives /\ rootDrv \in None .. Drives - 1
  /\ failed \subseteq 1 .. Slices

(* the letters the BIOS has, and what is on the disks *)
Init ==
  /\ disks \in [1 .. Slices -> Kinds] /\ bits \in SUBSET (0 .. Drives - 1)
  /\ at = 1 /\ ufs = [d \in 0 .. Drives - 1 |-> 0] /\ di = {} /\ pending = None /\ nextDrive = FirstDrive /\ rootDrv = None
  /\ failed = {}

Mounted == {d \in 0 .. Drives - 1: ufs[d] # 0}

(* mutant: the letters the BIOS has are taken too *)
FreeAny == {d \in nextDrive .. Drives - 1: d # Reserved /\ ufs[d] = 0}
(* ufs_free_drive: of these the first *)
Free == {d \in nextDrive .. Drives - 1: d # Reserved /\ d \notin bits /\ ufs[d] = 0}

Full == Free = {} \/ Cardinality(Mounted) >= MaxDrives

Skip == at' = at + 1 /\ pending' = None
Failed == failed' = failed \cup {at}

(* a slice that is not to be used, or no UFS, or no drive is left; or reading it failed, or memory *)
PassOver ==
  /\ at <= Slices /\ pending = None /\ Skip
  /\ \/ (~disks[at].use \/ ~disks[at].sb \/ Full) /\ UNCHANGED failed
     \/ disks[at].use /\ Failed
  /\ UNCHANGED <<disks, bits, ufs, di, nextDrive, rootDrv>>

(* a superblock and a drive: the descriptor *)
Begin ==
  /\ at <= Slices /\ pending = None /\ disks[at].use /\ disks[at].sb
  /\ ~Full
  /\ pending' = (CHOOSE d \in Free: \A e \in Free: d <= e) /\ di' = di \cup {pending'}
  /\ UNCHANGED <<disks, at, bits, ufs, nextDrive, rootDrv, failed>>

(* mutant: the descriptor is forgotten *)
GivenBackNot == di
GivenBack == di \ {pending}
(* the root inode is no directory, or cannot be read *)
Fail ==
  /\ pending # None /\ di' = GivenBack /\ Skip
  /\ (~disks[at].dir /\ UNCHANGED failed) \/ Failed
  /\ UNCHANGED <<disks, bits, ufs, nextDrive, rootDrv>>

After(d) == d + 1
Mount ==
  /\ pending # None /\ disks[at].dir
  /\ ufs' = [ufs EXCEPT ![pending] = at] /\ bits' = bits \cup {pending} /\ nextDrive' = After(pending)
  /\ rootDrv' = IF disks[at].tag = RootTag /\ rootDrv = None THEN pending ELSE rootDrv
  /\ Skip /\ UNCHANGED <<disks, di, failed>>

Next == PassOver \/ Begin \/ Fail \/ Mount
Spec == Init /\ [][Next]_vars

-----------------------------------------------------------------------------
(* Drives in the order of their slices, on slices that are UFS ones; each such slice
   gone by has a drive, unless something failed for it or no drive is left; the
   descriptors held are those of the drives and of the one under way.
   (ufs_mount_slice)                                                       *)
Good(i) == disks[i].use /\ disks[i].sb /\ disks[i].dir
DrivesSound ==
  /\ \A d, e \in Mounted: d < e => ufs[d] < ufs[e]
  /\ \A d \in Mounted: Good(ufs[d]) /\ d >= FirstDrive /\ d # Reserved
  /\ \A i \in 1 .. at - 1: Good(i) /\ i \notin failed => Full \/ \E d \in Mounted: ufs[d] = i
  /\ di = Mounted \cup (IF pending = None THEN {} ELSE {pending})

(* No drive letter of the BIOS is taken over. (ufs_free_drive)             *)
LettersKept == \A d \in bits: ufs'[d] = ufs[d]
NotStolen == [][LettersKept]_vars
=============================================================================
